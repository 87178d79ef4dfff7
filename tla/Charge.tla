------------------------------- MODULE Charge -------------------------------
(***************************************************************************)
(* A developer platform's charges: made by the platform's API or by the    *)
(* console's sandbox, paid through a vault of their own, completed by the  *)
(* in-process watcher or by one of the two recheck endpoints, expired by   *)
(* the clock, and told to the platform by a webhook.  Every await between  *)
(* two statements is a step boundary: HTTP requests, the watcher's payment *)
(* tasks and the deliveries run as tasks of one event loop.                *)
(*                                                                         *)
(* A Charge is an external reference of one platform; a Vault is what a    *)
(* link generated for it at the rates and the amount of the moment asks    *)
(* for.  A charge's age is 0 within the half hour of expires_at, 1 past    *)
(* it, 2 when the maintenance job's five minutes have passed as well.      *)
(*                                                                         *)
(* The database is PostgreSQL.  On SQLite no charge is ever made: both     *)
(* INSERTs compute expires_at with an INTERVAL, which raises there.        *)
(***************************************************************************)
EXTENDS Naturals, FiniteSets

CONSTANTS
    Charge, Vault, Tx,
    Request, Rechecker,   \* HTTP requests served at a time: creations, rechecks
    NoVault, NoTx, NoCharge,
    Owner,        \* [Vault -> Charge]
    Required,     \* [Vault -> amount], the link's required_nano
    Amount,       \* [Tx -> SUBSET amounts], what a buyer may send
    Mode,         \* [Charge -> {"test", "live"}], by the key it was made with
    Outside,      \* operations of the console an instance has
    MAX_ATTEMPTS, \* posts of one webhook, 3 in the code
    MaxFaults     \* bound on crashes and failed link generations

ASSUME ChargeAssumption ==
    /\ NoVault \notin Vault /\ NoTx \notin Tx /\ NoCharge \notin Charge
    /\ Tx \cap Rechecker = {} /\ MAX_ATTEMPTS \in Nat \ {0}
    /\ Owner \in [Vault -> Charge] /\ Required \in [Vault -> Nat \ {0}]
    /\ Amount \in [Tx -> SUBSET (Nat \ {0})] /\ Mode \in [Charge -> {"test", "live"}]
    /\ Outside \subseteq {"sandbox", "delete"} /\ MaxFaults \in Nat

VARIABLES
    charge,     \* platform_charges: status, vault_address, tx_hash
    age,        \* where the clock stands against expires_at
    processed,  \* processed_tx_hashes: none, partial or full
    request,    \* HTTP requests making a charge
    lapsing,    \* get_charge requests that read a pending, overdue row
    running,    \* the process runs
    watch,      \* _active_vaults: network; in time, overdue or paid
    seen,       \* the watcher's seen-sets
    job,        \* the watcher's task of each transaction, and the rechecks
    hook,       \* webhook task of a completion: stage, attempt, status it tells
    linked,     \* vaults whose link a buyer may have
    chain,      \* transactions on the vaults
    faults,     \* faults so far
    completed   \* history: completions a transaction has brought

database == <<charge, processed>>
watcher  == <<watch, seen>>
ledger   == <<linked, chain>>
history  == <<faults, completed>>
vars     == <<database, age, request, lapsing, running, watcher, job, hook, ledger, history>>

-----------------------------------------------------------------------------
Job == Tx \cup Rechecker

NetOf(c) == IF Mode[c] = "test" THEN "testnet" ELSE "mainnet"
NotWatched == [net |-> "none", is |-> "timely"]
Unpaid == [vault |-> NoVault, value |-> 0]
Paid(t) == chain[t].value > 0
VaultOf(t) == chain[t].vault
OnVault(v) == {t \in Tx : VaultOf(t) = v}
Covers(t) == chain[t].value >= Required[VaultOf(t)]

NoRow == [status |-> "none", vault |-> NoVault, tx |-> NoTx]
Open(c) == charge[c].status \in {"pending", "expired"} /\ charge[c].tx = NoTx
Exists(c) == charge[c].status \notin {"none", "deleted"}

Waiting == [pc |-> "idle", charge |-> NoCharge, vault |-> NoVault]
Idle == [pc |-> "idle", by |-> "watcher", tx |-> NoTx, charge |-> NoCharge]
NoHook == [pc |-> "none", attempt |-> 0, says |-> "none"]
Over == [NoHook EXCEPT !.pc = "over"]   \* acknowledged, given up, or lost

at(j, pc) == job[j].pc = pc
Goto(j, pc) == job' = [job EXCEPT ![j].pc = pc]
Done(j) == job' = [job EXCEPT ![j] = Idle]

-----------------------------------------------------------------------------
(* Making a charge.                                                        *)

\* Wakes the watcher.  A vault it has already keeps its network.
wake_watcher_for_vault(v, net) ==
    watch' = [watch EXCEPT ![v] = IF @ = NotWatched
                                  THEN [NotWatched EXCEPT !.net = net]
                                  ELSE [@ EXCEPT !.is = IF @ = "paid" THEN @ ELSE "timely"]]

\* The check for a duplicate reference, before the INSERT.
create_charge(r, c) ==
    /\ running /\ request[r] = Waiting
    /\ charge[c].status = "none"
    /\ request' = [request EXCEPT ![r] = [Waiting EXCEPT !.pc = "insert", !.charge = c]]
    /\ UNCHANGED <<database, age, lapsing, running, watcher, job, hook, ledger, history>>

\* The INSERT: the unique reference refuses the second of two requests.
insert_charge(r) ==
    LET c == request[r].charge IN
    /\ request[r].pc = "insert"
    /\ IF charge[c].status = "none"
       THEN /\ charge' = [charge EXCEPT ![c].status = "pending"]
            /\ request' = [request EXCEPT ![r].pc = "generate"]
       ELSE charge' = charge /\ request' = [request EXCEPT ![r] = Waiting]
    /\ UNCHANGED <<processed, age, lapsing, running, watcher, job, hook, ledger, history>>

\* The sandbox's upsert takes whatever row has the reference.
api_sandbox_create_charge(r, c) ==
    /\ running /\ "sandbox" \in Outside /\ request[r] = Waiting
    /\ charge[c].status # "deleted"
    /\ charge' = IF charge[c].status = "none"
                 THEN [charge EXCEPT ![c].status = "pending"] ELSE charge
    /\ request' = [request EXCEPT ![r] = [Waiting EXCEPT !.pc = "generate", !.charge = c]]
    /\ UNCHANGED <<processed, age, lapsing, running, watcher, job, hook, ledger, history>>

\* The link.  No caller gives the function a "mode": the watcher is woken for
\* mainnet, before the row knows its vault.
generate_platform_payment_request(r, v) ==
    /\ request[r].pc = "generate" /\ Owner[v] = request[r].charge
    /\ request' = [request EXCEPT ![r].pc = "store", ![r].vault = v]
    /\ wake_watcher_for_vault(v, "mainnet")
    /\ UNCHANGED <<database, age, lapsing, running, seen, job, hook, ledger, history>>

\* It fails: the row stays, pending and without a vault.
generate_fails(r) ==
    /\ request[r].pc = "generate" /\ faults < MaxFaults
    /\ faults' = faults + 1
    /\ request' = [request EXCEPT ![r] = Waiting]
    /\ UNCHANGED <<database, age, lapsing, running, watcher, job, hook, ledger, completed>>

\* The row takes vault, amount and link, whatever happened to it since; the
\* answer shows the link.
store_link(r) ==
    LET c == request[r].charge
        v == request[r].vault IN
    /\ request[r].pc = "store"
    /\ charge' = IF Exists(c) THEN [charge EXCEPT ![c].vault = v] ELSE charge
    /\ linked' = linked \cup {v}
    /\ request' = [request EXCEPT ![r] = Waiting]
    /\ UNCHANGED <<processed, age, lapsing, running, watcher, job, hook, chain, history>>

\* The checkout page wakes the watcher for a pending charge.
api_public_checkout(c) ==
    LET v == charge[c].vault IN
    /\ running /\ charge[c].status = "pending" /\ v # NoVault
    /\ wake_watcher_for_vault(v, NetOf(c))
    /\ UNCHANGED <<database, age, request, lapsing, running, seen, job, hook, ledger, history>>

Pay(t, v, a) ==
    /\ v \in linked /\ ~Paid(t)
    /\ chain' = [chain EXCEPT ![t] = [vault |-> v, value |-> a]]
    /\ UNCHANGED <<database, age, request, lapsing, running, watcher, job, hook, linked, history>>

-----------------------------------------------------------------------------
(* Time.                                                                   *)

Tick ==
    /\ age' = [c \in Charge |-> IF Exists(c) /\ age[c] < 2 THEN age[c] + 1 ELSE age[c]]
    /\ watch' = [v \in Vault |-> IF watch[v].net # "none" /\ watch[v].is = "timely"
                                 THEN [watch[v] EXCEPT !.is = "overdue"] ELSE watch[v]]
    /\ UNCHANGED <<database, request, lapsing, running, seen, job, hook, ledger, history>>

\* Mutant of Expirable: rows without a vault are left to their creator.
Expirable_with_vault(c) ==
    charge[c].status = "pending" /\ age[c] = 2 /\ charge[c].vault # NoVault
\* Mutant of Expirable: the condition on the status is dropped.
Expirable_any(c) == Exists(c) /\ age[c] = 2

Expirable(c) ==
    charge[c].status = "pending" /\ age[c] = 2 /\ charge[c].tx = NoTx

\* The maintenance job: one conditional UPDATE.
_expire_stale_charges_inprocess ==
    /\ running /\ \E c \in Charge : Expirable(c)
    /\ charge' = [c \in Charge |->
                    IF Expirable(c) THEN [charge[c] EXCEPT !.status = "expired"] ELSE charge[c]]
    /\ UNCHANGED <<processed, age, request, lapsing, running, watcher, job, hook, ledger, history>>

\* The platform asks: a pending row past expires_at ...
get_charge(c) ==
    /\ running /\ charge[c].status = "pending" /\ age[c] > 0
    /\ lapsing' = lapsing \cup {c}
    /\ UNCHANGED <<database, age, request, running, watcher, job, hook, ledger, history>>

\* ... is marked expired by its id, whatever it has become.
mark_expired(c) ==
    /\ c \in lapsing
    /\ charge' = IF Exists(c) THEN [charge EXCEPT ![c].status = "expired"] ELSE charge
    /\ lapsing' = lapsing \ {c}
    /\ UNCHANGED <<processed, age, request, running, watcher, job, hook, ledger, history>>

\* The owner deletes the platform, its charges and endpoints with it.
delete_platform ==
    /\ running /\ "delete" \in Outside
    /\ \E c \in Charge : Exists(c)
    /\ charge' = [c \in Charge |-> [NoRow EXCEPT !.status = "deleted"]]
    /\ UNCHANGED <<processed, age, request, lapsing, running, watcher, job, hook, ledger, history>>

-----------------------------------------------------------------------------
(* Who looks for payments.                                                 *)

Start(j, by, t) ==
    /\ job[j] = Idle
    /\ job' = [job EXCEPT ![j] = [Idle EXCEPT !.pc = "precheck", !.by = by, !.tx = t]]

\* A round of the watcher finds a transaction it has not seen.
poll_vaults_inprocess(t) ==
    LET v == VaultOf(t) IN
    /\ running /\ Paid(t)
    /\ watch[v].net = NetOf(Owner[v])
    /\ t \notin seen
    /\ seen' = seen \cup {t}
    /\ Start(t, "watcher", t)
    /\ UNCHANGED <<database, age, request, lapsing, running, watch, hook, ledger, history>>

\* At the head of a round a vault is dropped after its deadline, or five minutes
\* after its payment.
evict(v) ==
    /\ running /\ watch[v].is # "timely"
    /\ watch' = [watch EXCEPT ![v] = NotWatched]
    /\ seen' = seen \ OnVault(v)
    /\ UNCHANGED <<database, age, request, lapsing, running, job, hook, ledger, history>>

Recheckable(t) ==
    LET v == VaultOf(t) IN
    Paid(t) /\ charge[Owner[v]].vault = v /\ charge[Owner[v]].status # "completed"

\* "I've paid" on the checkout page: wakes the watcher, then goes through the
\* vault's transactions itself.
api_public_checkout_recheck(j, t) ==
    /\ running /\ Recheckable(t)
    /\ wake_watcher_for_vault(VaultOf(t), NetOf(Owner[VaultOf(t)]))
    /\ Start(j, "buyer", t)
    /\ UNCHANGED <<database, age, request, lapsing, running, seen, hook, ledger, history>>

\* The owner's recheck in the console asks the bot's own network, mainnet.
api_developer_charge_recheck(j, t) ==
    /\ running /\ Recheckable(t) /\ NetOf(Owner[VaultOf(t)]) = "mainnet"
    /\ Start(j, "owner", t)
    /\ UNCHANGED <<database, age, request, lapsing, running, watcher, hook, ledger, history>>

-----------------------------------------------------------------------------
(* Completing a charge.  Each recheck endpoint has a copy of the watcher's  *)
(* code, with the same statements in the same order: is it processed, the  *)
(* row of the vault and the amount, the claim, the UPDATE, the webhook.    *)
(* Where a copy differs, `by` tells; a request that goes on to the next of *)
(* the vault's transactions counts as a new one.                           *)

is_tx_processed(t) == processed[t] = "full"

precheck(j) ==
    /\ at(j, "precheck")
    /\ IF is_tx_processed(job[j].tx) THEN Done(j) ELSE Goto(j, "load")
    /\ UNCHANGED <<database, age, request, lapsing, running, watcher, hook, ledger, history>>

\* Mutant of get_platform_charge_by_vault: an expired charge cannot be paid.
get_platform_charge_by_vault_pending(v) ==
    {c \in Charge : charge[c].vault = v /\ charge[c].status = "pending"}

\* An unpaid row of this vault: one that has expired may still be paid.
get_platform_charge_by_vault(v) == {c \in Charge : charge[c].vault = v /\ Open(c)}

\* Mutant of load: the amount is not compared.
load_any_amount(j) ==
    LET found == get_platform_charge_by_vault(VaultOf(job[j].tx)) IN
    /\ at(j, "load")
    /\ IF found = {} THEN Done(j)
       ELSE \E c \in found : job' = [job EXCEPT ![j].pc = "claim", ![j].charge = c]
    /\ UNCHANGED <<database, age, request, lapsing, running, watcher, hook, ledger, history>>

\* The row of the vault, and the amount against it.  The rechecks pass over a
\* short payment without a record.
load(j) ==
    LET t == job[j].tx
        found == get_platform_charge_by_vault(VaultOf(t)) IN
    /\ at(j, "load")
    /\ IF found = {} \/ (~Covers(t) /\ job[j].by # "watcher")
       THEN Done(j)
       ELSE \E c \in found :
              job' = [job EXCEPT ![j].pc = IF Covers(t) THEN "claim" ELSE "partial",
                                 ![j].charge = c]
    /\ UNCHANGED <<database, age, request, lapsing, running, watcher, hook, ledger, history>>

mark_tx_processed(t, kind) ==
    processed' = [processed EXCEPT ![t] = IF @ = "none" THEN kind ELSE @]

\* Mutant of partial: a short payment is recorded like any other.
partial_as_full(j) ==
    /\ at(j, "partial")
    /\ mark_tx_processed(job[j].tx, "full")
    /\ Done(j)
    /\ UNCHANGED <<charge, age, request, lapsing, running, watcher, hook, ledger, history>>

partial(j) ==
    /\ at(j, "partial")
    /\ mark_tx_processed(job[j].tx, "partial")
    /\ Done(j)
    /\ UNCHANGED <<charge, age, request, lapsing, running, watcher, hook, ledger, history>>

\* Mutant of claim: the result of the insertion is not looked at.
claim_unchecked(j) ==
    /\ at(j, "claim")
    /\ mark_tx_processed(job[j].tx, "full")
    /\ Goto(j, "complete")
    /\ UNCHANGED <<charge, age, request, lapsing, running, watcher, hook, ledger, history>>

claim(j) ==
    /\ at(j, "claim")
    /\ mark_tx_processed(job[j].tx, "full")
    /\ IF processed[job[j].tx] = "none" THEN Goto(j, "complete") ELSE Done(j)
    /\ UNCHANGED <<charge, age, request, lapsing, running, watcher, hook, ledger, history>>

mark_vault_confirmed(v) ==
    watch' = IF watch[v] = NotWatched THEN watch ELSE [watch EXCEPT ![v].is = "paid"]

\* UPDATE ... WHERE id, then a task for the webhook; only the console's recheck
\* does not tell the watcher that it is done.
complete(j) ==
    LET t == job[j].tx
        c == job[j].charge IN
    /\ at(j, "complete")
    /\ charge' = IF Exists(c)
                 THEN [charge EXCEPT ![c].status = "completed", ![c].tx = t] ELSE charge
    /\ IF job[j].by = "owner" THEN watch' = watch ELSE mark_vault_confirmed(VaultOf(t))
    /\ hook' = [hook EXCEPT ![t] = [NoHook EXCEPT !.pc = "dispatch"]]
    /\ completed' = [completed EXCEPT ![t] = @ + 1]
    /\ Done(j)
    /\ UNCHANGED <<processed, age, request, lapsing, running, seen, ledger, faults>>

-----------------------------------------------------------------------------
(* The webhook of a completion.                                            *)

\* What the delivery says is the row's status by then; a deleted row says nothing.
dispatch_webhook(t) ==
    LET c == Owner[VaultOf(t)] IN
    /\ hook[t].pc = "dispatch"
    /\ hook' = [hook EXCEPT ![t] = IF Exists(c)
                                   THEN [pc |-> "deliver", attempt |-> 0,
                                         says |-> charge[c].status]
                                   ELSE Over]
    /\ UNCHANGED <<database, age, request, lapsing, running, watcher, job, ledger, history>>

\* Mutant of retry: the attempts are not counted up to a last one.
retry_runs_on(t) == [hook[t] EXCEPT !.attempt = @ + 1]

\* Mutant of retry: the attempts start over.
retry_forever(t) == [hook[t] EXCEPT !.attempt = (@ + 1) % MAX_ATTEMPTS]

retry(t) == IF hook[t].attempt + 1 = MAX_ATTEMPTS THEN Over
            ELSE [hook[t] EXCEPT !.attempt = @ + 1]

\* One post: acknowledged; or refused, or timed out, received or not.
_deliver_once(t) ==
    /\ hook[t].pc = "deliver"
    /\ \E next \in {Over, retry(t)} : hook' = [hook EXCEPT ![t] = next]
    /\ UNCHANGED <<database, age, request, lapsing, running, watcher, job, ledger, history>>

-----------------------------------------------------------------------------
(* The process stops, and starts again.                                    *)

stop ==
    /\ running /\ faults < MaxFaults
    /\ faults' = faults + 1
    /\ running' = FALSE
    /\ request' = [r \in Request |-> Waiting] /\ lapsing' = {}
    /\ watch' = [v \in Vault |-> NotWatched] /\ seen' = {}
    /\ job' = [j \in Job |-> Idle]
    /\ hook' = [t \in Tx |-> IF hook[t].pc \in {"dispatch", "deliver"}
                             THEN Over ELSE hook[t]]
    /\ UNCHANGED <<database, age, ledger, completed>>

\* Pending, unpaid charges of the last half hour, on the network of their mode.
get_vaults_to_watch ==
    {charge[c].vault : c \in {d \in Charge : charge[d].status = "pending" /\ charge[d].tx = NoTx
                                             /\ age[d] = 0}} \ {NoVault}

start ==
    /\ ~running /\ running' = TRUE
    /\ watch' = [v \in Vault |-> IF v \in get_vaults_to_watch
                                 THEN [NotWatched EXCEPT !.net = NetOf(Owner[v])]
                                 ELSE NotWatched]
    /\ UNCHANGED <<database, age, request, lapsing, seen, job, hook, ledger, history>>

-----------------------------------------------------------------------------
Init ==
    /\ charge = [c \in Charge |-> NoRow] /\ age = [c \in Charge |-> 0]
    /\ processed = [t \in Tx |-> "none"]
    /\ request = [r \in Request |-> Waiting] /\ lapsing = {}
    /\ running = TRUE
    /\ watch = [v \in Vault |-> NotWatched] /\ seen = {}
    /\ job = [j \in Job |-> Idle] /\ hook = [t \in Tx |-> NoHook]
    /\ linked = {} /\ chain = [t \in Tx |-> Unpaid]
    /\ faults = 0 /\ completed = [t \in Tx |-> 0]

Requests(r) ==
    \/ insert_charge(r) \/ generate_fails(r) \/ store_link(r)
    \/ \E v \in Vault : generate_platform_payment_request(r, v)

JobStep(j) == precheck(j) \/ load(j) \/ partial(j) \/ claim(j) \/ complete(j)
Delivery(t) == dispatch_webhook(t) \/ _deliver_once(t)

Next ==
    \/ \E r \in Request : Requests(r)
    \/ \E r \in Request, c \in Charge : create_charge(r, c) \/ api_sandbox_create_charge(r, c)
    \/ \E c \in Charge : api_public_checkout(c) \/ get_charge(c) \/ mark_expired(c)
    \/ \E t \in Tx, v \in Vault : \E a \in Amount[t] : Pay(t, v, a)
    \/ \E t \in Tx : poll_vaults_inprocess(t) \/ Delivery(t)
    \/ \E j \in Rechecker, t \in Tx : \/ api_public_checkout_recheck(j, t)
                                      \/ api_developer_charge_recheck(j, t)
    \/ \E v \in Vault : evict(v)
    \/ \E j \in Job : JobStep(j)
    \/ Tick \/ _expire_stale_charges_inprocess \/ delete_platform \/ stop \/ start

Spec == Init /\ [][Next]_vars

\* Time passes, the watcher's loop and its jobs come round, tasks of the loop run on.
TxFairness(t) == WF_vars(poll_vaults_inprocess(t)) /\ WF_vars(Delivery(t))
JobFairness(j) == WF_vars(JobStep(j))
Fairness ==
    /\ WF_vars(Tick) /\ WF_vars(_expire_stale_charges_inprocess) /\ WF_vars(start)
    /\ (\A t \in Tx : TxFairness(t)) /\ (\A j \in Job : JobFairness(j))

FairSpec == Spec /\ Fairness

-----------------------------------------------------------------------------
(* Properties.                                                             *)

Statuses == {"none", "pending", "completed", "expired", "deleted"}
Rows == [status : Statuses, vault : Vault \cup {NoVault}, tx : Tx \cup {NoTx}]
Creations == [pc : {"idle", "insert", "generate", "store"},
              charge : Charge \cup {NoCharge}, vault : Vault \cup {NoVault}]
Watches == [net : {"none", "mainnet", "testnet"}, is : {"timely", "overdue", "paid"}]
Jobs == [pc : {"idle", "precheck", "load", "partial", "claim", "complete"},
         by : {"watcher", "buyer", "owner"}, tx : Tx \cup {NoTx},
         charge : Charge \cup {NoCharge}]
Hooks == [pc : {"none", "dispatch", "deliver", "over"},
          attempt : 0..MAX_ATTEMPTS, says : Statuses]
Transactions == [vault : Vault \cup {NoVault}, value : Nat]

\* Every variable keeps its shape; a row names only a vault of its own, and nothing
\* runs while the process is down.
TypeOK ==
    /\ charge \in [Charge -> Rows]
    /\ \A c \in Charge : charge[c].vault \in Vault => Owner[charge[c].vault] = c
    /\ age \in [Charge -> 0..2]
    /\ processed \in [Tx -> {"none", "partial", "full"}]
    /\ request \in [Request -> Creations]
    /\ lapsing \subseteq Charge /\ running \in BOOLEAN
    /\ watch \in [Vault -> Watches]
    /\ seen \subseteq Tx
    /\ job \in [Job -> Jobs]
    /\ hook \in [Tx -> Hooks]
    /\ linked \subseteq Vault
    /\ chain \in [Tx -> Transactions]
    /\ faults \in 0..MaxFaults
    /\ completed \in [Tx -> Nat]
    /\ running \/ \A j \in Job : job[j] = Idle

\* What a row calls its payment is one: on a vault of this charge, of at least what
\* that vault's link asked for, and claimed by nobody else.
PaidByItsTx ==
    \A c \in Charge :
        /\ charge[c].status = "completed" => charge[c].tx # NoTx
        /\ charge[c].tx # NoTx =>
             LET t == charge[c].tx IN
             Owner[VaultOf(t)] = c /\ Covers(t) /\ processed[t] = "full"

\* The watcher and the two rechecks may meet over one payment: it completes once.
CompletesOnce == \A t \in Tx : completed[t] <= 1

\* A payment that counts as processed has completed its charge, or is about to,
\* unless the process stopped in between or the platform is gone.
ClaimedIsCompleted ==
    \A t \in Tx : processed[t] = "full" =>
        \/ completed[t] > 0
        \/ \E j \in Job : at(j, "complete") /\ job[j].tx = t
        \/ faults > 0

\* A completion is undone by nothing but a get_charge that read the row before it:
\* neither the maintenance job nor a sandbox upsert takes it back.
UndoneByStaleRead ==
    [][\A c \in Charge :
         (charge[c].status = "completed" /\ charge'[c].status # "completed") =>
             c \in lapsing \/ charge'[c].status = "deleted"]_vars

\* No charge stays pending, not even one whose link was never made.
PendingEnds ==
    \A c \in Charge : (charge[c].status = "pending") ~> (charge[c].status # "pending")

\* A payment the watcher can see completes its charge, expired or not, unless the
\* vault is dropped first, the row has moved to another vault or was paid otherwise,
\* or a fault comes in between.
Payable(t, v) ==
    /\ VaultOf(t) = v /\ Covers(t) /\ t \notin seen /\ processed[t] = "none"
    /\ watch[v].net = NetOf(Owner[v])
    /\ charge[Owner[v]].vault = v /\ Open(Owner[v])
PaidIsCompleted ==
    \A t \in Tx, v \in Vault : Payable(t, v) ~>
        \/ completed[t] > 0 \/ faults > 0
        \/ watch[v] = NotWatched \/ charge[Owner[v]].vault # v \/ ~Open(Owner[v])

\* A completion is told to the platform or given up after the last attempt.
ToldOrGivenUp ==
    \A t \in Tx : (completed[t] > 0) ~> (hook[t].pc = "over")
=============================================================================
