------------------------------ MODULE Payment ------------------------------
(***************************************************************************)
(* The in-process payment pipeline of Renewise: from a transaction seen on *)
(* a vault to an active subscription.  Three kinds of coroutine run        *)
(* _process_payment_inprocess at the same time on one event loop: a task   *)
(* of the polling watcher, the "I've Paid" handler of the main bot and the *)
(* operator's manual recheck.  Between two awaits of one of them any other *)
(* may run, so each await that reads or writes shared state is a step of   *)
(* its own (the job's pc); what a job read earlier travels in its record.  *)
(*                                                                         *)
(* A Sub is a row id of `subscriptions`, a Vault a contract address, a Tx  *)
(* a transaction hash.  A vault's address is salted with the subscription  *)
(* id, hence Owner.  Amounts are nanoTON counted in coarse units.          *)
(***************************************************************************)
EXTENDS Integers, FiniteSets

CONSTANTS
    Sub, Vault, Tx,
    Task,             \* coroutine slots: how many jobs may run at once
    NoTx, NoVault,    \* SQL NULL in last_payment_tx_hash, vault_address
    Owner,            \* [Vault -> Sub], the row whose id salts the address
    RequiredPayment,  \* [Vault -> amount], price + buyer fee + gas reserve
    Amount,           \* values a payer may send
    RefundThreshold,  \* smallest overpayment worth a refund row
    GetterMayFail,    \* the required_payment() getter may be unreachable
    USE_POSTGRES,     \* the database: PostgreSQL, or SQLite
    Outside,          \* operations of the rest of the program an instance has
    MaxFaults         \* bound on restarts, aborted jobs, failed registrations

ASSUME PaymentAssumption ==
    /\ Owner \in [Vault -> Sub]
    /\ RequiredPayment \in [Vault -> Nat \ {0}]
    /\ Amount \subseteq Nat \ {0}
    /\ RefundThreshold \in Nat \ {0}
    /\ GetterMayFail \in BOOLEAN
    /\ USE_POSTGRES \in BOOLEAN
    /\ Outside \subseteq {"rejoin", "expire", "cancel", "comp", "pause",
                          "cleanup", "evict"}
    /\ MaxFaults \in Nat
    /\ IsFiniteSet(Tx)
    /\ NoTx \notin Tx
    /\ NoVault \notin Vault

VARIABLES
    sub,          \* subscriptions: one row per Sub
    registered,   \* vault_registry: the vaults a transaction resolves from
    processed,    \* processed_tx_hashes: no row, is_partial = 1 or is_partial = 0
    refund,       \* overpayment_refunds by tx: overpaid_nano, 0 when no row
    paused,       \* platform_config: the payments kill switch
    watched,      \* _active_vaults: the vaults under watch
    seen,         \* seen: transactions the poll loop has already handed out
    notified,     \* _insufficient: transactions the watcher DMed about
    stalled,      \* every pass of the poll loop raises before it evicts or polls
    job,          \* the coroutines running _process_payment_inprocess
    linked,       \* vaults whose payment link some user was shown
    chain,        \* transactions on the vaults, as TonCenter returns them
    accumulated,  \* accumulated_paid of each PaymentVault contract
    accepted,     \* transactions on which a vault split the payment
    faults,       \* faults so far, at most MaxFaults
    credit        \* history: activations a transaction has bought

database == <<sub, registered, processed, refund, paused>>
memory   == <<watched, seen, notified, stalled, job>>
ledger   == <<linked, chain, accumulated, accepted>>
history  == <<faults, credit>>
vars     == <<database, memory, ledger, history>>

-----------------------------------------------------------------------------
Ended == {"expired", "cancelled", "comped"}
Status == {"none", "pending", "active", "deleted"} \cup Ended

\* A row as the pipeline reads it; required = 0 is NULL, and periods is
\* next_renewal_date in billing intervals since the row was last reset
\* (0 is NULL).
NoRow(status) ==
    [status |-> status, required |-> 0, paid |-> 0, periods |-> 0,
     vault |-> NoVault, lastTx |-> NoTx]

Unpaid == [vault |-> NoVault, value |-> 0]
OnVault(v) == {t \in Tx : chain[t].vault = v}
OwnerOf(t) == Owner[chain[t].vault]

Idle == [pc |-> "idle", origin |-> "watcher", tx |-> NoTx,
         renewal |-> FALSE, required |-> 0, total |-> 0]

Pcs == {"idle", "precheck", "load", "gate", "short", "accumulate", "grace",
        "residual", "notify", "claim", "reset", "activate", "overpaid",
        "welcome", "renewed"}

Running(j) == job[j].pc # "idle"
Goto(j, pc) == job' = [job EXCEPT ![j].pc = pc]
Finish(j) == job' = [job EXCEPT ![j] = Idle]

-----------------------------------------------------------------------------
(* The rows, the links and the chain.                                      *)

\* handle_join_request: the upsert resets the row whatever its status was.
create_subscription(s) ==
    /\ ~paused
    /\ sub[s].status # "deleted" /\ (sub[s].status = "none" \/ "rejoin" \in Outside)
    /\ sub' = [sub EXCEPT ![s] = NoRow("pending")]
    /\ UNCHANGED <<registered, processed, refund, paused, memory, ledger, history>>

wake_watcher_for_vault(v) ==
    watched' = watched \cup {v}

\* A fresh link: the row takes the vault's amount and address, the watcher is
\* woken, and registering the vault may fail without failing the request.
generate_payment_request(v) ==
    /\ sub[Owner[v]].status \notin {"none", "deleted"}
    /\ sub' = [sub EXCEPT ![Owner[v]].required = RequiredPayment[v],
                          ![Owner[v]].vault = v]
    /\ wake_watcher_for_vault(v)
    /\ linked' = linked \cup {v}
    /\ \/ registered' = registered \cup {v} /\ faults' = faults
       \/ registered' = registered /\ v \notin registered
          /\ faults < MaxFaults /\ faults' = faults + 1
    /\ UNCHANGED <<processed, refund, paused, seen, notified, stalled, job,
                   chain, accumulated, accepted, credit>>

\* Mutant of Pay: the running total goes into debt instead of growing.
Pay_debt(t, v, a) ==
    LET total == accumulated[v] + a IN
    /\ v \in linked
    /\ chain[t] = Unpaid
    /\ chain' = [chain EXCEPT ![t] = [vault |-> v, value |-> a]]
    /\ IF total < RequiredPayment[v]
       THEN /\ accumulated' = [accumulated EXCEPT ![v] = total - RequiredPayment[v]]
            /\ accepted' = accepted
       ELSE /\ accumulated' = [accumulated EXCEPT ![v] = 0]
            /\ accepted' = accepted \cup {t}
    /\ UNCHANGED <<database, memory, linked, history>>

\* receive(Pay) of PaymentVault: below the required amount the vault keeps a
\* running total; on reaching it the payment is split and the total restarts.
Pay(t, v, a) ==
    LET total == accumulated[v] + a IN
    /\ v \in linked
    /\ chain[t] = Unpaid
    /\ chain' = [chain EXCEPT ![t] = [vault |-> v, value |-> a]]
    /\ IF total < RequiredPayment[v]
       THEN /\ accumulated' = [accumulated EXCEPT ![v] = total]
            /\ accepted' = accepted
       ELSE /\ accumulated' = [accumulated EXCEPT ![v] = 0]
            /\ accepted' = accepted \cup {t}
    /\ UNCHANGED <<database, memory, linked, history>>

-----------------------------------------------------------------------------
(* Who starts a job.                                                       *)

Start(j, t, origin) ==
    /\ ~Running(j)
    /\ job' = [job EXCEPT ![j] =
                 [Idle EXCEPT !.pc = "precheck", !.origin = origin, !.tx = t]]

\* poll_vaults_inprocess hands a transaction it has not seen to a new task.
\* Seeding the seen-set with processed transactions on first encounter equals
\* the job's own precheck, so it is not a step of its own.
poll_vaults_inprocess(j, t) ==
    /\ chain[t] # Unpaid
    /\ ~stalled /\ chain[t].vault \in watched
    /\ t \notin seen
    /\ seen' = seen \cup {t}
    /\ Start(j, t, "watcher")
    /\ UNCHANGED <<database, watched, notified, stalled, ledger, history>>

\* The bots' handlers run one update at a time: one tap, one recheck at once.
HandlerFree(origin) == \A j \in Task : ~(Running(j) /\ job[j].origin = origin)

\* A transaction too small for the stored amount is skipped as dust.
Dust(t) ==
    LET required == sub[OwnerOf(t)].required IN
    required # 0 /\ chain[t].value < required /\ required > 2 * chain[t].value

cb_ive_paid(j, t) ==
    LET v == chain[t].vault IN
    /\ chain[t] # Unpaid
    /\ sub[Owner[v]].status # "active"
    /\ HandlerFree("tap")
    /\ processed[t] # "full"
    /\ ~Dust(t)
    /\ wake_watcher_for_vault(v)
    /\ Start(j, t, "tap")
    /\ UNCHANGED <<database, seen, notified, stalled, ledger, history>>

\* The superadmin's "sa_r_" button: only a transaction with a row in
\* processed_tx_hashes resolves to a vault, the one the row holds now.
manual_recheck(j, t) ==
    /\ chain[t] # Unpaid
    /\ processed[t] = "partial"
    /\ sub[OwnerOf(t)].vault = chain[t].vault
    /\ HandlerFree("operator")
    /\ Start(j, t, "operator")
    /\ UNCHANGED <<database, watched, seen, notified, stalled, ledger, history>>

-----------------------------------------------------------------------------
(* _process_payment_inprocess, one await after the other.                  *)

at(j, pc) == job[j].pc = pc
subOf(j) == OwnerOf(job[j].tx)
rowOf(j) == sub[subOf(j)]

is_tx_processed(t) == processed[t] = "full"

precheck(j) ==
    /\ at(j, "precheck")
    /\ IF is_tx_processed(job[j].tx) THEN Finish(j) ELSE Goto(j, "load")
    /\ UNCHANGED <<database, watched, seen, notified, stalled, ledger, history>>

\* The amount to reach: the stored one, unless this payment alone covers it
\* (then it is taken for stale) or none is stored; then what the vault's getter
\* says, 0 when it cannot be reached.
required_amount(r, t) ==
    IF r.required # 0 /\ chain[t].value < r.required
    THEN {r.required}
    ELSE {RequiredPayment[chain[t].vault]} \cup (IF GetterMayFail THEN {0} ELSE {})

\* Vault to row, then the snapshot of the row every later step relies on.
load(j) ==
    LET t == job[j].tx
        r == rowOf(j) IN
    /\ at(j, "load")
    /\ IF chain[t].vault \in registered
       THEN \E required \in required_amount(r, t) :
              job' = [job EXCEPT ![j].pc = "gate",
                                 ![j].renewal = (r.status = "active"),
                                 ![j].required = required,
                                 ![j].total = r.paid + chain[t].value]
       ELSE Finish(j)
    /\ UNCHANGED <<database, watched, seen, notified, stalled, ledger, history>>

\* Mutant of gate: paying exactly the amount counts as short of it.
gate_off_by_one(j) ==
    /\ at(j, "gate")
    /\ IF paused THEN Finish(j)
       ELSE Goto(j, IF job[j].total <= job[j].required THEN "short" ELSE "claim")
    /\ UNCHANGED <<database, watched, seen, notified, stalled, ledger, history>>

\* Kill switch, then the amount check; a skipped transaction stays in `seen`.
gate(j) ==
    /\ at(j, "gate")
    /\ IF paused THEN Finish(j)
       ELSE Goto(j, IF job[j].total < job[j].required THEN "short" ELSE "claim")
    /\ UNCHANGED <<database, watched, seen, notified, stalled, ledger, history>>

\* Short of the amount: a residual message when the row is active by now.
short(j) ==
    /\ at(j, "short")
    /\ Goto(j, IF rowOf(j).status = "active" THEN "residual" ELSE "accumulate")
    /\ UNCHANGED <<database, watched, seen, notified, stalled, ledger, history>>

update_amount_paid_so_far(s, amount) ==
    sub' = IF sub[s].status = "deleted" THEN sub ELSE [sub EXCEPT ![s].paid = amount]

accumulate(j) ==
    /\ at(j, "accumulate")
    /\ update_amount_paid_so_far(subOf(j), job[j].total)
    /\ Goto(j, "grace")
    /\ UNCHANGED <<registered, processed, refund, paused, watched, seen, notified, stalled,
                   ledger, history>>

\* After the sleep: silent if active by now; the watcher tells a payer once per
\* transaction, the other callers (a fresh set, or none) every time.
grace(j) ==
    LET t == job[j].tx IN
    /\ at(j, "grace")
    /\ \/ rowOf(j).status = "active" /\ Goto(j, "residual") /\ notified' = notified
       \/ /\ rowOf(j).status # "active"
          /\ IF job[j].origin # "watcher"
             THEN Goto(j, "notify") /\ notified' = notified
             ELSE /\ notified' = notified \cup {t}
                  /\ IF t \in notified THEN Finish(j) ELSE Goto(j, "notify")
    /\ UNCHANGED <<database, watched, seen, stalled, ledger, history>>

\* The shortfall message goes out.
notify_insufficient_payment(j) ==
    /\ at(j, "notify")
    /\ Finish(j)
    /\ UNCHANGED <<database, watched, seen, notified, stalled, ledger, history>>

\* INSERT ... ON CONFLICT DO NOTHING: a row of either kind stays as it is.
mark_tx_processed(t) ==
    processed' = [processed EXCEPT ![t] = IF @ = "none" THEN "full" ELSE @]

residual(j) ==
    /\ at(j, "residual")
    /\ mark_tx_processed(job[j].tx)
    /\ Finish(j)
    /\ UNCHANGED <<sub, registered, refund, paused, watched, seen, notified, stalled,
                   ledger, history>>

\* Mutant of claim: the result of the insertion is not looked at.
claim_unchecked(j) ==
    /\ at(j, "claim")
    /\ mark_tx_processed(job[j].tx)
    /\ Goto(j, "reset")
    /\ UNCHANGED <<sub, registered, refund, paused, watched, seen, notified, stalled,
                   ledger, history>>

\* Mutant of claim: look first, and leave the insertion for later.
claim_without_insert(j) ==
    /\ at(j, "claim")
    /\ IF processed[job[j].tx] = "none" THEN Goto(j, "reset") ELSE Finish(j)
    /\ UNCHANGED <<database, watched, seen, notified, stalled, ledger, history>>

\* The idempotency claim: only the insertion that created the row goes on.
claim(j) ==
    /\ at(j, "claim")
    /\ mark_tx_processed(job[j].tx)
    /\ IF processed[job[j].tx] = "none" THEN Goto(j, "reset") ELSE Finish(j)
    /\ UNCHANGED <<sub, registered, refund, paused, watched, seen, notified, stalled,
                   ledger, history>>

reset(j) ==
    /\ at(j, "reset")
    /\ update_amount_paid_so_far(subOf(j), 0)
    /\ Goto(j, "activate")
    /\ UNCHANGED <<registered, processed, refund, paused, watched, seen, notified, stalled,
                   ledger, history>>

activate_subscription(s, t) ==
    sub' = [sub EXCEPT ![s].status = "active",
                       ![s].periods = sub[s].periods + 1,
                       ![s].lastTx = t]

\* Mutant of activate: the UPDATE has no condition on the status.
activate_any(j) ==
    LET t == job[j].tx IN
    /\ at(j, "activate")
    /\ activate_subscription(subOf(j), t)
    /\ credit' = [credit EXCEPT ![t] = @ + 1]
    /\ Goto(j, "overpaid")
    /\ UNCHANGED <<registered, processed, refund, paused, watched, seen, notified, stalled,
                   ledger, faults>>

\* The update touches only a pending or active row; the job goes on either way.
\* (mark_vault_confirmed, next, only makes evict of the vault due sooner.)
activate(j) ==
    LET t == job[j].tx IN
    /\ at(j, "activate")
    /\ IF rowOf(j).status \in {"pending", "active"}
       THEN /\ activate_subscription(subOf(j), t)
            /\ credit' = [credit EXCEPT ![t] = @ + 1]
       ELSE UNCHANGED <<sub, credit>>
    /\ Goto(j, "overpaid")
    /\ UNCHANGED <<registered, processed, refund, paused, watched, seen, notified, stalled,
                   ledger, faults>>

overpayment(j) ==
    IF job[j].required # 0 THEN job[j].total - job[j].required ELSE 0

\* create_overpayment_refund, when the amount is known and the excess is worth it.
overpaid(j) ==
    /\ at(j, "overpaid")
    /\ refund' = IF overpayment(j) >= RefundThreshold
                 THEN [refund EXCEPT ![job[j].tx] = overpayment(j)]
                 ELSE refund
    /\ Goto(j, IF job[j].renewal THEN "renewed" ELSE "welcome")
    /\ UNCHANGED <<sub, registered, processed, paused, watched, seen, notified, stalled,
                   ledger, history>>

\* The join request is approved, or the renewal is confirmed by DM.
finish(j) ==
    /\ at(j, "welcome") \/ at(j, "renewed")
    /\ Finish(j)
    /\ UNCHANGED <<database, watched, seen, notified, stalled, ledger, history>>

Step(j) ==
    \/ precheck(j) \/ load(j) \/ gate(j) \/ short(j) \/ accumulate(j) \/ grace(j)
    \/ notify_insufficient_payment(j) \/ residual(j) \/ claim(j) \/ reset(j)
    \/ activate(j) \/ overpaid(j) \/ finish(j)

-----------------------------------------------------------------------------
(* What the rest of the program does to the same rows.                     *)

SetStatus(s, status) ==
    /\ sub' = [sub EXCEPT ![s].status = status]
    /\ UNCHANGED <<registered, processed, refund, paused, memory, ledger, history>>

\* The grace job, or the superadmin: an overdue row expires.  The grace job
\* picks active rows, but expires what it finds when its task runs.
expire(s) ==
    /\ "expire" \in Outside
    /\ sub[s].status \in {"active", "pending"}
    /\ SetStatus(s, "expired")

\* A kick cancels whatever the row says; so does leaving, for a paying member.
cancel_subscription(s) ==
    /\ "cancel" \in Outside
    /\ sub[s].status \notin {"none", "deleted", "cancelled"}
    /\ SetStatus(s, "cancelled")

comp_subscription(s) ==
    /\ "comp" \in Outside
    /\ sub[s].status \notin {"deleted", "comped"}
    /\ SetStatus(s, "comped")

set_payments_paused ==
    /\ "pause" \in Outside
    /\ paused' = ~paused
    /\ UNCHANGED <<sub, registered, processed, refund, memory, ledger, history>>

\* The hourly cleanup.  created_at survives the upsert of a returning member,
\* so any pending row without a last payment may be old enough.
delete_stale_pending_subscriptions(s) ==
    /\ "cleanup" \in Outside
    /\ sub[s].status = "pending" /\ sub[s].lastTx = NoTx
    /\ sub' = [sub EXCEPT ![s] = NoRow("deleted")]
    /\ registered' = {v \in registered : Owner[v] # s}
    /\ refund' = [t \in Tx |-> IF chain[t] # Unpaid /\ OwnerOf(t) = s
                              THEN 0 ELSE refund[t]]
    /\ UNCHANGED <<processed, paused, memory, ledger, history>>

\* A vault leaves _active_vaults: unpaid for 30 minutes, or 5 after confirming.
evict(v) ==
    /\ "evict" \in Outside
    /\ ~stalled /\ v \in watched
    /\ watched' = watched \ {v}
    /\ seen' = seen \ OnVault(v)
    /\ UNCHANGED <<database, notified, stalled, job, ledger, history>>

\* 30 minutes after its start the poll loop expires old charges.  On SQLite the
\* statement (NOW() - INTERVAL '5 minutes') is a syntax error, and it raises before
\* the loop notes that it ran: so does every later pass, before it evicts or polls.
_expire_stale_charges_inprocess ==
    /\ ~USE_POSTGRES /\ ~stalled
    /\ stalled' = TRUE
    /\ UNCHANGED <<database, watched, seen, notified, job, ledger, history>>

\* A DB or network exception ends one coroutine between two awaits.
abort(j) ==
    /\ Running(j) /\ faults < MaxFaults
    /\ faults' = faults + 1
    /\ Finish(j)
    /\ UNCHANGED <<database, watched, seen, notified, stalled, ledger, credit>>

\* get_vaults_to_watch: vaults of pending rows; which are recent is a choice.  Its
\* SQLite statement has three placeholders for one argument: it raises, the start
\* goes on without it.
VaultsToWatch ==
    {v \in Vault : /\ USE_POSTGRES /\ sub[Owner[v]].status = "pending"
                   /\ v \in registered \/ sub[Owner[v]].vault = v}

\* Mutant of Backfilled: the records are deleted instead of made partial.
Backfilled_delete ==
    IF USE_POSTGRES THEN processed
    ELSE [t \in Tx |->
            IF processed[t] = "full" /\ sub[OwnerOf(t)].status = "pending"
            THEN "none" ELSE processed[t]]

\* migrate(): full records of rows that are pending now become partial.  On
\* PostgreSQL its connection is used outside its context and the error swallowed.
Backfilled ==
    IF USE_POSTGRES THEN processed
    ELSE [t \in Tx |->
            IF processed[t] = "full" /\ sub[OwnerOf(t)].status = "pending"
            THEN "partial" ELSE processed[t]]

\* The process stops and starts again: memory is lost, the tables are migrated.
restart ==
    /\ faults < MaxFaults
    /\ faults' = faults + 1
    /\ job' = [j \in Task |-> Idle]
    /\ seen' = {} /\ notified' = {} /\ stalled' = FALSE
    /\ processed' = Backfilled
    /\ \E recent \in SUBSET VaultsToWatch : watched' = recent
    /\ UNCHANGED <<sub, registered, refund, paused, ledger, credit>>

-----------------------------------------------------------------------------
Init ==
    /\ sub = [s \in Sub |-> NoRow("none")]
    /\ registered = {} /\ linked = {} /\ accepted = {}
    /\ processed = [t \in Tx |-> "none"]
    /\ refund = [t \in Tx |-> 0]
    /\ paused = FALSE
    /\ watched = {}
    /\ seen = {} /\ notified = {} /\ stalled = FALSE
    /\ job = [j \in Task |-> Idle]
    /\ chain = [t \in Tx |-> Unpaid]
    /\ accumulated = [v \in Vault |-> 0]
    /\ faults = 0
    /\ credit = [t \in Tx |-> 0]

User ==
    \/ \E s \in Sub : create_subscription(s)
    \/ \E v \in Vault : generate_payment_request(v)
    \/ \E t \in Tx, v \in Vault, a \in Amount : Pay(t, v, a)

Arrival ==
    \E j \in Task, t \in Tx :
        poll_vaults_inprocess(j, t) \/ cb_ive_paid(j, t) \/ manual_recheck(j, t)

Elsewhere ==
    \/ \E s \in Sub : expire(s) \/ cancel_subscription(s) \/ comp_subscription(s)
                      \/ delete_stale_pending_subscriptions(s)
    \/ \E v \in Vault : evict(v)
    \/ set_payments_paused \/ _expire_stale_charges_inprocess

Fault == restart \/ \E j \in Task : abort(j)

Next == User \/ Arrival \/ (\E j \in Task : Step(j)) \/ Elsewhere \/ Fault

Spec == Init /\ [][Next]_vars

\* The event loop runs every coroutine that is ready, and the poll loop runs
\* again every few seconds as long as a vault is watched and it has not stalled:
\* on SQLite it polls in the first half hour after a start only.
Fairness ==
    /\ \A j \in Task : WF_vars(Step(j))
    /\ \A t \in Tx : WF_vars(\E j \in Task : poll_vaults_inprocess(j, t))

FairSpec == Spec /\ Fairness

-----------------------------------------------------------------------------
(* Properties.                                                             *)

Jobs == [pc : Pcs, origin : {"watcher", "tap", "operator"}, tx : Tx \cup {NoTx},
         renewal : BOOLEAN, required : Nat, total : Nat]
Rows == [status : Status, required : Nat, paid : Nat, periods : Nat,
         vault : Vault \cup {NoVault}, lastTx : Tx \cup {NoTx}]
Transactions == [vault : Vault \cup {NoVault}, value : Nat]

DatabaseOK ==
    /\ sub \in [Sub -> Rows]
    /\ registered \subseteq Vault
    /\ processed \in [Tx -> {"none", "partial", "full"}]
    /\ refund \in [Tx -> Nat]
    /\ paused \in BOOLEAN

MemoryOK ==
    /\ watched \subseteq Vault /\ seen \subseteq Tx /\ notified \subseteq Tx
    /\ stalled \in BOOLEAN /\ (stalled => ~USE_POSTGRES)
    /\ job \in [Task -> Jobs]

LedgerOK ==
    /\ linked \subseteq Vault /\ accepted \subseteq Tx
    /\ chain \in [Tx -> Transactions]
    /\ accumulated \in [Vault -> Nat]

HistoryOK == faults \in Nat /\ credit \in [Tx -> Nat]

\* Jobs and records are about transactions that are on a vault, a job past the
\* amount check has reached the amount, and a partial total stays below it.
OnChain(t) == t \in Tx /\ chain[t] # Unpaid
Grounded ==
    /\ \A t \in Tx : OnChain(t) => chain[t].vault \in Vault
    /\ \A t \in Tx : processed[t] # "none" => OnChain(t)
    /\ \A j \in Task : Running(j) => OnChain(job[j].tx)
    /\ \A j \in Task : job[j].pc \in {"claim", "reset", "activate", "overpaid"}
                        => job[j].required <= job[j].total
    /\ \A v \in Vault : accumulated[v] < RequiredPayment[v]

\* Every variable keeps its shape, and jobs, records and totals are grounded.
TypeOK == DatabaseOK /\ MemoryOK /\ LedgerOK /\ HistoryOK /\ Grounded

\* A transaction buys at most one activation, and only after its claim, however
\* many watcher tasks, taps and rechecks run for it: the "double activation" that
\* activate_subscription's docstring and the claim guard against.
CreditOnce == \A t \in Tx : credit[t] <= (IF processed[t] = "none" THEN 0 ELSE 1)

\* Between its claim and its activation a job owns its transaction: it is on
\* record, not yet credited, and no other coroutine is in the same place with it.
Claimant(j) == job[j].pc \in {"reset", "activate"}
OneClaimant ==
    /\ \A j \in Task :
         Claimant(j) => processed[job[j].tx] # "none" /\ credit[job[j].tx] = 0
    /\ \A i, j \in Task : Claimant(i) /\ Claimant(j) /\ i # j => job[i].tx # job[j].tx

\* No free billing cycle: the intervals a row's next renewal date has advanced
\* since it was last reset never exceed the payments recorded for its vaults.
PaymentsRecorded(s) == {t \in Tx : processed[t] # "none" /\ OwnerOf(t) = s}
NoFreeCycle == \A s \in Sub : sub[s].periods <= Cardinality(PaymentsRecorded(s))

\* A kicked, expired or comped member is never turned into an active one by a
\* payment still in flight; only a new join request reopens the row.
EndedStaysEnded ==
    [][\A s \in Sub : sub[s].status \in Ended => sub'[s].status # "active"]_vars

\* A payment that covers the amount by itself, on a registered vault under watch,
\* buys an activation, unless payments are paused, the watch lapses, the poll loop
\* stalls (on SQLite it does within half an hour of a start) or the row stops being
\* one a payment may activate.
FullPayment(t) ==
    /\ chain[t] # Unpaid
    /\ chain[t].vault \in registered
    /\ chain[t].value >= RequiredPayment[chain[t].vault]
Excused(t) ==
    \/ paused \/ stalled \/ chain[t].vault \notin watched
    \/ sub[OwnerOf(t)].status \notin {"pending", "active"}
FullPaymentIsCredited ==
    \A t \in Tx : (FullPayment(t) /\ t \notin seen) ~>
                    (credit[t] = 1 \/ (chain[t] # Unpaid /\ Excused(t)))

\* The abstract ledger this pipeline implements: a transaction is held while a
\* job that claimed it has not yet activated the row, spent once it has, and void
\* when it was recorded without ever activating anything.
Held(t) == \E j \in Task : Claimant(j) /\ job[j].tx = t
Outcome(t) ==
    CASE processed[t] = "none" -> "open"
      [] processed[t] # "none" /\ credit[t] > 0 -> "spent"
      [] processed[t] # "none" /\ credit[t] = 0 -> IF Held(t) THEN "held" ELSE "void"
standing == [s \in Sub |-> sub[s].status]
cycles == [s \in Sub |-> sub[s].periods]
entry == [t \in Tx |-> Outcome(t)]
Ledger == INSTANCE PaymentLedger

\* Every step of the coroutines, the handlers, the operator and the faults is a
\* step of the ledger: no claim is taken twice, spent twice or given back.
LedgerSpec == Ledger!Spec
=============================================================================
