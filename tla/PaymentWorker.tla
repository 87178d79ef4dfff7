--------------------------- MODULE PaymentWorker ---------------------------
(***************************************************************************)
(* The payment pipeline of the deployment in several processes: a webhook  *)
(* server with its VaultPoller, the polling watcher, an RQ queue in Redis, *)
(* worker processes that run process_payment, and the listener in the bot  *)
(* that does what the workers publish.  A transaction may be in the queue  *)
(* several times; jobs of one transaction run in several workers at once.  *)
(* Each statement of process_payment that reads or writes the database is  *)
(* a step, since the processes share nothing else.                         *)
(*                                                                         *)
(* A Sub is a row of `subscriptions` with the vault of its payment link, a *)
(* Tx a transaction hash.  Stored is the amount a link asks for, gas       *)
(* reserve included; Derived what price and fee come to at the exchange    *)
(* rates of the moment, without the reserve.                               *)
(*                                                                         *)
(* On SQLite the watcher's query raises in every round, so that only what  *)
(* TonCenter pushes, the VaultPoller and the operator bring jobs.          *)
(***************************************************************************)
EXTENDS Naturals, Sequences, FiniteSets

CONSTANTS
    Sub, Tx, Worker,
    NoTx,
    Amount,     \* [Tx -> values], what its payer may send
    Stored,     \* required_nano_amount of a link
    Derived,    \* amounts the price may be re-derived to
    Outside,    \* operations of the rest of the program an instance has
    USE_POSTGRES,  \* the database: PostgreSQL, or SQLite
    MaxCopies,  \* bound: copies of a job in the queue
    MaxMail,    \* bound: published actions the listener has not handled
    MaxFaults   \* bound on crashes, restarts and failed registrations

ASSUME WorkerAssumption ==
    /\ Sub # {} /\ NoTx \notin Tx /\ IsFiniteSet(Tx)
    /\ Amount \in [Tx -> SUBSET (Nat \ {0})]
    /\ Stored \in Nat \ {0} /\ Derived \subseteq Nat \ {0} /\ Derived # {}
    /\ Outside \subseteq {"rejoin", "expire", "pause", "cleanup"}
    /\ USE_POSTGRES \in BOOLEAN
    /\ MaxCopies \in Nat \ {0} /\ MaxMail \in Nat \ {0} /\ MaxFaults \in Nat

VARIABLES
    sub,         \* subscriptions: status, amount, billing cycles, age of updated_at
    registered,  \* vault_registry
    processed,   \* processed_tx_hashes: no row, is_partial = 1 or is_partial = 0
    paused,      \* platform_config: the kill switch
    polled,      \* VaultPoller._cursors: addresses it polls
    passed,      \* transactions the cursors have passed
    queue,       \* the RQ queue: copies of the job of each transaction
    worker,      \* what each worker process runs
    listening,   \* the bot's listener is subscribed
    channel,     \* published actions on their way to the listener
    warned,      \* bot_data["insufficient_msgs"]
    door,        \* the member: outside, asking to join, or in the chat
    linked,      \* rows whose payment link was shown
    chain,       \* transactions on the vaults
    faults,      \* faults so far
    credit       \* history: activations a transaction has bought

database == <<sub, registered, processed, paused>>
webhook  == <<polled, passed>>
redis    == <<queue, channel>>
bot      == <<listening, warned, door>>
ledger   == <<linked, chain>>
vars     == <<database, webhook, redis, worker, bot, ledger, faults, credit>>

-----------------------------------------------------------------------------
\* recent: updated_at is less than 30 minutes old.  It is looked at, and kept up
\* here, for pending rows only.
Row(status) ==
    [status |-> status, required |-> 0, periods |-> 0, recent |-> status = "pending"]
Unpaid == [sub |-> CHOOSE s \in Sub : TRUE, value |-> 0]
Paid(t) == chain[t].value > 0
SubOf(t) == chain[t].sub

Idle == [pc |-> "idle", tx |-> NoTx, renewal |-> FALSE]
Pcs == {"idle", "precheck", "load", "short", "residual", "insufficient",
        "gate", "claim", "activate", "publish"}
Action(kind, t) == [kind |-> kind, tx |-> t]

Running(w) == worker[w].pc # "idle"
at(w, pc) == worker[w].pc = pc
Goto(w, pc) == worker' = [worker EXCEPT ![w].pc = pc]
Done(w) == worker' = [worker EXCEPT ![w] = Idle]

-----------------------------------------------------------------------------
(* The member's side.                                                      *)

\* A join request: the upsert resets the row whatever its status was.
create_subscription(s) ==
    /\ ~paused
    /\ \/ sub[s].status = "none"
       \/ "rejoin" \in Outside /\ sub[s].status = "expired"
    /\ sub' = [sub EXCEPT ![s] = Row("pending")]
    /\ door' = [door EXCEPT ![s] = "asking"]
    /\ UNCHANGED <<registered, processed, paused, webhook, redis, worker, listening,
                   warned, ledger, faults, credit>>

\* A link: amount stored, vault registered, which may fail; updated_at stays as it
\* is.  The poller is not told: nothing calls the webhook server's /register.
generate_payment_request(s) ==
    /\ sub[s].status \in {"pending", "active"}
    /\ sub' = [sub EXCEPT ![s].required = Stored]
    /\ linked' = linked \cup {s}
    /\ \/ registered' = registered \cup {s} /\ faults' = faults
       \/ registered' = registered /\ faults < MaxFaults /\ faults' = faults + 1
    /\ UNCHANGED <<processed, paused, webhook, redis, worker, bot, chain, credit>>

\* updated_at of a pending row, set by the join request, is half an hour old.
half_hour_passes(s) ==
    /\ sub[s].status = "pending" /\ sub[s].recent
    /\ sub' = [sub EXCEPT ![s].recent = FALSE]
    /\ UNCHANGED <<registered, processed, paused, webhook, redis, worker, bot, ledger,
                   faults, credit>>

Pay(t, s, a) ==
    /\ s \in linked /\ ~Paid(t)
    /\ chain' = [chain EXCEPT ![t] = [sub |-> s, value |-> a]]
    /\ UNCHANGED <<database, webhook, redis, worker, bot, linked, faults, credit>>

-----------------------------------------------------------------------------
(* Who puts jobs into the queue.                                           *)

enqueue(T) ==
    /\ \A t \in T : queue[t] < MaxCopies
    /\ queue' = [t \in Tx |-> IF t \in T THEN queue[t] + 1 ELSE queue[t]]
    /\ UNCHANGED <<database, channel, worker, bot, ledger, faults, credit>>

is_tx_processed(t) == processed[t] = "full"

\* TonCenter calls /webhook for a transaction, once, twice or never.
handle_webhook(t) ==
    /\ Paid(t)
    /\ enqueue({t})
    /\ UNCHANGED webhook

\* Mutant of poll_once: transactions are handed on before they are confirmed.
poll_once_unconfirmed(s) ==
    LET new == {t \in Tx \ passed : SubOf(t) = s} IN
    /\ s \in polled /\ new # {}
    /\ enqueue(new)
    /\ passed' = passed \cup new
    /\ UNCHANGED polled

\* VaultPoller: every confirmed transaction past the address's cursor, once.
poll_once(s) ==
    LET new == {t \in Tx \ passed : Paid(t) /\ SubOf(t) = s} IN
    /\ s \in polled /\ new # {}
    /\ enqueue(new)
    /\ passed' = passed \cup new
    /\ UNCHANGED polled

\* The watcher's round: vaults, registered or named by the row, of pending rows that
\* were opened less than 30 minutes ago.  On SQLite the query has three placeholders
\* for its one argument and raises; the loop logs it and tries again.
get_vaults_to_watch ==
    {s \in Sub : /\ USE_POSTGRES /\ sub[s].status = "pending"
                 /\ sub[s].recent /\ sub[s].required # 0}

\* It keeps no record of what it enqueued: the same transaction goes into the
\* queue again every round until it is processed.
poll_vaults(t) ==
    /\ Paid(t) /\ SubOf(t) \in get_vaults_to_watch
    /\ ~is_tx_processed(t)
    /\ enqueue({t})
    /\ UNCHANGED webhook

\* The operator's recheck of a vault, by the function or the server's /recheck.
recheck_by_subscription(s) ==
    LET unprocessed == {t \in Tx : Paid(t) /\ SubOf(t) = s /\ ~is_tx_processed(t)} IN
    /\ s \in registered /\ unprocessed # {}
    /\ enqueue(unprocessed)
    /\ UNCHANGED webhook

recheck_by_tx_hash(t) ==
    /\ Paid(t) /\ ~is_tx_processed(t)
    /\ enqueue({t})
    /\ UNCHANGED webhook

\* The server's /recheck with a hash does not ask whether it is processed.
handle_recheck(t) ==
    /\ Paid(t)
    /\ enqueue({t})
    /\ UNCHANGED webhook

-----------------------------------------------------------------------------
(* process_payment in a worker, one statement after the other.             *)

take(w, t) ==
    /\ ~Running(w) /\ queue[t] > 0
    /\ queue' = [queue EXCEPT ![t] = @ - 1]
    /\ worker' = [worker EXCEPT ![w] = [Idle EXCEPT !.pc = "precheck", !.tx = t]]
    /\ UNCHANGED <<database, webhook, channel, bot, ledger, faults, credit>>

Reads == UNCHANGED <<database, webhook, redis, bot, ledger, faults, credit>>

precheck(w) ==
    /\ at(w, "precheck")
    /\ IF is_tx_processed(worker[w].tx) THEN Done(w) ELSE Goto(w, "load")
    /\ Reads

\* The stored amount if the payment is below it; else what the price comes to now.
required_amounts(stored, value) ==
    IF stored # 0 /\ value < stored THEN {stored} ELSE Derived

\* Mutant of load: a payment of exactly the amount is short of it.
load_off_by_one(w) ==
    LET t == worker[w].tx
        r == sub[SubOf(t)] IN
    /\ at(w, "load")
    /\ IF SubOf(t) \notin registered \/ r.status = "deleted"
       THEN Done(w)
       ELSE \E required \in required_amounts(r.required, chain[t].value) :
              worker' = [worker EXCEPT
                  ![w].pc = IF chain[t].value <= required THEN "short" ELSE "gate",
                  ![w].renewal = (r.status = "active")]
    /\ Reads

\* Mutant of load: whoever has a row already is taken for renewing.
load_always_renewal(w) ==
    LET t == worker[w].tx
        r == sub[SubOf(t)] IN
    /\ at(w, "load")
    /\ IF SubOf(t) \notin registered \/ r.status = "deleted"
       THEN Done(w)
       ELSE \E required \in required_amounts(r.required, chain[t].value) :
              worker' = [worker EXCEPT
                  ![w].pc = IF chain[t].value < required THEN "short" ELSE "gate",
                  ![w].renewal = (r.status \in {"pending", "active"})]
    /\ Reads

\* Vault to row and the snapshot that decides, later, between a welcome and a
\* renewal notice; then the amount check.
load(w) ==
    LET t == worker[w].tx
        r == sub[SubOf(t)] IN
    /\ at(w, "load")
    /\ IF SubOf(t) \notin registered \/ r.status = "deleted"
       THEN Done(w)
       ELSE \E required \in required_amounts(r.required, chain[t].value) :
              worker' = [worker EXCEPT
                  ![w].pc = IF chain[t].value < required THEN "short" ELSE "gate",
                  ![w].renewal = (r.status = "active")]
    /\ Reads

short(w) ==
    /\ at(w, "short")
    /\ Goto(w, IF sub[SubOf(worker[w].tx)].status = "active"
               THEN "residual" ELSE "insufficient")
    /\ Reads

\* INSERT ... ON CONFLICT DO NOTHING.
mark_tx_processed(t) ==
    /\ processed' = [processed EXCEPT ![t] = IF @ = "none" THEN "full" ELSE @]
    /\ UNCHANGED <<sub, registered, paused>>

residual(w) ==
    /\ at(w, "residual")
    /\ mark_tx_processed(worker[w].tx)
    /\ Done(w)
    /\ UNCHANGED <<webhook, redis, bot, ledger, faults, credit>>

\* Redis pub/sub keeps nothing: without a subscriber the action is gone.
_publish_bot_action(kind, t) ==
    IF listening
    THEN Len(channel) < MaxMail /\ channel' = Append(channel, Action(kind, t))
    ELSE channel' = channel

insufficient(w) ==
    /\ at(w, "insufficient")
    /\ _publish_bot_action("insufficient_payment", worker[w].tx)
    /\ Done(w)
    /\ UNCHANGED <<database, webhook, queue, bot, ledger, faults, credit>>

gate(w) ==
    /\ at(w, "gate")
    /\ IF paused THEN Done(w) ELSE Goto(w, "claim")
    /\ Reads

\* Mutant of claim: the result of the insertion is not looked at.
claim_unchecked(w) ==
    /\ at(w, "claim")
    /\ mark_tx_processed(worker[w].tx)
    /\ Goto(w, "activate")
    /\ UNCHANGED <<webhook, redis, bot, ledger, faults, credit>>

\* The idempotency claim: only the insertion that created the row goes on.
claim(w) ==
    /\ at(w, "claim")
    /\ mark_tx_processed(worker[w].tx)
    /\ IF processed[worker[w].tx] = "none" THEN Goto(w, "activate") ELSE Done(w)
    /\ UNCHANGED <<webhook, redis, bot, ledger, faults, credit>>

activate_subscription(s) ==
    sub' = [sub EXCEPT ![s].status = "active", ![s].periods = @ + 1,
                       ![s].recent = TRUE]

\* Mutant of activate: the UPDATE has no condition on the status.
activate_any(w) ==
    LET t == worker[w].tx IN
    /\ at(w, "activate")
    /\ activate_subscription(SubOf(t))
    /\ credit' = [credit EXCEPT ![t] = @ + 1]
    /\ Goto(w, "publish")
    /\ UNCHANGED <<registered, processed, paused, webhook, redis, bot, ledger, faults>>

\* The UPDATE touches a pending or active row only; the job goes on either way.
activate(w) ==
    LET t == worker[w].tx IN
    /\ at(w, "activate")
    /\ IF sub[SubOf(t)].status \in {"pending", "active"}
       THEN /\ activate_subscription(SubOf(t))
            /\ credit' = [credit EXCEPT ![t] = @ + 1]
       ELSE UNCHANGED <<sub, credit>>
    /\ Goto(w, "publish")
    /\ UNCHANGED <<registered, processed, paused, webhook, redis, bot, ledger, faults>>

\* Mutant of publish: the welcome goes out before the claim.
publish_early(w) ==
    /\ at(w, "publish") \/ at(w, "gate")
    /\ _publish_bot_action("approve_and_welcome", worker[w].tx)
    /\ IF at(w, "gate") THEN Goto(w, "claim") ELSE Done(w)
    /\ UNCHANGED <<database, webhook, queue, bot, ledger, faults, credit>>

\* A first payment's welcome.  For a renewal the job names variables of the
\* inner function and fails with a NameError: nothing is published.
publish(w) ==
    /\ at(w, "publish")
    /\ IF worker[w].renewal THEN channel' = channel
       ELSE _publish_bot_action("approve_and_welcome", worker[w].tx)
    /\ Done(w)
    /\ UNCHANGED <<database, webhook, queue, bot, ledger, faults, credit>>

Step(w) ==
    \/ precheck(w) \/ load(w) \/ short(w) \/ residual(w) \/ insufficient(w) \/ gate(w)
    \/ claim(w) \/ activate(w) \/ publish(w)

\* A job raises, or its process is killed.  RQ puts a job that raised into its
\* scheduled registry, to be retried after a delay; the workers run with
\* with_scheduler=False, so nothing ever takes it from there.
fail(w) ==
    /\ Running(w) /\ faults < MaxFaults
    /\ faults' = faults + 1
    /\ Done(w)
    /\ UNCHANGED <<database, webhook, queue, channel, bot, ledger, credit>>

-----------------------------------------------------------------------------
(* The listener in the bot process.                                        *)

Handled == listening /\ channel # <<>> /\ channel' = Tail(channel)

\* The warning goes, the pending join request is approved if there still is one.
_handle_approve_and_welcome ==
    LET s == SubOf(Head(channel).tx) IN
    /\ Handled /\ Head(channel).kind = "approve_and_welcome"
    /\ IF s \in registered
       THEN /\ warned' = warned \ {s}
            /\ door' = [door EXCEPT ![s] = IF @ = "asking" THEN "in" ELSE @]
       ELSE UNCHANGED <<warned, door>>
    /\ UNCHANGED <<database, webhook, queue, worker, listening, ledger,
                   faults, credit>>

_handle_insufficient_payment ==
    /\ Handled /\ Head(channel).kind = "insufficient_payment"
    /\ warned' = warned \cup {SubOf(Head(channel).tx)}
    /\ UNCHANGED <<database, webhook, queue, worker, listening, door, ledger,
                   faults, credit>>

Listener == _handle_approve_and_welcome \/ _handle_insufficient_payment

start_bot_listener ==
    /\ ~listening /\ listening' = TRUE
    /\ UNCHANGED <<database, webhook, redis, worker, warned, door, ledger, faults, credit>>

\* The bot goes down: subscription, messages under way and bot_data are lost.
stop_bot ==
    /\ listening /\ faults < MaxFaults
    /\ faults' = faults + 1
    /\ listening' = FALSE /\ channel' = <<>> /\ warned' = {}
    /\ UNCHANGED <<database, webhook, queue, worker, door, ledger, credit>>

-----------------------------------------------------------------------------
(* The rest of the program.                                                *)

Elsewhere(s, r) ==
    /\ sub' = [sub EXCEPT ![s] = r]
    /\ UNCHANGED <<processed, paused, webhook, redis, worker, listening, warned,
                   ledger, faults, credit>>

\* expire_and_kick, and the kick that follows.
expire_and_kick(s) ==
    /\ "expire" \in Outside /\ sub[s].status \in {"pending", "active"}
    /\ Elsewhere(s, [sub[s] EXCEPT !.status = "expired"])
    /\ door' = [door EXCEPT ![s] = "out"]
    /\ UNCHANGED registered

stale_pending_cleanup_job(s) ==
    /\ "cleanup" \in Outside /\ sub[s].status = "pending"
    /\ Elsewhere(s, Row("deleted"))
    /\ registered' = registered \ {s}
    /\ UNCHANGED door

set_payments_paused ==
    /\ "pause" \in Outside
    /\ paused' = ~paused
    /\ UNCHANGED <<sub, registered, processed, webhook, redis, worker, bot, ledger,
                   faults, credit>>

\* Full records of rows that are pending now become partial; on PostgreSQL the
\* connection is used outside its context and the error swallowed.
migrate ==
    processed' = IF USE_POSTGRES THEN processed ELSE [t \in Tx |->
        IF is_tx_processed(t) /\ sub[SubOf(t)].status = "pending"
        THEN "partial" ELSE processed[t]]

\* The webhook server starts: migration, then cursors at zero for every address
\* registered by now.
create_app ==
    /\ faults < MaxFaults /\ faults' = faults + 1
    /\ migrate
    /\ polled' = registered /\ passed' = {}
    /\ UNCHANGED <<sub, registered, paused, redis, worker, bot, ledger, credit>>

-----------------------------------------------------------------------------
Init ==
    /\ sub = [s \in Sub |-> Row("none")]
    /\ registered = {} /\ polled = {} /\ passed = {}
    /\ processed = [t \in Tx |-> "none"]
    /\ paused = FALSE
    /\ queue = [t \in Tx |-> 0] /\ channel = <<>>
    /\ worker = [w \in Worker |-> Idle]
    /\ listening = TRUE /\ warned = {}
    /\ door = [s \in Sub |-> "out"]
    /\ linked = {} /\ chain = [t \in Tx |-> Unpaid]
    /\ faults = 0
    /\ credit = [t \in Tx |-> 0]

Member ==
    \E s \in Sub : \/ create_subscription(s) \/ generate_payment_request(s)
                   \/ half_hour_passes(s)
                   \/ \E t \in Tx : \E a \in Amount[t] : Pay(t, s, a)

Producer ==
    \/ \E t \in Tx : \/ handle_webhook(t) \/ poll_vaults(t)
                    \/ recheck_by_tx_hash(t) \/ handle_recheck(t)
    \/ \E s \in Sub : poll_once(s) \/ recheck_by_subscription(s)

Work == \E w \in Worker : Step(w) \/ \E t \in Tx : take(w, t)

Others ==
    \/ \E s \in Sub : expire_and_kick(s) \/ stale_pending_cleanup_job(s)
    \/ set_payments_paused \/ start_bot_listener

Fault == create_app \/ stop_bot \/ \E w \in Worker : fail(w)

Next == Member \/ Producer \/ Work \/ Listener \/ Others \/ Fault

Spec == Init /\ [][Next]_vars

\* Workers run what they have taken, the queue is first in first out (a job in it
\* is taken in the end), the listener goes on, and so do the watcher's rounds, for the
\* vaults its query returns.
WorkerFairness(w) == WF_vars(Step(w))
TxFairness(t) == SF_vars(\E w \in Worker : take(w, t)) /\ WF_vars(poll_vaults(t))
Fairness ==
    /\ \A w \in Worker : WorkerFairness(w)
    /\ \A t \in Tx : TxFairness(t)
    /\ WF_vars(Listener)

FairSpec == Spec /\ Fairness

-----------------------------------------------------------------------------
(* Properties.                                                             *)

Rows == [status : {"none", "pending", "active", "expired", "deleted"},
         required : {0, Stored}, periods : Nat, recent : BOOLEAN]
Actions == [kind : {"approve_and_welcome", "insufficient_payment"}, tx : Tx]
Jobs == [pc : Pcs, tx : Tx \cup {NoTx}, renewal : BOOLEAN]
Transactions == [sub : Sub, value : Nat]

\* What runs, waits or is recorded is about a transaction on a vault.
Grounded ==
    /\ \A w \in Worker : Running(w) => worker[w].tx \in Tx /\ Paid(worker[w].tx)
    /\ \A t \in Tx : queue[t] > 0 \/ processed[t] # "none" => Paid(t)

\* Every variable keeps its shape, and jobs, copies and records are grounded.
TypeOK ==
    /\ sub \in [Sub -> Rows]
    /\ registered \subseteq Sub /\ polled \subseteq Sub /\ linked \subseteq Sub
    /\ processed \in [Tx -> {"none", "partial", "full"}]
    /\ paused \in BOOLEAN /\ listening \in BOOLEAN
    /\ passed \subseteq Tx /\ warned \subseteq Sub
    /\ queue \in [Tx -> 0..MaxCopies]
    /\ channel \in Seq(Actions)
    /\ worker \in [Worker -> Jobs]
    /\ door \in [Sub -> {"out", "asking", "in"}]
    /\ chain \in [Tx -> Transactions]
    /\ faults \in 0..MaxFaults /\ credit \in [Tx -> Nat]
    /\ Grounded

\* A transaction buys at most one activation and only after its claim, however many
\* copies of its job the pollers, pushes and rechecks put into the queue.
CreditOnce == \A t \in Tx : credit[t] <= (IF processed[t] = "none" THEN 0 ELSE 1)

\* Nobody is let in by the listener without a payment of his own that reached the
\* price at some rate and is used up: a copied, delayed or reordered action can admit
\* a member late, even one whose row ended before it was activated and who asked
\* again, but not one who has not paid, nor two with one payment.
AdmittedHasPaid ==
    \A s \in Sub : door[s] = "in" =>
        \E t \in Tx : /\ Paid(t) /\ SubOf(t) = s /\ processed[t] # "none"
                      /\ \E d \in Derived : chain[t].value >= d

\* A row that has expired is not revived by a job still in flight.
EndedStaysEnded ==
    [][\A s \in Sub : sub[s].status = "expired" => sub'[s].status # "active"]_vars

\* A payment that covers the stored amount and the price at every rate is credited in
\* the end although a worker may forget any number of copies of its job, unless a
\* job that claimed it failed before activating, payments are paused, or the row is
\* not one the watcher polls: half an hour after the join request it is not, and on
\* SQLite it never is.
Covers(t) == chain[t].value >= Stored /\ \A d \in Derived : chain[t].value >= d
Holds(w) == worker[w].pc = "activate"
Lost(t) == /\ processed[t] # "none" /\ credit[t] = 0
           /\ ~\E w \in Worker : Holds(w) /\ worker[w].tx = t
CoveredIsCredited ==
    \A t \in Tx : (Paid(t) /\ Covers(t)) ~>
        \/ credit[t] > 0 \/ Lost(t) \/ paused
        \/ SubOf(t) \notin registered \cap get_vaults_to_watch

\* The first payment's welcome reaches the member who asked to join, unless something
\* failed on the way: an action published once is never repeated.
WelcomeArrives ==
    \A s \in Sub :
        (sub[s].status = "active" /\ door[s] = "asking") ~>
            (door[s] = "in" \/ sub[s].status # "active" \/ faults > 0)

\* Both deployments keep one promise: each payment is open, held by one claimant,
\* spent on one cycle, or void.
Outcome(t) ==
    CASE processed[t] = "none" -> "open"
      [] processed[t] # "none" /\ credit[t] > 0 -> "spent"
      [] processed[t] # "none" /\ credit[t] = 0 -> IF Lost(t) THEN "void" ELSE "held"
standing == [s \in Sub |-> sub[s].status]
cycles == [s \in Sub |-> sub[s].periods]
entry == [t \in Tx |-> Outcome(t)]
Ledger == INSTANCE PaymentLedger
LedgerSpec == Ledger!Spec
=============================================================================
