------------------------ MODULE PaymentWorkerProofs ------------------------
(***************************************************************************)
(* Theorems about the pipeline of the deployment in several processes, for *)
(* any number of rows, transactions, workers and queued copies of a job.   *)
(***************************************************************************)
EXTENDS PaymentWorker, SequenceTheorems, TLAPS

-----------------------------------------------------------------------------
(* What the ways of moving a worker on do to the workers.                  *)

LEMMA IdleType == Idle \in Jobs
  BY DEF Idle, Jobs, Pcs

LEMMA GotoEffect ==
  ASSUME worker \in [Worker -> Jobs], NEW w \in Worker, NEW pc \in Pcs, Goto(w, pc)
  PROVE  /\ worker' \in [Worker -> Jobs]
         /\ worker'[w].pc = pc
         /\ worker'[w].tx = worker[w].tx
         /\ \A i \in Worker : i # w => worker'[i] = worker[i]
  <1>1. worker' = [worker EXCEPT ![w] = [worker[w] EXCEPT !.pc = pc]]  BY DEF Goto
  <1>2. worker[w] \in Jobs  OBVIOUS
  <1>3. [worker[w] EXCEPT !.pc = pc] \in Jobs  BY <1>2 DEF Jobs
  <1> QED  BY <1>1, <1>2, <1>3 DEF Jobs

LEMMA DoneEffect ==
  ASSUME worker \in [Worker -> Jobs], NEW w \in Worker, Done(w)
  PROVE  /\ worker' \in [Worker -> Jobs]
         /\ worker'[w].pc = "idle"
         /\ \A i \in Worker : i # w => worker'[i] = worker[i]
  BY IdleType DEF Done, Idle

LEMMA TakeEffect ==
  ASSUME worker \in [Worker -> Jobs], NEW w \in Worker, NEW t \in Tx,
         worker' = [worker EXCEPT ![w] = [Idle EXCEPT !.pc = "precheck", !.tx = t]]
  PROVE  /\ worker' \in [Worker -> Jobs]
         /\ worker'[w].pc = "precheck"
         /\ worker'[w].tx = t
         /\ \A i \in Worker : i # w => worker'[i] = worker[i]
  <1> DEFINE r == [Idle EXCEPT !.pc = "precheck", !.tx = t]
  <1>1. r \in Jobs /\ r.pc = "precheck" /\ r.tx = t  BY DEF Idle, Jobs, Pcs
  <1>2. worker' = [worker EXCEPT ![w] = r]  OBVIOUS
  <1> HIDE DEF r
  <1> QED  BY <1>1, <1>2

\* The amount check: a job goes on to the gate only if its transaction reaches
\* the price at one of the rates.
Reached(t) == Paid(t) /\ \E d \in Derived : chain[t].value >= d

LEMMA LoadEffect ==
  ASSUME TypeOK, NEW w \in Worker, load(w)
  PROVE  /\ worker' \in [Worker -> Jobs]
         /\ worker'[w].pc \in {"idle", "short", "gate"}
         /\ worker'[w].pc # "idle" => worker'[w].tx = worker[w].tx
         /\ worker'[w].pc = "gate" => Reached(worker[w].tx)
         /\ \A i \in Worker : i # w => worker'[i] = worker[i]
  <1> DEFINE t == worker[w].tx
             r == sub[SubOf(t)]
  <1>1. /\ worker \in [Worker -> Jobs] /\ worker[w] \in Jobs
        /\ t \in Tx /\ Paid(t) /\ chain[t] \in Transactions
        /\ r.required \in {0, Stored}
    BY DEF load, at, TypeOK, Grounded, Running, SubOf, Rows, Transactions
  <1>2. CASE Done(w)
    BY <1>1, <1>2, DoneEffect
  <1>3. CASE ~Done(w)
    <2>1. PICK required \in required_amounts(r.required, chain[t].value) :
            worker' = [worker EXCEPT
              ![w].pc = IF chain[t].value < required THEN "short" ELSE "gate",
              ![w].renewal = (r.status = "active")]
      BY <1>3 DEF load
    <2> DEFINE pc == IF chain[t].value < required THEN "short" ELSE "gate"
               renewal == r.status = "active"
    <2>2. worker' = [worker EXCEPT ![w] = [worker[w] EXCEPT !.pc = pc, !.renewal = renewal]]
      BY <2>1
    <2>3. pc \in {"short", "gate"} /\ renewal \in BOOLEAN  OBVIOUS
    <2>4. pc = "gate" => Reached(t)
      <3>1. required \in Nat
        BY <1>1, <2>1, WorkerAssumption DEF required_amounts
      <3>2. pc = "gate" => chain[t].value >= required
        BY <1>1, <3>1 DEF Transactions
      <3>3. pc = "gate" => required \in Derived
        BY <1>1, <2>1, <3>1, <3>2 DEF required_amounts
      <3> QED  BY <1>1, <3>2, <3>3 DEF Reached
    <2> HIDE DEF pc, renewal
    <2>5. [worker[w] EXCEPT !.pc = pc, !.renewal = renewal] \in Jobs
      BY <1>1, <2>3 DEF Jobs, Pcs
    <2> QED  BY <1>1, <2>2, <2>3, <2>4, <2>5 DEF Jobs
  <1> QED  BY <1>2, <1>3

-----------------------------------------------------------------------------
(* TypeOK.                                                                 *)

LEMMA TypeInit == Init => TypeOK
  <1> SUFFICES ASSUME Init PROVE TypeOK  OBVIOUS
  <1>1. worker \in [Worker -> Jobs] /\ \A w \in Worker : ~Running(w)
    BY IdleType DEF Init, Running, Idle
  <1>2. chain \in [Tx -> Transactions]
    BY WorkerAssumption DEF Init, Unpaid, Transactions
  <1>3. channel \in Seq(Actions)
    BY DEF Init
  <1>4. sub \in [Sub -> Rows]
    BY DEF Init, Row, Rows
  <1>5. Grounded
    BY <1>1 DEF Init, Grounded
  <1>6. queue \in [Tx -> 0..MaxCopies] /\ faults \in 0..MaxFaults
    BY WorkerAssumption DEF Init
  <1>7. credit \in [Tx -> Nat]
    BY DEF Init
  <1> QED  BY <1>1, <1>2, <1>3, <1>4, <1>5, <1>6, <1>7 DEF Init, TypeOK

LEMMA TypeMember == TypeOK /\ Member => TypeOK'
  <1> SUFFICES ASSUME TypeOK, NEW s \in Sub,
                      \/ create_subscription(s)
                      \/ generate_payment_request(s)
                      \/ half_hour_passes(s)
                      \/ \E t \in Tx : \E a \in Amount[t] : Pay(t, s, a)
               PROVE  TypeOK'
    BY DEF Member
  <1>1. CASE create_subscription(s)
    <2>1. sub' \in [Sub -> Rows] /\ door' \in [Sub -> {"out", "asking", "in"}]
      BY <1>1 DEF create_subscription, TypeOK, Row, Rows
    <2> QED
      BY <1>1, <2>1 DEF create_subscription, TypeOK, Grounded, webhook, redis, ledger,
                        Running, Paid
  <1>2. CASE generate_payment_request(s)
    <2>1. [sub[s] EXCEPT !.required = Stored] \in Rows
      BY DEF TypeOK, Rows
    <2>2. sub' \in [Sub -> Rows]
      BY <1>2, <2>1 DEF generate_payment_request, TypeOK
    <2>3. registered' \subseteq Sub /\ linked' \subseteq Sub /\ faults' \in 0..MaxFaults
      BY <1>2, WorkerAssumption DEF generate_payment_request, TypeOK
    <2> QED
      BY <1>2, <2>2, <2>3
      DEF generate_payment_request, TypeOK, Grounded, webhook, redis, bot, Running, Paid
  <1>3. ASSUME NEW t \in Tx, NEW a \in Amount[t], Pay(t, s, a) PROVE TypeOK'
    <2>1. a \in Nat /\ a > 0  BY WorkerAssumption
    <2>2. chain' = [chain EXCEPT ![t] = [sub |-> s, value |-> a]]  BY <1>3 DEF Pay
    <2>3. chain' \in [Tx -> Transactions]
      BY <2>1, <2>2 DEF TypeOK, Transactions
    <2>4. \A u \in Tx : Paid(u) => Paid(u)'
      BY <2>1, <2>2 DEF TypeOK, Paid
    <2> QED
      BY <1>3, <2>3, <2>4 DEF Pay, TypeOK, Grounded, database, webhook, redis, bot, Running
  <1>4. CASE half_hour_passes(s)
    <2>1. [sub[s] EXCEPT !.recent = FALSE] \in Rows
      BY DEF TypeOK, Rows
    <2>2. sub' = [sub EXCEPT ![s] = [sub[s] EXCEPT !.recent = FALSE]]
      BY <1>4 DEF half_hour_passes
    <2>3. sub' \in [Sub -> Rows]
      BY <2>1, <2>2 DEF TypeOK
    <2> QED
      BY <1>4, <2>3
      DEF half_hour_passes, TypeOK, Grounded, webhook, redis, bot, ledger, Running, Paid
  <1> QED  BY <1>1, <1>2, <1>3, <1>4

LEMMA TypeProducer == TypeOK /\ Producer => TypeOK'
  <1> SUFFICES ASSUME TypeOK, Producer PROVE TypeOK'  OBVIOUS
  <1>1. PICK T \in SUBSET Tx :
          /\ enqueue(T) /\ polled' = polled /\ passed' \subseteq Tx
          /\ \A t \in T : Paid(t)
    <2>1. CASE \E t \in Tx : \/ handle_webhook(t) \/ poll_vaults(t)
                            \/ recheck_by_tx_hash(t) \/ handle_recheck(t)
      <3>1. PICK t \in Tx : Paid(t) /\ enqueue({t}) /\ UNCHANGED webhook
        BY <2>1 DEF handle_webhook, poll_vaults, recheck_by_tx_hash, handle_recheck
      <3>2. {t} \in SUBSET Tx /\ polled' = polled /\ passed' \subseteq Tx
        BY <3>1 DEF webhook, TypeOK
      <3> QED  BY <3>1, <3>2
    <2>2. ASSUME NEW s \in Sub, poll_once(s)
          PROVE  \E T \in SUBSET Tx :
                   /\ enqueue(T) /\ polled' = polled /\ passed' \subseteq Tx
                   /\ \A t \in T : Paid(t)
      <3> DEFINE new == {t \in Tx \ passed : Paid(t) /\ SubOf(t) = s}
      <3>1. enqueue(new) /\ polled' = polled /\ passed' = passed \cup new
        BY <2>2 DEF poll_once
      <3>2. new \in SUBSET Tx /\ \A t \in new : Paid(t)  OBVIOUS
      <3> HIDE DEF new
      <3> QED  BY <3>1, <3>2 DEF TypeOK
    <2>3. ASSUME NEW s \in Sub, recheck_by_subscription(s)
          PROVE  \E T \in SUBSET Tx :
                   /\ enqueue(T) /\ polled' = polled /\ passed' \subseteq Tx
                   /\ \A t \in T : Paid(t)
      <3> DEFINE new == {t \in Tx : Paid(t) /\ SubOf(t) = s /\ ~is_tx_processed(t)}
      <3>1. enqueue(new) /\ polled' = polled /\ passed' = passed
        BY <2>3 DEF recheck_by_subscription, webhook
      <3>2. new \in SUBSET Tx /\ \A t \in new : Paid(t)  OBVIOUS
      <3> HIDE DEF new
      <3> QED  BY <3>1, <3>2 DEF TypeOK
    <2> QED  BY <2>1, <2>2, <2>3 DEF Producer
  <1>2. queue' \in [Tx -> 0..MaxCopies]
    BY <1>1, WorkerAssumption DEF enqueue, TypeOK
  <1>3. \A t \in Tx : queue'[t] > 0 => Paid(t)
    BY <1>1 DEF enqueue, TypeOK, Grounded
  <1> QED
    BY <1>1, <1>2, <1>3 DEF enqueue, TypeOK, Grounded, database, bot, ledger, Running,
                            Paid

\* A step of one worker that leaves everything but the workers alone.
LEMMA TypeReads ==
  ASSUME TypeOK, Reads, NEW w \in Worker, Running(w),
         worker' \in [Worker -> Jobs],
         worker'[w].pc # "idle" => worker'[w].tx = worker[w].tx,
         \A i \in Worker : i # w => worker'[i] = worker[i]
  PROVE  TypeOK'
  BY DEF Reads, TypeOK, Grounded, database, webhook, redis, bot, ledger, Running, Paid

LEMMA PublishType ==
  ASSUME TypeOK, NEW kind \in {"approve_and_welcome", "insufficient_payment"},
         NEW t \in Tx, _publish_bot_action(kind, t)
  PROVE  channel' \in Seq(Actions)
  <1>1. Action(kind, t) \in Actions  BY DEF Action, Actions
  <1>2. channel \in Seq(Actions)  BY DEF TypeOK
  <1>3. Append(channel, Action(kind, t)) \in Seq(Actions)
    BY <1>1, <1>2, AppendProperties
  <1> QED  BY <1>2, <1>3 DEF _publish_bot_action

LEMMA TypeStep == ASSUME TypeOK, NEW w \in Worker, Step(w) PROVE TypeOK'
  <1> DEFINE t == worker[w].tx
  <1>1. Running(w)
    BY DEF Step, precheck, load, short, residual, insufficient, gate, claim, activate,
           publish, at, Running
  <1>2. /\ worker \in [Worker -> Jobs] /\ t \in Tx /\ Paid(t) /\ SubOf(t) \in Sub
        /\ sub[SubOf(t)].periods \in Nat
    BY <1>1 DEF TypeOK, Grounded, SubOf, Rows, Transactions
  <1>3. CASE load(w)
    BY <1>1, <1>3, LoadEffect, TypeReads DEF load
  <1>4. CASE precheck(w) \/ short(w) \/ gate(w)
    <2>1. Done(w) \/ \E pc \in Pcs : Goto(w, pc)
      BY <1>4 DEF precheck, short, gate, Pcs
    <2>2. Reads  BY <1>4 DEF precheck, short, gate
    <2> QED  BY <1>1, <1>2, <2>1, <2>2, DoneEffect, GotoEffect, TypeReads
  <1>5. CASE residual(w) \/ claim(w)
    <2>1. Done(w) \/ Goto(w, "activate")  BY <1>5 DEF residual, claim
    <2>2. /\ processed' \in [Tx -> {"none", "partial", "full"}]
          /\ \A u \in Tx : processed'[u] # "none" => processed[u] # "none" \/ u = t
          /\ UNCHANGED <<sub, registered, paused>>
      BY <1>5 DEF residual, claim, mark_tx_processed, TypeOK
    <2>3. /\ worker' \in [Worker -> Jobs]
          /\ worker'[w].pc # "idle" => worker'[w].tx = t
          /\ \A i \in Worker : i # w => worker'[i] = worker[i]
      BY <1>2, <2>1, DoneEffect, GotoEffect DEF Pcs
    <2>4. UNCHANGED <<webhook, redis, bot, ledger, faults, credit>>
      BY <1>5 DEF residual, claim
    <2> QED
      BY <1>2, <2>2, <2>3, <2>4
      DEF TypeOK, Grounded, webhook, redis, bot, ledger, Running, Paid
  <1>6. CASE insufficient(w) \/ publish(w)
    <2>1. Done(w)  BY <1>6 DEF insufficient, publish
    <2>2. channel' \in Seq(Actions)
      BY <1>2, <1>6, PublishType DEF insufficient, publish, TypeOK
    <2>3. /\ worker' \in [Worker -> Jobs] /\ worker'[w].pc = "idle"
          /\ \A i \in Worker : i # w => worker'[i] = worker[i]
      BY <1>2, <2>1, DoneEffect
    <2>4. UNCHANGED <<database, webhook, queue, bot, ledger, faults, credit>>
      BY <1>6 DEF insufficient, publish
    <2> QED
      BY <2>2, <2>3, <2>4
      DEF TypeOK, Grounded, database, webhook, bot, ledger, Running, Paid
  <1>7. CASE activate(w)
    <2>1. Goto(w, "publish") /\ "publish" \in Pcs  BY <1>7 DEF activate, Pcs
    <2>2. /\ worker' \in [Worker -> Jobs] /\ worker'[w].tx = t
          /\ \A i \in Worker : i # w => worker'[i] = worker[i]
      BY <1>2, <2>1, GotoEffect
    <2> DEFINE s == SubOf(t)
               n == sub[s].periods + 1
    <2>3. /\ credit' \in [Tx -> Nat]
          /\ sub' \in [Sub -> Rows]
      <3>1. CASE UNCHANGED <<sub, credit>>  BY <3>1 DEF TypeOK
      <3>2. CASE ~UNCHANGED <<sub, credit>>
        <4>1. /\ sub' = [sub EXCEPT ![s] = [sub[s] EXCEPT !.status = "active", !.periods = n,
                                                          !.recent = TRUE]]
              /\ credit' = [credit EXCEPT ![t] = @ + 1]
          BY <1>7, <3>2 DEF activate, activate_subscription
        <4>2. n \in Nat  BY <1>2
        <4> HIDE DEF n
        <4>3. [sub[s] EXCEPT !.status = "active", !.periods = n, !.recent = TRUE] \in Rows
          <5>1. sub[s] \in Rows  BY <1>2 DEF TypeOK
          <5> QED  BY ONLY <4>2, <5>1 DEF Rows
        <4>4. credit' \in [Tx -> Nat]  BY <1>2, <4>1 DEF TypeOK
        <4> QED  BY <1>2, <4>1, <4>3, <4>4 DEF TypeOK
      <3> QED  BY <3>1, <3>2
    <2>4. UNCHANGED <<registered, processed, paused, webhook, redis, bot, ledger, faults>>
      BY <1>7 DEF activate
    <2> QED
      BY <1>2, <2>2, <2>3, <2>4
      DEF TypeOK, Grounded, webhook, redis, bot, ledger, Running, Paid
  <1> QED  BY <1>3, <1>4, <1>5, <1>6, <1>7 DEF Step

LEMMA TypeTake == ASSUME TypeOK, NEW w \in Worker, NEW t \in Tx, take(w, t) PROVE TypeOK'
  <1>1. queue' \in [Tx -> 0..MaxCopies]
    BY WorkerAssumption DEF take, TypeOK
  <1>2. /\ worker' \in [Worker -> Jobs] /\ worker'[w].tx = t
        /\ \A i \in Worker : i # w => worker'[i] = worker[i]
    BY TakeEffect DEF take, TypeOK
  <1>3. Paid(t)  BY DEF take, TypeOK, Grounded
  <1> QED
    BY <1>1, <1>2, <1>3 DEF take, TypeOK, Grounded, database, webhook, bot, ledger, Running, Paid

LEMMA TypeListener == TypeOK /\ Listener => TypeOK'
  <1> SUFFICES ASSUME TypeOK, Listener PROVE TypeOK'  OBVIOUS
  <1>1. /\ Head(channel) \in Actions /\ channel' \in Seq(Actions)
    <2>1. channel \in Seq(Actions)  BY DEF TypeOK
    <2>2. channel # <<>> /\ channel' = Tail(channel)
      BY DEF Listener, _handle_approve_and_welcome, _handle_insufficient_payment, Handled
    <2> QED  BY ONLY <2>1, <2>2, HeadTailProperties
  <1>2. SubOf(Head(channel).tx) \in Sub
    BY <1>1 DEF Actions, SubOf, TypeOK, Transactions
  <1>3. warned' \subseteq Sub /\ door' \in [Sub -> {"out", "asking", "in"}]
    BY <1>2 DEF Listener, _handle_approve_and_welcome, _handle_insufficient_payment,
                TypeOK
  <1>4. UNCHANGED <<database, webhook, queue, worker, listening, ledger, faults, credit>>
    BY DEF Listener, _handle_approve_and_welcome, _handle_insufficient_payment
  <1> QED
    BY <1>1, <1>3, <1>4 DEF TypeOK, Grounded, database, webhook, ledger, Running, Paid

LEMMA TypeOthers == TypeOK /\ Others => TypeOK'
  <1> SUFFICES ASSUME TypeOK, Others PROVE TypeOK'  OBVIOUS
  <1>1. ASSUME NEW s \in Sub, expire_and_kick(s) \/ stale_pending_cleanup_job(s)
        PROVE  TypeOK'
    <2>1. [sub[s] EXCEPT !.status = "expired"] \in Rows /\ Row("deleted") \in Rows
      BY DEF TypeOK, Rows, Row
    <2>2. sub' \in [Sub -> Rows]
      BY <1>1, <2>1 DEF expire_and_kick, stale_pending_cleanup_job, Elsewhere, TypeOK
    <2>3. registered' \subseteq Sub /\ door' \in [Sub -> {"out", "asking", "in"}]
      BY <1>1 DEF expire_and_kick, stale_pending_cleanup_job, TypeOK
    <2>4. UNCHANGED <<processed, paused, webhook, redis, worker, listening, warned,
                      ledger, faults, credit>>
      BY <1>1 DEF expire_and_kick, stale_pending_cleanup_job, Elsewhere
    <2> QED
      BY <2>2, <2>3, <2>4 DEF TypeOK, Grounded, webhook, redis, ledger, Running, Paid
  <1>2. CASE set_payments_paused
    BY <1>2 DEF set_payments_paused, TypeOK, Grounded, webhook, redis, bot, ledger,
                Running, Paid
  <1>3. CASE start_bot_listener
    BY <1>3 DEF start_bot_listener, TypeOK, Grounded, database, webhook, redis, ledger,
                Running, Paid
  <1> QED  BY <1>1, <1>2, <1>3 DEF Others

LEMMA MigrateType ==
  ASSUME TypeOK, migrate
  PROVE  /\ processed' \in [Tx -> {"none", "partial", "full"}]
         /\ \A t \in Tx : processed'[t] = "none" <=> processed[t] = "none"
  BY DEF migrate, is_tx_processed, TypeOK

LEMMA TypeFault == TypeOK /\ Fault => TypeOK'
  <1> SUFFICES ASSUME TypeOK, Fault PROVE TypeOK'  OBVIOUS
  <1>1. ASSUME faults < MaxFaults, faults' = faults + 1 PROVE faults' \in 0..MaxFaults
    BY <1>1, WorkerAssumption DEF TypeOK
  <1>2. CASE create_app
    <2>1. /\ processed' \in [Tx -> {"none", "partial", "full"}]
          /\ \A t \in Tx : processed'[t] # "none" => processed[t] # "none"
      BY <1>2, MigrateType DEF create_app
    <2>2. faults' \in 0..MaxFaults  BY <1>1, <1>2 DEF create_app
    <2> QED
      BY <1>2, <2>1, <2>2 DEF create_app, TypeOK, Grounded, redis, bot, ledger, Running,
                              Paid
  <1>3. CASE stop_bot
    <2>1. faults' \in 0..MaxFaults  BY <1>1, <1>3 DEF stop_bot
    <2>2. channel' \in Seq(Actions)  BY <1>3 DEF stop_bot
    <2> QED
      BY <1>3, <2>1, <2>2 DEF stop_bot, TypeOK, Grounded, database, webhook, ledger,
                              Running, Paid
  <1>4. ASSUME NEW w \in Worker, fail(w) PROVE TypeOK'
    <2>1. faults' \in 0..MaxFaults  BY <1>1, <1>4 DEF fail
    <2>2. /\ worker' \in [Worker -> Jobs] /\ worker'[w].pc = "idle"
          /\ \A i \in Worker : i # w => worker'[i] = worker[i]
      BY <1>4, DoneEffect DEF fail, TypeOK
    <2> QED
      BY <1>4, <2>1, <2>2 DEF fail, TypeOK, Grounded, database, webhook, bot, ledger,
                              Running, Paid
  <1> QED  BY <1>2, <1>3, <1>4 DEF Fault

LEMMA TypeStutter == TypeOK /\ UNCHANGED vars => TypeOK'
  BY DEF vars, database, webhook, redis, bot, ledger, TypeOK, Grounded, Running, Paid

\* Every reachable state of the deployment in several processes is well formed: what
\* a worker runs, the queue holds or processed_tx_hashes records is about a
\* transaction that is on a vault.
THEOREM TypeCorrect == Spec => []TypeOK
  <1>1. TypeOK /\ [Next]_vars => TypeOK'
    BY TypeMember, TypeProducer, TypeStep, TypeTake, TypeListener, TypeOthers,
       TypeFault, TypeStutter DEF Next, Work
  <1> QED  BY TypeInit, <1>1, PTL DEF Spec

-----------------------------------------------------------------------------
(* A transaction is claimed once and credited once.                        *)

OneHolder ==
  /\ \A w \in Worker : Holds(w) => processed[worker[w].tx] # "none" /\ credit[worker[w].tx] = 0
  /\ \A v, w \in Worker : Holds(v) /\ Holds(w) /\ v # w => worker[v].tx # worker[w].tx

ClaimInv == TypeOK /\ CreditOnce /\ OneHolder

\* A step that makes no new holder, credits nothing and forgets no record.
NothingClaimed ==
  /\ UNCHANGED credit
  /\ \A t \in Tx : processed'[t] = "none" => processed[t] = "none"
  /\ \A w \in Worker : Holds(w)' => Holds(w) /\ worker'[w].tx = worker[w].tx

\* It keeps the claims as they are.
LEMMA ClaimKept ==
  ASSUME ClaimInv, NothingClaimed
  PROVE  CreditOnce' /\ OneHolder'
  <1> USE DEF NothingClaimed
  <1>1. CreditOnce'
    BY DEF ClaimInv, CreditOnce, TypeOK
  <1>2. \A w \in Worker : Holds(w) => /\ worker[w].tx \in Tx
                                      /\ processed[worker[w].tx] # "none"
                                      /\ credit[worker[w].tx] = 0
    BY DEF ClaimInv, OneHolder, TypeOK, Grounded, Running, Holds
  <1>3. \A w \in Worker : Holds(w)' => /\ processed'[worker'[w].tx] # "none"
                                       /\ credit'[worker'[w].tx] = 0
    BY <1>2
  <1>4. \A v, w \in Worker : Holds(v)' /\ Holds(w)' /\ v # w
                               => worker'[v].tx # worker'[w].tx
    BY DEF ClaimInv, OneHolder
  <1> QED  BY <1>1, <1>3, <1>4 DEF OneHolder

\* A job that takes a transaction nobody has recorded: the one way to a claim.
TakesClaim(w) == claim(w) /\ processed[worker[w].tx] = "none"

LEMMA UnclaimedStep ==
  ASSUME ClaimInv, NEW w \in Worker, Step(w), ~TakesClaim(w), ~activate(w)
  PROVE  NothingClaimed
  <1>1. worker \in [Worker -> Jobs] /\ processed \in [Tx -> {"none", "partial", "full"}]
    BY DEF ClaimInv, TypeOK
  <1>2. /\ worker'[w].pc # "activate"
        /\ \A i \in Worker : i # w => worker'[i] = worker[i]
    <2>1. CASE load(w)
      BY <2>1, LoadEffect DEF ClaimInv
    <2>2. CASE ~load(w)
      <3>1. \/ Done(w)
            \/ \E pc \in {"load", "short", "residual", "insufficient", "claim"} : Goto(w, pc)
        BY <2>2 DEF Step, precheck, short, residual, insufficient, gate, claim, publish,
                    TakesClaim
      <3> QED  BY <1>1, <3>1, DoneEffect, GotoEffect DEF Pcs
    <2> QED  BY <2>1, <2>2
  <1>3. UNCHANGED credit
    BY DEF Step, precheck, load, short, residual, insufficient, gate, claim, publish,
           Reads
  <1>4. \A t \in Tx : processed'[t] = "none" => processed[t] = "none"
    BY <1>1 DEF Step, precheck, load, short, residual, insufficient, gate, claim,
                publish, Reads, mark_tx_processed, database
  <1> QED  BY <1>2, <1>3, <1>4 DEF NothingClaimed, Holds

\* What a claim does: one more holder, of a transaction nobody else holds.
LEMMA TakesClaimEffect ==
  ASSUME ClaimInv, NEW w \in Worker, TakesClaim(w)
  PROVE  LET t == worker[w].tx IN
         /\ t \in Tx /\ credit[t] = 0
         /\ UNCHANGED <<sub, credit>>
         /\ processed'[t] = "full"
         /\ \A u \in Tx : u # t => processed'[u] = processed[u]
         /\ ~Holds(w) /\ Holds(w)' /\ worker'[w].tx = t
         /\ \A i \in Worker : i # w => worker'[i] = worker[i]
         /\ \A i \in Worker : Holds(i) => worker[i].tx # t
  <1> DEFINE t == worker[w].tx
  <1>1. /\ worker \in [Worker -> Jobs] /\ t \in Tx
        /\ processed \in [Tx -> {"none", "partial", "full"}] /\ credit \in [Tx -> Nat]
    BY DEF TakesClaim, claim, at, Running, ClaimInv, TypeOK, Grounded
  <1>2. credit[t] = 0
    BY <1>1 DEF TakesClaim, ClaimInv, CreditOnce
  <1>3. UNCHANGED <<sub, credit>>
    BY DEF TakesClaim, claim, mark_tx_processed
  <1>4. processed'[t] = "full" /\ \A u \in Tx : u # t => processed'[u] = processed[u]
    BY <1>1 DEF TakesClaim, claim, mark_tx_processed
  <1>5. Goto(w, "activate") /\ "activate" \in Pcs /\ ~Holds(w)
    BY DEF TakesClaim, claim, Pcs, at, Holds
  <1>6. /\ worker'[w].pc = "activate" /\ worker'[w].tx = t
        /\ \A i \in Worker : i # w => worker'[i] = worker[i]
    BY <1>1, <1>5, GotoEffect
  <1>7. \A i \in Worker : Holds(i) => worker[i].tx # t
    BY DEF TakesClaim, ClaimInv, OneHolder
  <1> QED  BY <1>1, <1>2, <1>3, <1>4, <1>5, <1>6, <1>7 DEF Holds

\* What an activation does: its worker's claim is over, nobody else holds the same.
LEMMA ActivateEffect ==
  ASSUME ClaimInv, NEW w \in Worker, activate(w)
  PROVE  LET t == worker[w].tx IN
         /\ t \in Tx /\ Paid(t) /\ processed[t] # "none" /\ credit[t] = 0
         /\ UNCHANGED processed
         /\ credit'[t] \in {0, 1}
         /\ \A u \in Tx : u # t => credit'[u] = credit[u]
         /\ Holds(w) /\ ~Holds(w)' /\ worker'[w].pc = "publish" /\ worker'[w].tx = t
         /\ \A i \in Worker : i # w => worker'[i] = worker[i]
         /\ \A i \in Worker : Holds(i) /\ i # w => worker[i].tx # t
  <1> DEFINE t == worker[w].tx
  <1>1. /\ Holds(w) /\ t \in Tx /\ Paid(t)
        /\ worker \in [Worker -> Jobs] /\ credit \in [Tx -> Nat]
    BY DEF activate, at, Holds, Running, ClaimInv, TypeOK, Grounded
  <1>2. processed[t] # "none" /\ credit[t] = 0
    BY <1>1 DEF ClaimInv, OneHolder
  <1>3. UNCHANGED processed /\ Goto(w, "publish") /\ "publish" \in Pcs
    BY DEF activate, Pcs
  <1>4. /\ worker'[w].pc = "publish" /\ worker'[w].tx = t
        /\ \A i \in Worker : i # w => worker'[i] = worker[i]
    BY <1>1, <1>3, GotoEffect
  <1>5. credit'[t] \in {0, 1} /\ \A u \in Tx : u # t => credit'[u] = credit[u]
    BY <1>1, <1>2 DEF activate
  <1>6. \A i \in Worker : Holds(i) /\ i # w => worker[i].tx # t
    BY <1>1 DEF ClaimInv, OneHolder
  <1> QED  BY <1>1, <1>2, <1>3, <1>4, <1>5, <1>6 DEF Holds

LEMMA ClaimStep ==
  ASSUME ClaimInv, NEW w \in Worker, Step(w)
  PROVE  CreditOnce' /\ OneHolder'
  <1> DEFINE t == worker[w].tx
  <1>1. credit \in [Tx -> Nat]
    BY DEF ClaimInv, TypeOK
  <1>2. \A i \in Worker : Holds(i) => /\ worker[i].tx \in Tx
                                      /\ processed[worker[i].tx] # "none"
                                      /\ credit[worker[i].tx] = 0
    BY DEF ClaimInv, TypeOK, Grounded, Running, Holds, OneHolder
  <1>3. CASE ~TakesClaim(w) /\ ~activate(w)
    BY <1>3, UnclaimedStep, ClaimKept
  <1>4. CASE TakesClaim(w)
    <2>1. /\ UNCHANGED credit /\ t \in Tx /\ credit[t] = 0 /\ processed'[t] = "full"
          /\ \A u \in Tx : u # t => processed'[u] = processed[u]
          /\ worker'[w].tx = t
          /\ \A i \in Worker : i # w => worker'[i] = worker[i]
          /\ \A i \in Worker : Holds(i) => worker[i].tx # t
      BY <1>4, TakesClaimEffect
    <2>2. CreditOnce'
      BY <1>1, <2>1 DEF ClaimInv, CreditOnce
    <2>3. \A i \in Worker : i # w /\ Holds(i)' => Holds(i)
      BY <2>1 DEF Holds
    <2>4. \A i \in Worker : Holds(i)' => /\ processed'[worker'[i].tx] # "none"
                                         /\ credit'[worker'[i].tx] = 0
      BY <1>2, <2>1, <2>3
    <2>5. \A h, i \in Worker : Holds(h)' /\ Holds(i)' /\ h # i
                                 => worker'[h].tx # worker'[i].tx
      BY <2>1, <2>3 DEF ClaimInv, OneHolder
    <2> QED  BY <2>2, <2>4, <2>5 DEF OneHolder
  <1>5. CASE activate(w)
    <2>1. /\ UNCHANGED processed /\ processed[t] # "none" /\ credit'[t] \in {0, 1}
          /\ \A u \in Tx : u # t => credit'[u] = credit[u]
          /\ ~Holds(w)'
          /\ \A i \in Worker : i # w => worker'[i] = worker[i]
          /\ \A i \in Worker : Holds(i) /\ i # w => worker[i].tx # t
      BY <1>5, ActivateEffect
    <2>2. CreditOnce'
      BY <1>1, <2>1 DEF ClaimInv, CreditOnce
    <2>3. \A i \in Worker : Holds(i)' => i # w /\ Holds(i)
      BY <2>1 DEF Holds
    <2>4. \A i \in Worker : Holds(i)' => /\ processed'[worker'[i].tx] # "none"
                                         /\ credit'[worker'[i].tx] = 0
      BY <1>2, <2>1, <2>3
    <2>5. \A h, i \in Worker : Holds(h)' /\ Holds(i)' /\ h # i
                                 => worker'[h].tx # worker'[i].tx
      BY <2>1, <2>3 DEF ClaimInv, OneHolder
    <2> QED  BY <2>2, <2>4, <2>5 DEF OneHolder
  <1> QED  BY <1>3, <1>4, <1>5

\* Nobody but a worker's job claims.
LEMMA OthersTouchNoJob ==
  Member \/ Producer \/ Listener \/ Others \/ UNCHANGED vars
    => UNCHANGED <<processed, credit, worker>>
  <1>1. Member => UNCHANGED <<processed, credit, worker>>
    BY DEF Member, create_subscription, generate_payment_request, half_hour_passes, Pay, database
  <1>2. Producer => UNCHANGED <<processed, credit, worker>>
    BY DEF Producer, handle_webhook, poll_vaults, recheck_by_tx_hash, handle_recheck,
           poll_once, recheck_by_subscription, enqueue, database
  <1>3. Listener => UNCHANGED <<processed, credit, worker>>
    BY DEF Listener, _handle_approve_and_welcome, _handle_insufficient_payment, database
  <1>4. Others => UNCHANGED <<processed, credit, worker>>
    BY DEF Others, expire_and_kick, stale_pending_cleanup_job, Elsewhere,
           set_payments_paused, start_bot_listener, database
  <1> QED  BY <1>1, <1>2, <1>3, <1>4 DEF vars, database

LEMMA UnclaimedOthers ==
  Member \/ Producer \/ Listener \/ Others \/ UNCHANGED vars => NothingClaimed
  BY OthersTouchNoJob DEF Holds, NothingClaimed

LEMMA UnclaimedTake ==
  ASSUME ClaimInv, NEW w \in Worker, NEW t \in Tx, take(w, t)
  PROVE  NothingClaimed
  <1>1. /\ worker'[w].pc = "precheck"
        /\ \A i \in Worker : i # w => worker'[i] = worker[i]
    BY TakeEffect DEF take, ClaimInv, TypeOK
  <1>2. UNCHANGED <<processed, credit>>  BY DEF take, database
  <1> QED  BY <1>1, <1>2 DEF NothingClaimed, Holds

LEMMA UnclaimedFault == ASSUME ClaimInv, Fault PROVE NothingClaimed
  <1>1. CASE create_app
    BY <1>1, MigrateType DEF create_app, ClaimInv, NothingClaimed, Holds
  <1>2. CASE stop_bot
    BY <1>2 DEF stop_bot, database, NothingClaimed, Holds
  <1>3. ASSUME NEW w \in Worker, fail(w) PROVE NothingClaimed
    <2>1. /\ worker'[w].pc = "idle"
          /\ \A i \in Worker : i # w => worker'[i] = worker[i]
      BY <1>3, DoneEffect DEF fail, ClaimInv, TypeOK
    <2>2. UNCHANGED <<processed, credit>>  BY <1>3 DEF fail, database
    <2> QED  BY <2>1, <2>2 DEF NothingClaimed, Holds
  <1> QED  BY <1>1, <1>2, <1>3 DEF Fault

LEMMA ClaimInvariant == Spec => []ClaimInv
  <1>1. Init => ClaimInv
    <2>1. Init => CreditOnce /\ OneHolder
      BY DEF Init, CreditOnce, OneHolder, Holds, Idle
    <2> QED  BY <2>1, TypeInit DEF ClaimInv
  <1>2. ClaimInv /\ [Next]_vars => ClaimInv'
    <2> SUFFICES ASSUME ClaimInv, [Next]_vars PROVE ClaimInv'  OBVIOUS
    <2>1. TypeOK'
      BY TypeMember, TypeProducer, TypeStep, TypeTake, TypeListener, TypeOthers,
         TypeFault, TypeStutter DEF Next, Work, ClaimInv
    <2>2. CreditOnce' /\ OneHolder'
      BY ClaimStep, UnclaimedOthers, UnclaimedTake, UnclaimedFault, ClaimKept
      DEF Next, Work
    <2> QED  BY <2>1, <2>2 DEF ClaimInv
  <1> QED  BY <1>1, <1>2, PTL DEF Spec

\* However many copies of its job the pollers, pushes and rechecks queue and however
\* many workers run them at once, a transaction activates at most once: the INSERT of
\* mark_tx_processed lets one of them through.
THEOREM CreditedOnce == Spec => []CreditOnce
  <1>1. ClaimInv => CreditOnce  BY DEF ClaimInv
  <1> QED  BY <1>1, ClaimInvariant, PTL

-----------------------------------------------------------------------------
(* What a step may do to the rows.                                         *)

\* Apart from an activation, a step leaves a row's status and cycles alone, or opens
\* the row from zero, expires it, or deletes it while it is pending.
RowBecomes(s, status, periods) ==
  sub'[s].status = status /\ sub'[s].periods = periods
RowStep(s) ==
  \/ RowBecomes(s, sub[s].status, sub[s].periods)
  \/ sub[s].status \in {"none", "expired"} /\ RowBecomes(s, "pending", 0)
  \/ sub[s].status \in {"pending", "active"} /\ RowBecomes(s, "expired", sub[s].periods)
  \/ sub[s].status = "pending" /\ RowBecomes(s, "deleted", 0)

\* Only one row is touched in a step.
RowsStep ==
  \E s \in Sub :
    RowStep(s) /\ \A r \in Sub \ {s} : RowBecomes(r, sub[r].status, sub[r].periods)

LEMMA RowsKept == UNCHANGED sub => RowsStep
  BY WorkerAssumption DEF RowsStep, RowStep, RowBecomes

LEMMA RowsMoved ==
  ASSUME TypeOK, Next, \A w \in Worker : ~activate(w)
  PROVE  RowsStep
  <1>1. sub \in [Sub -> Rows]  BY DEF TypeOK
  <1>2. CASE UNCHANGED sub
    BY <1>2, RowsKept
  <1>3. ASSUME NEW s \in Sub, create_subscription(s) PROVE RowsStep
    BY <1>1, <1>3 DEF create_subscription, RowsStep, RowStep, RowBecomes,
                      Row
  <1>4. ASSUME NEW s \in Sub, generate_payment_request(s) PROVE RowsStep
    BY <1>1, <1>4 DEF generate_payment_request, RowsStep, RowStep,
                      RowBecomes, Rows
  <1>5. ASSUME NEW s \in Sub, half_hour_passes(s) PROVE RowsStep
    BY <1>1, <1>5 DEF half_hour_passes, RowsStep, RowStep, RowBecomes, Rows
  <1>6. ASSUME NEW s \in Sub, expire_and_kick(s) \/ stale_pending_cleanup_job(s)
        PROVE  RowsStep
    BY <1>1, <1>6 DEF expire_and_kick, stale_pending_cleanup_job, Elsewhere, RowsStep,
                      RowStep, RowBecomes, Row, Rows
  <1>7. CASE Member
    BY <1>2, <1>3, <1>4, <1>5, <1>7 DEF Member, Pay, database
  <1>8. CASE Producer
    BY <1>2, <1>8 DEF Producer, handle_webhook, poll_vaults, recheck_by_tx_hash,
                      handle_recheck, poll_once, recheck_by_subscription, enqueue, database
  <1>9. CASE Work
    BY <1>2, <1>9 DEF Work, Step, precheck, load, short, residual, insufficient, gate,
                      claim, publish, take, Reads, mark_tx_processed, database
  <1>10. CASE Listener
    BY <1>2, <1>10 DEF Listener, _handle_approve_and_welcome,
                      _handle_insufficient_payment, database
  <1>11. CASE Others
    BY <1>2, <1>6, <1>11 DEF Others, set_payments_paused, start_bot_listener, database
  <1>12. CASE Fault
    BY <1>2, <1>12 DEF Fault, create_app, stop_bot, fail, database
  <1> QED  BY <1>7, <1>8, <1>9, <1>10, <1>11, <1>12 DEF Next

\* An expired member is never turned active by a job still in the queue or in a
\* worker: the UPDATE of activate_subscription asks for a pending or active row.
THEOREM NoRevival == Spec => EndedStaysEnded
  <1>1. ASSUME TypeOK, Next, NEW s \in Sub, sub[s].status = "expired"
        PROVE  sub'[s].status # "active"
    <2>1. sub \in [Sub -> Rows]  BY <1>1 DEF TypeOK
    <2>2. ASSUME NEW w \in Worker, activate(w) PROVE sub'[s].status # "active"
      BY <1>1, <2>1, <2>2 DEF activate, activate_subscription
    <2>3. CASE \A w \in Worker : ~activate(w)
      BY <1>1, <2>1, <2>3, RowsMoved DEF RowsStep, RowStep, RowBecomes
    <2> QED  BY <2>2, <2>3
  <1>2. TypeOK /\ [Next]_vars =>
          [\A s \in Sub : sub[s].status = "expired" => sub'[s].status # "active"]_vars
    BY <1>1
  <1> QED  BY <1>2, TypeCorrect, PTL DEF Spec, EndedStaysEnded

-----------------------------------------------------------------------------
(* Who is let in has paid.  Settled transactions have reached the price at *)
(* some rate and are on record; the welcome of every settled one follows   *)
(* its claim, through the worker and the channel to the door.              *)

Settled(t) == t \in Tx /\ Reached(t) /\ processed[t] # "none"

CheckedInv ==
  \A w \in Worker :
    /\ worker[w].pc \in {"gate", "claim", "activate", "publish"} => Reached(worker[w].tx)
    /\ worker[w].pc = "publish" => processed[worker[w].tx] # "none"

Sendable == {a \in Actions : a.kind = "approve_and_welcome" => Settled(a.tx)}
WelcomeInv == channel \in Seq(Sendable)

PaidInv == ClaimInv /\ CheckedInv /\ WelcomeInv /\ AdmittedHasPaid

\* What is on a vault stays there.
LEMMA ChainFixed ==
  ASSUME TypeOK, [Next]_vars, NEW t \in Tx, Paid(t)
  PROVE  chain'[t] = chain[t]
  <1>1. CASE Member
    BY <1>1 DEF Member, create_subscription, generate_payment_request, half_hour_passes, Pay,
                TypeOK, ledger
  <1>2. CASE Producer
    BY <1>2 DEF Producer, handle_webhook, poll_vaults, recheck_by_tx_hash,
                handle_recheck, poll_once, recheck_by_subscription, enqueue, ledger
  <1>3. CASE Work
    BY <1>3 DEF Work, Step, precheck, load, short, residual, insufficient, gate, claim,
                activate, publish, take, Reads, ledger
  <1>4. CASE Listener
    BY <1>4 DEF Listener, _handle_approve_and_welcome, _handle_insufficient_payment,
                ledger
  <1>5. CASE Others \/ Fault
    BY <1>5 DEF Others, expire_and_kick, stale_pending_cleanup_job, Elsewhere,
                set_payments_paused, start_bot_listener, Fault, create_app, stop_bot,
                fail, ledger
  <1>6. CASE UNCHANGED vars
    BY <1>6 DEF vars, ledger
  <1> QED  BY <1>1, <1>2, <1>3, <1>4, <1>5, <1>6 DEF Next

LEMMA RecordKept ==
  ASSUME ClaimInv, [Next]_vars, NEW t \in Tx, processed[t] # "none"
  PROVE  processed'[t] # "none"
  <1>1. CASE NothingClaimed
    BY <1>1 DEF NothingClaimed
  <1>2. ASSUME NEW w \in Worker, Step(w) PROVE processed'[t] # "none"
    BY <1>1, <1>2, UnclaimedStep, TakesClaimEffect, ActivateEffect
  <1> QED
    BY <1>1, <1>2, UnclaimedOthers, UnclaimedTake, UnclaimedFault DEF Next, Work

LEMMA ReachedStays ==
  ASSUME TypeOK, [Next]_vars, NEW t \in Tx, Reached(t)
  PROVE  Reached(t)' /\ SubOf(t)' = SubOf(t)
  <1>1. chain'[t] = chain[t]  BY ChainFixed DEF Reached
  <1> QED  BY <1>1 DEF Reached, Paid, SubOf

LEMMA SettledStays ==
  ASSUME ClaimInv, [Next]_vars, NEW t, Settled(t)
  PROVE  Settled(t)' /\ SubOf(t)' = SubOf(t)
  BY ReachedStays, RecordKept DEF Settled, ClaimInv

\* Workers that no step touches, or that have not passed the amount check.
LEMMA CheckedKept ==
  ASSUME ClaimInv, CheckedInv, [Next]_vars,
         \A w \in Worker : \/ worker'[w] = worker[w]
                           \/ worker'[w].pc \notin {"gate", "claim", "activate", "publish"}
  PROVE  CheckedInv'
  <1> SUFFICES ASSUME NEW w \in Worker, worker'[w] = worker[w]
               PROVE  /\ worker[w].pc \in {"gate", "claim", "activate", "publish"}
                           => Reached(worker[w].tx)'
                      /\ worker[w].pc = "publish" => processed'[worker[w].tx] # "none"
    BY DEF CheckedInv
  <1>1. worker[w].pc # "idle" => worker[w].tx \in Tx
    BY DEF ClaimInv, TypeOK, Grounded, Running
  <1> QED  BY <1>1, ReachedStays, RecordKept DEF CheckedInv, ClaimInv

\* A worker that moves on with a transaction that has passed the amount check.
LEMMA CheckedMoved ==
  ASSUME ClaimInv, CheckedInv, [Next]_vars, NEW w \in Worker, NEW t \in Tx,
         \A i \in Worker : i # w => worker'[i] = worker[i],
         worker'[w].tx = t, Reached(t),
         worker'[w].pc = "publish" => processed[t] # "none"
  PROVE  CheckedInv'
  <1>1. Reached(t)' /\ (worker'[w].pc = "publish" => processed'[t] # "none")
    BY ReachedStays, RecordKept DEF ClaimInv
  <1>2. ASSUME NEW i \in Worker, i # w, worker[i].pc # "idle"
        PROVE  /\ worker[i].pc \in {"gate", "claim", "activate", "publish"}
                    => Reached(worker[i].tx)'
               /\ worker[i].pc = "publish" => processed'[worker[i].tx] # "none"
    <2>1. PICK u \in Tx : u = worker[i].tx
      BY <1>2 DEF ClaimInv, TypeOK, Grounded, Running
    <2>2. u = worker'[i].tx  BY <1>2, <2>1
    <2>3. worker[i].pc \in {"gate", "claim", "activate", "publish"} => Reached(u)'
      BY <2>1, ReachedStays DEF CheckedInv, ClaimInv
    <2>4. worker[i].pc = "publish" => processed'[u] # "none"
      BY <2>1, RecordKept DEF CheckedInv
    <2> QED  BY <2>1, <2>2, <2>3, <2>4 DEF Reached, Paid
  <1> QED  BY <1>1, <1>2 DEF CheckedInv, Reached, Paid

LEMMA CheckedStep ==
  ASSUME ClaimInv, CheckedInv, NEW w \in Worker, Step(w)
  PROVE  CheckedInv'
  <1>1. PICK t \in Tx : t = worker[w].tx
    BY DEF Step, precheck, load, short, residual, insufficient, gate, claim, activate,
           publish, at, Running, ClaimInv, TypeOK, Grounded
  <1>2. Next /\ worker \in [Worker -> Jobs]
    BY DEF Next, Work, ClaimInv, TypeOK
  <1>3. CASE load(w)
    <2>1. /\ worker'[w].pc \in {"idle", "short", "gate"}
          /\ worker'[w].pc # "idle" => worker'[w].tx = t
          /\ worker'[w].pc = "gate" => Reached(t)
          /\ \A i \in Worker : i # w => worker'[i] = worker[i]
      BY <1>1, <1>3, LoadEffect DEF ClaimInv
    <2>2. CASE worker'[w].pc = "gate"
      BY <1>2, <2>1, <2>2, CheckedMoved
    <2>3. CASE worker'[w].pc # "gate"
      BY <1>2, <2>1, <2>3, CheckedKept
    <2> QED  BY <2>2, <2>3
  <1>4. CASE precheck(w) \/ short(w) \/ residual(w) \/ insufficient(w) \/ publish(w)
    <2>1. Done(w) \/ \E pc \in {"load", "residual", "insufficient"} : Goto(w, pc)
      BY <1>4 DEF precheck, short, residual, insufficient, publish
    <2>2. /\ worker'[w].pc \in {"idle", "load", "residual", "insufficient"}
          /\ \A i \in Worker : i # w => worker'[i] = worker[i]
      BY <1>2, <2>1, DoneEffect, GotoEffect DEF Pcs
    <2> QED  BY <1>2, <2>2, CheckedKept
  <1>5. CASE gate(w) \/ claim(w)
    <2>1. Reached(t)
      BY <1>1, <1>5 DEF gate, claim, at, CheckedInv
    <2>2. CASE Done(w)
      BY <1>2, <2>2, DoneEffect, CheckedKept
    <2>3. CASE \E pc \in {"claim", "activate"} : Goto(w, pc)
      <3>1. /\ worker'[w].pc # "publish" /\ worker'[w].tx = t
            /\ \A i \in Worker : i # w => worker'[i] = worker[i]
        BY <1>1, <1>2, <2>3, GotoEffect DEF Pcs
      <3> QED  BY <1>2, <2>1, <3>1, CheckedMoved
    <2> QED  BY <1>5, <2>2, <2>3 DEF gate, claim
  <1>6. CASE activate(w)
    <2>1. Reached(t)
      BY <1>1, <1>6 DEF activate, at, CheckedInv
    <2>2. /\ processed[t] # "none" /\ worker'[w].tx = t
          /\ \A i \in Worker : i # w => worker'[i] = worker[i]
      BY <1>1, <1>6, ActivateEffect
    <2> QED  BY <1>2, <2>1, <2>2, CheckedMoved
  <1> QED  BY <1>3, <1>4, <1>5, <1>6 DEF Step

LEMMA CheckedInvariant ==
  ASSUME ClaimInv, CheckedInv, [Next]_vars
  PROVE  CheckedInv'
  <1>1. CASE Member \/ Producer \/ Listener \/ Others \/ UNCHANGED vars
    BY <1>1, OthersTouchNoJob, CheckedKept
  <1>2. ASSUME NEW w \in Worker, NEW t \in Tx, take(w, t) PROVE CheckedInv'
    BY <1>2, TakeEffect, CheckedKept DEF take, ClaimInv, TypeOK
  <1>3. CASE Fault
    <2>1. ASSUME NEW w \in Worker, fail(w) PROVE CheckedInv'
      BY <2>1, DoneEffect, CheckedKept DEF fail, ClaimInv, TypeOK
    <2>2. CASE create_app \/ stop_bot
      BY <2>2, CheckedKept DEF create_app, stop_bot
    <2> QED  BY <1>3, <2>1, <2>2 DEF Fault
  <1> QED  BY <1>1, <1>2, <1>3, CheckedStep DEF Next, Work

\* A welcome is published for a settled transaction only.
LEMMA WelcomeInvariant ==
  ASSUME ClaimInv, CheckedInv, WelcomeInv, [Next]_vars
  PROVE  WelcomeInv'
  <1>1. Sendable \subseteq Sendable'
    BY SettledStays DEF Sendable
  <1>2. channel' \in Seq(Sendable)
    <2>1. CASE UNCHANGED channel
      BY <2>1 DEF WelcomeInv
    <2>2. ASSUME NEW kind, NEW t, Action(kind, t) \in Sendable, _publish_bot_action(kind, t)
          PROVE  channel' \in Seq(Sendable)
      BY <2>2, AppendProperties DEF WelcomeInv, _publish_bot_action
    <2>3. ASSUME NEW w \in Worker, insufficient(w) PROVE channel' \in Seq(Sendable)
      <3>1. Action("insufficient_payment", worker[w].tx) \in Sendable
        BY <2>3 DEF insufficient, at, ClaimInv, TypeOK, Grounded, Running, Action,
                    Actions, Sendable
      <3> QED  BY <2>2, <2>3, <3>1 DEF insufficient
    <2>4. ASSUME NEW w \in Worker, publish(w) PROVE channel' \in Seq(Sendable)
      <3>1. Settled(worker[w].tx)
        BY <2>4 DEF publish, at, ClaimInv, TypeOK, Grounded, Running, CheckedInv, Settled
      <3>2. Action("approve_and_welcome", worker[w].tx) \in Sendable
        BY <3>1 DEF Settled, Action, Actions, Sendable
      <3> QED  BY <2>1, <2>2, <2>4, <3>2 DEF publish
    <2>5. CASE Listener
      BY <2>5, HeadTailProperties
      DEF Listener, _handle_approve_and_welcome, _handle_insufficient_payment, Handled,
          WelcomeInv
    <2>6. CASE stop_bot
      BY <2>6 DEF stop_bot
    <2>7. CASE Member \/ Producer \/ Others \/ UNCHANGED vars
      <3>1. UNCHANGED channel
        BY <2>7 DEF Member, create_subscription, generate_payment_request, half_hour_passes,
                    Pay, Producer,
                    handle_webhook, poll_vaults, recheck_by_tx_hash, handle_recheck,
                    poll_once, recheck_by_subscription, enqueue, Others, expire_and_kick,
                    stale_pending_cleanup_job, Elsewhere, set_payments_paused,
                    start_bot_listener, vars, redis
      <3> QED  BY <2>1, <3>1
    <2>8. CASE create_app \/ \E w \in Worker : fail(w) \/ \E t \in Tx : take(w, t)
      BY <2>1, <2>8 DEF create_app, fail, take, redis
    <2>9. ASSUME NEW w \in Worker, Step(w), ~insufficient(w), ~publish(w)
          PROVE  UNCHANGED channel
      BY <2>9 DEF Step, precheck, load, short, residual, gate, claim, activate, Reads, redis
    <2> QED
      BY <2>1, <2>3, <2>4, <2>5, <2>6, <2>7, <2>8, <2>9 DEF Next, Work, Fault
  <1>3. Seq(Sendable) \subseteq Seq(Sendable')
    BY <1>1, SeqMonotonic
  <1> QED  BY <1>2, <1>3 DEF WelcomeInv

\* The listener opens the door only for the welcome of a settled transaction of that
\* very member, and nothing unsettles it later.
LEMMA AdmittedInvariant ==
  ASSUME PaidInv, [Next]_vars
  PROVE  AdmittedHasPaid'
  <1> USE DEF PaidInv
  <1>1. ASSUME NEW s \in Sub, door'[s] = "in"
        PROVE  \E t : Settled(t) /\ SubOf(t) = s
    <2>1. CASE door[s] = "in"
      BY <2>1 DEF AdmittedHasPaid, Settled, Reached
    <2>2. CASE door[s] # "in"
      <3>1. CASE _handle_approve_and_welcome
        <4>1. Head(channel) \in Sendable
          BY <3>1, HeadTailProperties
          DEF _handle_approve_and_welcome, Handled, WelcomeInv
        <4>2. SubOf(Head(channel).tx) = s
          BY <1>1, <2>2, <3>1 DEF _handle_approve_and_welcome, ClaimInv, TypeOK
        <4> QED  BY <3>1, <4>1, <4>2 DEF _handle_approve_and_welcome, Sendable
      <3>2. CASE \E r \in Sub : create_subscription(r) \/ expire_and_kick(r)
        BY <1>1, <2>2, <3>2 DEF create_subscription, expire_and_kick, ClaimInv, TypeOK
      <3>3. CASE UNCHANGED door
        BY <1>1, <2>2, <3>3
      <3>4. Member => UNCHANGED door \/ \E r \in Sub : create_subscription(r)
        BY DEF Member, generate_payment_request, half_hour_passes, Pay, bot
      <3>5. Producer => UNCHANGED door
        BY DEF Producer, handle_webhook, poll_vaults, recheck_by_tx_hash, handle_recheck,
               poll_once, recheck_by_subscription, enqueue, bot
      <3>6. Work => UNCHANGED door
        BY DEF Work, Step, precheck, load, short, residual, insufficient, gate, claim,
               activate, publish, take, Reads, bot
      <3>7. Listener => UNCHANGED door \/ _handle_approve_and_welcome
        BY DEF Listener, _handle_insufficient_payment
      <3>8. Others \/ Fault => UNCHANGED door \/ \E r \in Sub : expire_and_kick(r)
        BY DEF Others, stale_pending_cleanup_job, set_payments_paused, start_bot_listener,
               Fault, create_app, stop_bot, fail, bot
      <3>9. UNCHANGED vars => UNCHANGED door
        BY DEF vars, bot
      <3> QED
        BY <3>1, <3>2, <3>3, <3>4, <3>5, <3>6, <3>7, <3>8, <3>9 DEF Next
    <2> QED  BY <2>1, <2>2
  <1>2. ASSUME NEW s \in Sub, door'[s] = "in"
        PROVE  \E t \in Tx : Settled(t)' /\ SubOf(t)' = s
    <2>1. PICK t : Settled(t) /\ SubOf(t) = s  BY <1>1, <1>2
    <2>2. Settled(t)' /\ SubOf(t)' = s  BY <2>1, SettledStays
    <2> QED  BY <2>1, <2>2 DEF Settled
  <1> QED  BY <1>2 DEF AdmittedHasPaid, Settled, Reached

\* Nobody is let in by the bot's listener without a payment of his own that reached
\* the price at some rate and is used up: actions may be copied, late, lost or out of
\* order, jobs may run twice, processes may die between claim and welcome.
THEOREM AdmittedPaid == Spec => []AdmittedHasPaid
  <1>1. Init => CheckedInv /\ WelcomeInv /\ AdmittedHasPaid
    BY DEF Init, Idle, CheckedInv, WelcomeInv, AdmittedHasPaid
  <1>2. ClaimInv /\ CheckedInv /\ WelcomeInv /\ AdmittedHasPaid /\ [Next]_vars
          => CheckedInv' /\ WelcomeInv' /\ AdmittedHasPaid'
    BY CheckedInvariant, WelcomeInvariant, AdmittedInvariant DEF PaidInv
  <1> QED  BY <1>1, <1>2, ClaimInvariant, PTL DEF Spec

-----------------------------------------------------------------------------
(* The deployment in several processes implements the payment ledger.      *)

Held(t) == \E w \in Worker : Holds(w) /\ worker[w].tx = t

\* What the ledger reads of a transaction, value by value.
EntryCases ==
  \A t \in Tx :
    /\ processed[t] = "none" => entry[t] = "open"
    /\ processed[t] # "none" /\ credit[t] > 0 => entry[t] = "spent"
    /\ processed[t] # "none" /\ credit[t] = 0 /\ Held(t) => entry[t] = "held"
    /\ processed[t] # "none" /\ credit[t] = 0 /\ ~Held(t) => entry[t] = "void"

LEMMA EntryOfTx == TypeOK => EntryCases
  <1> SUFFICES ASSUME TypeOK, NEW t \in Tx
               PROVE  /\ processed[t] = "none" => entry[t] = "open"
                      /\ processed[t] # "none" /\ credit[t] > 0 => entry[t] = "spent"
                      /\ processed[t] # "none" /\ credit[t] = 0 /\ Held(t)
                           => entry[t] = "held"
                      /\ processed[t] # "none" /\ credit[t] = 0 /\ ~Held(t)
                           => entry[t] = "void"
    BY DEF EntryCases
  <1>1. credit[t] \in Nat  BY DEF TypeOK
  <1>2. CASE processed[t] = "none"  BY <1>2 DEF entry, Outcome
  <1>3. CASE processed[t] # "none" /\ credit[t] > 0  BY <1>3 DEF entry, Outcome
  <1>4. CASE processed[t] # "none" /\ credit[t] = 0
    <2>1. Lost(t) <=> ~Held(t)  BY <1>4 DEF Lost, Held
    <2> QED  BY <1>4, <2>1 DEF entry, Outcome
  <1> QED  BY <1>1, <1>2, <1>3, <1>4

LEMMA EntryOfTxNext == TypeOK' => EntryCases'
  BY EntryOfTx, PTL

LEMMA HeldIsClaimed ==
  ASSUME ClaimInv, NEW t \in Tx, Held(t)
  PROVE  processed[t] # "none" /\ credit[t] = 0
  BY DEF Held, ClaimInv, OneHolder

\* A step that claims nothing and leaves the rows alone: what it records or loses
\* is void.
LEMMA LedgerVoid ==
  ASSUME ClaimInv, TypeOK', NothingClaimed, UNCHANGED sub
  PROVE  Ledger!Next
  <1> DEFINE T == {t \in Tx : entry'[t] # entry[t]}
  <1> USE DEF NothingClaimed
  <1>1. EntryCases /\ EntryCases' /\ credit \in [Tx -> Nat]
    BY EntryOfTx, EntryOfTxNext DEF ClaimInv, TypeOK
  <1>2. \A t \in Tx : Held(t)' => Held(t)  BY DEF Held
  <1>3. ASSUME NEW t \in Tx, entry'[t] # entry[t]
        PROVE  entry[t] \in {"open", "held"} /\ entry'[t] = "void"
    <2>1. CASE processed[t] = "none"
      <3>1. credit[t] = 0 /\ ~Held(t)
        BY <1>1, <2>1, HeldIsClaimed DEF ClaimInv, CreditOnce
      <3> QED  BY <1>1, <1>2, <1>3, <2>1, <3>1 DEF EntryCases
    <2>2. CASE processed[t] # "none" /\ credit[t] > 0
      BY <1>1, <1>3, <2>2 DEF EntryCases
    <2>3. CASE processed[t] # "none" /\ credit[t] = 0
      BY <1>1, <1>2, <1>3, <2>3 DEF EntryCases
    <2> QED  BY <1>1, <2>1, <2>2, <2>3
  <1>4. entry' = [t \in Tx |-> IF t \in T THEN "void" ELSE entry[t]]
    <2>1. entry' = [t \in Tx |-> entry'[t]]  BY DEF entry
    <2> QED  BY <1>3, <2>1
  <1>5. Ledger!Void(T)
    BY <1>3, <1>4 DEF Ledger!Void, standing, cycles
  <1>6. T \in SUBSET Tx  OBVIOUS
  <1> QED  BY <1>5, <1>6 DEF Ledger!Next

LEMMA EntryKept ==
  ASSUME UNCHANGED <<processed, credit, worker>>
  PROVE  entry' = entry
  <1>1. \A t \in Tx : Lost(t)' <=> Lost(t)  BY DEF Lost, Holds
  <1> QED  BY <1>1 DEF entry, Outcome

\* A join request admits, the expiry ends, the cleanup removes.
LEMMA LedgerRows ==
  ASSUME TypeOK, Member \/ Producer \/ Listener \/ Others
  PROVE  [Ledger!Next]_(Ledger!vars)
  <1>1. sub \in [Sub -> Rows]  BY DEF TypeOK
  <1>2. entry' = entry  BY OthersTouchNoJob, EntryKept
  <1>3. RowsStep
    <2>1. Next  BY DEF Next
    <2>2. CASE \A w \in Worker : ~activate(w)  BY <2>1, <2>2, RowsMoved
    <2>3. ASSUME NEW w \in Worker, activate(w) PROVE FALSE
      <3>1. worker \in [Worker -> Jobs] /\ Goto(w, "publish") /\ at(w, "activate")
        BY <2>3 DEF activate, TypeOK
      <3>2. worker'[w].pc = "publish"  BY <3>1, GotoEffect DEF Pcs
      <3> QED  BY <3>1, <3>2, OthersTouchNoJob DEF at
    <2> QED  BY <2>2, <2>3
  <1>4. PICK s \in Sub : /\ RowStep(s)
                         /\ \A r \in Sub \ {s} :
                              RowBecomes(r, sub[r].status, sub[r].periods)
    BY <1>3 DEF RowsStep
  <1>5. ASSUME NEW status, NEW periods, RowBecomes(s, status, periods)
        PROVE  /\ standing' = [standing EXCEPT ![s] = status]
               /\ cycles' = [cycles EXCEPT ![s] = periods]
    BY <1>1, <1>4, <1>5 DEF RowBecomes, standing, cycles
  <1>6. standing[s] = sub[s].status /\ cycles[s] = sub[s].periods
    BY DEF standing, cycles
  <1>7. CASE RowBecomes(s, sub[s].status, sub[s].periods)
    <2>1. UNCHANGED <<standing, cycles>>
      BY <1>4, <1>7 DEF RowBecomes, standing, cycles
    <2> QED  BY <1>2, <2>1 DEF Ledger!vars
  <1>8. CASE sub[s].status \in {"none", "expired"} /\ RowBecomes(s, "pending", 0)
    <2>1. Ledger!Admit(s)  BY <1>2, <1>5, <1>6, <1>8 DEF Ledger!Admit
    <2> QED  BY <2>1 DEF Ledger!Next
  <1>9. CASE sub[s].status \in {"pending", "active"}
             /\ RowBecomes(s, "expired", sub[s].periods)
    <2>1. UNCHANGED cycles
      BY <1>4, <1>9 DEF RowBecomes, cycles
    <2>2. Ledger!End(s, "expired")  BY <1>2, <1>5, <1>6, <1>9, <2>1 DEF Ledger!End
    <2> QED  BY <2>2 DEF Ledger!Next, Ledger!Ended
  <1>10. CASE sub[s].status = "pending" /\ RowBecomes(s, "deleted", 0)
    <2>1. Ledger!Remove(s)  BY <1>2, <1>5, <1>6, <1>10 DEF Ledger!Remove
    <2> QED  BY <2>1 DEF Ledger!Next
  <1> QED  BY <1>4, <1>7, <1>8, <1>9, <1>10 DEF RowStep

LEMMA LedgerStep ==
  ASSUME ClaimInv, TypeOK', NEW w \in Worker, Step(w)
  PROVE  Ledger!Next
  <1>1. PICK t \in Tx : t = worker[w].tx
    BY DEF Step, precheck, load, short, residual, insufficient, gate, claim, activate,
           publish, at, Running, ClaimInv, TypeOK, Grounded
  <1>2. EntryCases /\ EntryCases' /\ credit \in [Tx -> Nat] /\ sub \in [Sub -> Rows]
    BY EntryOfTx, EntryOfTxNext DEF ClaimInv, TypeOK
  <1>3. CASE ~TakesClaim(w) /\ ~activate(w)
    <2>1. UNCHANGED sub
      BY <1>3 DEF Step, precheck, load, short, residual, insufficient, gate, claim,
                  publish, Reads, mark_tx_processed, database
    <2> QED  BY <1>3, <2>1, UnclaimedStep, LedgerVoid
  <1>4. CASE TakesClaim(w)
    <2>1. /\ credit[t] = 0 /\ UNCHANGED <<sub, credit>> /\ processed'[t] = "full"
          /\ \A u \in Tx : u # t => processed'[u] = processed[u]
          /\ ~Holds(w) /\ Holds(w)' /\ worker'[w].tx = t
          /\ \A i \in Worker : i # w => worker'[i] = worker[i]
      BY <1>1, <1>4, TakesClaimEffect
    <2>2. entry[t] = "open"
      BY <1>1, <1>2, <1>4, <2>1 DEF TakesClaim, EntryCases
    <2>3. entry'[t] = "held"
      <3>1. Held(t)'  BY <2>1 DEF Held
      <3> QED  BY <1>2, <2>1, <3>1 DEF EntryCases
    <2>4. ASSUME NEW u \in Tx, u # t PROVE Outcome(u)' = Outcome(u)
      <3>1. Lost(u)' <=> Lost(u)
        BY <1>1, <2>1, <2>4 DEF Lost, Holds
      <3> QED  BY <2>1, <2>4, <3>1 DEF Outcome
    <2>5. entry' = [entry EXCEPT ![t] = "held"]
      BY <2>3, <2>4 DEF entry
    <2>6. Ledger!Hold(t)
      BY <2>1, <2>2, <2>5 DEF Ledger!Hold, standing, cycles
    <2> QED  BY <2>6 DEF Ledger!Next
  <1>5. CASE activate(w)
    <2>1. /\ processed[t] # "none" /\ credit[t] = 0 /\ UNCHANGED processed
          /\ \A u \in Tx : u # t => credit'[u] = credit[u]
          /\ Holds(w) /\ ~Holds(w)'
          /\ \A i \in Worker : i # w => worker'[i] = worker[i]
          /\ \A i \in Worker : Holds(i) /\ i # w => worker[i].tx # t
      BY <1>1, <1>5, ActivateEffect
    <2>2. SubOf(t) \in Sub
      BY DEF SubOf, ClaimInv, TypeOK, Transactions
    <2>3. entry[t] = "held" /\ ~Held(t)'
      <3>1. Held(t)  BY <1>1, <2>1 DEF Held
      <3>2. \A i \in Worker : ~(Holds(i)' /\ worker'[i].tx = t)
        <4>1. ASSUME NEW i \in Worker, i # w, Holds(i)' PROVE worker'[i].tx # t
          <5>1. worker'[i] = worker[i] /\ Holds(i)  BY <2>1, <4>1 DEF Holds
          <5> QED  BY <2>1, <4>1, <5>1
        <4> QED  BY <2>1, <4>1
      <3>3. ~Held(t)'  BY <3>2 DEF Held
      <3> QED  BY <1>2, <2>1, <3>1, <3>3 DEF EntryCases
    <2>4. ASSUME NEW u \in Tx, u # t PROVE Outcome(u)' = Outcome(u)
      <3>1. Lost(u)' <=> Lost(u)
        BY <1>1, <2>1, <2>4 DEF Lost, Holds
      <3> QED  BY <2>1, <2>4, <3>1 DEF Outcome
    <2>5. CASE sub[SubOf(t)].status \in {"pending", "active"}
      <3>1. activate_subscription(SubOf(t)) /\ credit'[t] = 1
        BY <1>1, <1>2, <1>5, <2>1, <2>5 DEF activate
      <3>2. entry'[t] = "spent"
        BY <1>2, <2>1, <3>1 DEF EntryCases
      <3>3. entry' = [entry EXCEPT ![t] = "spent"]
        BY <2>4, <3>2 DEF entry
      <3>4. /\ standing' = [standing EXCEPT ![SubOf(t)] = "active"]
            /\ cycles' = [cycles EXCEPT ![SubOf(t)] = @ + 1]
        BY <1>2, <2>2, <3>1 DEF activate_subscription, standing, cycles, Rows
      <3>5. Ledger!Spend(t, SubOf(t))
        BY <2>2, <2>3, <2>5, <3>3, <3>4 DEF Ledger!Spend, standing
      <3> QED  BY <2>2, <3>5 DEF Ledger!Next
    <2>6. CASE sub[SubOf(t)].status \notin {"pending", "active"}
      <3>1. UNCHANGED <<sub, credit>>  BY <1>1, <1>5, <2>6 DEF activate
      <3>2. processed'[t] # "none" /\ credit'[t] = 0  BY <2>1, <3>1
      <3>3. entry'[t] = "void"
        BY <1>2, <2>3, <3>2 DEF EntryCases
      <3>4. entry' = [u \in Tx |-> IF u \in {t} THEN "void" ELSE entry[u]]
        BY <2>4, <3>3 DEF entry
      <3>5. Ledger!Void({t})
        BY <2>3, <3>1, <3>4 DEF Ledger!Void, standing, cycles
      <3> QED  BY <3>5 DEF Ledger!Next
    <2> QED  BY <2>5, <2>6
  <1> QED  BY <1>3, <1>4, <1>5

\* The deployment in several processes keeps the promise of the same ledger as the
\* in-process pipeline: a payment is held by one worker's job and then spent on one
\* cycle or void, and never comes back, whatever is queued twice or killed.
THEOREM KeepsLedger == Spec => LedgerSpec
  <1>1. Init => Ledger!Init
    BY DEF Init, Ledger!Init, standing, cycles, entry, Outcome, Row
  <1>2. ClaimInv /\ ClaimInv' /\ [Next]_vars => [Ledger!Next]_(Ledger!vars)
    <2> SUFFICES ASSUME ClaimInv, ClaimInv', [Next]_vars
                 PROVE  [Ledger!Next]_(Ledger!vars)
      OBVIOUS
    <2>1. TypeOK /\ TypeOK'  BY DEF ClaimInv
    <2>2. CASE Member \/ Producer \/ Listener \/ Others
      BY <2>1, <2>2, LedgerRows
    <2>3. ASSUME NEW w \in Worker, Step(w) PROVE Ledger!Next
      BY <2>1, <2>3, LedgerStep
    <2>4. ASSUME NEW w \in Worker, NEW t \in Tx, take(w, t) PROVE Ledger!Next
      <3>1. UNCHANGED sub  BY <2>4 DEF take, database
      <3> QED  BY <2>1, <2>4, <3>1, UnclaimedTake, LedgerVoid
    <2>5. CASE Fault
      <3>1. UNCHANGED sub  BY <2>5 DEF Fault, create_app, stop_bot, fail, database
      <3> QED  BY <2>1, <2>5, <3>1, UnclaimedFault, LedgerVoid
    <2>6. CASE UNCHANGED vars
      <3>1. UNCHANGED <<sub, processed, credit, worker>>
        BY <2>6 DEF vars, database
      <3> QED  BY <3>1, EntryKept DEF standing, cycles, Ledger!vars
    <2> QED  BY <2>2, <2>3, <2>4, <2>5, <2>6 DEF Next, Work
  <1> QED  BY <1>1, <1>2, ClaimInvariant, PTL DEF Spec, LedgerSpec, Ledger!Spec

-----------------------------------------------------------------------------
(* A covered payment is credited in the end.                               *)

Covered(t) == Paid(t) /\ Covers(t)

\* Where CoveredIsCredited lets a payment go.
Excused(t) ==
    \/ credit[t] > 0 \/ Lost(t) \/ paused
    \/ SubOf(t) \notin registered \cap get_vaults_to_watch

Free == \E w \in Worker : ~Running(w)
Room == Len(channel) < MaxMail
About(w, t, pc) == at(w, pc) /\ worker[w].tx = t

\* Steps a worker has before it at most.
Left(pc) == CASE pc = "precheck" -> 6 [] pc = "load" -> 5 [] pc = "gate" -> 4
              [] pc = "claim" -> 3 [] pc \in {"activate", "short"} -> 2
              [] pc \in {"publish", "residual", "insufficient"} -> 1
              [] OTHER -> 0
Within(w, n) == Left(worker[w].pc) \in 1 .. n

\* What can go on is enabled: statements about the model's actions that no prover
\* expands and that TLC evaluates in every state of an instance.
PollReady(t) ==
    (/\ Paid(t) /\ SubOf(t) \in get_vaults_to_watch
     /\ ~is_tx_processed(t) /\ queue[t] < MaxCopies) => ENABLED <<poll_vaults(t)>>_vars
TakeReady(t) ==
    (queue[t] > 0 /\ Free) => ENABLED <<\E w \in Worker : take(w, t)>>_vars
StepReady(w) ==
    (Running(w) /\ (Room \/ worker[w].pc \notin {"insufficient", "publish"}))
        => ENABLED <<Step(w)>>_vars
ListenerReady == (listening /\ channel # <<>>) => ENABLED <<Listener>>_vars
CanGoOn ==
    /\ \A t \in Tx : PollReady(t) /\ TakeReady(t)
    /\ \A w \in Worker : StepReady(w)
    /\ ListenerReady

\* Jobs raise, and workers die, finitely often: the bound MaxFaults of the model.
FailuresEnd == <>[][~\E w \in Worker : fail(w)]_vars

\* The channel keeps its bound, and is empty while nobody listens.
MailInv == Len(channel) <= MaxMail /\ (~listening => channel = <<>>)

\* What becomes of a worker in a step.
LEMMA WorkerChange ==
  ASSUME TypeOK, [Next]_vars, NEW w \in Worker
  PROVE  \/ worker'[w] = worker[w]
         \/ Step(w)
         \/ (fail(w) /\ ~Running(w)')
         \/ \E t \in Tx : take(w, t)
  <1>1. worker \in [Worker -> Jobs]  BY DEF TypeOK
  <1>2. CASE Member \/ Producer \/ Listener \/ Others \/ UNCHANGED vars
    BY <1>2, OthersTouchNoJob
  <1>3. ASSUME NEW v \in Worker, fail(v)
        PROVE  worker'[w] = worker[w] \/ (fail(w) /\ ~Running(w)')
    <2>1. CASE v = w  BY <1>1, <1>3, <2>1, DoneEffect DEF fail, Running
    <2>2. CASE v # w
      <3>1. worker' = [worker EXCEPT ![v] = Idle]  BY <1>3 DEF fail, Done
      <3> QED  BY <1>1, <2>2, <3>1
    <2> QED  BY <2>1, <2>2
  <1>4. ASSUME NEW v \in Worker, NEW t \in Tx, take(v, t)
        PROVE  worker'[w] = worker[w] \/ take(w, t)
    <2>1. CASE v = w  BY <1>4, <2>1
    <2>2. CASE v # w  BY <1>1, <1>4, <2>2 DEF take
    <2> QED  BY <2>1, <2>2
  <1>5. ASSUME NEW v \in Worker, Step(v), v # w PROVE worker'[w] = worker[w]
    <2>1. CASE load(v)
      BY <1>5, <2>1, LoadEffect
    <2>2. CASE Done(v)
      BY <1>1, <1>5, <2>2, DoneEffect
    <2>3. ASSUME NEW pc \in Pcs, Goto(v, pc) PROVE worker'[w] = worker[w]
      BY <1>1, <1>5, <2>3, GotoEffect
    <2>4. CASE ~load(v)
      <3>1. \/ Done(v) \/ Goto(v, "load") \/ Goto(v, "residual") \/ Goto(v, "insufficient")
            \/ Goto(v, "claim") \/ Goto(v, "activate") \/ Goto(v, "publish")
        BY <1>5, <2>4 DEF Step, precheck, short, residual, insufficient, gate, claim,
                          activate, publish
      <3> QED  BY <2>2, <2>3, <3>1 DEF Pcs
    <2> QED  BY <2>1, <2>4
  <1>6. CASE create_app \/ stop_bot
    BY <1>6 DEF create_app, stop_bot
  <1>7. CASE Work
    BY <1>4, <1>5, <1>7 DEF Work
  <1>8. CASE Fault
    BY <1>3, <1>6, <1>8 DEF Fault
  <1> QED  BY <1>2, <1>7, <1>8 DEF Next

\* A step of a worker brings it nearer to its end.
LEMMA StepAdvances ==
  ASSUME TypeOK, NEW w \in Worker, NEW n \in Nat, Within(w, n + 1), Step(w)
  PROVE  ~Running(w)' \/ Within(w, n)'
  <1>1. worker \in [Worker -> Jobs] /\ worker[w].pc \in Pcs  BY DEF TypeOK, Jobs
  <1>2. CASE load(w)
    <2>1. worker'[w].pc \in {"idle", "short", "gate"} /\ worker[w].pc = "load"
      BY <1>2, LoadEffect DEF load, at
    <2> QED  BY <2>1 DEF Left, Within, Running
  <1>3. CASE Done(w)
    BY <1>1, <1>3, DoneEffect DEF Running
  <1>4. ASSUME NEW pc \in Pcs, Goto(w, pc), Left(pc) \in 1 .. Left(worker[w].pc) - 1
        PROVE  Within(w, n)'
    <2>1. worker'[w].pc = pc  BY <1>1, <1>4, GotoEffect
    <2>2. Left(pc) \in Nat /\ Left(worker[w].pc) \in Nat  BY DEF Left
    <2> QED  BY <1>4, <2>1, <2>2 DEF Within
  <1>5. CASE ~load(w) /\ ~Done(w)
    <2>1. \/ worker[w].pc = "precheck" /\ Goto(w, "load")
          \/ worker[w].pc = "short" /\ (Goto(w, "residual") \/ Goto(w, "insufficient"))
          \/ worker[w].pc = "gate" /\ Goto(w, "claim")
          \/ worker[w].pc = "claim" /\ Goto(w, "activate")
          \/ worker[w].pc = "activate" /\ Goto(w, "publish")
      BY <1>5 DEF Step, precheck, short, residual, insufficient, gate, claim, activate,
                  publish, at
    <2>2. PICK pc \in Pcs : Goto(w, pc) /\ Left(pc) \in 1 .. Left(worker[w].pc) - 1
      BY <2>1 DEF Left, Pcs
    <2> QED  BY <1>4, <2>2
  <1> QED  BY <1>2, <1>3, <1>5

LEMMA BusyStays ==
  ASSUME TypeOK, [Next]_vars, ~Free, NEW w \in Worker, NEW n \in Nat, Within(w, n + 1)
  PROVE  /\ Within(w, n + 1)' \/ Free'
         /\ Step(w) => Within(w, n)' \/ Free'
  <1>1. Step(w) => Within(w, n)' \/ Free'
    BY StepAdvances DEF Free
  <1>2. Within(w, n)' => Within(w, n + 1)'
    BY DEF Within
  <1>3. \A t \in Tx : ~take(w, t)
    BY DEF Free, take
  <1> QED  BY <1>1, <1>2, <1>3, WorkerChange DEF Free, Within

\* A publish fills the channel and frees its worker; the listener makes room.
LEMMA MailChange ==
  ASSUME TypeOK, MailInv, [Next]_vars
  PROVE  /\ MailInv'
         /\ Room => Room' \/ Free'
         /\ Listener => Room'
  <1>1. channel \in Seq(Actions) /\ MaxMail \in Nat \ {0} /\ Len(channel) \in Nat
    BY WorkerAssumption, LenProperties DEF TypeOK
  <1>2. CASE Listener
    <2>1. listening' = listening /\ listening /\ channel # <<>> /\ channel' = Tail(channel)
      BY <1>2 DEF Listener, _handle_approve_and_welcome, _handle_insufficient_payment, Handled
    <2>2. Len(channel') = Len(channel) - 1
      BY <1>1, <2>1, HeadTailProperties
    <2> QED  BY <1>1, <2>1, <2>2 DEF MailInv, Room
  <1>3. ASSUME NEW w \in Worker, NEW t, Step(w), Done(w), UNCHANGED listening,
               _publish_bot_action("approve_and_welcome", t)
                 \/ _publish_bot_action("insufficient_payment", t)
        PROVE  MailInv' /\ Free'
    <2>1. Free'
      BY <1>3, DoneEffect DEF Free, Running, TypeOK
    <2>2. CASE channel' = channel
      BY <1>3, <2>1, <2>2 DEF MailInv
    <2>3. CASE channel' # channel
      <3>1. PICK a : listening /\ Len(channel) < MaxMail /\ channel' = Append(channel, a)
        BY <1>3, <2>3 DEF _publish_bot_action
      <3>2. Len(channel') = Len(channel) + 1
        BY <1>1, <3>1, AppendProperties
      <3> QED  BY <1>1, <1>3, <2>1, <3>1, <3>2 DEF MailInv
    <2> QED  BY <2>2, <2>3
  <1>4. CASE channel' = channel /\ (listening' \/ UNCHANGED listening)
    BY <1>2, <1>4 DEF MailInv, Room
  <1>5. CASE stop_bot
    BY <1>1, <1>2, <1>5, EmptySeq DEF stop_bot, MailInv, Room
  <1>6. CASE Member \/ Producer
    <2>1. Member => UNCHANGED <<channel, listening>>
      BY DEF Member, create_subscription, generate_payment_request, half_hour_passes, Pay,
             redis, bot
    <2>2. Producer => UNCHANGED <<channel, listening>>
      BY DEF Producer, handle_webhook, poll_vaults, recheck_by_tx_hash, handle_recheck,
             poll_once, recheck_by_subscription, enqueue, bot
    <2> QED  BY <1>4, <1>6, <2>1, <2>2
  <1>7. CASE Others \/ UNCHANGED vars
    <2>1. Others => channel' = channel /\ (listening' \/ UNCHANGED listening)
      BY DEF Others, expire_and_kick, stale_pending_cleanup_job, Elsewhere,
             set_payments_paused, start_bot_listener, redis, bot
    <2> QED  BY <1>4, <1>7, <2>1 DEF vars, redis, bot
  <1>8. CASE create_app \/ \E w \in Worker : fail(w) \/ \E t \in Tx : take(w, t)
    <2>1. create_app => UNCHANGED <<channel, listening>>
      BY DEF create_app, redis, bot
    <2>2. \A w \in Worker : fail(w) => UNCHANGED <<channel, listening>>
      BY DEF fail, bot
    <2>3. \A w \in Worker, t \in Tx : take(w, t) => UNCHANGED <<channel, listening>>
      BY DEF take, bot
    <2> QED  BY <1>4, <1>8, <2>1, <2>2, <2>3
  <1>9. ASSUME NEW w \in Worker, Step(w)
        PROVE  MailInv' /\ (Room => Room' \/ Free') /\ (Listener => Room')
    <2>1. CASE insufficient(w)
      BY <1>2, <1>3, <1>9, <2>1 DEF insufficient, bot
    <2>2. CASE publish(w) /\ ~worker[w].renewal
      BY <1>2, <1>3, <1>9, <2>2 DEF publish, bot
    <2>3. CASE publish(w) /\ worker[w].renewal
      BY <1>4, <2>3 DEF publish, bot
    <2>4. CASE ~insufficient(w) /\ ~publish(w)
      BY <1>4, <1>9, <2>4 DEF Step, precheck, load, short, residual, gate, claim, activate,
                              Reads, redis, bot
    <2> QED  BY <2>1, <2>2, <2>3, <2>4
  <1>10. CASE Work
    BY <1>8, <1>9, <1>10 DEF Work
  <1> QED  BY <1>2, <1>5, <1>6, <1>7, <1>8, <1>10 DEF Next, Fault

LEMMA MailInvariant == Spec => []MailInv
  <1>1. Init => MailInv
    BY WorkerAssumption, EmptySeq DEF Init, MailInv
  <1>2. TypeOK /\ MailInv /\ [Next]_vars => MailInv'
    BY MailChange
  <1> QED  BY <1>1, <1>2, TypeCorrect, PTL DEF Spec

\* Some worker is free again and again: a job has six steps at most; where it waits
\* for room to publish, the listener makes it, and who takes it is free.
LEMMA FreedAgain ==
  ASSUME Worker # {}
  PROVE  []TypeOK /\ []MailInv /\ [][Next]_vars /\ Fairness /\ []CanGoOn => []<>Free
  <1>1. Fairness => \A w \in Worker : WorkerFairness(w)
    BY PTL DEF Fairness
  <1>2. Fairness => WF_vars(Listener)
    BY PTL DEF Fairness
  <1> SUFFICES ASSUME NEW w \in Worker
               PROVE  []TypeOK /\ []MailInv /\ [][Next]_vars /\ Fairness /\ []CanGoOn => []<>Free
    OBVIOUS
  <1> DEFINE W(n) == Within(w, n)
             S == Step(w)
             E == ENABLED <<Step(w)>>_vars
             L == ENABLED <<Listener>>_vars
  <1>3. TypeOK => Free \/ W(6)
    <2> SUFFICES ASSUME TypeOK, Running(w) PROVE W(6)  BY DEF Free
    <2>1. worker[w].pc \in Pcs \ {"idle"}  BY DEF TypeOK, Jobs, Running
    <2> QED  BY <2>1 DEF Pcs, Within, Left
  <1>4. W(0) => FALSE
    BY DEF Within
  <1>5. TypeOK /\ W(6) /\ ~Free /\ [Next]_vars => (W(6)' \/ Free') /\ (<<S>>_vars => W(5)' \/ Free')
    BY 6 = 5 + 1, BusyStays
  <1>6. TypeOK /\ W(5) /\ ~Free /\ [Next]_vars => (W(5)' \/ Free') /\ (<<S>>_vars => W(4)' \/ Free')
    BY 5 = 4 + 1, BusyStays
  <1>7. TypeOK /\ W(4) /\ ~Free /\ [Next]_vars => (W(4)' \/ Free') /\ (<<S>>_vars => W(3)' \/ Free')
    BY 4 = 3 + 1, BusyStays
  <1>8. TypeOK /\ W(3) /\ ~Free /\ [Next]_vars => (W(3)' \/ Free') /\ (<<S>>_vars => W(2)' \/ Free')
    BY 3 = 2 + 1, BusyStays
  <1>9. TypeOK /\ W(2) /\ ~Free /\ [Next]_vars => (W(2)' \/ Free') /\ (<<S>>_vars => W(1)' \/ Free')
    BY 2 = 1 + 1, BusyStays
  <1>10. TypeOK /\ W(1) /\ ~Free /\ [Next]_vars => (W(1)' \/ Free') /\ (<<S>>_vars => W(0)' \/ Free')
    BY 1 = 0 + 1, BusyStays
  <1>11. Room /\ ~Free /\ CanGoOn => E
    <2>1. CanGoOn => StepReady(w)  BY DEF CanGoOn
    <2> QED  BY <2>1 DEF StepReady, Free
  <1>12. TypeOK /\ MailInv /\ ~Room /\ CanGoOn => L
    <2>1. TypeOK /\ MailInv /\ ~Room => listening /\ channel # <<>>
      BY WorkerAssumption, EmptySeq DEF MailInv, Room
    <2>2. CanGoOn => ListenerReady  BY DEF CanGoOn
    <2> QED  BY <2>1, <2>2 DEF ListenerReady
  <1>13. TypeOK /\ MailInv /\ [Next]_vars => (Room => Room' \/ Free') /\ (<<Listener>>_vars => Room')
    BY MailChange
  <1>14. Fairness => WorkerFairness(w)
    BY <1>1
  <1> HIDE DEF W
  <1> QED  BY <1>2, <1>3, <1>4, <1>5, <1>6, <1>7, <1>8, <1>9, <1>10, <1>11, <1>12, <1>13,
              <1>14, PTL DEF WorkerFairness

\* A covered payment that nothing excuses is unclaimed, or held by a worker.
LEMMA CoveredIs ==
  ASSUME TypeOK, NEW t \in Tx, ~Excused(t), ~Held(t)
  PROVE  processed[t] = "none" /\ SubOf(t) \in get_vaults_to_watch /\ ~is_tx_processed(t)
  <1>1. credit[t] \in Nat  BY DEF TypeOK
  <1>2. credit[t] = 0  BY <1>1 DEF Excused
  <1>3. processed[t] = "none"  BY <1>2 DEF Excused, Lost, Held
  <1> QED  BY <1>3 DEF Excused, is_tx_processed

\* What a step does to a worker that has taken a covered payment.
LEMMA JobAdvances ==
  ASSUME ClaimInv, [Next]_vars, NEW t \in Tx, Covered(t), ~Excused(t), ~Held(t),
         NEW w \in Worker, NEW pc \in {"precheck", "load", "gate", "claim"}, About(w, t, pc)
  PROVE  \/ (About(w, t, pc)' /\ ~Step(w))
         \/ fail(w) \/ Held(t)'
         \/ (pc = "precheck" /\ About(w, t, "load")')
         \/ (pc = "load" /\ About(w, t, "gate")')
         \/ (pc = "gate" /\ About(w, t, "claim")')
  <1>1. TypeOK /\ worker \in [Worker -> Jobs] /\ worker[w].pc = pc /\ worker[w].tx = t
    BY DEF ClaimInv, TypeOK, About, at
  <1>2. processed[t] = "none"
    BY <1>1, CoveredIs
  <1>3. CASE Step(w) /\ pc = "precheck"
    <2>1. Goto(w, "load")
      BY <1>1, <1>2, <1>3 DEF Step, precheck, load, short, residual, insufficient, gate, claim,
         activate, publish, at, is_tx_processed
    <2> QED  BY <1>1, <1>3, <2>1, GotoEffect DEF Pcs, About, at
  <1>4. CASE Step(w) /\ pc = "load"
    <2>1. load(w)
      BY <1>1, <1>4 DEF Step, precheck, load, short, residual, insufficient, gate, claim,
         activate, publish, at
    <2> DEFINE r == sub[SubOf(t)]
    <2>2. SubOf(t) \in Sub /\ SubOf(t) \in registered /\ r.status = "pending" /\ r.required = Stored
      BY <1>1, WorkerAssumption DEF Excused, get_vaults_to_watch, TypeOK, Rows
    <2>3. \A d \in required_amounts(r.required, chain[t].value) : ~(chain[t].value < d)
      <3>1. chain[t].value \in Nat /\ chain[t].value >= Stored /\ Stored \in Nat
            /\ \A d \in Derived : d \in Nat /\ chain[t].value >= d
        BY <1>1, WorkerAssumption DEF Covered, Covers, TypeOK, Transactions
      <3> QED  BY <2>2, <3>1 DEF required_amounts
    <2>4. PICK d \in required_amounts(r.required, chain[t].value) :
            worker' = [worker EXCEPT
                  ![w].pc = IF chain[t].value < d THEN "short" ELSE "gate",
                  ![w].renewal = (r.status = "active")]
      BY <1>1, <2>1, <2>2 DEF load
    <2>5. worker' = [worker EXCEPT ![w] = [worker[w] EXCEPT !.pc = "gate",
                                                            !.renewal = (r.status = "active")]]
      BY <2>3, <2>4
    <2> HIDE DEF r
    <2> QED  BY <1>1, <1>4, <2>5 DEF Jobs, About, at
  <1>5. CASE Step(w) /\ pc = "gate"
    <2>1. Goto(w, "claim")
      BY <1>1, <1>5 DEF Step, precheck, load, short, residual, insufficient, gate, claim,
         activate, publish, at, Excused
    <2> QED  BY <1>1, <1>5, <2>1, GotoEffect DEF Pcs, About, at
  <1>6. CASE Step(w) /\ pc = "claim"
    <2>1. Goto(w, "activate")
      BY <1>1, <1>2, <1>6 DEF Step, precheck, load, short, residual, insufficient, gate, claim,
         activate, publish, at
    <2> QED  BY <1>1, <2>1, GotoEffect DEF Pcs, Held, Holds
  <1>7. CASE ~Step(w)
    <2>1. \A u \in Tx : ~take(w, u)
      BY <1>1 DEF take, Running
    <2>2. worker'[w] = worker[w] \/ fail(w)
      BY <1>1, <1>7, <2>1, WorkerChange
    <2> QED  BY <1>1, <1>7, <2>2 DEF About, at
  <1> QED  BY <1>3, <1>4, <1>5, <1>6, <1>7

\* Who holds a payment that nothing excuses activates with its next step.
LEMMA HolderAdvances ==
  ASSUME ClaimInv, [Next]_vars, NEW t \in Tx, ~Excused(t),
         NEW w \in Worker, About(w, t, "activate")
  PROVE  (About(w, t, "activate")' /\ ~Step(w)) \/ fail(w) \/ Excused(t)'
  <1>1. /\ worker \in [Worker -> Jobs] /\ worker[w].pc = "activate" /\ worker[w].tx = t
        /\ credit \in [Tx -> Nat]
    BY DEF ClaimInv, TypeOK, About, at
  <1>2. CASE Step(w)
    <2>1. activate(w)
      BY <1>1, <1>2 DEF Step, precheck, load, short, residual, insufficient, gate, claim,
         activate, publish, at
    <2>2. credit' = [credit EXCEPT ![t] = @ + 1]
      BY <1>1, <2>1 DEF activate, Excused, get_vaults_to_watch
    <2> QED  BY <1>1, <2>2 DEF Excused
  <1>3. CASE ~Step(w)
    <2>1. \A u \in Tx : ~take(w, u)
      BY <1>1 DEF take, Running
    <2>2. worker'[w] = worker[w] \/ fail(w)
      BY <1>3, <2>1, WorkerChange DEF ClaimInv
    <2> QED  BY <1>1, <1>3, <2>2 DEF About, at
  <1> QED  BY <1>2, <1>3

\* A copy in the queue is taken out by a worker only.
LEMMA QueueChange ==
  ASSUME TypeOK, [Next]_vars, NEW t \in Tx, queue[t] > 0
  PROVE  queue'[t] > 0 \/ \E w \in Worker : take(w, t)
  <1>1. queue \in [Tx -> Nat]  BY WorkerAssumption DEF TypeOK
  <1>2. ASSUME NEW w \in Worker, NEW u \in Tx, take(w, u)
        PROVE  queue'[t] > 0 \/ take(w, t)
    BY <1>1, <1>2 DEF take
  <1>3. CASE Producer
    <2>1. \E T : enqueue(T)
      BY <1>3 DEF Producer, handle_webhook, poll_vaults, recheck_by_tx_hash, handle_recheck,
             poll_once, recheck_by_subscription
    <2> QED  BY <1>1, <2>1 DEF enqueue
  <1>4. ASSUME NEW w \in Worker, Step(w) PROVE queue' = queue
    BY <1>4 DEF Step, precheck, load, short, residual, insufficient, gate, claim, activate,
                publish, Reads, redis
  <1>5. CASE Member \/ Listener \/ Others \/ UNCHANGED vars
    <2>1. Member => queue' = queue
      BY DEF Member, create_subscription, generate_payment_request, half_hour_passes, Pay, redis
    <2>2. Listener => queue' = queue
      BY DEF Listener, _handle_approve_and_welcome, _handle_insufficient_payment
    <2>3. Others => queue' = queue
      BY DEF Others, expire_and_kick, stale_pending_cleanup_job, Elsewhere,
             set_payments_paused, start_bot_listener, redis
    <2> QED  BY <1>5, <2>1, <2>2, <2>3 DEF vars, redis
  <1>6. CASE Fault
    BY <1>6 DEF Fault, create_app, stop_bot, fail, redis
  <1>7. CASE Work
    BY <1>2, <1>4, <1>7 DEF Work
  <1> QED  BY <1>3, <1>5, <1>6, <1>7 DEF Next

LEMMA TakeStarts ==
  ASSUME ClaimInv, NEW w \in Worker, NEW t \in Tx, take(w, t)
  PROVE  About(w, t, "precheck")'
  <1> DEFINE r == [Idle EXCEPT !.pc = "precheck", !.tx = t]
  <1>1. r.pc = "precheck" /\ r.tx = t  BY DEF Idle
  <1>2. worker' = [worker EXCEPT ![w] = r] /\ worker \in [Worker -> Jobs]
    BY DEF take, ClaimInv, TypeOK
  <1> HIDE DEF r
  <1> QED  BY <1>1, <1>2 DEF About, at

\* A payment that covers the stored amount and the price at every rate is credited in
\* the end, whatever copies of its job the workers forget, unless its row drops out of the
\* watcher's rounds first (half an hour after updated_at; on SQLite no row is in one): a
\* round queues it again, a worker that is free takes it, and once no job fails any more
\* the one that took it claims and activates, unless another was first.
\* []Fairness says no more than Fairness, whose parts hold of every suffix of a behaviour.
THEOREM CreditedInTheEnd ==
  ASSUME Worker # {}
  PROVE  Spec /\ []Fairness /\ []CanGoOn /\ FailuresEnd => CoveredIsCredited
  <1>1. Fairness => \A w \in Worker : WorkerFairness(w)
    BY PTL DEF Fairness
  <1>2. Fairness => \A t \in Tx : TxFairness(t)
    BY PTL DEF Fairness
  <1>3. []TypeOK /\ []MailInv /\ [][Next]_vars /\ Fairness /\ []CanGoOn => []<>Free
    BY FreedAgain
  <1> SUFFICES ASSUME NEW t \in Tx
               PROVE  Spec /\ []Fairness /\ []CanGoOn /\ FailuresEnd =>
                        (Covered(t) ~> Excused(t))
    BY DEF CoveredIsCredited, Covered, Excused
  <1> DEFINE P == Covered(t)
             Q == Excused(t)
             H == Held(t)
             N == queue[t] > 0
             A(w, pc) == About(w, t, pc)
             Fails == \E w \in Worker : fail(w)
  <1>4. ClaimInv /\ P /\ [Next]_vars => P'
    <2> SUFFICES ASSUME ClaimInv, P, [Next]_vars PROVE P'  OBVIOUS
    <2>1. chain'[t] = chain[t]  BY ChainFixed DEF ClaimInv, Covered
    <2> QED  BY <2>1 DEF Covered, Covers, Paid
  <1>5. ClaimInv /\ P /\ ~Q /\ ~H /\ ~N /\ CanGoOn => ENABLED <<poll_vaults(t)>>_vars
    <2> SUFFICES ASSUME ClaimInv, P, ~Q, ~H, ~N, PollReady(t)
                 PROVE  ENABLED <<poll_vaults(t)>>_vars
      BY DEF CanGoOn
    <2>1. queue[t] < MaxCopies
      BY WorkerAssumption DEF ClaimInv, TypeOK
    <2>2. Paid(t) /\ SubOf(t) \in get_vaults_to_watch /\ ~is_tx_processed(t)
      BY CoveredIs DEF ClaimInv, Covered
    <2> QED  BY <2>1, <2>2 DEF PollReady
  <1>6. ClaimInv /\ <<poll_vaults(t)>>_vars => N'
    BY WorkerAssumption DEF ClaimInv, TypeOK, poll_vaults, enqueue
  <1>7. ClaimInv /\ N /\ [Next]_vars => N' \/ \E w \in Worker : take(w, t)
    BY QueueChange DEF ClaimInv
  <1>8. ClaimInv /\ (\E w \in Worker : take(w, t)) => (\E w \in Worker : A(w, "precheck"))'
    <2> SUFFICES ASSUME ClaimInv, NEW w \in Worker, take(w, t) PROVE A(w, "precheck")'
      OBVIOUS
    <2> QED  BY TakeStarts
  <1>9. N /\ Free /\ CanGoOn => ENABLED <<\E w \in Worker : take(w, t)>>_vars
    <2>1. CanGoOn => TakeReady(t)  BY DEF CanGoOn
    <2> QED  BY <2>1 DEF TakeReady
  <1>10. Fairness => TxFairness(t)
    BY <1>2
  <1>11. ASSUME []ClaimInv, [][Next]_vars, [][~Fails]_vars, []Fairness, []CanGoOn
         PROVE  H ~> Q
    <2>1. ASSUME NEW w \in Worker PROVE A(w, "activate") => <>Q
      <3>1. ClaimInv /\ A(w, "activate") /\ ~Q /\ [Next]_vars /\ [~Fails]_vars
              => (A(w, "activate")' \/ Q') /\ (<<Step(w)>>_vars => Q')
        <4>1. fail(w) => FALSE \/ Fails  OBVIOUS
        <4>2. fail(w) => faults' # faults  BY DEF fail, ClaimInv, TypeOK
        <4> QED  BY <4>1, <4>2, HolderAdvances DEF vars
      <3>2. A(w, "activate") /\ CanGoOn => ENABLED <<Step(w)>>_vars
        <4>1. CanGoOn => StepReady(w)  BY DEF CanGoOn
        <4> QED  BY <4>1 DEF StepReady, About, at, Running
      <3>3. Fairness => WorkerFairness(w)
        BY <1>1
      <3> HIDE DEF A, Q
      <3> QED  BY <1>11, <3>1, <3>2, <3>3, PTL DEF WorkerFairness
    <2> HIDE DEF A, Q
    <2>2. (\E w \in Worker : A(w, "activate")) => <>Q  BY <2>1
    <2>3. H => \E w \in Worker : A(w, "activate")
      BY DEF Held, Holds, A, About, at
    <2> QED  BY <1>11, <2>2, <2>3, PTL
  <1>12. ASSUME []ClaimInv, [][Next]_vars, [][~Fails]_vars, []Fairness, []CanGoOn
         PROVE  (\E w \in Worker : A(w, "precheck")) /\ []P ~> Q \/ H
    <2>1. ASSUME NEW w \in Worker PROVE A(w, "precheck") /\ []P => <>(Q \/ H)
      <3>1. ASSUME NEW pc \in {"precheck", "load", "gate", "claim"}
            PROVE  ClaimInv /\ P /\ A(w, pc) /\ ~Q /\ ~H /\ [Next]_vars /\ [~Fails]_vars
                     => \/ (A(w, pc)' /\ ~<<Step(w)>>_vars)
                        \/ H'
                        \/ (pc = "precheck" /\ A(w, "load")')
                        \/ (pc = "load" /\ A(w, "gate")')
                        \/ (pc = "gate" /\ A(w, "claim")')
        <4>1. ClaimInv /\ fail(w) => faults' # faults /\ Fails
          BY DEF fail, ClaimInv, TypeOK
        <4> QED  BY <4>1, JobAdvances DEF vars
      <3>2. ASSUME NEW pc \in {"precheck", "load", "gate", "claim"}
            PROVE  A(w, pc) /\ CanGoOn => ENABLED <<Step(w)>>_vars
        <4>1. CanGoOn => StepReady(w)  BY DEF CanGoOn
        <4>2. A(w, pc) => Running(w) /\ worker[w].pc \notin {"insufficient", "publish"}
          BY DEF About, at, Running
        <4> QED  BY <4>1, <4>2 DEF StepReady
      <3>3. Fairness => WorkerFairness(w)
        BY <1>1
      <3> HIDE DEF A, Q, H, P
      <3>4. ClaimInv /\ P /\ A(w, "precheck") /\ ~Q /\ ~H /\ [Next]_vars /\ [~Fails]_vars =>
              (A(w, "precheck")' \/ A(w, "load")' \/ H')
              /\ (<<Step(w)>>_vars => A(w, "load")' \/ H')
        BY <3>1
      <3>5. ClaimInv /\ P /\ A(w, "load") /\ ~Q /\ ~H /\ [Next]_vars /\ [~Fails]_vars =>
              (A(w, "load")' \/ A(w, "gate")' \/ H') /\ (<<Step(w)>>_vars => A(w, "gate")' \/ H')
        BY <3>1
      <3>6. ClaimInv /\ P /\ A(w, "gate") /\ ~Q /\ ~H /\ [Next]_vars /\ [~Fails]_vars =>
              (A(w, "gate")' \/ A(w, "claim")' \/ H') /\ (<<Step(w)>>_vars => A(w, "claim")' \/ H')
        BY <3>1
      <3>7. ClaimInv /\ P /\ A(w, "claim") /\ ~Q /\ ~H /\ [Next]_vars /\ [~Fails]_vars =>
              (A(w, "claim")' \/ H') /\ (<<Step(w)>>_vars => H')
        BY <3>1
      <3>8. CanGoOn /\ (A(w, "precheck") \/ A(w, "load") \/ A(w, "gate") \/ A(w, "claim"))
              => ENABLED <<Step(w)>>_vars
        BY <3>2
      <3> QED  BY <1>12, <3>3, <3>4, <3>5, <3>6, <3>7, <3>8, PTL DEF WorkerFairness
    <2> HIDE DEF A, Q, H, P
    <2>2. (\E w \in Worker : A(w, "precheck")) /\ []P => <>(Q \/ H)  BY <2>1
    <2> QED  BY <1>12, <2>2, PTL
  <1> HIDE DEF P, Q, H, N, A, Fails
  <1>13. ASSUME []ClaimInv, []TypeOK, []MailInv, [][Next]_vars, [][~Fails]_vars, []Fairness,
                []CanGoOn
         PROVE  P ~> Q
    <2>1. (\E w \in Worker : A(w, "precheck")) /\ []P ~> Q \/ H  BY <1>12, <1>13, PTL
    <2>2. H ~> Q  BY <1>11, <1>13, PTL
    <2>3. []<>Free  BY <1>3, <1>13, PTL
    <2> QED  BY <1>4, <1>5, <1>6, <1>7, <1>8, <1>9, <1>10, <1>13, <2>1, <2>2, <2>3, PTL
             DEF TxFairness
  <1>14. Spec /\ []Fairness /\ []CanGoOn /\ FailuresEnd => (P ~> Q)
    BY <1>4, <1>13, ClaimInvariant, TypeCorrect, MailInvariant, PTL DEF Spec, FailuresEnd, Fails
  <1> QED  BY <1>14 DEF P, Q
=============================================================================
