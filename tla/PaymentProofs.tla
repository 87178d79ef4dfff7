--------------------------- MODULE PaymentProofs ---------------------------
(***************************************************************************)
(* Theorems about the payment pipeline, for any number of subscriptions,   *)
(* vaults, transactions and coroutines.                                    *)
(***************************************************************************)
EXTENDS Payment, FiniteSetTheorems, TLAPS

-----------------------------------------------------------------------------
(* What the two ways of moving a job on do to the jobs.                    *)

LEMMA NoRowType == \A status \in Status : NoRow(status) \in Rows
  BY DEF NoRow, Rows

LEMMA IdleType == Idle \in Jobs
  BY DEF Idle, Jobs, Pcs

LEMMA GotoEffect ==
  ASSUME job \in [Task -> Jobs], NEW j \in Task, NEW pc \in Pcs, Goto(j, pc)
  PROVE  /\ job' \in [Task -> Jobs]
         /\ job'[j] = [job[j] EXCEPT !.pc = pc]
         /\ job'[j].pc = pc
         /\ job'[j].tx = job[j].tx
         /\ job'[j].required = job[j].required
         /\ job'[j].total = job[j].total
         /\ \A i \in Task : i # j => job'[i] = job[i]
  <1>1. job' = [job EXCEPT ![j] = [job[j] EXCEPT !.pc = pc]]  BY DEF Goto
  <1>2. job[j] \in Jobs  OBVIOUS
  <1>3. [job[j] EXCEPT !.pc = pc] \in Jobs  BY <1>2 DEF Jobs
  <1> QED  BY <1>1, <1>2, <1>3 DEF Jobs

LEMMA FinishEffect ==
  ASSUME job \in [Task -> Jobs], NEW j \in Task, Finish(j)
  PROVE  /\ job' \in [Task -> Jobs]
         /\ job'[j] = Idle
         /\ job'[j].pc = "idle"
         /\ \A i \in Task : i # j => job'[i] = job[i]
  BY IdleType DEF Finish, Idle

LEMMA StartEffect ==
  ASSUME job \in [Task -> Jobs], NEW j \in Task, NEW t \in Tx,
         NEW origin \in {"watcher", "tap", "operator"}, Start(j, t, origin)
  PROVE  /\ job' \in [Task -> Jobs]
         /\ job'[j].pc = "precheck"
         /\ job'[j].tx = t
         /\ \A i \in Task : i # j => job'[i] = job[i]
  <1> DEFINE r == [Idle EXCEPT !.pc = "precheck", !.origin = origin, !.tx = t]
  <1>1. r \in Jobs /\ r.pc = "precheck" /\ r.tx = t  BY DEF Idle, Jobs, Pcs
  <1>2. job' = [job EXCEPT ![j] = r]  BY DEF Start
  <1> HIDE DEF r
  <1> QED  BY <1>1, <1>2

-----------------------------------------------------------------------------
(* TypeOK.  Late jobs are those past the amount check.                     *)

Late == {"claim", "reset", "activate", "overpaid"}

\* A step that leaves the chain alone keeps Grounded when what it records and
\* what it moves to a late pc was on the chain and had reached the amount.
LEMMA GroundedKept ==
  ASSUME Grounded, UNCHANGED ledger,
         \A t \in Tx : processed'[t] # "none" => processed[t] # "none" \/ OnChain(t),
         \A j \in Task : \/ job'[j] = job[j]
                         \/ job'[j].pc = "idle"
                         \/ /\ OnChain(job'[j].tx)
                            /\ job'[j].pc \in Late => job'[j].required <= job'[j].total
  PROVE  Grounded'
  <1>1. UNCHANGED <<chain, accumulated>>  BY DEF ledger
  <1>2. \A t : OnChain(t)' <=> OnChain(t)  BY <1>1 DEF OnChain
  <1> QED  BY <1>1, <1>2 DEF Grounded, Running, Late

LEMMA TypeInit == Init => TypeOK
  <1> SUFFICES ASSUME Init PROVE TypeOK  OBVIOUS
  <1>1. DatabaseOK  BY NoRowType DEF Init, DatabaseOK, Status
  <1>2. MemoryOK  BY IdleType DEF Init, MemoryOK
  <1>3. LedgerOK  BY DEF Init, LedgerOK, Unpaid, Transactions
  <1>4. HistoryOK  BY DEF Init, HistoryOK
  <1>5. Grounded
    BY PaymentAssumption DEF Init, Grounded, OnChain, Running, Idle
  <1> QED  BY <1>1, <1>2, <1>3, <1>4, <1>5 DEF TypeOK

LEMMA TypeUser == TypeOK /\ User => TypeOK'
  <1> SUFFICES ASSUME TypeOK, User PROVE TypeOK'  OBVIOUS
  <1> USE DEF TypeOK
  <1>1. ASSUME NEW s \in Sub, create_subscription(s) PROVE TypeOK'
    <2>1. DatabaseOK'
      BY <1>1, NoRowType DEF create_subscription, DatabaseOK, Status
    <2>2. MemoryOK' /\ LedgerOK' /\ HistoryOK'
      BY <1>1 DEF create_subscription, MemoryOK, LedgerOK, HistoryOK, memory, ledger, history
    <2>3. Grounded'
      BY <1>1, GroundedKept DEF create_subscription, memory
    <2> QED  BY <2>1, <2>2, <2>3
  <1>2. ASSUME NEW v \in Vault, generate_payment_request(v) PROVE TypeOK'
    <2>1. sub' \in [Sub -> Rows]
      <3>1. RequiredPayment[v] \in Nat /\ Owner[v] \in Sub  BY PaymentAssumption
      <3>2. sub[Owner[v]] \in Rows  BY <3>1 DEF DatabaseOK
      <3>3. [sub[Owner[v]] EXCEPT !.required = RequiredPayment[v], !.vault = v] \in Rows
        BY <3>1, <3>2 DEF Rows
      <3> QED  BY <1>2, <3>3 DEF generate_payment_request, DatabaseOK
    <2>2. DatabaseOK'
      BY <1>2, <2>1 DEF generate_payment_request, DatabaseOK
    <2>3. MemoryOK' /\ LedgerOK' /\ HistoryOK'
      BY <1>2, PaymentAssumption
      DEF generate_payment_request, wake_watcher_for_vault, MemoryOK, LedgerOK, HistoryOK
    <2>4. Grounded'
      BY <1>2 DEF generate_payment_request, Grounded, OnChain, Running
    <2> QED  BY <2>2, <2>3, <2>4
  <1>3. ASSUME NEW t \in Tx, NEW v \in Vault, NEW a \in Amount, Pay(t, v, a)
        PROVE TypeOK'
    <2>0. a \in Nat /\ a > 0 /\ RequiredPayment[v] \in Nat /\ RequiredPayment[v] > 0
          /\ accumulated[v] \in Nat /\ v # NoVault
      BY PaymentAssumption DEF LedgerOK
    <2>1. DatabaseOK' /\ MemoryOK' /\ HistoryOK'
      BY <1>3 DEF Pay, DatabaseOK, MemoryOK, HistoryOK, database, memory, history
    <2>2. LedgerOK'
      BY <1>3, <2>0 DEF Pay, LedgerOK, Transactions
    <2>3. chain' = [chain EXCEPT ![t] = [vault |-> v, value |-> a]]
      BY <1>3 DEF Pay
    <2>4. \A u \in Tx : OnChain(u) => OnChain(u)' /\ chain'[u] = chain[u]
      BY <1>3, <2>3 DEF Pay, OnChain, LedgerOK
    <2>5. \A u \in Tx : OnChain(u)' => chain'[u].vault \in Vault
      BY <2>3, <2>4 DEF OnChain, LedgerOK, Grounded
    <2>6. UNCHANGED <<job, processed>>
      BY <1>3 DEF Pay, database, memory
    <2>7. \A w \in Vault : accumulated'[w] < RequiredPayment[w]
      BY <1>3, <2>0, PaymentAssumption DEF Pay, LedgerOK, Grounded
    <2>8. Grounded'
      BY <2>4, <2>5, <2>6, <2>7 DEF Grounded, Running, OnChain
    <2> QED  BY <2>1, <2>2, <2>8
  <1> QED  BY <1>1, <1>2, <1>3 DEF User

\* A step of one job that changes no table and ends it, or moves it to an early
\* pc, or to a late one with the amount reached.
LEMMA TypeQuietStep ==
  ASSUME TypeOK, NEW j \in Task, Running(j),
         UNCHANGED <<database, watched, seen, stalled, ledger, history>>,
         notified' \subseteq Tx,
         \/ Finish(j)
         \/ \E pc \in Pcs :
               Goto(j, pc) /\ (pc \in Late => job[j].required <= job[j].total)
  PROVE  TypeOK'
  <1> USE DEF TypeOK
  <1>1. DatabaseOK' /\ LedgerOK' /\ HistoryOK'
    BY DEF DatabaseOK, LedgerOK, HistoryOK, database, ledger, history
  <1>2. UNCHANGED processed  BY DEF database
  <1>3. OnChain(job[j].tx)  BY DEF Grounded
  <1>4. CASE Finish(j)
    <2>1. MemoryOK'  BY <1>4, FinishEffect DEF MemoryOK
    <2>2. Grounded'  BY <1>2, <1>4, FinishEffect, GroundedKept DEF MemoryOK
    <2> QED  BY <1>1, <2>1, <2>2
  <1>5. CASE ~Finish(j)
    <2>1. PICK pc \in Pcs :
            Goto(j, pc) /\ (pc \in Late => job[j].required <= job[j].total)
      BY <1>5
    <2>2. /\ job' \in [Task -> Jobs]
          /\ job'[j].pc = pc /\ job'[j].tx = job[j].tx
          /\ job'[j].required = job[j].required /\ job'[j].total = job[j].total
          /\ \A i \in Task : i # j => job'[i] = job[i]
      BY <2>1, GotoEffect DEF MemoryOK
    <2>3. MemoryOK'  BY <2>2 DEF MemoryOK
    <2>4. \A i \in Task :
            \/ job'[i] = job[i]
            \/ /\ OnChain(job'[i].tx)
               /\ job'[i].pc \in Late => job'[i].required <= job'[i].total
      BY <1>3, <2>1, <2>2
    <2>5. Grounded'  BY <1>2, <2>4, GroundedKept
    <2> QED  BY <1>1, <2>3, <2>5
  <1> QED  BY <1>4, <1>5

LEMMA TypeArrival == TypeOK /\ Arrival => TypeOK'
  <1> SUFFICES ASSUME TypeOK, NEW j \in Task, NEW t \in Tx,
                      \/ poll_vaults_inprocess(j, t)
                      \/ cb_ive_paid(j, t)
                      \/ manual_recheck(j, t)
               PROVE  TypeOK'
    BY DEF Arrival
  <1> USE DEF TypeOK
  <1>1. /\ OnChain(t)
        /\ \E origin \in {"watcher", "tap", "operator"} : Start(j, t, origin)
        /\ UNCHANGED <<database, ledger, history>>
        /\ watched' = watched \/ watched' = watched \cup {chain[t].vault}
        /\ seen' = seen \/ seen' = seen \cup {t}
        /\ stalled' = stalled
        /\ UNCHANGED notified
    BY DEF poll_vaults_inprocess, cb_ive_paid, manual_recheck,
           wake_watcher_for_vault, OnChain
  <1>2. DatabaseOK' /\ LedgerOK' /\ HistoryOK' /\ UNCHANGED processed
    BY <1>1 DEF DatabaseOK, LedgerOK, HistoryOK, database, ledger, history
  <1>3. MemoryOK'
    BY <1>1, StartEffect DEF MemoryOK, Grounded
  <1>4. \A i \in Task :
          job'[i] = job[i] \/ (OnChain(job'[i].tx) /\ job'[i].pc \notin Late)
    BY <1>1, StartEffect DEF MemoryOK, Late
  <1>5. Grounded'
    BY <1>1, <1>2, <1>4, GroundedKept
  <1> QED  BY <1>2, <1>3, <1>5

LEMMA LoadType == ASSUME TypeOK, NEW j \in Task, load(j) PROVE TypeOK'
  <1> DEFINE t == job[j].tx
  <1> USE DEF TypeOK
  <1>1. OnChain(t) /\ t \in Tx /\ chain[t] \in Transactions /\ chain[t].vault \in Vault
    BY DEF load, at, Grounded, Running, OnChain, LedgerOK
  <1>2. Owner[chain[t].vault] \in Sub /\ RequiredPayment[chain[t].vault] \in Nat
    BY <1>1, PaymentAssumption
  <1>3. rowOf(j) \in Rows
    BY <1>2 DEF rowOf, subOf, OwnerOf, DatabaseOK
  <1>4. CASE chain[t].vault \notin registered
    <2>1. Finish(j) /\ Running(j)  BY <1>4 DEF load, at, Running
    <2> QED  BY <2>1, TypeQuietStep DEF load, MemoryOK
  <1>5. CASE chain[t].vault \in registered
    <2>1. PICK required \in required_amount(rowOf(j), t) :
            job' = [job EXCEPT ![j].pc = "gate",
                               ![j].renewal = (rowOf(j).status = "active"),
                               ![j].required = required,
                               ![j].total = rowOf(j).paid + chain[t].value]
      BY <1>5 DEF load
    <2>2. required \in Nat
      BY <2>1, <1>2, <1>3 DEF required_amount, Rows
    <2> DEFINE total == rowOf(j).paid + chain[t].value
               renewal == rowOf(j).status = "active"
               r == [job[j] EXCEPT !.pc = "gate", !.renewal = renewal,
                                   !.required = required, !.total = total]
    <2>3. total \in Nat /\ renewal \in BOOLEAN
      BY <1>1, <1>3 DEF Rows, Transactions
    <2>4. job' = [job EXCEPT ![j] = r]
      BY <2>1
    <2> HIDE DEF total, renewal
    <2>5. job[j] \in Jobs  BY DEF MemoryOK
    <2>6. r \in Jobs /\ r.pc = "gate" /\ r.tx = t
      BY <2>2, <2>3, <2>5 DEF Jobs, Pcs
    <2> HIDE DEF r
    <2>7. DatabaseOK' /\ LedgerOK' /\ HistoryOK' /\ UNCHANGED processed
      BY DEF load, DatabaseOK, LedgerOK, HistoryOK, database, ledger, history
    <2>8. MemoryOK'
      BY <2>4, <2>6 DEF load, MemoryOK
    <2>9. \A i \in Task :
            job'[i] = job[i] \/ (OnChain(job'[i].tx) /\ job'[i].pc \notin Late)
      <3>1. job'[j] = r /\ \A i \in Task : i # j => job'[i] = job[i]
        BY <2>4 DEF MemoryOK
      <3>2. job'[j].tx = t /\ job'[j].pc = "gate"  BY <3>1, <2>6
      <3>3. OnChain(job'[j].tx)  BY <1>1, <3>2
      <3> QED  BY <3>1, <3>2, <3>3 DEF Late
    <2>10. Grounded'
      BY <2>7, <2>9, GroundedKept DEF load
    <2> QED  BY <2>7, <2>8, <2>10
  <1> QED  BY <1>4, <1>5

\* What the two updates of a row leave it as.
LEMMA SubRowPaid ==
  ASSUME sub \in [Sub -> Rows], NEW s \in Sub, NEW amount \in Nat,
         update_amount_paid_so_far(s, amount)
  PROVE  sub' \in [Sub -> Rows]
  <1>1. sub[s] \in Rows  OBVIOUS
  <1>2. [sub[s] EXCEPT !.paid = amount] \in Rows  BY <1>1 DEF Rows
  <1> QED  BY <1>2 DEF update_amount_paid_so_far

LEMMA SubRowActivated ==
  ASSUME sub \in [Sub -> Rows], NEW s \in Sub, NEW t \in Tx,
         activate_subscription(s, t)
  PROVE  sub' \in [Sub -> Rows]
  <1> DEFINE n == sub[s].periods + 1
             r == [sub[s] EXCEPT !.status = "active", !.periods = n, !.lastTx = t]
  <1>1. sub[s] \in Rows /\ "active" \in Status  BY DEF Status
  <1>2. r \in Rows
    <2>1. n \in Nat  BY <1>1 DEF Rows
    <2> HIDE DEF n
    <2> QED  BY <1>1, <2>1 DEF Rows
  <1>3. sub' = [sub EXCEPT ![s] = r]  BY DEF activate_subscription
  <1> HIDE DEF r
  <1> QED  BY <1>2, <1>3

\* One named step per coroutine step; most of them only move the job on.
LEMMA TypeStep == ASSUME TypeOK, NEW j \in Task, Step(j) PROVE TypeOK'
  <1> USE DEF TypeOK
  <1>1. Running(j)
    BY DEF Step, precheck, load, gate, short, accumulate, grace,
           notify_insufficient_payment, residual, claim, reset, activate,
           overpaid, finish, at, Running
  <1>2. job[j] \in Jobs /\ OnChain(job[j].tx)
    BY <1>1 DEF MemoryOK, Grounded
  <1>3. job[j].total \in Nat /\ job[j].required \in Nat
    BY <1>2 DEF Jobs
  <1>4. subOf(j) \in Sub
    BY <1>2, PaymentAssumption DEF subOf, OwnerOf, OnChain, Grounded
  <1>5. CASE precheck(j)
    BY <1>1, <1>5, TypeQuietStep DEF precheck, Pcs, Late, MemoryOK
  <1>6. CASE load(j)
    BY <1>6, LoadType
  <1>7. CASE gate(j)
    <2>1. CASE paused
      BY <1>1, <1>7, <2>1, TypeQuietStep DEF gate, MemoryOK
    <2>2. CASE ~paused /\ job[j].total < job[j].required
      BY <1>1, <1>7, <2>2, TypeQuietStep DEF gate, MemoryOK, Pcs, Late
    <2>3. CASE ~paused /\ ~(job[j].total < job[j].required)
      <3>1. job[j].required <= job[j].total  BY <1>3, <2>3
      <3> QED  BY <1>1, <1>7, <2>3, <3>1, TypeQuietStep DEF gate, MemoryOK, Pcs
    <2> QED  BY <2>1, <2>2, <2>3
  <1>8. CASE short(j)
    BY <1>1, <1>8, TypeQuietStep DEF short, Pcs, Late, MemoryOK
  <1>9. CASE grace(j)
    <2>1. notified' \subseteq Tx
      BY <1>2, <1>9 DEF grace, MemoryOK, OnChain
    <2>2. Finish(j) \/ Goto(j, "residual") \/ Goto(j, "notify")
      BY <1>9 DEF grace
    <2> QED  BY <1>1, <1>9, <2>1, <2>2, TypeQuietStep DEF grace, Pcs, Late
  <1>10. CASE notify_insufficient_payment(j)
    BY <1>1, <1>10, TypeQuietStep DEF notify_insufficient_payment, MemoryOK
  <1>11. CASE finish(j)
    BY <1>1, <1>11, TypeQuietStep DEF finish, MemoryOK
  <1>12. CASE accumulate(j)
    <2>1. DatabaseOK'
      BY <1>3, <1>4, <1>12, SubRowPaid DEF accumulate, DatabaseOK
    <2>2. LedgerOK' /\ HistoryOK' /\ UNCHANGED <<processed, ledger>>
      BY <1>12 DEF accumulate, LedgerOK, HistoryOK, ledger, history
    <2>3. Goto(j, "grace") /\ "grace" \in Pcs  BY <1>12 DEF accumulate, Pcs
    <2>4. MemoryOK'  BY <1>12, <2>3, GotoEffect DEF accumulate, MemoryOK
    <2>5. Grounded'
      BY <1>2, <2>2, <2>3, GotoEffect, GroundedKept DEF MemoryOK, Late
    <2> QED  BY <2>1, <2>2, <2>4, <2>5
  <1>13. CASE reset(j)
    <2>1. DatabaseOK'
      BY <1>4, <1>13, SubRowPaid DEF reset, DatabaseOK
    <2>2. LedgerOK' /\ HistoryOK' /\ UNCHANGED <<processed, ledger>>
      BY <1>13 DEF reset, LedgerOK, HistoryOK, ledger, history
    <2>3. Goto(j, "activate") /\ "activate" \in Pcs  BY <1>13 DEF reset, Pcs
    <2>4. MemoryOK'  BY <1>13, <2>3, GotoEffect DEF reset, MemoryOK
    <2>5. job[j].required <= job[j].total  BY <1>13 DEF reset, at, Grounded
    <2>6. Grounded'
      BY <1>2, <2>2, <2>3, <2>5, GotoEffect, GroundedKept DEF MemoryOK
    <2> QED  BY <2>1, <2>2, <2>4, <2>6
  <1>14. CASE residual(j)
    <2>1. DatabaseOK'
      BY <1>14 DEF residual, mark_tx_processed, DatabaseOK
    <2>2. LedgerOK' /\ HistoryOK' /\ UNCHANGED ledger
      BY <1>14 DEF residual, LedgerOK, HistoryOK, ledger, history
    <2>3. MemoryOK'  BY <1>14, FinishEffect DEF residual, MemoryOK
    <2>4. \A t \in Tx : processed'[t] # "none" => processed[t] # "none" \/ OnChain(t)
      BY <1>2, <1>14 DEF residual, mark_tx_processed, DatabaseOK
    <2>5. Grounded'
      BY <1>14, <2>2, <2>4, FinishEffect, GroundedKept DEF residual, MemoryOK
    <2> QED  BY <2>1, <2>2, <2>3, <2>5
  <1>15. CASE claim(j)
    <2>1. DatabaseOK'
      BY <1>15 DEF claim, mark_tx_processed, DatabaseOK
    <2>2. LedgerOK' /\ HistoryOK' /\ UNCHANGED ledger
      BY <1>15 DEF claim, LedgerOK, HistoryOK, ledger, history
    <2>3. \A t \in Tx : processed'[t] # "none" => processed[t] # "none" \/ OnChain(t)
      BY <1>2, <1>15 DEF claim, mark_tx_processed, DatabaseOK
    <2>4. job[j].required <= job[j].total  BY <1>15 DEF claim, at, Grounded
    <2>5. CASE Finish(j)
      BY <1>15, <2>1, <2>2, <2>3, <2>5, FinishEffect, GroundedKept DEF claim, MemoryOK
    <2>6. CASE Goto(j, "reset")
      <3>1. "reset" \in Pcs  BY DEF Pcs
      <3>2. MemoryOK'  BY <1>15, <2>6, <3>1, GotoEffect DEF claim, MemoryOK
      <3>3. Grounded'
        BY <1>2, <2>2, <2>3, <2>4, <2>6, <3>1, GotoEffect, GroundedKept DEF MemoryOK
      <3> QED  BY <2>1, <2>2, <3>2, <3>3
    <2> QED  BY <1>15, <2>5, <2>6 DEF claim
  <1>16. CASE activate(j)
    <2>1. DatabaseOK'
      <3>1. sub' \in [Sub -> Rows]
        BY <1>2, <1>4, <1>16, SubRowActivated DEF activate, rowOf, DatabaseOK, OnChain
      <3> QED  BY <1>16, <3>1 DEF activate, DatabaseOK
    <2>2. HistoryOK'
      BY <1>2, <1>16 DEF activate, HistoryOK, OnChain
    <2>3. LedgerOK' /\ UNCHANGED <<processed, ledger>>
      BY <1>16 DEF activate, LedgerOK, ledger
    <2>4. Goto(j, "overpaid") /\ "overpaid" \in Pcs  BY <1>16 DEF activate, Pcs
    <2>5. MemoryOK'  BY <1>16, <2>4, GotoEffect DEF activate, MemoryOK
    <2>6. job[j].required <= job[j].total  BY <1>16 DEF activate, at, Grounded
    <2>7. Grounded'
      BY <1>2, <2>3, <2>4, <2>6, GotoEffect, GroundedKept DEF MemoryOK
    <2> QED  BY <2>1, <2>2, <2>3, <2>5, <2>7
  <1>17. CASE overpaid(j)
    <2>1. overpayment(j) >= RefundThreshold => overpayment(j) \in Nat
      BY <1>3, PaymentAssumption DEF overpayment
    <2>2. DatabaseOK'
      BY <1>2, <1>17, <2>1 DEF overpaid, DatabaseOK, OnChain
    <2>3. LedgerOK' /\ HistoryOK' /\ UNCHANGED <<processed, ledger>>
      BY <1>17 DEF overpaid, LedgerOK, HistoryOK, ledger, history
    <2>4. PICK pc \in {"renewed", "welcome"} : Goto(j, pc)
      BY <1>17 DEF overpaid
    <2>5. pc \in Pcs /\ pc \notin Late  BY DEF Pcs, Late
    <2>6. MemoryOK'  BY <1>17, <2>4, <2>5, GotoEffect DEF overpaid, MemoryOK
    <2>7. Grounded'
      <3>1. /\ job'[j].pc = pc /\ job'[j].tx = job[j].tx
            /\ \A i \in Task : i # j => job'[i] = job[i]
        BY <2>4, <2>5, GotoEffect DEF MemoryOK
      <3>2. OnChain(job'[j].tx)  BY <1>2, <3>1
      <3> QED  BY <2>3, <2>5, <3>1, <3>2, GroundedKept
    <2> QED  BY <2>2, <2>3, <2>6, <2>7
  <1> QED
    BY <1>5, <1>6, <1>7, <1>8, <1>9, <1>10, <1>11, <1>12, <1>13, <1>14, <1>15,
       <1>16, <1>17 DEF Step

LEMMA TypeElsewhere == TypeOK /\ Elsewhere => TypeOK'
  <1> SUFFICES ASSUME TypeOK, Elsewhere PROVE TypeOK'  OBVIOUS
  <1> USE DEF TypeOK
  <1>1. ASSUME NEW s \in Sub, NEW status \in Status, SetStatus(s, status)
        PROVE  TypeOK'
    <2>1. sub' \in [Sub -> Rows]
      <3>1. sub[s] \in Rows  BY DEF DatabaseOK
      <3>2. [sub[s] EXCEPT !.status = status] \in Rows  BY <3>1 DEF Rows
      <3> QED  BY <1>1, <3>2 DEF SetStatus, DatabaseOK
    <2>2. DatabaseOK'  BY <1>1, <2>1 DEF SetStatus, DatabaseOK
    <2>3. MemoryOK' /\ LedgerOK' /\ HistoryOK'
      BY <1>1 DEF SetStatus, MemoryOK, LedgerOK, HistoryOK, memory, ledger, history
    <2>4. Grounded'  BY <1>1, GroundedKept DEF SetStatus, memory
    <2> QED  BY <2>2, <2>3, <2>4
  <1>2. ASSUME NEW s \in Sub, expire(s) \/ cancel_subscription(s) \/ comp_subscription(s)
        PROVE  TypeOK'
    <2>1. {"expired", "cancelled", "comped"} \subseteq Status  BY DEF Status, Ended
    <2> QED
      BY <1>1, <1>2, <2>1 DEF expire, cancel_subscription, comp_subscription
  <1>3. ASSUME NEW s \in Sub, delete_stale_pending_subscriptions(s) PROVE TypeOK'
    <2>1. DatabaseOK'
      BY <1>3, NoRowType DEF delete_stale_pending_subscriptions, DatabaseOK, Status
    <2>2. MemoryOK' /\ LedgerOK' /\ HistoryOK'
      BY <1>3 DEF delete_stale_pending_subscriptions, MemoryOK, LedgerOK, HistoryOK,
                  memory, ledger, history
    <2>3. Grounded'
      BY <1>3, GroundedKept DEF delete_stale_pending_subscriptions, memory
    <2> QED  BY <2>1, <2>2, <2>3
  <1>4. ASSUME NEW v \in Vault, evict(v) PROVE TypeOK'
    <2>1. DatabaseOK' /\ MemoryOK' /\ LedgerOK' /\ HistoryOK' /\ UNCHANGED processed
      BY <1>4 DEF evict, DatabaseOK, MemoryOK, LedgerOK, HistoryOK, database, ledger,
                  history
    <2>2. Grounded'  BY <1>4, <2>1, GroundedKept DEF evict
    <2> QED  BY <2>1, <2>2
  <1>5. CASE set_payments_paused
    <2>1. DatabaseOK' /\ MemoryOK' /\ LedgerOK' /\ HistoryOK'
      BY <1>5 DEF set_payments_paused, DatabaseOK, MemoryOK, LedgerOK, HistoryOK,
                  memory, ledger, history
    <2>2. Grounded'  BY <1>5, GroundedKept DEF set_payments_paused, memory
    <2> QED  BY <2>1, <2>2
  <1>6. CASE _expire_stale_charges_inprocess
    <2>1. DatabaseOK' /\ MemoryOK' /\ LedgerOK' /\ HistoryOK'
      BY <1>6 DEF _expire_stale_charges_inprocess, DatabaseOK, MemoryOK, LedgerOK,
                  HistoryOK, database, ledger, history
    <2>2. Grounded'
      BY <1>6, GroundedKept DEF _expire_stale_charges_inprocess, database
    <2> QED  BY <2>1, <2>2
  <1> QED  BY <1>2, <1>3, <1>4, <1>5, <1>6 DEF Elsewhere

LEMMA BackfilledType ==
  ASSUME TypeOK
  PROVE  /\ Backfilled \in [Tx -> {"none", "partial", "full"}]
         /\ \A t \in Tx : Backfilled[t] = "none" <=> processed[t] = "none"
  BY DEF Backfilled, TypeOK, DatabaseOK

LEMMA TypeFault == TypeOK /\ Fault => TypeOK'
  <1> SUFFICES ASSUME TypeOK, Fault PROVE TypeOK'  OBVIOUS
  <1> USE DEF TypeOK
  <1>1. CASE restart
    <2>1. DatabaseOK'  BY <1>1, BackfilledType DEF restart, DatabaseOK
    <2>2. MemoryOK'
      BY <1>1, IdleType DEF restart, MemoryOK, VaultsToWatch
    <2>3. LedgerOK' /\ HistoryOK'
      BY <1>1 DEF restart, LedgerOK, HistoryOK, ledger
    <2>4. \A t \in Tx : processed'[t] # "none" => processed[t] # "none"
      BY <1>1, BackfilledType DEF restart
    <2>5. \A j \in Task : job'[j].pc = "idle"  BY <1>1 DEF restart, Idle
    <2>6. Grounded'  BY <1>1, <2>4, <2>5, GroundedKept DEF restart
    <2> QED  BY <2>1, <2>2, <2>3, <2>6
  <1>2. ASSUME NEW j \in Task, abort(j) PROVE TypeOK'
    <2>1. DatabaseOK' /\ LedgerOK' /\ HistoryOK' /\ UNCHANGED processed
      BY <1>2 DEF abort, DatabaseOK, LedgerOK, HistoryOK, database, ledger
    <2>2. MemoryOK'  BY <1>2, FinishEffect DEF abort, MemoryOK
    <2>3. Grounded'
      BY <1>2, <2>1, FinishEffect, GroundedKept DEF abort, MemoryOK
    <2> QED  BY <2>1, <2>2, <2>3
  <1> QED  BY <1>1, <1>2 DEF Fault

LEMMA TypeStutter == TypeOK /\ UNCHANGED vars => TypeOK'
  BY DEF vars, database, memory, ledger, history, TypeOK, DatabaseOK, MemoryOK,
         LedgerOK, HistoryOK, Grounded, OnChain, Running

\* Every reachable state of the pipeline is well formed: rows, jobs and records
\* keep their shape, every job and record is about a transaction on a vault, and
\* a job past the amount check of _process_payment_inprocess has the amount.
THEOREM TypeCorrect == Spec => []TypeOK
  <1>1. TypeOK /\ [Next]_vars => TypeOK'
    BY TypeUser, TypeArrival, TypeStep, TypeElsewhere, TypeFault, TypeStutter DEF Next
  <1> QED  BY TypeInit, <1>1, PTL DEF Spec

-----------------------------------------------------------------------------
(* A transaction is claimed once and credited once.                        *)

ClaimInv == TypeOK /\ CreditOnce /\ OneClaimant

\* A step that makes no new claimant, credits nothing and forgets no record.
NothingClaimed ==
  /\ UNCHANGED credit
  /\ \A t \in Tx : processed'[t] = "none" => processed[t] = "none"
  /\ \A j \in Task : Claimant(j)' => Claimant(j) /\ job'[j].tx = job[j].tx

\* It keeps the claims as they are.
LEMMA ClaimKept ==
  ASSUME ClaimInv, NothingClaimed
  PROVE  CreditOnce' /\ OneClaimant'
  <1> USE DEF NothingClaimed
  <1>1. CreditOnce'
    BY DEF ClaimInv, CreditOnce, TypeOK, HistoryOK
  <1>2. \A j \in Task : Claimant(j)' => /\ processed'[job'[j].tx] # "none"
                                        /\ credit'[job'[j].tx] = 0
    <2> SUFFICES ASSUME NEW j \in Task, Claimant(j)'
                 PROVE  processed'[job'[j].tx] # "none" /\ credit'[job'[j].tx] = 0
      OBVIOUS
    <2>1. Claimant(j) /\ job'[j].tx = job[j].tx  OBVIOUS
    <2>2. job[j].tx \in Tx
      BY <2>1 DEF ClaimInv, TypeOK, Grounded, Claimant, Running, OnChain
    <2>3. processed[job[j].tx] # "none" /\ credit[job[j].tx] = 0
      BY <2>1 DEF ClaimInv, OneClaimant
    <2> QED  BY <2>1, <2>2, <2>3
  <1>3. \A i, j \in Task : Claimant(i)' /\ Claimant(j)' /\ i # j => job'[i].tx # job'[j].tx
    <2> SUFFICES ASSUME NEW i \in Task, NEW j \in Task, Claimant(i)', Claimant(j)', i # j
                 PROVE  job'[i].tx # job'[j].tx
      OBVIOUS
    <2>1. Claimant(i) /\ job'[i].tx = job[i].tx  OBVIOUS
    <2>2. Claimant(j) /\ job'[j].tx = job[j].tx  OBVIOUS
    <2> QED  BY <2>1, <2>2 DEF ClaimInv, OneClaimant
  <1> QED  BY <1>1, <1>2, <1>3 DEF OneClaimant

\* The jobs after a step of one job that does not make it a claimant.
LEMMA NoNewClaimant ==
  ASSUME ClaimInv, NEW j \in Task,
         \/ Finish(j)
         \/ \E pc \in Pcs \ {"reset", "activate"} : Goto(j, pc)
         \/ Goto(j, "activate") /\ Claimant(j)
  PROVE  \A i \in Task : Claimant(i)' => Claimant(i) /\ job'[i].tx = job[i].tx
  <1>1. job \in [Task -> Jobs]  BY DEF ClaimInv, TypeOK, MemoryOK
  <1>2. "activate" \in Pcs  BY DEF Pcs
  <1>3. CASE Finish(j)
    BY <1>1, <1>3, FinishEffect DEF Claimant
  <1>4. CASE \E pc \in Pcs \ {"reset", "activate"} : Goto(j, pc)
    <2>1. PICK pc \in Pcs \ {"reset", "activate"} : Goto(j, pc)  BY <1>4
    <2>2. job'[j].pc = pc /\ \A i \in Task : i # j => job'[i] = job[i]
      BY <1>1, <2>1, GotoEffect
    <2> QED  BY ONLY <2>1, <2>2 DEF Claimant
  <1>5. CASE Goto(j, "activate") /\ Claimant(j)
    BY <1>1, <1>2, <1>5, GotoEffect DEF Claimant
  <1> QED  BY <1>3, <1>4, <1>5

\* A job that takes a transaction nobody has recorded: the one way to a claim.
TakesClaim(j) == claim(j) /\ processed[job[j].tx] = "none"

LEMMA UnclaimedStep ==
  ASSUME ClaimInv, NEW j \in Task, Step(j), ~TakesClaim(j), ~activate(j)
  PROVE  NothingClaimed
  <1>1. /\ job \in [Task -> Jobs]
        /\ processed \in [Tx -> {"none", "partial", "full"}]
        /\ credit \in [Tx -> Nat]
    BY DEF ClaimInv, TypeOK, MemoryOK, DatabaseOK, HistoryOK
  <1>3. ASSUME \/ precheck(j) \/ gate(j) \/ short(j) \/ accumulate(j) \/ grace(j)
               \/ notify_insufficient_payment(j) \/ overpaid(j) \/ finish(j)
        PROVE  NothingClaimed
    <2>1. \/ Finish(j)
          \/ \E pc \in {"load", "short", "claim", "residual", "accumulate", "grace",
                        "notify", "renewed", "welcome"} : Goto(j, pc)
      BY <1>3 DEF precheck, gate, short, accumulate, grace, overpaid, finish,
                  notify_insufficient_payment
    <2>2. UNCHANGED <<processed, credit>>
      BY <1>3 DEF precheck, gate, short, accumulate, grace, overpaid, finish,
                  notify_insufficient_payment, database, history
    <2>3. \A i \in Task : Claimant(i)' => Claimant(i) /\ job'[i].tx = job[i].tx
      BY <2>1, NoNewClaimant DEF Pcs
    <2> QED  BY <1>1, <2>2, <2>3 DEF NothingClaimed
  <1>4. CASE load(j)
    <2>1. UNCHANGED <<processed, credit>>  BY <1>4 DEF load, database, history
    <2>2. /\ job'[j].pc \in {"idle", "gate"}
          /\ \A i \in Task : i # j => job'[i] = job[i]
      <3>1. CASE Finish(j)  BY <1>1, <3>1, FinishEffect
      <3>2. CASE ~Finish(j)
        <4>1. PICK required \in required_amount(rowOf(j), job[j].tx) :
                job' = [job EXCEPT ![j].pc = "gate",
                          ![j].renewal = (rowOf(j).status = "active"),
                          ![j].required = required,
                          ![j].total = rowOf(j).paid + chain[job[j].tx].value]
          BY <1>4, <3>2 DEF load
        <4> DEFINE renewal == rowOf(j).status = "active"
                   total == rowOf(j).paid + chain[job[j].tx].value
        <4>2. job' = [job EXCEPT ![j] =
                        [job[j] EXCEPT !.pc = "gate", !.renewal = renewal,
                                       !.required = required, !.total = total]]
          BY <4>1
        <4> HIDE DEF renewal, total
        <4> QED  BY <1>1, <4>2 DEF Jobs
      <3> QED  BY <3>1, <3>2
    <2>3. \A i \in Task : Claimant(i)' => Claimant(i) /\ job'[i].tx = job[i].tx
      BY <2>2 DEF Claimant
    <2> QED  BY <2>1, <2>3 DEF NothingClaimed
  <1>5. CASE residual(j)
    <2>1. /\ UNCHANGED credit
          /\ \A t \in Tx : processed'[t] = "none" => processed[t] = "none"
      BY <1>1, <1>5 DEF residual, mark_tx_processed, history
    <2>2. \A i \in Task : Claimant(i)' => Claimant(i) /\ job'[i].tx = job[i].tx
      BY <1>5, NoNewClaimant DEF residual
    <2> QED  BY <2>1, <2>2 DEF NothingClaimed
  <1>6. CASE reset(j)
    <2>1. UNCHANGED <<processed, credit>>  BY <1>6 DEF reset, history
    <2>2. Claimant(j) /\ Goto(j, "activate")  BY <1>6 DEF reset, at, Claimant
    <2>3. \A i \in Task : Claimant(i)' => Claimant(i) /\ job'[i].tx = job[i].tx
      BY <2>2, NoNewClaimant
    <2> QED  BY <2>1, <2>3 DEF NothingClaimed
  <1>7. CASE claim(j)
    <2>1. Finish(j)  BY <1>7 DEF claim, TakesClaim
    <2>2. /\ UNCHANGED credit
          /\ \A u \in Tx : processed'[u] = "none" => processed[u] = "none"
      BY <1>1, <1>7 DEF claim, mark_tx_processed, history
    <2> QED  BY <2>1, <2>2, NoNewClaimant DEF NothingClaimed
  <1> QED  BY <1>3, <1>4, <1>5, <1>6, <1>7 DEF Step

\* What a claim does: one more claimant, of a transaction nobody else holds.
LEMMA TakesClaimEffect ==
  ASSUME ClaimInv, NEW j \in Task, TakesClaim(j)
  PROVE  LET t == job[j].tx IN
         /\ t \in Tx /\ credit[t] = 0
         /\ UNCHANGED <<sub, credit>>
         /\ processed'[t] = "full"
         /\ \A u \in Tx : u # t => processed'[u] = processed[u]
         /\ ~Claimant(j) /\ Claimant(j)' /\ job'[j].tx = t
         /\ \A i \in Task : i # j => job'[i] = job[i]
         /\ \A i \in Task : Claimant(i) => job[i].tx # t
  <1> DEFINE t == job[j].tx
  <1>1. /\ job \in [Task -> Jobs] /\ t \in Tx
        /\ processed \in [Tx -> {"none", "partial", "full"}] /\ credit \in [Tx -> Nat]
    BY DEF TakesClaim, claim, at, Running, ClaimInv, TypeOK, Grounded, OnChain,
           MemoryOK, DatabaseOK, HistoryOK
  <1>2. credit[t] = 0
    BY <1>1 DEF TakesClaim, ClaimInv, CreditOnce
  <1>3. UNCHANGED <<sub, credit>>
    BY DEF TakesClaim, claim, history
  <1>4. processed'[t] = "full" /\ \A u \in Tx : u # t => processed'[u] = processed[u]
    BY <1>1 DEF TakesClaim, claim, mark_tx_processed
  <1>5. Goto(j, "reset") /\ "reset" \in Pcs /\ ~Claimant(j)
    BY DEF TakesClaim, claim, Pcs, at, Claimant
  <1>6. /\ job'[j].pc = "reset" /\ job'[j].tx = t
        /\ \A i \in Task : i # j => job'[i] = job[i]
    BY <1>1, <1>5, GotoEffect
  <1>7. \A i \in Task : Claimant(i) => job[i].tx # t
    BY DEF TakesClaim, ClaimInv, OneClaimant
  <1> QED  BY <1>1, <1>2, <1>3, <1>4, <1>5, <1>6, <1>7 DEF Claimant

\* What an activation does: its job's claim is over, nobody else holds the same.
LEMMA ActivateEffect ==
  ASSUME ClaimInv, NEW j \in Task, activate(j)
  PROVE  LET t == job[j].tx IN
         /\ OnChain(t) /\ processed[t] # "none" /\ credit[t] = 0
         /\ UNCHANGED processed
         /\ credit'[t] \in {0, 1}
         /\ \A u \in Tx : u # t => credit'[u] = credit[u]
         /\ Claimant(j) /\ ~Claimant(j)'
         /\ \A i \in Task : i # j => job'[i] = job[i]
         /\ \A i \in Task : Claimant(i) /\ i # j => job[i].tx # t
  <1> DEFINE t == job[j].tx
  <1>1. Claimant(j) /\ OnChain(t) /\ job \in [Task -> Jobs] /\ credit \in [Tx -> Nat]
    BY DEF activate, at, Claimant, Running, ClaimInv, TypeOK, Grounded, MemoryOK,
           HistoryOK
  <1>2. processed[t] # "none" /\ credit[t] = 0
    BY <1>1 DEF ClaimInv, OneClaimant
  <1>3. UNCHANGED processed /\ Goto(j, "overpaid") /\ "overpaid" \in Pcs
    BY DEF activate, Pcs
  <1>4. job'[j].pc = "overpaid" /\ \A i \in Task : i # j => job'[i] = job[i]
    BY <1>1, <1>3, GotoEffect
  <1>5. credit'[t] \in {0, 1} /\ \A u \in Tx : u # t => credit'[u] = credit[u]
    BY <1>1, <1>2 DEF activate, OnChain
  <1>6. \A i \in Task : Claimant(i) /\ i # j => job[i].tx # t
    BY <1>1 DEF ClaimInv, OneClaimant
  <1> QED  BY <1>1, <1>2, <1>3, <1>4, <1>5, <1>6 DEF Claimant

LEMMA ClaimStep ==
  ASSUME ClaimInv, NEW j \in Task, Step(j)
  PROVE  CreditOnce' /\ OneClaimant'
  <1> DEFINE t == job[j].tx
  <1>1. credit \in [Tx -> Nat]
    BY DEF ClaimInv, TypeOK, HistoryOK
  <1>2. \A i \in Task : Claimant(i) => /\ job[i].tx \in Tx
                                       /\ processed[job[i].tx] # "none"
                                       /\ credit[job[i].tx] = 0
    BY DEF ClaimInv, TypeOK, Grounded, OnChain, Running, Claimant, OneClaimant
  <1>3. CASE ~TakesClaim(j) /\ ~activate(j)
    BY <1>3, UnclaimedStep, ClaimKept
  <1>4. CASE TakesClaim(j)
    <2>1. /\ UNCHANGED credit /\ t \in Tx /\ credit[t] = 0 /\ processed'[t] = "full"
          /\ \A u \in Tx : u # t => processed'[u] = processed[u]
          /\ job'[j].tx = t
          /\ \A i \in Task : i # j => job'[i] = job[i]
          /\ \A i \in Task : Claimant(i) => job[i].tx # t
      BY <1>4, TakesClaimEffect
    <2>2. CreditOnce'
      BY <1>1, <2>1 DEF ClaimInv, CreditOnce
    <2>3. \A i \in Task : i # j /\ Claimant(i)' => Claimant(i)
      BY <2>1 DEF Claimant
    <2>4. \A i \in Task : Claimant(i)' => /\ processed'[job'[i].tx] # "none"
                                          /\ credit'[job'[i].tx] = 0
      BY <1>2, <2>1, <2>3
    <2>5. \A h, i \in Task : Claimant(h)' /\ Claimant(i)' /\ h # i
                               => job'[h].tx # job'[i].tx
      BY <2>1, <2>3 DEF ClaimInv, OneClaimant
    <2> QED  BY <2>2, <2>4, <2>5 DEF OneClaimant
  <1>5. CASE activate(j)
    <2>1. /\ UNCHANGED processed /\ processed[t] # "none" /\ credit'[t] \in {0, 1}
          /\ \A u \in Tx : u # t => credit'[u] = credit[u]
          /\ ~Claimant(j)'
          /\ \A i \in Task : i # j => job'[i] = job[i]
          /\ \A i \in Task : Claimant(i) /\ i # j => job[i].tx # t
      BY <1>5, ActivateEffect
    <2>2. CreditOnce'
      BY <1>1, <2>1 DEF ClaimInv, CreditOnce
    <2>3. \A i \in Task : Claimant(i)' => i # j /\ Claimant(i)
      BY <2>1 DEF Claimant
    <2>4. \A i \in Task : Claimant(i)' => /\ processed'[job'[i].tx] # "none"
                                          /\ credit'[job'[i].tx] = 0
      BY <1>2, <2>1, <2>3
    <2>5. \A h, i \in Task : Claimant(h)' /\ Claimant(i)' /\ h # i
                               => job'[h].tx # job'[i].tx
      BY <2>1, <2>3 DEF ClaimInv, OneClaimant
    <2> QED  BY <2>2, <2>4, <2>5 DEF OneClaimant
  <1> QED  BY <1>3, <1>4, <1>5

LEMMA ClaimInit == Init => CreditOnce /\ OneClaimant
  BY DEF Init, CreditOnce, OneClaimant, Claimant, Idle

\* Nobody but a job claims: not a handler, a user, the rest of the program, a fault.
LEMMA UnclaimedArrival == ASSUME ClaimInv, Arrival PROVE NothingClaimed
  <1>1. PICK j \in Task, t \in Tx :
          poll_vaults_inprocess(j, t) \/ cb_ive_paid(j, t) \/ manual_recheck(j, t)
    BY DEF Arrival
  <1>2. /\ UNCHANGED <<processed, credit>>
        /\ \E origin \in {"watcher", "tap", "operator"} : Start(j, t, origin)
    BY <1>1 DEF poll_vaults_inprocess, cb_ive_paid, manual_recheck, database, history
  <1>3. \A i \in Task : Claimant(i)' => Claimant(i) /\ job'[i].tx = job[i].tx
    BY <1>2, StartEffect DEF Claimant, ClaimInv, TypeOK, MemoryOK
  <1> QED  BY <1>2, <1>3 DEF NothingClaimed

LEMMA OthersTouchNoJob ==
  User \/ Elsewhere \/ UNCHANGED vars => UNCHANGED <<processed, credit, job>>
  BY DEF User, create_subscription, generate_payment_request, Pay, Elsewhere,
         expire, cancel_subscription, comp_subscription, SetStatus,
         delete_stale_pending_subscriptions, evict, set_payments_paused,
         _expire_stale_charges_inprocess,
         vars, database, memory, history

LEMMA UnclaimedOthers ==
  User \/ Elsewhere \/ UNCHANGED vars => NothingClaimed
  BY OthersTouchNoJob DEF Claimant, NothingClaimed

LEMMA UnclaimedFault == ASSUME ClaimInv, Fault PROVE NothingClaimed
  <1>1. CASE restart
    <2>1. UNCHANGED credit  BY <1>1 DEF restart
    <2>2. \A t \in Tx : processed'[t] = "none" => processed[t] = "none"
      BY <1>1, BackfilledType DEF restart, ClaimInv
    <2>3. \A j \in Task : ~Claimant(j)'  BY <1>1 DEF restart, Claimant, Idle
    <2> QED  BY <2>1, <2>2, <2>3 DEF NothingClaimed
  <1>2. ASSUME NEW j \in Task, abort(j) PROVE NothingClaimed
    <2>1. UNCHANGED <<processed, credit>> /\ Finish(j)
      BY <1>2 DEF abort, database
    <2> QED  BY <2>1, NoNewClaimant DEF NothingClaimed
  <1> QED  BY <1>1, <1>2 DEF Fault

LEMMA ClaimInvariant == Spec => []ClaimInv
  <1>1. Init => ClaimInv  BY TypeInit, ClaimInit DEF ClaimInv
  <1>2. ClaimInv /\ [Next]_vars => ClaimInv'
    <2> SUFFICES ASSUME ClaimInv, [Next]_vars PROVE ClaimInv'  OBVIOUS
    <2>1. TypeOK'
      BY TypeUser, TypeArrival, TypeStep, TypeElsewhere, TypeFault, TypeStutter
      DEF Next, ClaimInv
    <2>2. CreditOnce' /\ OneClaimant'
      BY ClaimStep, UnclaimedArrival, UnclaimedOthers, UnclaimedFault, ClaimKept DEF Next
    <2> QED  BY <2>1, <2>2 DEF ClaimInv
  <1> QED  BY <1>1, <1>2, PTL DEF Spec

\* No transaction ever buys a second activation, whatever tasks, taps, rechecks,
\* restarts and aborted coroutines do: mark_tx_processed lets one claim through
\* and activate_subscription runs once for it.
THEOREM CreditedOnce == Spec => []CreditOnce
  <1>1. ClaimInv => CreditOnce  BY DEF ClaimInv
  <1> QED  BY <1>1, ClaimInvariant, PTL

\* Between its claim and its activation a coroutine is alone with its transaction.
THEOREM ClaimExclusive == Spec => []OneClaimant
  <1>1. ClaimInv => OneClaimant  BY DEF ClaimInv
  <1> QED  BY <1>1, ClaimInvariant, PTL

-----------------------------------------------------------------------------
(* A row that has ended is not activated.                                  *)

\* The only update that sets a row to active asks for a pending or active one.
LEMMA EndedStep ==
  ASSUME TypeOK, Next, NEW s \in Sub, sub[s].status \in Ended
  PROVE  sub'[s].status # "active"
  <1> USE DEF Ended
  <1>1. sub \in [Sub -> Rows]  BY DEF TypeOK, DatabaseOK
  <1>2. CASE User
    <2>1. ASSUME NEW r \in Sub, create_subscription(r) PROVE sub'[s].status # "active"
      BY <1>1, <2>1 DEF create_subscription, NoRow
    <2>2. ASSUME NEW v \in Vault, generate_payment_request(v)
          PROVE  sub'[s].status # "active"
      BY <1>1, <2>2, PaymentAssumption DEF generate_payment_request, Rows
    <2>3. ASSUME NEW t \in Tx, NEW v \in Vault, NEW a \in Amount, Pay(t, v, a)
          PROVE  sub'[s].status # "active"
      BY <2>3 DEF Pay, database
    <2> QED  BY <1>2, <2>1, <2>2, <2>3 DEF User
  <1>3. CASE Arrival
    BY <1>3 DEF Arrival, poll_vaults_inprocess, cb_ive_paid, manual_recheck, database
  <1>4. ASSUME NEW j \in Task, Step(j) PROVE sub'[s].status # "active"
    <2>1. CASE activate(j)
      BY <1>1, <2>1 DEF activate, rowOf, activate_subscription
    <2>2. CASE accumulate(j) \/ reset(j)
      BY <1>1, <2>2 DEF accumulate, reset, update_amount_paid_so_far, Rows
    <2>3. CASE UNCHANGED sub
      BY <2>3
    <2> QED
      BY <1>4, <2>1, <2>2, <2>3
      DEF Step, precheck, load, gate, short, grace, notify_insufficient_payment,
          residual, claim, overpaid, finish, database
  <1>5. CASE Elsewhere
    <2>1. ASSUME NEW r \in Sub, NEW status \in Ended, SetStatus(r, status)
          PROVE  sub'[s].status # "active"
      BY <1>1, <2>1 DEF SetStatus, Rows
    <2>2. ASSUME NEW r \in Sub, expire(r) \/ cancel_subscription(r) \/ comp_subscription(r)
          PROVE  sub'[s].status # "active"
      BY <2>1, <2>2 DEF expire, cancel_subscription, comp_subscription
    <2>3. ASSUME NEW r \in Sub, delete_stale_pending_subscriptions(r)
          PROVE  sub'[s].status # "active"
      BY <1>1, <2>3 DEF delete_stale_pending_subscriptions, NoRow
    <2>4. CASE \/ set_payments_paused \/ _expire_stale_charges_inprocess
               \/ \E v \in Vault : evict(v)
      BY <2>4 DEF set_payments_paused, _expire_stale_charges_inprocess, evict, database
    <2> QED  BY <1>5, <2>2, <2>3, <2>4 DEF Elsewhere
  <1>6. CASE Fault
    BY <1>6 DEF Fault, restart, abort, database
  <1> QED  BY <1>2, <1>3, <1>4, <1>5, <1>6 DEF Next

\* A kicked, expired or comped member is never turned active by a payment in flight.
THEOREM NoRevival == Spec => EndedStaysEnded
  <1>1. TypeOK /\ [Next]_vars =>
          [\A s \in Sub : sub[s].status \in Ended => sub'[s].status # "active"]_vars
    BY EndedStep
  <1> QED  BY <1>1, TypeCorrect, PTL DEF Spec, EndedStaysEnded

-----------------------------------------------------------------------------
(* No free billing cycle.  A row has advanced at most as many intervals as *)
(* transactions were credited for its vaults, which are all on record.     *)

Bought(s) == {t \in Tx : credit[t] > 0 /\ OwnerOf(t) = s}
CyclesInv == \A s \in Sub : sub[s].periods <= Cardinality(Bought(s))

LEMMA BoughtFinite ==
  \A s : IsFiniteSet(Bought(s)) /\ Cardinality(Bought(s)) \in Nat
  <1> TAKE s
  <1>1. Bought(s) \subseteq Tx  BY DEF Bought
  <1> QED  BY <1>1, PaymentAssumption, FS_Subset, FS_CardinalityType

\* A credited transaction is on the chain, and what is on the chain stays there.
LEMMA ChainFixed ==
  ASSUME TypeOK, Next, NEW t \in Tx, OnChain(t)
  PROVE  chain'[t] = chain[t]
  <1>1. CASE User
    BY <1>1 DEF User, create_subscription, generate_payment_request, Pay, OnChain,
                TypeOK, LedgerOK, ledger
  <1>2. CASE Arrival
    BY <1>2 DEF Arrival, poll_vaults_inprocess, cb_ive_paid, manual_recheck, ledger
  <1>3. CASE \E j \in Task : Step(j)
    BY <1>3 DEF Step, precheck, load, gate, short, accumulate, grace,
                notify_insufficient_payment, residual, claim, reset, activate,
                overpaid, finish, ledger
  <1>4. CASE Elsewhere \/ Fault
    BY <1>4 DEF Elsewhere, expire, cancel_subscription, comp_subscription, SetStatus,
                delete_stale_pending_subscriptions, evict, set_payments_paused,
         _expire_stale_charges_inprocess,
                Fault, restart, abort, ledger
  <1> QED  BY <1>1, <1>2, <1>3, <1>4 DEF Next

LEMMA BoughtKept ==
  ASSUME ClaimInv, Next, NEW s \in Sub,
         \A t \in Tx : credit[t] > 0 => credit'[t] > 0
  PROVE  Bought(s) \subseteq Bought(s)'
  <1> SUFFICES ASSUME NEW t \in Tx, credit[t] > 0, OwnerOf(t) = s
               PROVE  credit'[t] > 0 /\ OwnerOf(t)' = s
    BY DEF Bought
  <1>1. processed[t] # "none"
    BY DEF ClaimInv, CreditOnce, TypeOK, HistoryOK
  <1>2. OnChain(t)  BY <1>1 DEF ClaimInv, TypeOK, Grounded
  <1>3. chain'[t] = chain[t]  BY <1>2, ChainFixed DEF ClaimInv
  <1> QED  BY <1>3 DEF OwnerOf

\* Only an activation advances a renewal date, by one interval; every other step
\* leaves it, or resets it, and credits nothing.
LEMMA PeriodsStep ==
  ASSUME TypeOK, Next, \A j \in Task : ~activate(j)
  PROVE  /\ UNCHANGED credit
         /\ \A s \in Sub : sub'[s].periods \in {sub[s].periods, 0}
  <1>1. sub \in [Sub -> Rows]  BY DEF TypeOK, DatabaseOK
  <1>2. CASE User
    <2>1. ASSUME NEW r \in Sub, create_subscription(r)
          PROVE  /\ UNCHANGED credit
                 /\ \A s \in Sub : sub'[s].periods \in {sub[s].periods, 0}
      BY <1>1, <2>1 DEF create_subscription, NoRow, history
    <2>2. ASSUME NEW v \in Vault, generate_payment_request(v)
          PROVE  /\ UNCHANGED credit
                 /\ \A s \in Sub : sub'[s].periods \in {sub[s].periods, 0}
      BY <1>1, <2>2, PaymentAssumption DEF generate_payment_request, Rows
    <2>3. CASE \E t \in Tx, v \in Vault, a \in Amount : Pay(t, v, a)
      BY <2>3 DEF Pay, database, history
    <2> QED  BY <1>2, <2>1, <2>2, <2>3 DEF User
  <1>3. CASE Arrival
    BY <1>3 DEF Arrival, poll_vaults_inprocess, cb_ive_paid, manual_recheck, database,
                history
  <1>4. ASSUME NEW j \in Task, Step(j)
        PROVE  /\ UNCHANGED credit
               /\ \A s \in Sub : sub'[s].periods \in {sub[s].periods, 0}
    <2>1. CASE accumulate(j) \/ reset(j)
      BY <1>1, <2>1 DEF accumulate, reset, update_amount_paid_so_far, Rows, history
    <2>2. CASE UNCHANGED <<sub, credit>>
      BY <2>2
    <2> QED
      BY <1>4, <2>1, <2>2
      DEF Step, precheck, load, gate, short, grace, notify_insufficient_payment,
          residual, claim, overpaid, finish, database, history
  <1>5. CASE Elsewhere
    <2>1. ASSUME NEW r \in Sub, NEW status \in Ended, SetStatus(r, status)
          PROVE  /\ UNCHANGED credit
                 /\ \A s \in Sub : sub'[s].periods \in {sub[s].periods, 0}
      BY <1>1, <2>1 DEF SetStatus, Rows, history
    <2>2. ASSUME NEW r \in Sub, expire(r) \/ cancel_subscription(r) \/ comp_subscription(r)
          PROVE  /\ UNCHANGED credit
                 /\ \A s \in Sub : sub'[s].periods \in {sub[s].periods, 0}
      BY <2>1, <2>2 DEF expire, cancel_subscription, comp_subscription, Ended
    <2>3. ASSUME NEW r \in Sub, delete_stale_pending_subscriptions(r)
          PROVE  /\ UNCHANGED credit
                 /\ \A s \in Sub : sub'[s].periods \in {sub[s].periods, 0}
      BY <1>1, <2>3 DEF delete_stale_pending_subscriptions, NoRow, history
    <2>4. CASE \/ set_payments_paused \/ _expire_stale_charges_inprocess
               \/ \E v \in Vault : evict(v)
      BY <2>4 DEF set_payments_paused, _expire_stale_charges_inprocess, evict, database, history
    <2> QED  BY <1>5, <2>2, <2>3, <2>4 DEF Elsewhere
  <1>6. CASE Fault
    BY <1>6 DEF Fault, restart, abort, database
  <1> QED  BY <1>2, <1>3, <1>4, <1>5, <1>6 DEF Next

LEMMA CyclesStep ==
  ASSUME ClaimInv, ClaimInv', CyclesInv, Next
  PROVE  CyclesInv'
  <1> SUFFICES ASSUME NEW s \in Sub PROVE sub'[s].periods <= Cardinality(Bought(s)')
    BY DEF CyclesInv
  <1>1. /\ sub[s].periods \in Nat
        /\ sub[s].periods <= Cardinality(Bought(s))
        /\ Cardinality(Bought(s)) \in Nat
        /\ Cardinality(Bought(s)') \in Nat
        /\ IsFiniteSet(Bought(s)) /\ IsFiniteSet(Bought(s)')
    <2>1. sub[s] \in Rows  BY DEF ClaimInv, TypeOK, DatabaseOK
    <2>2. IsFiniteSet(Bought(s)') /\ Cardinality(Bought(s)') \in Nat
      <3>1. Bought(s)' \subseteq Tx  BY DEF Bought
      <3> QED  BY <3>1, PaymentAssumption, FS_Subset, FS_CardinalityType
    <2> QED  BY <2>1, <2>2, BoughtFinite DEF Rows, CyclesInv
  <1>2. CASE \A j \in Task : ~activate(j)
    <2>1. UNCHANGED credit /\ sub'[s].periods \in {sub[s].periods, 0}
      BY <1>2, PeriodsStep DEF ClaimInv
    <2>2. Bought(s) \subseteq Bought(s)'  BY <2>1, BoughtKept
    <2>3. Cardinality(Bought(s)) <= Cardinality(Bought(s)')
      BY <1>1, <2>2, FS_Subset
    <2> QED  BY <1>1, <2>1, <2>3
  <1>3. ASSUME NEW j \in Task, activate(j)
        PROVE  sub'[s].periods <= Cardinality(Bought(s)')
    <2> DEFINE t == job[j].tx
    <2>1. Claimant(j) /\ OnChain(t) /\ t \in Tx
      BY <1>3 DEF activate, at, Claimant, Running, ClaimInv, TypeOK, Grounded, OnChain
    <2>2. credit \in [Tx -> Nat] /\ sub \in [Sub -> Rows] /\ credit[t] = 0
      BY <2>1 DEF ClaimInv, OneClaimant, TypeOK, HistoryOK, DatabaseOK
    <2>3. \A u \in Tx : credit[u] > 0 => credit'[u] > 0
      BY <1>3, <2>1, <2>2 DEF activate
    <2>4. Bought(s) \subseteq Bought(s)'  BY <2>3, BoughtKept
    <2>5. Cardinality(Bought(s)) <= Cardinality(Bought(s)')
      BY <1>1, <2>4, FS_Subset
    <2>6. CASE sub'[s].periods = sub[s].periods
      BY <1>1, <2>5, <2>6
    <2>7. CASE sub'[s].periods # sub[s].periods
      <3>1. /\ subOf(j) = s
            /\ sub'[s].periods = sub[s].periods + 1
            /\ credit'[t] = 1
        BY <1>3, <2>1, <2>2, <2>7 DEF activate, activate_subscription, Rows
      <3>2. chain'[t] = chain[t]
        BY <2>1, ChainFixed DEF ClaimInv
      <3>3. t \in Bought(s)' /\ t \notin Bought(s)
        BY <2>1, <2>2, <3>1, <3>2 DEF Bought, OwnerOf, subOf
      <3>4. Bought(s) \cup {t} \subseteq Bought(s)'
        BY <2>4, <3>3
      <3>5. /\ IsFiniteSet(Bought(s) \cup {t})
            /\ Cardinality(Bought(s) \cup {t}) = Cardinality(Bought(s)) + 1
        BY <1>1, <3>3, FS_AddElement
      <3>6. Cardinality(Bought(s) \cup {t}) <= Cardinality(Bought(s)')
        BY <1>1, <3>4, FS_Subset
      <3> QED  BY <1>1, <3>1, <3>5, <3>6
    <2> QED  BY <2>6, <2>7
  <1> QED  BY <1>2, <1>3

\* The renewal date of a row never runs ahead of its recorded payments: a member
\* gets no billing cycle that no transaction of theirs was recorded for.
THEOREM NoFreeCycles == Spec => []NoFreeCycle
  <1>1. Init => CyclesInv
    <2> SUFFICES ASSUME Init, NEW s \in Sub
                 PROVE  sub[s].periods <= Cardinality(Bought(s))
      BY DEF CyclesInv
    <2>1. sub[s].periods = 0  BY DEF Init, NoRow
    <2> QED  BY <2>1, BoughtFinite
  <1>2. CyclesInv /\ UNCHANGED vars => CyclesInv'
    BY DEF CyclesInv, Bought, OwnerOf, vars, database, ledger, history
  <1>3. ClaimInv /\ CyclesInv => NoFreeCycle
    <2> SUFFICES ASSUME ClaimInv, CyclesInv, NEW s \in Sub
                 PROVE  sub[s].periods <= Cardinality(PaymentsRecorded(s))
      BY DEF NoFreeCycle
    <2>1. Bought(s) \subseteq PaymentsRecorded(s)
      BY DEF Bought, PaymentsRecorded, ClaimInv, CreditOnce, TypeOK, HistoryOK
    <2>2. PaymentsRecorded(s) \subseteq Tx  BY DEF PaymentsRecorded
    <2>3. IsFiniteSet(PaymentsRecorded(s))  BY <2>2, PaymentAssumption, FS_Subset
    <2>4. Cardinality(Bought(s)) <= Cardinality(PaymentsRecorded(s))
      BY <2>1, <2>3, FS_Subset
    <2>5. Cardinality(PaymentsRecorded(s)) \in Nat  BY <2>3, FS_CardinalityType
    <2>6. sub[s].periods \in Nat /\ sub[s].periods <= Cardinality(Bought(s))
      BY DEF CyclesInv, ClaimInv, TypeOK, DatabaseOK, Rows
    <2> QED  BY <2>4, <2>5, <2>6, BoughtFinite
  <1>4. ClaimInv /\ ClaimInv' /\ CyclesInv /\ [Next]_vars => CyclesInv'
    BY <1>2, CyclesStep
  <1> QED  BY <1>1, <1>3, <1>4, ClaimInvariant, PTL DEF Spec

-----------------------------------------------------------------------------
(* The pipeline implements the payment ledger.                             *)

\* What the ledger reads of a transaction, value by value.
EntryCases ==
  \A t \in Tx :
    /\ processed[t] = "none" => entry[t] = "open"
    /\ processed[t] # "none" /\ credit[t] > 0 => entry[t] = "spent"
    /\ processed[t] # "none" /\ credit[t] = 0 /\ Held(t) => entry[t] = "held"
    /\ processed[t] # "none" /\ credit[t] = 0 /\ ~Held(t) => entry[t] = "void"

LEMMA EntryOfTx == TypeOK => EntryCases
  <1> SUFFICES ASSUME TypeOK, NEW t \in Tx
               PROVE  /\ processed[t] = "none" => entry[t] = "open"
                      /\ processed[t] # "none" /\ credit[t] > 0 => entry[t] = "spent"
                      /\ processed[t] # "none" /\ credit[t] = 0 /\ Held(t)
                           => entry[t] = "held"
                      /\ processed[t] # "none" /\ credit[t] = 0 /\ ~Held(t)
                           => entry[t] = "void"
    BY DEF EntryCases
  <1>1. credit[t] \in Nat  BY DEF TypeOK, HistoryOK
  <1>2. CASE processed[t] = "none"  BY <1>2 DEF entry, Outcome
  <1>3. CASE processed[t] # "none" /\ credit[t] > 0  BY <1>3 DEF entry, Outcome
  <1>4. CASE processed[t] # "none" /\ credit[t] = 0  BY <1>4 DEF entry, Outcome
  <1> QED  BY <1>1, <1>2, <1>3, <1>4

LEMMA EntryOfTxNext == TypeOK' => EntryCases'
  BY EntryOfTx, PTL

\* A transaction that is held is on record and has bought nothing yet.
LEMMA HeldIsClaimed ==
  ASSUME ClaimInv, NEW t \in Tx, Held(t)
  PROVE  processed[t] # "none" /\ credit[t] = 0
  BY DEF Held, ClaimInv, OneClaimant

\* A step that makes no new claimant, credits nothing and forgets no record, and
\* leaves the rows' status and cycles alone: what it ends or records is void.
LEMMA LedgerVoid ==
  ASSUME ClaimInv, TypeOK', NothingClaimed, UNCHANGED <<standing, cycles>>
  PROVE  Ledger!Next
  <1> USE DEF NothingClaimed
  <1> DEFINE T == {t \in Tx : entry'[t] # entry[t]}
  <1>1. EntryCases /\ EntryCases' /\ credit \in [Tx -> Nat]
    BY EntryOfTx, EntryOfTxNext DEF ClaimInv, TypeOK, HistoryOK
  <1>2. \A t \in Tx : Held(t)' => Held(t)  BY DEF Held
  <1>3. ASSUME NEW t \in Tx, entry'[t] # entry[t]
        PROVE  entry[t] \in {"open", "held"} /\ entry'[t] = "void"
    <2>1. CASE processed[t] = "none"
      <3>1. credit[t] = 0 /\ ~Held(t)
        BY <1>1, <2>1, HeldIsClaimed DEF ClaimInv, CreditOnce
      <3> QED  BY <1>1, <1>2, <1>3, <2>1, <3>1 DEF EntryCases
    <2>2. CASE processed[t] # "none" /\ credit[t] > 0
      BY <1>1, <1>3, <2>2 DEF EntryCases
    <2>3. CASE processed[t] # "none" /\ credit[t] = 0
      BY <1>1, <1>2, <1>3, <2>3 DEF EntryCases
    <2> QED  BY <1>1, <2>1, <2>2, <2>3
  <1>4. entry' = [t \in Tx |-> IF t \in T THEN "void" ELSE entry[t]]
    <2>1. entry' = [t \in Tx |-> entry'[t]]  BY DEF entry
    <2> QED  BY <1>3, <2>1
  <1>5. Ledger!Void(T)
    BY <1>3, <1>4 DEF Ledger!Void
  <1>6. T \in SUBSET Tx  OBVIOUS
  <1> QED  BY <1>5, <1>6 DEF Ledger!Next

\* A step that leaves jobs, records and credits alone leaves every entry alone.
LEMMA EntryKept ==
  ASSUME UNCHANGED <<processed, credit, job>>
  PROVE  entry' = entry
  <1>1. \A t \in Tx : Held(t)' <=> Held(t)  BY DEF Held, Claimant
  <1> QED  BY <1>1 DEF entry, Outcome

LEMMA RowsKept ==
  ASSUME \A s \in Sub : /\ sub'[s].status = sub[s].status
                        /\ sub'[s].periods = sub[s].periods
  PROVE  UNCHANGED <<standing, cycles>>
  BY DEF standing, cycles

LEMMA LedgerInit == Init => Ledger!Init
  BY DEF Init, Ledger!Init, standing, cycles, entry, Outcome, NoRow

\* A join request admits, whatever ends a row ends it, the cleanup removes it.
LEMMA LedgerRows ==
  ASSUME TypeOK, User \/ Elsewhere
  PROVE  [Ledger!Next]_(Ledger!vars)
  <1>1. sub \in [Sub -> Rows]  BY DEF TypeOK, DatabaseOK
  <1>2. entry' = entry  BY OthersTouchNoJob, EntryKept
  <1>3. ASSUME NEW s \in Sub, create_subscription(s) PROVE Ledger!Admit(s)
    BY <1>1, <1>2, <1>3
    DEF create_subscription, Ledger!Admit, standing, cycles, NoRow
  <1>4. ASSUME NEW v \in Vault, generate_payment_request(v)
        PROVE  UNCHANGED Ledger!vars
    <2>1. UNCHANGED <<standing, cycles>>
      BY <1>1, <1>4, PaymentAssumption, RowsKept DEF generate_payment_request, Rows
    <2> QED  BY <1>2, <2>1 DEF Ledger!vars
  <1>5. CASE UNCHANGED sub
    BY <1>2, <1>5 DEF Ledger!vars, standing, cycles
  <1>6. ASSUME NEW s \in Sub, NEW status \in Ended, SetStatus(s, status),
               sub[s].status # "deleted"
        PROVE  Ledger!End(s, status)
    BY <1>1, <1>2, <1>6 DEF SetStatus, Ledger!End, standing, cycles, Rows
  <1>7. ASSUME NEW s \in Sub, expire(s) \/ cancel_subscription(s) \/ comp_subscription(s)
        PROVE  \E status \in Ended : Ledger!End(s, status)
    BY <1>6, <1>7 DEF expire, cancel_subscription, comp_subscription, Ended
  <1>8. ASSUME NEW s \in Sub, delete_stale_pending_subscriptions(s)
        PROVE  Ledger!Remove(s)
    BY <1>1, <1>2, <1>8
    DEF delete_stale_pending_subscriptions, Ledger!Remove, standing, cycles, NoRow
  <1>9. Ended = Ledger!Ended  BY DEF Ended, Ledger!Ended
  <1>10. ASSUME NEW t \in Tx, NEW v \in Vault, NEW a \in Amount, Pay(t, v, a)
         PROVE  UNCHANGED sub
    BY <1>10 DEF Pay, database
  <1>11. ASSUME NEW v \in Vault, evict(v) PROVE UNCHANGED sub
    BY <1>11 DEF evict, database
  <1>12. CASE set_payments_paused \/ _expire_stale_charges_inprocess
    BY <1>5, <1>12 DEF set_payments_paused, _expire_stale_charges_inprocess, database
  <1>13. CASE User
    BY <1>3, <1>4, <1>5, <1>10, <1>13 DEF User, Ledger!Next
  <1>14. CASE Elsewhere
    BY <1>5, <1>7, <1>8, <1>9, <1>11, <1>12, <1>14 DEF Elsewhere, Ledger!Next
  <1> QED  BY <1>13, <1>14

\* A claim holds its transaction; an activation spends it, or finds the row ended
\* and leaves the transaction void; every other step of a job claims nothing.
LEMMA LedgerStep ==
  ASSUME ClaimInv, TypeOK', NEW j \in Task, Step(j)
  PROVE  Ledger!Next
  <1>0. PICK t \in Tx : t = job[j].tx
    BY DEF Step, precheck, load, gate, short, accumulate, grace,
           notify_insufficient_payment, residual, claim, reset, activate, overpaid,
           finish, at, Running, ClaimInv, TypeOK, Grounded, OnChain
  <1>1. EntryCases /\ EntryCases' /\ credit \in [Tx -> Nat] /\ sub \in [Sub -> Rows]
    BY EntryOfTx, EntryOfTxNext DEF ClaimInv, TypeOK, HistoryOK, DatabaseOK
  <1>2. CASE ~TakesClaim(j) /\ ~activate(j)
    <2>1. \A s \in Sub : /\ sub'[s].status = sub[s].status
                         /\ sub'[s].periods = sub[s].periods
      <3>1. CASE accumulate(j) \/ reset(j)
        BY <1>1, <3>1 DEF accumulate, reset, update_amount_paid_so_far, Rows
      <3>2. CASE UNCHANGED sub
        BY <3>2
      <3> QED
        BY <1>2, <3>1, <3>2
        DEF Step, precheck, load, gate, short, grace, notify_insufficient_payment,
            residual, claim, overpaid, finish, database
    <2> QED  BY <1>2, <2>1, RowsKept, UnclaimedStep, LedgerVoid
  <1>3. CASE TakesClaim(j)
    <2>1. /\ t \in Tx /\ credit[t] = 0 /\ UNCHANGED <<sub, credit>>
          /\ processed'[t] = "full"
          /\ \A u \in Tx : u # t => processed'[u] = processed[u]
          /\ ~Claimant(j) /\ Claimant(j)' /\ job'[j].tx = t
          /\ \A i \in Task : i # j => job'[i] = job[i]
      BY <1>0, <1>3, TakesClaimEffect
    <2>2. entry[t] = "open"
      BY <1>0, <1>1, <1>3, <2>1 DEF TakesClaim, EntryCases
    <2>3. entry'[t] = "held"
      <3>1. Held(t)'  BY <2>1 DEF Held
      <3> QED  BY <1>1, <2>1, <3>1 DEF EntryCases
    <2>4. ASSUME NEW u \in Tx, u # t PROVE Outcome(u)' = Outcome(u)
      <3>1. Held(u)' <=> Held(u)
        BY <1>0, <2>1, <2>4 DEF Held, Claimant
      <3> QED  BY <2>1, <2>4, <3>1 DEF Outcome
    <2>5. entry' = [entry EXCEPT ![t] = "held"]
      BY <2>1, <2>3, <2>4 DEF entry
    <2>6. Ledger!Hold(t)
      BY <2>1, <2>2, <2>5 DEF Ledger!Hold, standing, cycles
    <2> QED  BY <2>1, <2>6 DEF Ledger!Next
  <1>4. CASE activate(j)
    <2>1. /\ OnChain(t) /\ processed[t] # "none" /\ credit[t] = 0
          /\ UNCHANGED processed
          /\ \A u \in Tx : u # t => credit'[u] = credit[u]
          /\ Claimant(j) /\ ~Claimant(j)'
          /\ \A i \in Task : i # j => job'[i] = job[i]
          /\ \A i \in Task : Claimant(i) /\ i # j => job[i].tx # t
      BY <1>0, <1>4, ActivateEffect
    <2>2. t \in Tx /\ subOf(j) \in Sub
      BY <1>0, <2>1, PaymentAssumption DEF subOf, OwnerOf, OnChain, ClaimInv, TypeOK, Grounded
    <2>3. entry[t] = "held" /\ ~Held(t)'
      <3>1. Held(t)  BY <1>0, <2>1 DEF Held
      <3>2. \A i \in Task : ~(Claimant(i)' /\ job'[i].tx = t)
        <4>1. ASSUME NEW i \in Task, i # j, Claimant(i)' PROVE job'[i].tx # t
          <5>1. job'[i] = job[i] /\ Claimant(i)  BY <2>1, <4>1 DEF Claimant
          <5> QED  BY <1>0, <2>1, <4>1, <5>1
        <4> QED  BY <1>0, <2>1, <4>1
      <3>3. ~Held(t)'  BY <3>2 DEF Held
      <3> QED  BY <1>1, <2>1, <2>2, <3>1, <3>3 DEF EntryCases
    <2>4. ASSUME NEW u \in Tx, u # t PROVE Outcome(u)' = Outcome(u)
      <3>1. Held(u)' <=> Held(u)
        BY <1>0, <2>1, <2>4 DEF Held, Claimant
      <3> QED  BY <2>1, <2>4, <3>1 DEF Outcome
    <2>5. CASE rowOf(j).status \in {"pending", "active"}
      <3>1. activate_subscription(subOf(j), t) /\ credit'[t] = 1
        BY <1>0, <1>1, <1>4, <2>1, <2>2, <2>5 DEF activate
      <3>2. entry'[t] = "spent"
        BY <1>1, <2>1, <2>2, <3>1 DEF EntryCases
      <3>3. entry' = [entry EXCEPT ![t] = "spent"]
        BY <2>2, <2>4, <3>2 DEF entry
      <3>4. /\ standing' = [standing EXCEPT ![subOf(j)] = "active"]
            /\ cycles' = [cycles EXCEPT ![subOf(j)] = @ + 1]
        BY <1>1, <2>2, <3>1 DEF activate_subscription, standing, cycles, Rows
      <3>5. Ledger!Spend(t, subOf(j))
        BY <2>2, <2>3, <2>5, <3>3, <3>4 DEF Ledger!Spend, standing, rowOf
      <3> QED  BY <2>2, <3>5 DEF Ledger!Next
    <2>6. CASE rowOf(j).status \notin {"pending", "active"}
      <3>1. UNCHANGED <<sub, credit>>  BY <1>4, <2>6 DEF activate
      <3>2. processed'[t] # "none" /\ credit'[t] = 0  BY <2>1, <3>1
      <3>3. entry'[t] = "void"
        BY <1>1, <2>2, <2>3, <3>2 DEF EntryCases
      <3>4. entry' = [u \in Tx |-> IF u \in {t} THEN "void" ELSE entry[u]]
        BY <2>2, <2>4, <3>3 DEF entry
      <3>5. Ledger!Void({t})
        BY <2>3, <3>1, <3>4 DEF Ledger!Void, standing, cycles
      <3> QED  BY <2>2, <3>5 DEF Ledger!Next
    <2> QED  BY <2>5, <2>6
  <1> QED  BY <1>2, <1>3, <1>4

\* The in-process pipeline keeps the promise of the payment ledger: whatever the
\* coroutines, handlers, operator, cleanup, restarts and aborted jobs do, a payment
\* is held by one claimant and then spent on one cycle or void, and never comes back.
THEOREM KeepsLedger == Spec => LedgerSpec
  <1>1. Init => Ledger!Init  BY LedgerInit
  <1>2. ClaimInv /\ ClaimInv' /\ [Next]_vars => [Ledger!Next]_(Ledger!vars)
    <2> SUFFICES ASSUME ClaimInv, ClaimInv', [Next]_vars
                 PROVE  [Ledger!Next]_(Ledger!vars)
      OBVIOUS
    <2>1. TypeOK /\ TypeOK'  BY DEF ClaimInv
    <2>2. CASE User \/ Elsewhere
      BY <2>1, <2>2, LedgerRows
    <2>3. CASE Arrival \/ Fault
      <3>1. NothingClaimed
        BY <2>3, UnclaimedArrival, UnclaimedFault
      <3>2. UNCHANGED sub
        BY <2>3 DEF Arrival, poll_vaults_inprocess, cb_ive_paid, manual_recheck,
                    Fault, restart, abort, database
      <3>3. UNCHANGED <<standing, cycles>>  BY <3>2 DEF standing, cycles
      <3> QED  BY <2>1, <3>1, <3>3, LedgerVoid
    <2>4. ASSUME NEW j \in Task, Step(j) PROVE Ledger!Next
      BY <2>1, <2>4, LedgerStep
    <2>5. CASE UNCHANGED vars
      <3>1. UNCHANGED <<sub, processed, credit, job>>
        BY <2>5 DEF vars, database, memory, history
      <3> QED  BY <3>1, EntryKept DEF standing, cycles, Ledger!vars
    <2> QED  BY <2>2, <2>3, <2>4, <2>5 DEF Next
  <1> QED  BY <1>1, <1>2, ClaimInvariant, PTL DEF Spec, LedgerSpec, Ledger!Spec
=============================================================================
