---------------------------- MODULE RefundProofs ----------------------------
(***************************************************************************)
(* Proofs about the life of a refund.  The invariant says where a row, a   *)
(* job or a message got its address from; a step only ever lets rows grow  *)
(* (Grow): their vault and their address are set once.                     *)
(***************************************************************************)
EXTENDS Refund, TLAPS

USE DEF Job

\* A row that exists has a vault, and its address comes from its member.
RowInv ==
    \A r \in Row :
        /\ row[r].status # "none" <=> overpaidOn[r] \in Vault
        /\ row[r].status \in {"none", "overpaid", "pending_wallet"} => row[r].wallet = NoWallet
        /\ row[r].wallet # NoWallet => /\ row[r].status # "none"
                                       /\ Submitter[row[r].wallet] = MemberOf(r)

\* A subscription names one of its own vaults.
LinkInv ==
    \A s \in Sub : vault_address[s] # NoVault => Owner[vault_address[s]] = s

Known == {r \in Row : row[r].status # "none"}

\* What a job carries belongs to its row; from the vault on the row has its
\* address, and from the wait on a message for it went out.
JobOwn(j) ==
        /\ job[j].pc # "idle" => /\ job[j].row \in Known /\ job[j].wallet \in Wallet
                                 /\ Submitter[job[j].wallet] = MemberOf(job[j].row)
        /\ job[j].pc \in {"lookup", "seqno", "send", "wait", "mark"}
              => row[job[j].row].wallet # NoWallet
        /\ job[j].pc \in {"seqno", "send", "wait", "mark"}
              => job[j].vault \in Vault /\ Owner[job[j].vault] = SubOf(job[j].row)
        /\ job[j].pc \in {"wait", "mark"} => job[j].row \in triggered

JobInv == \A j \in Job : JobOwn(j)

\* A message goes to the member whose vault it opens.
PoolInv ==
    \A m \in pool : Submitter[m.wallet] = UserOf[Owner[m.vault]]

HeldInv ==
    /\ held \subseteq Known /\ todo \subseteq Known
    /\ \A r \in Row : payee[r] # NoWallet => r \in Known

RefundInv ==
    /\ TypeOK /\ RowInv /\ LinkInv /\ JobInv /\ PoolInv /\ HeldInv
    /\ PaidToItsMember /\ SentWasTriggered

\* Rows only grow: the vault and the address of a row are set once.
Grow ==
    \A r \in Row :
        /\ row[r].status # "none" => row'[r].status # "none" /\ overpaidOn'[r] = overpaidOn[r]
        /\ row[r].wallet # NoWallet => row'[r].wallet = row[r].wallet

RowsType ==
    /\ row \in [Row -> [status : Status, wallet : Wallet \cup {NoWallet}]]
    /\ overpaidOn \in [Row -> Vault \cup {NoVault}]
    /\ \A r \in Row : row[r].status \in {"pending_send", "sent"} => row[r].wallet # NoWallet

JobsType ==
    job \in [Job -> [pc : Pcs, row : Row \cup {0}, wallet : Wallet \cup {NoWallet},
                     vault : Vault \cup {NoVault}]]

-----------------------------------------------------------------------------
LEMMA RefundInit == Init => RefundInv
  <1> SUFFICES ASSUME Init PROVE RefundInv
    OBVIOUS
  <1> USE RefundAssumption DEF Init
  <1>0. stalled \in BOOLEAN /\ (USE_POSTGRES => stalled = FALSE)
    BY Zenon
  <1>1. TypeOK
    BY <1>0 DEF TypeOK, RowIs, Idle, Doing, Pcs, Status, Config
  <1>2. RowInv /\ LinkInv /\ PoolInv /\ HeldInv
    BY DEF RowInv, LinkInv, PoolInv, HeldInv, RowIs, Known
  <1>3. JobInv
    BY DEF JobInv, JobOwn, Idle, Doing
  <1>4. PaidToItsMember /\ SentWasTriggered
    BY DEF PaidToItsMember, SentWasTriggered, RowIs
  <1> QED
    BY <1>1, <1>2, <1>3, <1>4 DEF RefundInv

\* What moving a job on does to the jobs.
LEMMA GotoKeeps ==
  ASSUME JobsType, NEW j \in Job, NEW pc \in Pcs, Goto(j, pc)
  PROVE  /\ JobsType'
         /\ job'[j].pc = pc /\ job'[j].row = job[j].row
         /\ job'[j].wallet = job[j].wallet /\ job'[j].vault = job[j].vault
         /\ \A k \in Job \ {j} : job'[k] = job[k]
  BY DEF JobsType, Goto

LEMMA FinishKeeps ==
  ASSUME JobsType, NEW j \in Job, Finish(j)
  PROVE  /\ JobsType'
         /\ job'[j].pc = "idle"
         /\ \A k \in Job \ {j} : job'[k] = job[k]
  BY DEF JobsType, Finish, Idle, Doing, Pcs

\* One row gets a new status: its vault, and its address if it has one, stay.
LEMMA StatusKeeps ==
  ASSUME RowsType, RowInv, NEW r \in Row, row[r].status # "none",
         NEW status \in {"sent", "cancelled", "deleted"},
         status = "sent" => row[r].wallet # NoWallet,
         row' = [row EXCEPT ![r] = RowIs(status, row[r].wallet)],
         overpaidOn' = overpaidOn
  PROVE  RowsType' /\ RowInv' /\ Grow
  <1>1. \A q \in Row : /\ row'[q].wallet = row[q].wallet
                       /\ row'[q].status = IF q = r THEN status ELSE row[q].status
    BY DEF RowsType, RowIs
  <1>2. RowsType'
    BY <1>1 DEF RowsType, RowIs, Status
  <1>3. RowInv'
    BY <1>1 DEF RowInv, MemberOf, SubOf
  <1>4. Grow
    BY <1>1 DEF Grow
  <1> QED
    BY <1>2, <1>3, <1>4

\* A step that leaves the rows alone.
LEMMA SameRows ==
  ASSUME RowsType, RowInv, row' = row, overpaidOn' = overpaidOn
  PROVE  RowsType' /\ RowInv' /\ Grow
  BY DEF RowsType, RowInv, MemberOf, SubOf, Grow

-----------------------------------------------------------------------------
(* What each step does to the rows.                                        *)

LEMMA OverpayRows ==
  ASSUME RefundInv, NEW r \in Row, NEW v \in Vault, Overpay(r, v)
  PROVE  RowsType' /\ RowInv' /\ Grow
  <1> USE RefundAssumption DEF RefundInv, TypeOK
  <1>1. \A q \in Row : /\ q # r => row'[q] = row[q] /\ overpaidOn'[q] = overpaidOn[q]
                       /\ q = r => row'[q] = RowIs("overpaid", NoWallet) /\ overpaidOn'[q] = v
    BY DEF Overpay
  <1>2. RowsType'
    BY DEF RowsType, RowIs, Overpay, Status
  <1>3. RowInv'
    BY <1>1 DEF RowInv, MemberOf, SubOf, RowIs, Overpay
  <1>4. Grow
    BY <1>1 DEF Grow, RowInv, Overpay
  <1> QED
    BY <1>2, <1>3, <1>4

LEMMA CreateRows ==
  ASSUME RefundInv, NEW r \in Row, create_overpayment_refund(r)
  PROVE  RowsType' /\ RowInv' /\ Grow
  <1> USE RefundAssumption DEF RefundInv, TypeOK, create_overpayment_refund
  <1>1. \A q \in Row : /\ q # r => row'[q] = row[q]
                       /\ q = r => row'[q] = RowIs("pending_wallet", NoWallet)
    OBVIOUS
  <1>2. RowsType'
    BY <1>1 DEF RowsType, RowIs, Status
  <1>3. RowInv'
    BY <1>1 DEF RowInv, MemberOf, SubOf, RowIs
  <1>4. Grow
    BY <1>1 DEF Grow, RowIs, RowInv
  <1> QED
    BY <1>2, <1>3, <1>4

LEMMA DeleteRows ==
  ASSUME RefundInv, NEW s \in Sub, delete_subscription(s)
  PROVE  RowsType' /\ RowInv' /\ Grow
  <1> USE RefundAssumption DEF RefundInv, TypeOK
  <1>1. \A q \in Row : \/ row'[q] = row[q]
                       \/ row[q].status # "none" /\ row'[q] = RowIs("deleted", row[q].wallet)
    BY DEF delete_subscription
  <1>2. RowsType'
    <2>1. row' \in [Row -> [status : Status, wallet : Wallet \cup {NoWallet}]]
      BY DEF delete_subscription, RowIs, Status
    <2> QED
      BY <1>1, <2>1 DEF RowsType, RowIs, delete_subscription
  <1>3. RowInv'
    BY <1>1 DEF RowInv, MemberOf, SubOf, RowIs, delete_subscription
  <1>4. Grow
    BY <1>1 DEF Grow, RowIs, delete_subscription
  <1> QED
    BY <1>2, <1>3, <1>4

LEMMA ClaimRows ==
  ASSUME RefundInv, set_refund_wallet
  PROVE  RowsType' /\ RowInv' /\ Grow
  <1> USE RefundAssumption DEF RefundInv, TypeOK
  <1>1. CASE row' = row
    BY <1>1, SameRows DEF RowsType, set_refund_wallet
  <1>2. CASE row' # row
    <2> DEFINE r == job["handler"].row
               w == job["handler"].wallet
    <2>1. /\ row[r].status = "pending_wallet" /\ row' = [row EXCEPT ![r] = RowIs("pending_send", w)]
          /\ job["handler"].pc = "set" /\ overpaidOn' = overpaidOn
      BY <1>2 DEF set_refund_wallet, Claimable, Claim, at
    <2>2. r \in Row /\ w \in Wallet /\ Submitter[w] = MemberOf(r) /\ w # NoWallet
      BY <2>1 DEF JobInv, JobOwn, Known
    <2> HIDE DEF r, w
    <2>3. \A q \in Row : /\ q # r => row'[q] = row[q]
                         /\ q = r => row'[q] = RowIs("pending_send", w)
      BY <2>1, <2>2
    <2>4. RowsType'
      BY <2>1, <2>2, <2>3 DEF RowsType, RowIs, Status
    <2>5. RowInv'
      BY <2>1, <2>2, <2>3 DEF RowInv, MemberOf, SubOf, RowIs
    <2>6. Grow
      BY <2>1, <2>3 DEF Grow, RowIs, RowInv
    <2> QED
      BY <2>4, <2>5, <2>6
  <1> QED
    BY <1>1, <1>2

\* The job that marks a row as sent carries a row that has an address.
LEMMA MarkRows ==
  ASSUME RefundInv, NEW j \in Job, mark_refund_sent(j)
  PROVE  RowsType' /\ RowInv' /\ Grow
  <1> USE RefundAssumption DEF RefundInv, TypeOK
  <1> DEFINE r == job[j].row
  <1>1. r \in Row /\ row[r].status # "none" /\ row[r].wallet # NoWallet
    BY DEF mark_refund_sent, at, JobInv, JobOwn, Known
  <1>2. overpaidOn' = overpaidOn
    BY DEF mark_refund_sent
  <1>3. CASE row' = row
    BY <1>2, <1>3, SameRows DEF RowsType
  <1>4. CASE row' = [row EXCEPT ![r] = RowIs("sent", row[r].wallet)]
    BY <1>1, <1>2, <1>4, StatusKeeps DEF RowsType
  <1> QED
    BY <1>3, <1>4 DEF mark_refund_sent

LEMMA StepRows ==
  ASSUME RefundInv, [Next]_vars
  PROVE  RowsType' /\ RowInv' /\ Grow
  <1> USE RefundAssumption DEF RefundInv, TypeOK
  <1>0. ASSUME row' = row, overpaidOn' = overpaidOn PROVE RowsType' /\ RowInv' /\ Grow
    BY <1>0, SameRows DEF RowsType
  <1>1. ASSUME NEW r \in Row, Exists(r), mark_refund_cancelled(r)
        PROVE  RowsType' /\ RowInv' /\ Grow
    BY <1>1, StatusKeeps DEF RowsType, mark_refund_cancelled, Exists
  <1>2. CASE Rows
    BY <1>1, <1>2, OverpayRows, CreateRows DEF Rows, mark_refund_cancelled
  <1>3. CASE Subscriptions
    BY <1>0, <1>3, DeleteRows
    DEF Subscriptions, generate_payment_request, create_subscription, SetVaultAddress
  <1>4. CASE set_refund_wallet
    BY <1>4, ClaimRows
  <1>5. ASSUME NEW j \in Job, Trigger(j) PROVE RowsType' /\ RowInv' /\ Grow
    BY <1>0, <1>5, MarkRows DEF Trigger, lookup, read_seqno, broadcast, confirm, trigger_fails
  <1>6. ASSUME \/ \E w \in Wallet : submit_wallet(w)
               \/ retry_pending_sends \/ retry_next
               \/ \E message \in pool : Accept(message)
               \/ Lapse \/ _expire_stale_charges_inprocess \/ \E conf \in Config : restart(conf)
        PROVE  RowsType' /\ RowInv' /\ Grow
    BY <1>0, <1>6 DEF submit_wallet, retry_pending_sends, retry_next, Accept, Lapse, restart,
                      _expire_stale_charges_inprocess
  <1>7. CASE UNCHANGED vars
    BY <1>0, <1>7 DEF vars
  <1> QED
    BY <1>2, <1>3, <1>4, <1>5, <1>6, <1>7 DEF Next

-----------------------------------------------------------------------------
(* What each step does to the jobs.                                        *)

LEMMA KeptJob ==
  ASSUME RefundInv, Grow, NEW j \in Job, job'[j] = job[j], triggered \subseteq triggered'
  PROVE  JobOwn(j)'
  BY DEF RefundInv, JobInv, JobOwn, Grow, Known, MemberOf, SubOf

LEMMA KeptJobs ==
  ASSUME RefundInv, Grow, job' = job, triggered' = triggered
  PROVE  JobsType' /\ JobInv'
  BY KeptJob DEF RefundInv, TypeOK, JobsType, JobInv

LEMMA IdleJob ==
  ASSUME RefundInv, Grow, NEW j \in Job, Finish(j), triggered' = triggered
  PROVE  JobsType' /\ JobInv'
  <1>1. /\ JobsType' /\ job'[j].pc = "idle"
        /\ \A k \in Job \ {j} : job'[k] = job[k]
    BY FinishKeeps DEF RefundInv, TypeOK, JobsType
  <1>2. JobOwn(j)'
    BY <1>1 DEF JobOwn
  <1> QED
    BY <1>1, <1>2, KeptJob DEF JobInv

\* A job that goes on with what it carries.
LEMMA MovedJob ==
  ASSUME RefundInv, Grow, NEW j \in Job, job[j].pc # "idle",
         NEW pc \in Pcs, Goto(j, pc), triggered \subseteq triggered',
         pc \in {"lookup", "seqno", "send", "wait", "mark"}
            => row'[job[j].row].wallet # NoWallet,
         pc \in {"seqno", "send", "wait", "mark"}
            => job[j].pc \in {"seqno", "send", "wait", "mark"},
         pc \in {"wait", "mark"} => job[j].row \in triggered'
  PROVE  JobsType' /\ JobInv'
  <1>1. /\ JobsType'
        /\ job'[j].pc = pc /\ job'[j].row = job[j].row
        /\ job'[j].wallet = job[j].wallet /\ job'[j].vault = job[j].vault
        /\ \A k \in Job \ {j} : job'[k] = job[k]
    BY GotoKeeps DEF RefundInv, TypeOK, JobsType
  <1>2. JobOwn(j)
    BY DEF RefundInv, JobInv
  <1>3. JobOwn(j)'
    BY <1>1, <1>2 DEF JobOwn, Grow, Known, MemberOf, SubOf
  <1> QED
    BY <1>1, <1>3, KeptJob DEF JobInv

LEMMA SubmitJobs ==
  ASSUME RefundInv, Grow, NEW w \in Wallet, submit_wallet(w)
  PROVE  JobsType' /\ JobInv'
  <1> USE RefundAssumption DEF RefundInv, TypeOK
  <1>1. PICK r \in get_pending_refund_for_user(Submitter[w]) :
            job' = [job EXCEPT !["handler"] = Doing("set", r, w, NoVault)]
    BY DEF submit_wallet
  <1>2. r \in Row /\ row[r].status = "pending_wallet" /\ MemberOf(r) = Submitter[w]
    BY <1>1 DEF get_pending_refund_for_user
  <1>3. /\ JobsType'
        /\ job'["handler"].pc = "set" /\ job'["handler"].row = r
        /\ job'["handler"].wallet = w
        /\ \A k \in Job \ {"handler"} : job'[k] = job[k]
    <2>1. JobsType /\ "set" \in Pcs /\ r \in Row
      BY <1>2 DEF JobsType, Pcs
    <2> HIDE DEF RefundInv, TypeOK
    <2> DEFINE h == "handler"
    <2>2. h \in Job /\ job' = [job EXCEPT ![h] = Doing("set", r, w, NoVault)]
      BY <1>1 DEF Job
    <2> HIDE DEF h
    <2>3. /\ JobsType' /\ job'[h].pc = "set" /\ job'[h].row = r /\ job'[h].wallet = w
          /\ \A k \in Job \ {h} : job'[k] = job[k]
      BY ONLY w \in Wallet, <2>1, <2>2 DEF JobsType, Doing
    <2> QED  BY <2>3 DEF h
  <1>4. row' = row /\ overpaidOn' = overpaidOn /\ triggered' = triggered
    BY DEF submit_wallet
  <1>5. JobOwn("handler")'
    BY <1>2, <1>3, <1>4 DEF JobOwn, Known, MemberOf, SubOf
  <1> QED
    BY <1>3, <1>4, <1>5, KeptJob DEF JobInv

LEMMA ClaimJobs ==
  ASSUME RefundInv, Grow, set_refund_wallet
  PROVE  JobsType' /\ JobInv'
  <1> USE RefundAssumption DEF RefundInv, TypeOK
  <1>1. triggered' = triggered
    BY DEF set_refund_wallet
  <1>2. CASE Finish("handler")
    BY <1>1, <1>2, IdleJob
  <1>3. CASE ~Finish("handler")
    <2> DEFINE r == job["handler"].row
               w == job["handler"].wallet
    <2>1. /\ Goto("handler", "lookup") /\ row' = [row EXCEPT ![r] = RowIs("pending_send", w)]
          /\ job["handler"].pc = "set"
      BY <1>3 DEF set_refund_wallet, Claim, at
    <2>2. r \in Row /\ w \in Wallet
      BY <2>1 DEF JobInv, JobOwn, Known
    <2>3. row'[r].wallet # NoWallet
      BY <2>1, <2>2 DEF RowIs
    <2> QED
      BY <1>1, <2>1, <2>3, MovedJob DEF Pcs
  <1> QED
    BY <1>2, <1>3

LEMMA NextJobs ==
  ASSUME RefundInv, Grow, retry_next
  PROVE  JobsType' /\ JobInv'
  <1> USE RefundAssumption DEF RefundInv, TypeOK
  <1>1. row' = row /\ overpaidOn' = overpaidOn /\ triggered' = triggered
    BY DEF retry_next
  <1>2. CASE job' = job
    BY <1>1, <1>2, KeptJobs
  <1>3. CASE job' # job
    <2>1. PICK r \in todo :
              /\ row[r].wallet # NoWallet
              /\ job' = [job EXCEPT !["retry"] = Doing("lookup", r, row[r].wallet, NoVault)]
      BY <1>3 DEF retry_next
    <2>2. /\ r \in Row /\ row[r].status # "none" /\ row[r].wallet \in Wallet
          /\ Submitter[row[r].wallet] = MemberOf(r)
      BY <2>1 DEF HeldInv, RowInv, Known
    <2>3. /\ JobsType'
          /\ job'["retry"].pc = "lookup" /\ job'["retry"].row = r
          /\ job'["retry"].wallet = row[r].wallet
          /\ \A k \in Job \ {"retry"} : job'[k] = job[k]
      <3>1. JobsType /\ "lookup" \in Pcs /\ r \in Row /\ row[r].wallet \in Wallet
        BY <2>2 DEF JobsType, Pcs
      <3> DEFINE h == "retry"
      <3>2. /\ h \in Job
            /\ job' = [job EXCEPT ![h] = Doing("lookup", r, row[r].wallet, NoVault)]
        BY <2>1 DEF Job
      <3> HIDE DEF h
      <3>3. /\ JobsType' /\ job'[h].pc = "lookup" /\ job'[h].row = r
            /\ job'[h].wallet = row[r].wallet
            /\ \A k \in Job \ {h} : job'[k] = job[k]
        BY ONLY <3>1, <3>2 DEF JobsType, Doing
      <3> QED  BY <3>3 DEF h
    <2>4. JobOwn("retry")'
      BY <1>1, <2>1, <2>2, <2>3 DEF JobOwn, Known, MemberOf, SubOf
    <2> QED
      BY <1>1, <2>3, <2>4, KeptJob DEF JobInv
  <1> QED
    BY <1>2, <1>3

LEMMA LookupJobs ==
  ASSUME RefundInv, Grow, NEW j \in Job, lookup(j)
  PROVE  JobsType' /\ JobInv'
  <1> USE RefundAssumption DEF RefundInv, TypeOK
  <1> DEFINE r == job[j].row
             v == vault_address[SubOf(r)]
  <1>1. row' = row /\ overpaidOn' = overpaidOn /\ triggered' = triggered /\ job[j].pc = "lookup"
    BY DEF lookup, at
  <1>2. CASE Finish(j)
    BY <1>1, <1>2, IdleJob
  <1>3. CASE ~Finish(j)
    <2>1. v # NoVault /\ job' = [job EXCEPT ![j] = Doing("seqno", r, job[j].wallet, v)]
      BY <1>3 DEF lookup, Finish
    <2>2. /\ r \in Row /\ overpaidOn[r] \in Vault /\ job[j].wallet \in Wallet
          /\ Submitter[job[j].wallet] = MemberOf(r) /\ row[r].wallet # NoWallet
      BY <1>1 DEF JobInv, JobOwn, Known, RowInv
    <2>3. v \in Vault /\ Owner[v] = SubOf(r)
      BY <2>1, <2>2 DEF LinkInv, SubOf
    <2>4. /\ JobsType'
          /\ job'[j].pc = "seqno" /\ job'[j].row = r
          /\ job'[j].wallet = job[j].wallet /\ job'[j].vault = v
          /\ \A k \in Job \ {j} : job'[k] = job[k]
      <3>1. PICK q \in Row, w \in Wallet, u \in Vault : q = r /\ w = job[j].wallet /\ u = v
        BY <2>2, <2>3
      <3>2. job' = [job EXCEPT ![j] = Doing("seqno", q, w, u)]
        BY <2>1, <3>1
      <3>3. JobsType /\ "seqno" \in Pcs
        BY DEF JobsType, Pcs
      <3> HIDE DEF RefundInv, TypeOK, r, v
      <3>4. /\ JobsType'
            /\ job'[j].pc = "seqno" /\ job'[j].row = q
            /\ job'[j].wallet = w /\ job'[j].vault = u
            /\ \A k \in Job \ {j} : job'[k] = job[k]
        BY <3>2, <3>3 DEF JobsType, Doing
      <3> QED
        BY <3>1, <3>4
    <2>5. JobOwn(j)'
      BY <1>1, <2>2, <2>3, <2>4 DEF JobOwn, Known, MemberOf, SubOf, JobInv
    <2> QED
      BY <1>1, <2>4, <2>5, KeptJob DEF JobInv
  <1> QED
    BY <1>2, <1>3

LEMMA TriggerJobs ==
  ASSUME RefundInv, Grow, NEW j \in Job, Trigger(j)
  PROVE  JobsType' /\ JobInv'
  <1>1. CASE lookup(j)
    BY <1>1, LookupJobs
  <1>2. JobOwn(j)
    BY DEF RefundInv, JobInv
  <1>3. CASE read_seqno(j)
    BY <1>2, <1>3, MovedJob DEF read_seqno, at, Pcs, JobOwn, Grow, Known
  <1>4. ASSUME NEW arrives \in BOOLEAN, broadcast(j, arrives)
        PROVE  JobsType' /\ JobInv'
    BY <1>2, <1>4, MovedJob DEF broadcast, at, Pcs, JobOwn, Grow, Known
  <1>5. CASE confirm(j)
    BY <1>2, <1>5, MovedJob DEF confirm, at, Pcs, JobOwn, Grow, Known
  <1>6. CASE trigger_fails(j) \/ mark_refund_sent(j)
    BY <1>6, IdleJob DEF trigger_fails, mark_refund_sent
  <1> QED
    BY <1>1, <1>3, <1>4, <1>5, <1>6 DEF Trigger

LEMMA StepJobs ==
  ASSUME RefundInv, [Next]_vars
  PROVE  JobsType' /\ JobInv'
  <1>1. Grow
    BY StepRows
  <1>2. CASE Rows \/ Subscriptions
    BY <1>1, <1>2, KeptJobs
    DEF Rows, Subscriptions, create_overpayment_refund, mark_refund_cancelled, Overpay,
        generate_payment_request, create_subscription, SetVaultAddress, delete_subscription
  <1>3. CASE (\E w \in Wallet : submit_wallet(w)) \/ set_refund_wallet \/ retry_next
    BY <1>1, <1>3, SubmitJobs, ClaimJobs, NextJobs
  <1>4. CASE \E j \in Job : Trigger(j)
    BY <1>1, <1>4, TriggerJobs
  <1>5. ASSUME NEW conf \in Config, restart(conf) PROVE JobsType' /\ JobInv'
    BY <1>5 DEF restart, JobsType, JobInv, JobOwn, Idle, Doing, Pcs
  <1>6. CASE \/ retry_pending_sends \/ Lapse \/ _expire_stale_charges_inprocess
             \/ (\E message \in pool : Accept(message)) \/ UNCHANGED vars
    BY <1>1, <1>6, KeptJobs
    DEF retry_pending_sends, Lapse, _expire_stale_charges_inprocess, vars, Accept
  <1> QED
    BY <1>2, <1>3, <1>4, <1>5, <1>6 DEF Next

-----------------------------------------------------------------------------
(* What each step does to the rest.                                        *)

MemoryType ==
    /\ vault_address \in [Sub -> Vault \cup {NoVault}]
    /\ configured \in Config
    /\ stalled \in BOOLEAN /\ (USE_POSTGRES => stalled = FALSE)
    /\ todo \subseteq Row /\ moved \subseteq Job
    /\ triggered \subseteq Row /\ faults \in 0 .. MaxFaults

ChainType ==
    /\ pool \subseteq [row : Row, vault : Vault, wallet : Wallet]
    /\ held \subseteq Row
    /\ payee \in [Row -> Wallet \cup {NoWallet}]

LEMMA StepMemory ==
  ASSUME RefundInv, [Next]_vars
  PROVE  MemoryType'
  <1> USE RefundAssumption
  <1>1. MemoryType
    BY DEF RefundInv, TypeOK, MemoryType
  <1>2. CASE Rows
    BY <1>1, <1>2 DEF MemoryType, Rows, create_overpayment_refund, mark_refund_cancelled, Overpay
  <1>3. ASSUME NEW s \in Sub, NEW v \in Vault \cup {NoVault}, SetVaultAddress(s, v)
        PROVE  MemoryType'
    BY <1>1, <1>3 DEF MemoryType, SetVaultAddress
  <1>4. CASE Subscriptions
    BY <1>1, <1>3, <1>4 DEF MemoryType, Subscriptions, generate_payment_request,
                            create_subscription, delete_subscription
  <1>5. CASE \/ \E w \in Wallet : submit_wallet(w)
             \/ set_refund_wallet \/ retry_pending_sends \/ retry_next
    BY <1>1, <1>5 DEF MemoryType, submit_wallet, set_refund_wallet, retry_pending_sends,
                      retry_next, get_pending_sends
  <1>6. ASSUME NEW j \in Job, Trigger(j) PROVE MemoryType'
    <2>1. ASSUME NEW arrives \in BOOLEAN, broadcast(j, arrives) PROVE MemoryType'
      <3>1. job[j].row \in Row
        BY <2>1 DEF broadcast, at, RefundInv, JobInv, JobOwn, Known
      <3> QED
        BY <1>1, <2>1, <3>1 DEF MemoryType, broadcast
    <2> QED
      BY <1>1, <1>6, <2>1 DEF MemoryType, Trigger, lookup, read_seqno, confirm, trigger_fails,
                              mark_refund_sent
  <1>7. CASE \/ (\E message \in pool : Accept(message)) \/ Lapse \/ UNCHANGED vars
             \/ _expire_stale_charges_inprocess
    BY <1>1, <1>7 DEF MemoryType, Accept, Lapse, vars, _expire_stale_charges_inprocess
  <1>8. ASSUME NEW conf \in Config, restart(conf) PROVE MemoryType'
    <2>1. stalled' \in BOOLEAN /\ (USE_POSTGRES => stalled' = FALSE)
      BY <1>8, Zenon DEF restart
    <2> QED
      BY <1>1, <1>8, <2>1 DEF MemoryType, restart
  <1> QED
    BY <1>2, <1>4, <1>5, <1>6, <1>7, <1>8 DEF Next

LEMMA StepChain ==
  ASSUME RefundInv, [Next]_vars
  PROVE  ChainType'
  <1> USE RefundAssumption
  <1>1. ChainType
    BY DEF RefundInv, TypeOK, ChainType
  <1>2. CASE UNCHANGED onchain
    BY <1>1, <1>2 DEF ChainType, onchain
  <1>3. ASSUME NEW r \in Row, NEW v \in Vault, Overpay(r, v) PROVE ChainType'
    BY <1>1, <1>3 DEF ChainType, Overpay
  <1>4. ASSUME NEW j \in Job, NEW arrives \in BOOLEAN, broadcast(j, arrives) PROVE ChainType'
    <2>1. job[j].row \in Row /\ job[j].wallet \in Wallet /\ job[j].vault \in Vault
      BY <1>4 DEF broadcast, at, RefundInv, JobInv, JobOwn, Known
    <2>2. [row |-> job[j].row, vault |-> job[j].vault, wallet |-> job[j].wallet]
            \in [row : Row, vault : Vault, wallet : Wallet]
      BY <2>1
    <2> QED
      BY <1>1, <1>4, <2>2 DEF ChainType, broadcast
  <1>5. ASSUME NEW message \in pool, Accept(message) PROVE ChainType'
    <2>1. message.wallet \in Wallet
      BY <1>1 DEF ChainType
    <2> QED
      BY <1>1, <1>5, <2>1 DEF ChainType, Accept
  <1>6. CASE Lapse
    BY <1>1, <1>6 DEF ChainType, Lapse
  <1>7. ASSUME NEW j \in Job, Trigger(j) PROVE ChainType'
    BY <1>2, <1>4, <1>7 DEF Trigger, lookup, read_seqno, confirm, trigger_fails, mark_refund_sent
  <1>8. CASE Rows \/ Subscriptions
    BY <1>2, <1>3, <1>8
    DEF Rows, create_overpayment_refund, mark_refund_cancelled, Subscriptions,
        generate_payment_request, create_subscription, SetVaultAddress, delete_subscription
  <1>9. CASE \/ \E w \in Wallet : submit_wallet(w)
             \/ set_refund_wallet \/ retry_pending_sends \/ retry_next
             \/ _expire_stale_charges_inprocess \/ (\E conf \in Config : restart(conf))
             \/ UNCHANGED vars
    BY <1>2, <1>9 DEF submit_wallet, set_refund_wallet, retry_pending_sends, retry_next,
                      _expire_stale_charges_inprocess, restart, vars, onchain
  <1> QED
    BY <1>5, <1>6, <1>7, <1>8, <1>9 DEF Next

LEMMA StepTypes ==
  ASSUME RefundInv, [Next]_vars
  PROVE  TypeOK'
  <1> USE RefundAssumption
  <1>1. RowsType' /\ JobsType'
    BY StepRows, StepJobs
  <1>2. MemoryType' /\ ChainType'
    BY StepMemory, StepChain
  <1> QED
    BY <1>1, <1>2 DEF TypeOK, RowsType, JobsType, MemoryType, ChainType

LEMMA StepLinks ==
  ASSUME RefundInv, [Next]_vars
  PROVE  LinkInv'
  <1> USE RefundAssumption DEF RefundInv, TypeOK
  <1>1. CASE vault_address' = vault_address
    BY <1>1 DEF LinkInv
  <1>2. CASE Subscriptions
    BY <1>2 DEF Subscriptions, generate_payment_request, create_subscription,
                SetVaultAddress, delete_subscription, LinkInv
  <1>3. CASE Next /\ ~Subscriptions
    BY <1>1, <1>3
    DEF Next, Rows, create_overpayment_refund, mark_refund_cancelled, Overpay, submit_wallet,
        set_refund_wallet, retry_pending_sends, retry_next, Trigger, lookup, read_seqno,
        broadcast, confirm, trigger_fails, mark_refund_sent, Accept, Lapse, restart,
        _expire_stale_charges_inprocess
  <1> QED
    BY <1>1, <1>2, <1>3 DEF vars

\* A message is as good as the job that sent it.
LEMMA StepPool ==
  ASSUME RefundInv, [Next]_vars
  PROVE  PoolInv'
  <1> USE RefundAssumption DEF RefundInv
  <1>1. CASE pool' \subseteq pool
    BY <1>1 DEF PoolInv
  <1>2. ASSUME NEW j \in Job, broadcast(j, TRUE)
        PROVE  PoolInv'
    <2> DEFINE message == [row |-> job[j].row, vault |-> job[j].vault, wallet |-> job[j].wallet]
    <2>1. Submitter[job[j].wallet] = UserOf[Owner[job[j].vault]]
      BY <1>2 DEF broadcast, at, JobInv, JobOwn, MemberOf
    <2>2. \A m \in pool' : m \in pool \/ m = message
      BY <1>2 DEF broadcast
    <2>3. Submitter[message.wallet] = UserOf[Owner[message.vault]]
      BY <2>1
    <2> QED
      BY <2>2, <2>3 DEF PoolInv
  <1>3. CASE Next /\ ~ \E j \in Job : broadcast(j, TRUE)
    <2>1. ASSUME NEW j \in Job, Trigger(j), ~broadcast(j, TRUE) PROVE pool' \subseteq pool
      BY <2>1 DEF Trigger, lookup, read_seqno, broadcast, confirm, trigger_fails,
                  mark_refund_sent, onchain
    <2> QED
      BY <1>1, <1>3, <2>1
      DEF Next, Rows, create_overpayment_refund, mark_refund_cancelled, Overpay, Subscriptions,
          generate_payment_request, create_subscription, SetVaultAddress, delete_subscription,
          submit_wallet, set_refund_wallet, retry_pending_sends, retry_next, Accept, Lapse,
          restart, _expire_stale_charges_inprocess, onchain
  <1> QED
    BY <1>1, <1>2, <1>3 DEF vars, onchain

LEMMA StepHeld ==
  ASSUME RefundInv, [Next]_vars
  PROVE  HeldInv'
  <1> USE RefundAssumption DEF RefundInv
  <1>1. Grow /\ RowsType'
    BY StepRows
  <1>2. Known \subseteq Known'
    BY <1>1 DEF Known, Grow
  <1>3. CASE held' \subseteq held /\ todo' \subseteq todo /\ payee' = payee
    BY <1>2, <1>3 DEF HeldInv
  <1>4. ASSUME NEW r \in Row, NEW v \in Vault, Overpay(r, v) PROVE HeldInv'
    <2>1. r \in Known'
      BY <1>4 DEF Overpay, Known, RowIs, TypeOK
    <2> QED
      BY <1>2, <1>4, <2>1 DEF Overpay, HeldInv
  <1>5. CASE retry_pending_sends
    BY <1>2, <1>5 DEF retry_pending_sends, get_pending_sends, HeldInv, Known, onchain
  <1>6. ASSUME NEW j \in Job, Trigger(j) PROVE HeldInv'
    BY <1>3, <1>6 DEF Trigger, lookup, read_seqno, broadcast, confirm, trigger_fails,
                mark_refund_sent, onchain
  <1>7. CASE Subscriptions \/ set_refund_wallet \/ retry_next \/ \E w \in Wallet : submit_wallet(w)
    BY <1>3, <1>7
    DEF Subscriptions, generate_payment_request, create_subscription, SetVaultAddress,
        delete_subscription, set_refund_wallet, retry_next, submit_wallet, onchain
  <1>7a. ASSUME NEW message \in pool, Accept(message) PROVE HeldInv'
    <2>1. \A r \in Row : payee'[r] = payee[r] \/ r \in held
      BY <1>7a DEF Accept, HeldOn
    <2> QED
      BY <1>2, <1>7a, <2>1 DEF Accept, HeldInv
  <1>8. CASE \/ Lapse \/ (\E conf \in Config : restart(conf)) \/ UNCHANGED vars
             \/ _expire_stale_charges_inprocess
    BY <1>3, <1>8 DEF Lapse, restart, _expire_stale_charges_inprocess, onchain, vars
  <1>9. CASE Rows
    BY <1>3, <1>4, <1>9 DEF Rows, create_overpayment_refund, mark_refund_cancelled, onchain
  <1> QED
    BY <1>5, <1>6, <1>7, <1>7a, <1>8, <1>9 DEF Next

\* Only a message pays, and it pays what the vault of its member holds.
LEMMA StepPayee ==
  ASSUME RefundInv, [Next]_vars
  PROVE  PaidToItsMember'
  <1> USE RefundAssumption DEF RefundInv
  <1>1. Grow
    BY StepRows
  <1>2. \A r \in Known : MemberOf(r)' = MemberOf(r)
    BY <1>1 DEF Known, Grow, MemberOf, SubOf
  <1>3. CASE payee' = payee
    BY <1>2, <1>3 DEF PaidToItsMember, HeldInv
  <1>4. ASSUME NEW message \in pool, Accept(message) PROVE PaidToItsMember'
    <2>0. overpaidOn' = overpaidOn
      BY <1>4 DEF Accept
    <2>1. SUFFICES ASSUME NEW r \in Row, payee'[r] # NoWallet
                   PROVE  Submitter[payee'[r]] = MemberOf(r)
      BY <2>0 DEF PaidToItsMember, MemberOf, SubOf
    <2>2. CASE r \in HeldOn(message.vault)
      <3>1. payee'[r] = message.wallet
        BY <1>4, <2>2 DEF Accept
      <3>2. MemberOf(r) = UserOf[Owner[message.vault]]
        BY <2>2 DEF HeldOn, MemberOf, SubOf
      <3> QED
        BY <3>1, <3>2 DEF PoolInv
    <2>3. CASE r \notin HeldOn(message.vault)
      <3>1. payee'[r] = payee[r]
        BY <1>4, <2>3 DEF Accept
      <3> QED
        BY <2>1, <3>1 DEF PaidToItsMember
    <2> QED
      BY <2>2, <2>3
  <1>5. CASE Next /\ ~ \E message \in pool : Accept(message)
    BY <1>3, <1>5
    DEF Next, Rows, create_overpayment_refund, mark_refund_cancelled, Overpay, Subscriptions,
        generate_payment_request, create_subscription, SetVaultAddress, delete_subscription,
        submit_wallet, set_refund_wallet, retry_pending_sends, retry_next, Trigger, lookup,
        read_seqno, broadcast, confirm, trigger_fails, mark_refund_sent, Lapse, restart, onchain,
        _expire_stale_charges_inprocess
  <1> QED
    BY <1>3, <1>4, <1>5 DEF vars

\* Only mark_refund_sent makes a row sent, for a job that has waited.
LEMMA StepSent ==
  ASSUME RefundInv, [Next]_vars
  PROVE  SentWasTriggered'
  <1> USE RefundAssumption DEF RefundInv
  <1>1. triggered \subseteq triggered'
    BY DEF Next, Rows, create_overpayment_refund, mark_refund_cancelled, Overpay, Subscriptions,
        generate_payment_request, create_subscription, SetVaultAddress, delete_subscription,
        submit_wallet, set_refund_wallet, retry_pending_sends, retry_next, Trigger, lookup,
        read_seqno, broadcast, confirm, trigger_fails, mark_refund_sent, Accept, Lapse, restart,
        _expire_stale_charges_inprocess, onchain, vars
  <1>2. ASSUME \A r \in Row : row'[r].status = "sent" => row[r].status = "sent"
        PROVE  SentWasTriggered'
    BY <1>1, <1>2 DEF SentWasTriggered
  <1>3. CASE row' = row
    BY <1>2, <1>3
  <1>4. CASE Rows \/ Subscriptions \/ set_refund_wallet
    <2>1. \A r \in Row : row'[r].status = "sent" => row[r].status = "sent"
      BY <1>4 DEF Rows, create_overpayment_refund, mark_refund_cancelled, Overpay, Subscriptions,
          generate_payment_request, create_subscription, SetVaultAddress, delete_subscription,
          set_refund_wallet, Claim, RowIs, TypeOK
    <2> QED
      BY <1>2, <2>1
  <1>5. ASSUME NEW j \in Job, mark_refund_sent(j) PROVE SentWasTriggered'
    <2>1. job[j].row \in triggered
      BY <1>5 DEF mark_refund_sent, at, JobInv, JobOwn
    <2>2. \A r \in Row : row'[r] = row[r] \/ r = job[j].row
      BY <1>5 DEF mark_refund_sent, TypeOK
    <2> QED
      BY <1>1, <2>1, <2>2 DEF SentWasTriggered
  <1>6. ASSUME NEW j \in Job, Trigger(j) PROVE SentWasTriggered'
    BY <1>3, <1>5, <1>6 DEF Trigger, lookup, read_seqno, broadcast, confirm, trigger_fails
  <1>7. CASE UNCHANGED vars \/ \E w \in Wallet : submit_wallet(w)
    BY <1>3, <1>7 DEF vars, submit_wallet
  <1> QED
    BY <1>3, <1>4, <1>6, <1>7
    DEF Next, retry_pending_sends, retry_next, Accept, Lapse, restart,
        _expire_stale_charges_inprocess

-----------------------------------------------------------------------------
(* The theorems.                                                           *)

\* The invariant holds in every reachable state.
LEMMA RefundInvariant == Spec => []RefundInv
  <1>1. RefundInv /\ [Next]_vars => RefundInv'
    BY StepTypes, StepRows, StepLinks, StepJobs, StepPool, StepHeld, StepPayee, StepSent
    DEF RefundInv
  <1> QED
    BY RefundInit, <1>1, PTL DEF Spec

\* Rows, jobs and messages keep their shape, and every claimed row names the
\* address set_refund_wallet stored.
THEOREM RefundTypeCorrect == Spec => []TypeOK
  BY RefundInvariant, PTL DEF RefundInv

\* An overpayment never goes to an address its member did not submit, however
\* submissions, the retry run, new links and the trigger wallet interleave.
THEOREM PaidRight == Spec => []PaidToItsMember
  BY RefundInvariant, PTL DEF RefundInv

\* mark_refund_sent only follows a broadcast Refund message for the row.
THEOREM SentAfterTrigger == Spec => []SentWasTriggered
  BY RefundInvariant, PTL DEF RefundInv

\* The compare-and-swap of set_refund_wallet: a submission under way never
\* brings back a row the operator cancelled before an address was stored.
THEOREM CancelBeatsSubmission == Spec => CancelledUnclaimedStays
  <1> DEFINE A == \A r \in Row : row[r].status = "cancelled" /\ row[r].wallet = NoWallet
                                  => row'[r].status \in {"cancelled", "deleted"}
  <1>1. RefundInv /\ [Next]_vars => [A]_vars
    <2> SUFFICES ASSUME RefundInv, [Next]_vars, NEW r \in Row,
                        row[r].status = "cancelled", row[r].wallet = NoWallet
                 PROVE  row'[r].status \in {"cancelled", "deleted"}
      OBVIOUS
    <2> USE RefundAssumption DEF RefundInv
    <2>1. CASE row' = row
      BY <2>1
    <2>2. CASE Rows \/ Subscriptions
      BY <2>2 DEF Rows, create_overpayment_refund, mark_refund_cancelled, Overpay, Subscriptions,
          generate_payment_request, create_subscription, SetVaultAddress, delete_subscription,
          RowIs, TypeOK
    <2>3. CASE set_refund_wallet
      BY <2>3 DEF set_refund_wallet, Claim, Claimable, RowIs, TypeOK
    <2>4. ASSUME NEW j \in Job, mark_refund_sent(j)
          PROVE  row'[r].status \in {"cancelled", "deleted"}
      <3>1. job[j].row \in Row /\ row[job[j].row].wallet # NoWallet
        BY <2>4 DEF mark_refund_sent, at, JobInv, JobOwn, Known
      <3>2. row'[r] = row[r]
        BY <2>4, <3>1 DEF mark_refund_sent, TypeOK
      <3> QED
        BY <3>2
    <2>5. ASSUME NEW j \in Job, Trigger(j)
          PROVE  row'[r].status \in {"cancelled", "deleted"}
      BY <2>1, <2>4, <2>5 DEF Trigger, lookup, read_seqno, broadcast, confirm, trigger_fails
    <2>6. CASE UNCHANGED vars \/ \E w \in Wallet : submit_wallet(w)
      BY <2>1, <2>6 DEF vars, submit_wallet
    <2> QED
      BY <2>1, <2>2, <2>3, <2>5, <2>6
      DEF Next, retry_pending_sends, retry_next, Accept, Lapse, restart,
        _expire_stale_charges_inprocess
  <1> QED
    BY RefundInvariant, <1>1, PTL DEF Spec, CancelledUnclaimedStays
=============================================================================
