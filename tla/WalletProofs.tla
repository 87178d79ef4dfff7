---------------------------- MODULE WalletProofs ----------------------------
(***************************************************************************)
(* The payout wallet is never one whose delay has not passed, nor one that *)
(* was cancelled in time, for any number of changes.  The invariant says   *)
(* what makes it so: whatever the run holds in its hands was due and was   *)
(* pending when it was fetched, and what was cancelled early stays         *)
(* cancelled.                                                              *)
(***************************************************************************)
EXTENDS WalletChange, TLAPS

\* What the run works on.
InHand == applier.todo \cup (IF applier.pc \in {"refuse", "apply", "mark"} THEN {applier.row} ELSE {})

\* Due rows only, and none of those that were cancelled early.
InHandInv == \A c \in InHand : c \in due /\ c \notin early

EarlyInv == \A c \in early : change[c] = "cancelled"

WalletInv == TypeOK /\ InHandInv /\ EarlyInv /\ HeldUntilDue /\ CancelWindow

LEMMA WalletInit == Init => WalletInv
<1> SUFFICES ASSUME Init PROVE WalletInv
  OBVIOUS
<1>1. TypeOK
  <2>1. /\ change \in [Change -> Status] /\ due \subseteq Change /\ early \subseteq Change
        /\ payout \in Change \cup {NoChange} /\ standing \in Standing
        /\ faults \in 0 .. MaxFaults
    BY WalletAssumption DEF WalletAssumption, Init, Status, Standing
  <2>2. request \in [FrontEnd -> [pc : {"idle", "address", "replace", "insert"}, checked : BOOLEAN]]
    BY DEF Init, NoRequest, Request
  <2>3. passcode \in BOOLEAN /\ left \in BOOLEAN
    BY DEF Init
  <2>4. /\ applier \in [pc : {"idle", "next", "refuse", "apply", "mark"}, row : Change \cup {NoChange},
                        todo : SUBSET Change, seen : Standing]
        /\ applier.pc = "idle"
    BY DEF Init, Resting, Apply, Standing
  <2> QED BY <2>1, <2>2, <2>3, <2>4 DEF TypeOK
<1>2. InHandInv /\ EarlyInv /\ HeldUntilDue /\ CancelWindow
  BY DEF Init, InHandInv, InHand, EarlyInv, HeldUntilDue, CancelWindow, Resting, Apply
<1> QED BY <1>1, <1>2 DEF WalletInv

\* Cancelling pending rows: those not yet due become early, so none in hand does.
LEMMA CancelKeeps ==
  ASSUME WalletInv, NEW rows \in SUBSET Change, CancelPending(rows), due' = due, payout' = payout
  PROVE  /\ change' \in [Change -> Status]
         /\ early' \subseteq Change
         /\ \A c \in InHand : c \in due /\ c \notin early'
         /\ EarlyInv'
         /\ HeldUntilDue'
         /\ CancelWindow'
<1>1. change' \in [Change -> Status] /\ early' \subseteq Change
  BY DEF WalletInv, TypeOK, CancelPending, Cancelled, Pending, Status
<1>2. \A c \in InHand : c \in due /\ c \notin early'
  BY DEF WalletInv, InHandInv, CancelPending
<1>3. EarlyInv'
  BY DEF WalletInv, TypeOK, EarlyInv, CancelPending, Cancelled, Pending
<1>4. HeldUntilDue' /\ CancelWindow'
  BY <1>1, WalletAssumption DEF WalletAssumption, WalletInv, HeldUntilDue, CancelWindow, CancelPending
<1> QED BY <1>1, <1>2, <1>3, <1>4

LEMMA AdminKeeps ==
  ASSUME WalletInv, Admin
  PROVE  WalletInv'
<1> USE DEF FrontEnd, Request, NoRequest
<1>1. ASSUME cb_update_wallet \/ msg_new_wallet \/ cb_cancel_input \/ api_update_wallet
      PROVE  WalletInv'
  <2>1. TypeOK' /\ UNCHANGED <<change, due, payout, applier, early>>
    <3>1. CASE cb_update_wallet
      BY <3>1 DEF WalletInv, TypeOK, cb_update_wallet
    <3>2. CASE msg_new_wallet
      BY <3>2 DEF WalletInv, TypeOK, msg_new_wallet
    <3>3. CASE cb_cancel_input
      BY <3>3 DEF WalletInv, TypeOK, cb_cancel_input
    <3>4. CASE api_update_wallet
      BY <3>4 DEF WalletInv, TypeOK, api_update_wallet
    <3> QED BY <1>1, <3>1, <3>2, <3>3, <3>4
  <2> QED BY <2>1 DEF WalletInv, InHandInv, InHand, EarlyInv, HeldUntilDue, CancelWindow
<1>2. CASE set_group_passcode
  BY <1>2 DEF WalletInv, TypeOK, InHandInv, InHand, EarlyInv, HeldUntilDue, CancelWindow,
     set_group_passcode
<1>3. ASSUME NEW f \in FrontEnd, supersede(f) PROVE WalletInv'
  <2>1. CancelPending(Change) /\ due' = due /\ payout' = payout /\ applier' = applier
    BY <1>3 DEF supersede
  <2>2. /\ change' \in [Change -> Status] /\ early' \subseteq Change
        /\ \A c \in InHand : c \in due /\ c \notin early'
        /\ EarlyInv' /\ HeldUntilDue' /\ CancelWindow'
    BY <2>1, CancelKeeps
  <2>3. InHandInv'
    BY <2>1, <2>2 DEF InHandInv, InHand
  <2>4. TypeOK'
    BY <1>3, <2>2 DEF WalletInv, TypeOK, supersede
  <2> QED BY <2>2, <2>3, <2>4 DEF WalletInv
<1>4. ASSUME NEW f \in FrontEnd, insert(f) PROVE WalletInv'
  <2>1. TypeOK'
    BY <1>4 DEF WalletInv, TypeOK, insert, Status
  <2>2. EarlyInv'
    BY <1>4 DEF WalletInv, TypeOK, EarlyInv, insert
  <2> QED BY <1>4, <2>1, <2>2 DEF WalletInv, InHandInv, InHand, HeldUntilDue, CancelWindow, insert
<1>5. ASSUME NEW c \in Change, cancel_pending_wallet_change(c) PROVE WalletInv'
  <2>1. CancelPending({c}) /\ due' = due /\ payout' = payout /\ applier' = applier
    BY <1>5 DEF cancel_pending_wallet_change
  <2>2. /\ change' \in [Change -> Status] /\ early' \subseteq Change
        /\ \A d \in InHand : d \in due /\ d \notin early'
        /\ EarlyInv' /\ HeldUntilDue' /\ CancelWindow'
    BY <2>1, CancelKeeps
  <2>3. InHandInv'
    BY <2>1, <2>2 DEF InHandInv, InHand
  <2>4. TypeOK'
    BY <1>5, <2>2 DEF WalletInv, TypeOK, cancel_pending_wallet_change
  <2> QED BY <2>2, <2>3, <2>4 DEF WalletInv
<1> QED BY <1>1, <1>2, <1>3, <1>4, <1>5 DEF Admin

LEMMA ApplierKeeps ==
  ASSUME WalletInv, Applier
  PROVE  WalletInv'
<1> USE DEF Apply, Resting
<1>1. CASE fetch_due
  <2>1. TypeOK'
    BY <1>1 DEF WalletInv, TypeOK, fetch_due, get_due_wallet_changes, Pending, Standing
  <2>2. InHandInv'
    BY <1>1 DEF WalletInv, InHandInv, InHand, EarlyInv, fetch_due, get_due_wallet_changes, Pending
  <2> QED BY <1>1, <2>1, <2>2 DEF WalletInv, EarlyInv, HeldUntilDue, CancelWindow, fetch_due
<1>2. CASE next_due
  <2>1. TypeOK'
    BY <1>2 DEF WalletInv, TypeOK, next_due
  <2>2. InHandInv'
    BY <1>2 DEF WalletInv, TypeOK, InHandInv, InHand, next_due
  <2> QED BY <1>2, <2>1, <2>2 DEF WalletInv, EarlyInv, HeldUntilDue, CancelWindow, next_due
<1>3. CASE auto_cancel
  <2>1. /\ CancelPending({applier.row}) /\ due' = due /\ payout' = payout
        /\ applier.row \in Change
    BY <1>3 DEF auto_cancel, WalletInv, TypeOK
  <2>2. /\ change' \in [Change -> Status] /\ early' \subseteq Change
        /\ \A d \in InHand : d \in due /\ d \notin early'
        /\ EarlyInv' /\ HeldUntilDue' /\ CancelWindow'
    BY <2>1, CancelKeeps
  <2>3. InHandInv'
    BY <1>3, <2>1, <2>2 DEF InHandInv, InHand, auto_cancel, Continue
  <2>4. TypeOK'
    BY <1>3, <2>2 DEF WalletInv, TypeOK, auto_cancel, Continue, Standing
  <2> QED BY <2>2, <2>3, <2>4 DEF WalletInv
<1>4. CASE apply_wallet
  <2>1. applier.row \in Change /\ applier.row \in due /\ applier.row \notin early
    BY <1>4 DEF WalletInv, TypeOK, InHandInv, InHand, apply_wallet
  <2>2. TypeOK'
    BY <1>4, <2>1 DEF WalletInv, TypeOK, apply_wallet
  <2>3. InHandInv'
    BY <1>4, <2>1 DEF WalletInv, InHandInv, InHand, apply_wallet
  <2>4. HeldUntilDue' /\ CancelWindow' /\ EarlyInv'
    BY <1>4, <2>1 DEF WalletInv, HeldUntilDue, CancelWindow, EarlyInv, apply_wallet
  <2> QED BY <2>2, <2>3, <2>4 DEF WalletInv
<1>5. CASE mark_applied
  <2>1. applier.row \in Change /\ applier.row \notin early
    BY <1>5 DEF WalletInv, TypeOK, InHandInv, InHand, mark_applied
  <2>2. TypeOK'
    BY <1>5, <2>1 DEF WalletInv, TypeOK, mark_applied, Continue, Status, Standing
  <2>3. InHandInv'
    BY <1>5 DEF WalletInv, InHandInv, InHand, mark_applied, Continue
  <2>4. EarlyInv'
    BY <1>5, <2>1 DEF WalletInv, TypeOK, EarlyInv, mark_applied
  <2> QED BY <1>5, <2>2, <2>3, <2>4 DEF WalletInv, HeldUntilDue, CancelWindow, mark_applied
<1> QED BY <1>1, <1>2, <1>3, <1>4, <1>5 DEF Applier

\* Time, the operator, the deletion of the group and restarts.
LEMMA WorldKeeps ==
  ASSUME WalletInv,
         \/ \E c \in Change : activates(c)
         \/ \E status \in Standing : set_group_status(status)
         \/ activate_paywall \/ delete_group \/ restart
  PROVE  WalletInv'
<1>1. ASSUME NEW c \in Change, activates(c) PROVE WalletInv'
  BY <1>1 DEF WalletInv, TypeOK, InHandInv, InHand, EarlyInv, HeldUntilDue, CancelWindow, activates
<1>2. ASSUME NEW status \in Standing, set_group_status(status) PROVE WalletInv'
  BY <1>2 DEF WalletInv, TypeOK, InHandInv, InHand, EarlyInv, HeldUntilDue, CancelWindow,
     set_group_status
<1>3. CASE delete_group
  <2>1. CancelPending(Change) /\ due' = due /\ payout' = payout /\ applier' = applier
    BY <1>3 DEF delete_group
  <2>2. /\ change' \in [Change -> Status] /\ early' \subseteq Change
        /\ \A c \in InHand : c \in due /\ c \notin early'
        /\ EarlyInv' /\ HeldUntilDue' /\ CancelWindow'
    BY <2>1, CancelKeeps
  <2>3. InHandInv'
    BY <2>1, <2>2 DEF InHandInv, InHand
  <2>4. TypeOK'
    BY <1>3, <2>2 DEF WalletInv, TypeOK, delete_group, Standing
  <2> QED BY <2>2, <2>3, <2>4 DEF WalletInv
<1>4. CASE restart
  BY <1>4, WalletAssumption DEF WalletAssumption, WalletInv, TypeOK, InHandInv, InHand, EarlyInv, HeldUntilDue,
     CancelWindow, restart, Resting, Apply, NoRequest, Request, FrontEnd, Standing
<1>5. CASE activate_paywall
  <2>1. TypeOK'
    BY <1>5 DEF WalletInv, TypeOK, activate_paywall, Standing
  <2>2. NoChange \notin early
    BY WalletAssumption DEF WalletAssumption, WalletInv, TypeOK
  <2> QED BY <1>5, <2>1, <2>2 DEF WalletInv, InHandInv, InHand, EarlyInv, HeldUntilDue, CancelWindow,
        activate_paywall
<1> QED BY <1>1, <1>2, <1>3, <1>4, <1>5

LEMMA WalletStep ==
  ASSUME WalletInv, [Next]_vars
  PROVE  WalletInv'
<1>1. CASE Next
  BY <1>1, AdminKeeps, ApplierKeeps, WorldKeeps DEF Next
<1>2. CASE UNCHANGED vars
  BY <1>2 DEF vars, WalletInv, TypeOK, InHandInv, InHand, EarlyInv, HeldUntilDue, CancelWindow
<1> QED BY <1>1, <1>2

LEMMA WalletInvariant == Spec => []WalletInv
<1>1. WalletInv /\ [Next]_vars => WalletInv'
  BY WalletStep
<1> QED BY WalletInit, <1>1, PTL DEF Spec

\* The shapes of the rows, requests and runs hold in every reachable state.
THEOREM WalletTypeCorrect == Spec => []TypeOK
<1>1. WalletInv => TypeOK
  BY DEF WalletInv
<1> QED BY <1>1, WalletInvariant, PTL

\* The hold of WALLET_CHANGE_DELAY_HOURS: no wallet is paid out to before its
\* delay has passed, whatever the front ends, the operator and restarts do.
THEOREM WalletHeld == Spec => []HeldUntilDue
<1>1. WalletInv => HeldUntilDue
  BY DEF WalletInv
<1> QED BY <1>1, WalletInvariant, PTL

\* A change cancelled before its delay has passed never becomes the payout wallet.
THEOREM CancelInTimeWins == Spec => []CancelWindow
<1>1. WalletInv => CancelWindow
  BY DEF WalletInv
<1> QED BY <1>1, WalletInvariant, PTL

-----------------------------------------------------------------------------
(* A due change is settled.  The two front ends can leave two changes      *)
(* pending, no more: hence a run has at most two rows in hand, and after a *)
(* run that started without the row there is one that fetches it.          *)

Several(S) == \E a, b \in S : a # b

\* Front ends between the two statements leave the fewer changes pending.
PendingFew ==
    /\ \A a, b, c \in Pending : a = b \/ b = c \/ a = c
    /\ \A f \in FrontEnd : request[f].pc = "insert" => ~Several(Pending)
    /\ (\A f \in FrontEnd : request[f].pc = "insert") => Pending = {}

\* A run has at most two rows left, and one less while it works on a row.
RunFew ==
    /\ applier.pc = "idle" => applier = Resting
    /\ applier.pc = "next" => applier.todo # {}
    /\ applier.pc = "next" => \A a, b, c \in applier.todo : a = b \/ b = c \/ a = c
    /\ applier.pc \in {"refuse", "apply", "mark"} => ~Several(applier.todo)

\* A group goes only when no change refers to it.
DeletedHasNone == standing = "deleted" => \A c \in Change : change[c] = "none"

\* What is due was asked for.
DueExists == \A c \in due : change[c] # "none"

LiveInv == WalletInv /\ PendingFew /\ RunFew /\ DeletedHasNone /\ DueExists

LEMMA LiveInit == Init => LiveInv
<1> SUFFICES ASSUME Init PROVE LiveInv
  OBVIOUS
<1>1. WalletInv
  BY WalletInit
<1>2. Pending = {}
  BY DEF Init, Pending
<1>3. PendingFew
  BY <1>2 DEF PendingFew, Several
<1>4. RunFew /\ DeletedHasNone /\ DueExists
  BY DEF Init, RunFew, DeletedHasNone, DueExists, Resting, Apply
<1> QED BY <1>1, <1>3, <1>4 DEF LiveInv

\* What only takes changes out of Pending, and leaves the requests, keeps the bound.
LEMMA FewerPending ==
  ASSUME PendingFew, Pending' \subseteq Pending, request' = request
  PROVE  PendingFew'
BY DEF PendingFew, Several

LEMMA CancelledLess ==
  ASSUME NEW rows \in SUBSET Change, CancelPending(rows)
  PROVE  /\ Pending' = Pending \ rows
         /\ \A c \in Change : change[c] = "none" => change'[c] = "none"
         /\ \A c \in Change : change[c] # "none" => change'[c] # "none"
BY DEF CancelPending, Cancelled, Pending

LEMMA PendingStaysFew ==
  ASSUME LiveInv, [Next]_vars
  PROVE  PendingFew'
<1> USE DEF LiveInv, WalletInv
<1>1. ASSUME NEW f \in FrontEnd, supersede(f) PROVE PendingFew'
  <2>1. Pending' = {}
    BY <1>1, CancelledLess DEF supersede, Pending
  <2> QED BY <2>1 DEF PendingFew, Several
<1>2. ASSUME NEW f \in FrontEnd, insert(f) PROVE PendingFew'
  <2> DEFINE other == IF f = "bot" THEN "miniapp" ELSE "bot"
  <2>1. other \in FrontEnd /\ f # other /\ \A g \in FrontEnd : g = f \/ g = other
    BY DEF FrontEnd
  <2>2. request' = [request EXCEPT ![f] = NoRequest] /\ request[f].pc = "insert"
    BY <1>2 DEF insert
  <2>3. request'[f].pc = "idle" /\ request'[other] = request[other]
    BY <2>1, <2>2 DEF TypeOK, NoRequest, Request
  <2>4. PICK c \in Change \cup {NoChange} : Pending' \subseteq Pending \cup {c}
    <3>1. CASE standing = "deleted"
      BY <1>2, <3>1 DEF insert, Pending
    <3>2. CASE standing # "deleted"
      BY <1>2, <3>2 DEF insert, Pending, TypeOK
    <3> QED BY <3>1, <3>2
  <2>5. ~Several(Pending)
    BY <2>2 DEF PendingFew
  <2>6. request[other].pc = "insert" => Pending = {}
    BY <2>1, <2>2 DEF PendingFew
  <2> HIDE DEF other
  <2> QED BY <2>1, <2>3, <2>4, <2>5, <2>6 DEF PendingFew, Several
<1>3. ASSUME NEW c \in Change, cancel_pending_wallet_change(c) PROVE PendingFew'
  <2>1. Pending' \subseteq Pending /\ request' = request
    BY <1>3, CancelledLess DEF cancel_pending_wallet_change
  <2> QED BY <2>1, FewerPending
<1>4. CASE delete_group
  <2>1. Pending' \subseteq Pending /\ request' = request
    BY <1>4, CancelledLess DEF delete_group
  <2> QED BY <2>1, FewerPending
<1>5. CASE auto_cancel
  <2>1. Pending' \subseteq Pending /\ request' = request
    BY <1>5, CancelledLess DEF auto_cancel, TypeOK
  <2> QED BY <2>1, FewerPending
<1>6. CASE mark_applied
  <2>1. Pending' \subseteq Pending /\ request' = request
    BY <1>6 DEF mark_applied, Pending, TypeOK
  <2> QED BY <2>1, FewerPending
<1>7. ASSUME cb_update_wallet \/ msg_new_wallet \/ cb_cancel_input \/ api_update_wallet \/ restart
      PROVE  PendingFew'
  <2>1. Pending' = Pending
    BY <1>7 DEF cb_update_wallet, msg_new_wallet, cb_cancel_input, api_update_wallet, restart,
       Pending
  <2>2. \A f \in FrontEnd : request'[f].pc = "insert" => request[f].pc = "insert"
    BY <1>7 DEF TypeOK, cb_update_wallet, msg_new_wallet, cb_cancel_input, api_update_wallet,
       restart, NoRequest, Request, FrontEnd
  <2> QED BY <2>1, <2>2 DEF PendingFew, Several
<1>8. ASSUME \/ set_group_passcode \/ fetch_due \/ next_due \/ apply_wallet
             \/ \E c \in Change : activates(c)
             \/ \E status \in Standing : set_group_status(status)
             \/ activate_paywall \/ UNCHANGED vars
      PROVE  PendingFew'
  <2>1. Pending' = Pending /\ request' = request
    BY <1>8 DEF set_group_passcode, fetch_due, next_due, apply_wallet, activates,
       set_group_status, activate_paywall, vars, Pending
  <2> QED BY <2>1, FewerPending
<1> QED BY <1>1, <1>2, <1>3, <1>4, <1>5, <1>6, <1>7, <1>8 DEF Next, Admin, Applier

LEMMA RunStaysFew ==
  ASSUME LiveInv, [Next]_vars
  PROVE  RunFew'
<1> USE DEF LiveInv, WalletInv, Resting, Apply
<1>1. CASE applier' = applier
  BY <1>1 DEF RunFew, Several
<1>2. CASE fetch_due
  <2>1. applier'.pc = "next" /\ applier'.todo # {} /\ applier'.todo \subseteq Pending
    BY <1>2 DEF fetch_due, get_due_wallet_changes
  <2> QED BY <2>1 DEF RunFew, PendingFew
<1>3. CASE next_due
  <2>1. PICK c \in applier.todo : applier'.todo = applier.todo \ {c}
    BY <1>3 DEF next_due
  <2>2. applier'.pc \in {"refuse", "apply"} /\ applier.pc = "next"
    BY <1>3 DEF next_due
  <2> QED BY <2>1, <2>2 DEF RunFew, Several
<1>4. CASE auto_cancel \/ mark_applied
  <2>1. Continue /\ applier.pc \in {"refuse", "mark"}
    BY <1>4 DEF auto_cancel, mark_applied
  <2>2. \/ applier' = Resting
        \/ applier'.pc = "next" /\ applier'.todo = applier.todo /\ applier.todo # {}
    BY <2>1 DEF Continue
  <2> QED BY <2>1, <2>2 DEF RunFew, Several
<1>5. CASE apply_wallet
  <2>1. applier'.pc = "mark" /\ applier'.todo = applier.todo /\ applier.pc = "apply"
    BY <1>5 DEF apply_wallet
  <2> QED BY <2>1 DEF RunFew, Several
<1>6. CASE restart
  <2>1. applier' = Resting
    BY <1>6 DEF restart
  <2> QED BY <2>1 DEF RunFew
<1>7. \/ applier' = applier \/ fetch_due \/ next_due \/ auto_cancel \/ mark_applied
      \/ apply_wallet \/ restart
  BY DEF Next, Admin, Applier, cb_update_wallet, msg_new_wallet, cb_cancel_input,
     api_update_wallet, set_group_passcode, supersede, insert, cancel_pending_wallet_change,
     activates, set_group_status, activate_paywall, delete_group, vars
<1> QED BY <1>1, <1>2, <1>3, <1>4, <1>5, <1>6, <1>7

LEMMA NoneStaysNone ==
  ASSUME LiveInv, [Next]_vars
  PROVE  DeletedHasNone' /\ DueExists'
<1> USE DEF LiveInv, WalletInv
<1>1. ASSUME NEW rows \in SUBSET Change, CancelPending(rows), standing' = standing, due' = due
      PROVE  DeletedHasNone' /\ DueExists'
  BY <1>1, CancelledLess DEF DeletedHasNone, DueExists, TypeOK
<1>2. ASSUME NEW f \in FrontEnd, supersede(f) PROVE DeletedHasNone' /\ DueExists'
  BY <1>2, <1>1 DEF supersede
<1>3. ASSUME NEW c \in Change, cancel_pending_wallet_change(c)
      PROVE  DeletedHasNone' /\ DueExists'
  BY <1>3, <1>1 DEF cancel_pending_wallet_change
<1>4. CASE auto_cancel
  BY <1>4, <1>1 DEF auto_cancel, TypeOK
<1>5. ASSUME NEW f \in FrontEnd, insert(f) PROVE DeletedHasNone' /\ DueExists'
  <2>1. standing' = standing /\ due' = due
    BY <1>5 DEF insert
  <2>2. CASE standing = "deleted"
    BY <1>5, <2>1, <2>2 DEF insert, DeletedHasNone, DueExists
  <2>3. CASE standing # "deleted"
    <3>1. PICK c \in Change : change' = [change EXCEPT ![c] = "pending"]
      BY <1>5, <2>3 DEF insert
    <3> QED BY <2>1, <2>3, <3>1 DEF DeletedHasNone, DueExists, TypeOK
  <2> QED BY <2>2, <2>3
<1>6. CASE delete_group
  <2>1. CancelPending(Change) /\ due' = due
    BY <1>6 DEF delete_group
  <2>2. standing' = "deleted" => \A c \in Change : change[c] = "none"
    BY <1>6 DEF delete_group
  <2> QED BY <2>1, <2>2, CancelledLess DEF DeletedHasNone, DueExists, TypeOK
<1>7. CASE mark_applied
  <2>1. /\ applier.row \in Change /\ applier.row \in due
        /\ change' = [change EXCEPT ![applier.row] = "applied"]
        /\ standing' = standing /\ due' = due
    BY <1>7 DEF mark_applied, TypeOK, InHandInv, InHand
  <2> QED BY <2>1 DEF DeletedHasNone, DueExists, TypeOK
<1>8. ASSUME NEW c \in Change, activates(c) PROVE DeletedHasNone' /\ DueExists'
  BY <1>8 DEF activates, DeletedHasNone, DueExists
<1>9. ASSUME \/ cb_update_wallet \/ msg_new_wallet \/ cb_cancel_input \/ api_update_wallet
             \/ set_group_passcode \/ fetch_due \/ next_due \/ apply_wallet
             \/ \E status \in Standing : set_group_status(status)
             \/ activate_paywall \/ restart \/ UNCHANGED vars
      PROVE  DeletedHasNone' /\ DueExists'
  <2>1. change' = change /\ due' = due /\ (standing' = "deleted" => standing = "deleted")
    BY <1>9 DEF cb_update_wallet, msg_new_wallet, cb_cancel_input, api_update_wallet,
       set_group_passcode, fetch_due, next_due, apply_wallet, set_group_status,
       activate_paywall, restart, vars
  <2> QED BY <2>1 DEF DeletedHasNone, DueExists
<1> QED BY <1>2, <1>3, <1>4, <1>5, <1>6, <1>7, <1>8, <1>9 DEF Next, Admin, Applier

LEMMA LiveInvariant == Spec => []LiveInv
<1>1. LiveInv /\ [Next]_vars => LiveInv'
  <2> SUFFICES ASSUME LiveInv, [Next]_vars PROVE LiveInv'
    OBVIOUS
  <2>1. WalletInv'
    BY WalletStep DEF LiveInv
  <2> QED BY <2>1, PendingStaysFew, RunStaysFew, NoneStaysNone DEF LiveInv
<1> QED BY LiveInit, <1>1, PTL DEF Spec

\* A row that waits for the run, and one that does so with at most m steps of the
\* run ahead: 3 for each row in hand and 1 to fetch, and a run's worth more if the
\* run under way started without it.
Waiting(c) == change[c] = "pending" /\ c \in due
Size(S) == IF Several(S) THEN 2 ELSE IF S # {} THEN 1 ELSE 0
RunLeft ==
    CASE applier.pc = "next" -> 3 * Size(applier.todo) + 1
      [] applier.pc \in {"refuse", "apply"} -> 3 * Size(applier.todo) + 3
      [] applier.pc = "mark" -> 3 * Size(applier.todo) + 2
      [] OTHER -> 1
StepsLeft(c) == IF c \in InHand THEN RunLeft ELSE RunLeft + 7
Within(c, m) == Waiting(c) /\ StepsLeft(c) \in 0 .. m

LEMMA StepsBounded ==
  ASSUME LiveInv, NEW c \in Change, Waiting(c)
  PROVE  StepsLeft(c) \in 2 .. 14
<1> USE DEF LiveInv
<1>1. Size(applier.todo) \in 0 .. 2
  BY DEF Size
<1>2. applier.pc \in {"refuse", "apply", "mark"} => Size(applier.todo) <= 1
  BY DEF Size, RunFew
<1>3. c \in InHand => applier.pc # "idle"
  BY DEF InHand, RunFew, Resting, Apply
<1>4. applier.pc \in {"idle", "next", "refuse", "apply", "mark"}
  BY DEF WalletInv, TypeOK
<1>5. applier.pc = "next" => Size(applier.todo) >= 1
  BY DEF Size, RunFew
<1> QED BY <1>1, <1>2, <1>3, <1>4, <1>5 DEF StepsLeft, RunLeft

\* Nobody but the run brings it nearer, and nobody but a restart takes it back.
LEMMA OthersLeave ==
  ASSUME LiveInv, NEW c \in Change, NEW m \in Nat, Within(c, m),
         [Next]_vars, ~Applier, ~restart
  PROVE  Within(c, m)' \/ change'[c] # "pending"
<1>1. applier' = applier
  BY DEF Next, Admin, cb_update_wallet, msg_new_wallet, cb_cancel_input,
     api_update_wallet, set_group_passcode, supersede, insert, cancel_pending_wallet_change,
     activates, set_group_status, activate_paywall, delete_group, vars
<1>2. due \subseteq due'
  BY DEF Next, Admin, cb_update_wallet, msg_new_wallet, cb_cancel_input,
     api_update_wallet, set_group_passcode, supersede, insert, cancel_pending_wallet_change,
     activates, set_group_status, activate_paywall, delete_group, vars
<1> QED BY <1>1, <1>2 DEF Within, Waiting, StepsLeft, RunLeft, InHand

\* Every step of the run settles the row or leaves fewer steps.
LEMMA RunAdvances ==
  ASSUME LiveInv, NEW c \in Change, NEW m \in Nat, Within(c, m + 1), Applier
  PROVE  Within(c, m)' \/ change'[c] # "pending"
<1> SUFFICES ASSUME change'[c] = "pending" PROVE Within(c, m)'
  OBVIOUS
<1> USE DEF LiveInv
<1>1. due' = due /\ Waiting(c) /\ StepsLeft(c) \in 0 .. m + 1
  BY DEF Within, Applier, fetch_due, next_due, auto_cancel, apply_wallet, mark_applied
<1>2. Waiting(c)'
  BY <1>1 DEF Waiting
<1>3. /\ Size(applier.todo) \in 0 .. 2 /\ Size(applier'.todo) \in 0 .. 2
      /\ Size({}) = 0 /\ \A S : S # {} => Size(S) >= 1
  BY DEF Size, Several
<1>4. CASE fetch_due
  <2>1. applier.pc = "idle" /\ c \notin InHand
    BY <1>4 DEF fetch_due, InHand, Resting, Apply
  <2>2. applier'.pc = "next" /\ c \in applier'.todo
    BY <1>1, <1>4 DEF fetch_due, get_due_wallet_changes, Pending, Waiting, Apply
  <2>3. StepsLeft(c) = 8
    BY <2>1 DEF StepsLeft, RunLeft
  <2>4. StepsLeft(c)' <= 7 /\ StepsLeft(c)' \in Nat
    BY <1>3, <2>2 DEF StepsLeft, RunLeft, InHand
  <2> QED BY <1>1, <1>2, <2>3, <2>4 DEF Within
<1>5. CASE next_due
  <2>1. PICK d \in applier.todo :
           /\ applier.pc = "next" /\ applier'.pc \in {"refuse", "apply"}
           /\ applier'.row = d /\ applier'.todo = applier.todo \ {d}
    BY <1>5 DEF next_due, Apply
  <2>2. c \in InHand <=> (c \in InHand)'
    BY <2>1 DEF InHand
  <2>3. Size(applier'.todo) + 1 <= Size(applier.todo)
    BY <2>1 DEF Size, Several, RunFew
  <2>4. StepsLeft(c)' + 1 <= StepsLeft(c)
    BY <1>3, <2>1, <2>2, <2>3 DEF StepsLeft, RunLeft
  <2>5. StepsLeft(c) \in Nat /\ StepsLeft(c)' \in Nat
    BY <1>3, <2>1 DEF StepsLeft, RunLeft
  <2> QED BY <1>1, <1>2, <2>4, <2>5 DEF Within
<1>6. CASE auto_cancel \/ mark_applied
  <2>1. applier.row # c /\ applier.pc \in {"refuse", "mark"}
    BY <1>1, <1>6 DEF auto_cancel, mark_applied, CancelPending, Cancelled, Pending, WalletInv,
       TypeOK, Waiting
  <2>2. Continue
    BY <1>6 DEF auto_cancel, mark_applied
  <2>3. CASE applier.todo = {}
    <3>1. applier' = Resting
      BY <2>2, <2>3 DEF Continue
    <3>2. c \notin InHand /\ ~(c \in InHand)'
      BY <2>1, <2>3, <3>1 DEF InHand, Resting, Apply
    <3>3. StepsLeft(c)' = 8
      BY <3>1, <3>2 DEF StepsLeft, RunLeft, Resting, Apply
    <3>4. StepsLeft(c) >= 9
      BY <1>3, <2>1, <2>3, <3>2 DEF StepsLeft, RunLeft
    <3>5. StepsLeft(c) \in Nat
      BY <1>3, <2>1 DEF StepsLeft, RunLeft
    <3> QED BY <1>1, <1>2, <3>3, <3>4, <3>5 DEF Within
  <2>4. CASE applier.todo # {}
    <3>1. applier'.pc = "next" /\ applier'.todo = applier.todo
      BY <2>2, <2>4 DEF Continue, Apply
    <3>2. c \in InHand <=> (c \in InHand)'
      BY <2>1, <3>1 DEF InHand
    <3>3. StepsLeft(c)' + 1 <= StepsLeft(c)
      BY <1>3, <2>1, <3>1, <3>2 DEF StepsLeft, RunLeft
    <3>4. StepsLeft(c) \in Nat /\ StepsLeft(c)' \in Nat
      BY <1>3, <2>1, <3>1 DEF StepsLeft, RunLeft
    <3> QED BY <1>1, <1>2, <3>3, <3>4 DEF Within
  <2> QED BY <2>3, <2>4
<1>7. CASE apply_wallet
  <2>1. /\ applier.pc = "apply" /\ applier'.pc = "mark"
        /\ applier'.todo = applier.todo /\ applier'.row = applier.row
    BY <1>7 DEF apply_wallet, Apply
  <2>2. c \in InHand <=> (c \in InHand)'
    BY <2>1 DEF InHand
  <2>3. StepsLeft(c)' + 1 = StepsLeft(c) /\ StepsLeft(c)' \in Nat
    BY <1>3, <2>1, <2>2 DEF StepsLeft, RunLeft
  <2> QED BY <1>1, <1>2, <2>3 DEF Within
<1> QED BY <1>4, <1>5, <1>6, <1>7 DEF Applier

\* When a row is due the run has a step to take: its group is there.
CanRun == applier.pc # "idle" \/ (standing # "deleted" /\ get_due_wallet_changes # {})

LEMMA WaitingCanRun ==
  ASSUME LiveInv, NEW c \in Change, Waiting(c)
  PROVE  CanRun
BY DEF LiveInv, Waiting, CanRun, DeletedHasNone, get_due_wallet_changes, Pending

\* A run that has a step to take can take it.  ENABLED is beyond the provers: this
\* is a hypothesis of the theorem below, and TLC evaluates it in every state of a
\* small instance.
RunIsEnabled == CanRun => ENABLED <<Applier>>_vars

\* The process is restarted finitely often.
RestartsEnd == <>[][~restart]_vars

\* Once no restart comes in between, a step leaves the row within n steps or settles
\* it, and a step of the run within n - 1.
LEMMA OneStepNearer ==
  ASSUME LiveInv, NEW c \in Change, NEW m \in Nat, NEW n \in Nat, n = m + 1,
         Within(c, n), [Next]_vars, [~restart]_vars
  PROVE  /\ Within(c, n)' \/ change'[c] # "pending"
         /\ <<Applier>>_vars => Within(c, m)' \/ change'[c] # "pending"
<1>1. CASE Applier
  <2>1. Within(c, m)' \/ change'[c] # "pending"
    BY <1>1, RunAdvances
  <2>2. Within(c, m)' => Within(c, n)'
    BY DEF Within
  <2> QED BY <2>1, <2>2
<1>2. CASE ~Applier
  <2>1. ASSUME UNCHANGED vars PROVE Within(c, n)'
    BY <2>1 DEF vars, Within, Waiting, StepsLeft, RunLeft, InHand
  <2>2. ASSUME ~restart PROVE Within(c, n)' \/ change'[c] # "pending"
    BY <1>2, <2>2, OthersLeave
  <2> QED BY <1>2, <2>1, <2>2
<1> QED BY <1>1, <1>2

\* However often the process was restarted before, a waiting row waits or is settled.
LEMMA WaitsOn ==
  ASSUME LiveInv, NEW c \in Change, Waiting(c), [Next]_vars
  PROVE  Waiting(c)' \/ change'[c] # "pending"
<1>1. due \subseteq due'
  BY DEF Next, Admin, Applier, cb_update_wallet, msg_new_wallet, cb_cancel_input,
     api_update_wallet, set_group_passcode, supersede, insert, cancel_pending_wallet_change,
     activates, set_group_status, activate_paywall, delete_group, vars, fetch_due, next_due,
     auto_cancel, apply_wallet, mark_applied, restart
<1> QED BY <1>1 DEF Waiting

\* A due change does not stay pending for ever: if the process is restarted only
\* finitely often, 14 steps of the run after its last start are enough to settle
\* it, whatever the front ends, the operator and the clock do in between.
THEOREM DueSettles == FairSpec /\ []RunIsEnabled /\ RestartsEnd => DueIsSettled
<1> SUFFICES ASSUME NEW c \in Change
             PROVE  FairSpec /\ []RunIsEnabled /\ RestartsEnd
                      => (change[c] = "pending" /\ c \in due ~> change[c] # "pending")
  BY DEF DueIsSettled
<1> DEFINE W(m) == Within(c, m)
           Pnd == Waiting(c)
           Q == change[c] # "pending"
           N == [Next]_vars /\ [~restart]_vars
<1>1. LiveInv /\ Pnd => CanRun /\ W(14)
  BY StepsBounded, WaitingCanRun DEF Within
<1>2. LiveInv => ~W(0)
  BY StepsBounded DEF Within
<1>3. LiveInv /\ Pnd /\ [Next]_vars => Pnd' \/ Q'
  BY WaitsOn
<1>4. LiveInv /\ W(14) /\ N => (W(14)' \/ Q') /\ (<<Applier>>_vars => W(13)' \/ Q')
  BY 14 = 13 + 1, OneStepNearer
<1>5. LiveInv /\ W(13) /\ N => (W(13)' \/ Q') /\ (<<Applier>>_vars => W(12)' \/ Q')
  BY 13 = 12 + 1, OneStepNearer
<1>6. LiveInv /\ W(12) /\ N => (W(12)' \/ Q') /\ (<<Applier>>_vars => W(11)' \/ Q')
  BY 12 = 11 + 1, OneStepNearer
<1>7. LiveInv /\ W(11) /\ N => (W(11)' \/ Q') /\ (<<Applier>>_vars => W(10)' \/ Q')
  BY 11 = 10 + 1, OneStepNearer
<1>8. LiveInv /\ W(10) /\ N => (W(10)' \/ Q') /\ (<<Applier>>_vars => W(9)' \/ Q')
  BY 10 = 9 + 1, OneStepNearer
<1>9. LiveInv /\ W(9) /\ N => (W(9)' \/ Q') /\ (<<Applier>>_vars => W(8)' \/ Q')
  BY 9 = 8 + 1, OneStepNearer
<1>10. LiveInv /\ W(8) /\ N => (W(8)' \/ Q') /\ (<<Applier>>_vars => W(7)' \/ Q')
  BY 8 = 7 + 1, OneStepNearer
<1>11. LiveInv /\ W(7) /\ N => (W(7)' \/ Q') /\ (<<Applier>>_vars => W(6)' \/ Q')
  BY 7 = 6 + 1, OneStepNearer
<1>12. LiveInv /\ W(6) /\ N => (W(6)' \/ Q') /\ (<<Applier>>_vars => W(5)' \/ Q')
  BY 6 = 5 + 1, OneStepNearer
<1>13. LiveInv /\ W(5) /\ N => (W(5)' \/ Q') /\ (<<Applier>>_vars => W(4)' \/ Q')
  BY 5 = 4 + 1, OneStepNearer
<1>14. LiveInv /\ W(4) /\ N => (W(4)' \/ Q') /\ (<<Applier>>_vars => W(3)' \/ Q')
  BY 4 = 3 + 1, OneStepNearer
<1>15. LiveInv /\ W(3) /\ N => (W(3)' \/ Q') /\ (<<Applier>>_vars => W(2)' \/ Q')
  BY 3 = 2 + 1, OneStepNearer
<1>16. LiveInv /\ W(2) /\ N => (W(2)' \/ Q') /\ (<<Applier>>_vars => W(1)' \/ Q')
  BY 2 = 1 + 1, OneStepNearer
<1>17. LiveInv /\ W(1) /\ N => (W(1)' \/ Q') /\ (<<Applier>>_vars => W(0)' \/ Q')
  BY 1 = 0 + 1, OneStepNearer
<1> HIDE DEF W, Pnd, Q
<1>18. FairSpec /\ []RunIsEnabled /\ RestartsEnd => (Pnd ~> Q)
  BY <1>1, <1>2, <1>3, <1>4, <1>5, <1>6, <1>7, <1>8, <1>9, <1>10, <1>11, <1>12, <1>13,
     <1>14, <1>15, <1>16, <1>17, LiveInvariant, PTL DEF FairSpec, Spec, RestartsEnd, RunIsEnabled
<1> QED BY <1>18 DEF Pnd, Q, Waiting
=============================================================================
