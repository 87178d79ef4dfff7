---------------------------- MODULE WalletChange ----------------------------
(***************************************************************************)
(* The delayed change of a group's payout wallet.  An admin asks for it in *)
(* the bot or in the mini app; the change waits, may be cancelled or       *)
(* superseded, and the poll loop applies what is due.  Each database       *)
(* statement is a step, as it is on SQLite, where each commits by itself.  *)
(* One group is enough: every statement names the group or the id of one   *)
(* of its changes.  A change stands for the address it asks for.           *)
(*                                                                         *)
(* The database is SQLite.  On PostgreSQL a change cannot be asked for:    *)
(* its date is a string, which cannot be bound to a TIMESTAMPTZ, so that   *)
(* the INSERT raises and the transaction takes the cancellation back.      *)
(***************************************************************************)
EXTENDS Integers, FiniteSets

CONSTANTS
    Change,    \* ids of pending_wallet_changes, ascending in time
    NoChange,  \* no change: a wallet given to the set-up wizard
    MaxFaults  \* bound on restarts

ASSUME WalletAssumption ==
    /\ Change \subseteq Nat /\ IsFiniteSet(Change)
    /\ NoChange \notin Change /\ MaxFaults \in Nat

VARIABLES
    change,     \* status of each row of pending_wallet_changes
    due,        \* rows whose activates_at has passed
    payout,     \* groups.payout_wallet_address
    standing,   \* groups.status
    left,       \* the bot has left the chat to have the group deleted
    passcode,   \* a wallet passkey is set
    request,    \* what each of the two front ends is doing
    applier,    \* the run that applies due changes
    early,      \* history: changes cancelled before they were due
    faults      \* restarts so far, at most MaxFaults

vars == <<change, due, payout, standing, left, passcode, request, applier, early, faults>>

-----------------------------------------------------------------------------
Status == {"none", "pending", "applied", "cancelled"}
Standing == {"active", "suspended", "frozen", "deleted"}
FrontEnd == {"bot", "miniapp"}

Request(pc, checked) == [pc |-> pc, checked |-> checked]
NoRequest == Request("idle", FALSE)
Apply(pc, row, todo, seen) == [pc |-> pc, row |-> row, todo |-> todo, seen |-> seen]
Resting == Apply("idle", NoChange, {}, "active")

Cancelled(rows) == [c \in Change |-> IF c \in rows THEN "cancelled" ELSE change[c]]
Pending == {c \in Change : change[c] = "pending"}

\* Statements that cancel pending rows share what they leave behind.
CancelPending(rows) ==
    /\ change' = Cancelled(rows \cap Pending)
    /\ early' = early \cup ((rows \cap Pending) \ due)

-----------------------------------------------------------------------------
(* Asking for a change.                                                    *)

\* The conversation keeps the group as it was when it was opened, its passkey
\* included.
cb_update_wallet ==
    /\ request["bot"].pc = "idle" /\ standing # "deleted"
    /\ request' = [request EXCEPT !["bot"] = Request("address", passcode)]
    /\ UNCHANGED <<change, due, payout, standing, left, passcode, applier, early, faults>>

\* The passkey is asked for if the conversation has seen one; a wrong one leads
\* nowhere.
msg_new_wallet ==
    /\ request["bot"].pc = "address"
    /\ request' = [request EXCEPT !["bot"] = Request("replace", request["bot"].checked)]
    /\ UNCHANGED <<change, due, payout, standing, left, passcode, applier, early, faults>>

\* The mini app looks the passkey up when the request arrives.
api_update_wallet ==
    /\ request["miniapp"].pc = "idle" /\ standing # "deleted"
    /\ request' = [request EXCEPT !["miniapp"] = Request("replace", passcode)]
    /\ UNCHANGED <<change, due, payout, standing, left, passcode, applier, early, faults>>

\* create_pending_wallet_change, first statement: whatever is pending goes.
supersede(f) ==
    /\ request[f].pc = "replace"
    /\ CancelPending(Change)
    /\ request' = [request EXCEPT ![f] = Request("insert", request[f].checked)]
    /\ UNCHANGED <<due, payout, standing, left, passcode, applier, faults>>

cb_cancel_input ==
    /\ request["bot"].pc = "address"
    /\ request' = [request EXCEPT !["bot"] = NoRequest]
    /\ UNCHANGED <<change, due, payout, standing, left, passcode, applier, early, faults>>

\* Mutant of insert: a status the table's CHECK does not know.
insert_scheduled(f) ==
    /\ request[f].pc = "insert"
    /\ request' = [request EXCEPT ![f] = NoRequest]
    /\ IF standing = "deleted" THEN change' = change
       ELSE \E c \in Change :
                /\ change[c] = "none"
                /\ \A d \in Change : d < c => change[d] # "none"
                /\ change' = [change EXCEPT ![c] = "scheduled"]
    /\ UNCHANGED <<due, payout, standing, left, passcode, applier, early, faults>>

\* Second statement: the new row; the group must still exist.
insert(f) ==
    /\ request[f].pc = "insert"
    /\ request' = [request EXCEPT ![f] = NoRequest]
    /\ IF standing = "deleted" THEN change' = change
       ELSE \E c \in Change :
                /\ change[c] = "none"
                /\ \A d \in Change : d < c => change[d] # "none"
                /\ change' = [change EXCEPT ![c] = "pending"]
    /\ UNCHANGED <<due, payout, standing, left, passcode, applier, early, faults>>

set_group_passcode ==
    /\ ~passcode /\ standing # "deleted"
    /\ passcode' = TRUE
    /\ UNCHANGED <<change, due, payout, standing, left, request, applier, early, faults>>

\* The admin's button, in the bot and in the mini app: a compare-and-swap.
cancel_pending_wallet_change(c) ==
    /\ change[c] = "pending"
    /\ CancelPending({c})
    /\ UNCHANGED <<due, payout, standing, left, passcode, request, applier, faults>>

-----------------------------------------------------------------------------
(* Time, and the rest of the program.                                      *)

\* The delay has passed; older changes came due before.
activates(c) ==
    /\ change[c] # "none" /\ c \notin due
    /\ \A d \in Change : d < c => d \in due
    /\ due' = due \cup {c}
    /\ UNCHANGED <<change, payout, standing, left, passcode, request, applier, early, faults>>

\* Suspension by the operator or a ban, a freeze, a reinstatement.
set_group_status(status) ==
    /\ standing # "deleted" /\ status # "deleted" /\ standing' = status
    /\ UNCHANGED <<change, due, payout, left, passcode, request, applier, early, faults>>

\* The set-up wizard, for a group that was frozen or was set up meanwhile: its
\* wallet takes effect at once.
activate_paywall ==
    /\ standing # "deleted" /\ standing' = "active"
    /\ payout' = NoChange /\ left' = FALSE
    /\ UNCHANGED <<change, due, passcode, request, applier, early, faults>>

\* The bot leaves, what is pending is cancelled, and the group goes unless a row
\* of pending_wallet_changes still refers to it.
delete_group ==
    /\ standing # "deleted" /\ left' = TRUE
    /\ CancelPending(Change)
    /\ standing' = IF \E c \in Change : change[c] # "none" THEN standing ELSE "deleted"
    /\ UNCHANGED <<due, payout, passcode, request, applier, faults>>

-----------------------------------------------------------------------------
(* _apply_wallet_changes_inprocess, and the scheduler's job alike.         *)

\* Mutant of get_due_wallet_changes: activates_at is not compared.
get_due_wallet_changes_all == Pending

\* Mutant of get_due_wallet_changes: the status is not compared.
get_due_wallet_changes_any == {c \in due : change[c] # "none"}

\* Mutant of get_due_wallet_changes: rows that were applied.
get_due_wallet_changes_done == {c \in due : change[c] = "applied"}

get_due_wallet_changes == Pending \cap due

\* The rows come with the standing the group has in this moment.
fetch_due ==
    /\ applier = Resting /\ standing # "deleted"
    /\ get_due_wallet_changes # {}
    /\ applier' = Apply("next", NoChange, get_due_wallet_changes, standing)
    /\ UNCHANGED <<change, due, payout, standing, left, passcode, request, early, faults>>

next_due ==
    \E c \in applier.todo :
        /\ applier.pc = "next"
        /\ applier' = Apply(IF applier.seen \in {"suspended", "frozen"} THEN "refuse" ELSE "apply",
                            c, applier.todo \ {c}, applier.seen)
        /\ UNCHANGED <<change, due, payout, standing, left, passcode, request, early, faults>>

\* The loop goes on with the next row; after the last one the run is over.
Continue == applier' = IF applier.todo = {} THEN Resting
                       ELSE Apply("next", NoChange, applier.todo, applier.seen)

auto_cancel ==
    /\ applier.pc = "refuse"
    /\ CancelPending({applier.row})
    /\ Continue
    /\ UNCHANGED <<due, payout, standing, left, passcode, request, faults>>

\* apply_pending_wallet_change, first statement: the wallet.
apply_wallet ==
    /\ applier.pc = "apply"
    /\ payout' = applier.row
    /\ applier' = Apply("mark", applier.row, applier.todo, applier.seen)
    /\ UNCHANGED <<change, due, standing, left, passcode, request, early, faults>>

\* Second statement: the row, whatever its status is by now.
mark_applied ==
    /\ applier.pc = "mark"
    /\ change' = [change EXCEPT ![applier.row] = "applied"]
    /\ Continue
    /\ UNCHANGED <<due, payout, standing, left, passcode, request, early, faults>>

\* A restart: the run and the requests under way are gone.
restart ==
    /\ faults < MaxFaults /\ faults' = faults + 1
    /\ request' = [f \in FrontEnd |-> NoRequest] /\ applier' = Resting
    /\ UNCHANGED <<change, due, payout, standing, left, passcode, early>>

-----------------------------------------------------------------------------
Init ==
    /\ change = [c \in Change |-> "none"] /\ due = {}
    /\ payout = NoChange /\ standing = "active" /\ left = FALSE /\ passcode \in BOOLEAN
    /\ request = [f \in FrontEnd |-> NoRequest]
    /\ applier = Resting
    /\ early = {} /\ faults = 0

Admin ==
    \/ cb_update_wallet \/ msg_new_wallet \/ cb_cancel_input
    \/ api_update_wallet \/ set_group_passcode
    \/ \E f \in FrontEnd : supersede(f) \/ insert(f)
    \/ \E c \in Change : cancel_pending_wallet_change(c)

Applier == fetch_due \/ next_due \/ auto_cancel \/ apply_wallet \/ mark_applied

Next ==
    \/ Admin \/ Applier
    \/ \E c \in Change : activates(c)
    \/ \E status \in Standing : set_group_status(status)
    \/ activate_paywall \/ delete_group \/ restart

Spec == Init /\ [][Next]_vars

\* The poll loop starts the run every 15 minutes and runs it to its end.
FairSpec == Spec /\ WF_vars(Applier)

-----------------------------------------------------------------------------
(* Properties.                                                             *)

\* Every row that is worked on exists.
TypeOK ==
    /\ change \in [Change -> Status]
    /\ due \subseteq Change /\ early \subseteq Change
    /\ payout \in Change \cup {NoChange}
    /\ standing \in Standing /\ left \in BOOLEAN /\ passcode \in BOOLEAN
    /\ request \in [FrontEnd -> [pc : {"idle", "address", "replace", "insert"}, checked : BOOLEAN]]
    /\ applier \in [pc : {"idle", "next", "refuse", "apply", "mark"}, row : Change \cup {NoChange},
                    todo : SUBSET Change, seen : Standing]
    /\ applier.pc \in {"refuse", "apply", "mark"} => applier.row \in Change
    /\ faults \in 0 .. MaxFaults

\* The hold: the payout wallet is never one whose delay has not passed.
HeldUntilDue == payout # NoChange => payout \in due

\* The cancel window: a change that was cancelled or superseded before its delay
\* had passed never becomes the payout wallet, whatever the run has fetched.
CancelWindow == payout \notin early

\* A due change does not stay pending for ever.
DueIsSettled == \A c \in Change : change[c] = "pending" /\ c \in due ~> change[c] # "pending"
=============================================================================
