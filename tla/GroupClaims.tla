----------------------------- MODULE GroupClaims -----------------------------
(***************************************************************************)
(* What the comments, messages and documents say of a group's life and the *)
(* code does not do.                                                       *)
(***************************************************************************)
EXTENDS Group

\* superadmin/bot.py: "Groups stay suspended until manually unsuspended."  The
\* owner's resume button, the list of groups, its details and the wizard set a
\* group active whatever it was.
SuspensionHolds == shut => group.status # "active"

\* upsert_group: a new row is suspended until activate_paywall, which "prevents
\* zero-price groups showing up mid-wizard".  The price follows the activation in
\* a statement of its own, and listing one's groups activates a row that has none.
ActiveIsPriced == group.status = "active" => group.price # NoPrice

\* handle_my_chat_member: a frozen group "stays 'frozen' until activate_paywall()
\* runs": the admin has to run the wizard again.  The resume button does without.
FrozenNeedsTheWizard ==
    [][group.status = "frozen" /\ group'.status = "active" =>
          \E t \in Thread : task[t].op \in {"final", "create"}]_vars

\* DOCUMENT.md: if the permissions are removed, "the affected group is
\* automatically frozen".  An admin that keeps the title and loses a right is
\* recorded as a new grant.
LosingRightsFreezes ==
    rights = "limited" /\ updates = <<>> /\ Ready => group.status # "active"

\* msg_delete_confirm_name: 'suspended' so that "no new subscription can activate
\* between this line and delete_group()".
NothingStartsWhileDeleting ==
    [][member # "active" /\ member' = "active" =>
          \A t \in Thread : task[t].at \notin {"leave", "delete"}]_vars

\* "Passkey saved!": the answer of set_group_passcode is not looked at.
SavedIsSaved ==
    [][\A a \in Admin : wizard[a].step = "confirm" /\ wizard'[a].step = "saved" =>
          Exists /\ ~passkey]_vars

\* "... has been deleted": a group that ever had a wallet change cannot be.
DeletionDeletes ==
    [][\A t \in Thread : at(t, "delete") /\ task'[t] = Rest /\ faults' = faults =>
          group' = Absent]_vars

\* A payout wallet changes after the announced delay, or with the paywall's set-up.
\* A refresh that read the row before writes the old wallet back.
WalletIsKept ==
    [][group'.wallet # group.wallet /\ Exists /\ group'.status # "absent" =>
          changes' # changes \/ \E t \in Thread : task[t].op \in {"final", "create"}]_vars
=============================================================================
