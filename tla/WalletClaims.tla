---------------------------- MODULE WalletClaims ----------------------------
(***************************************************************************)
(* What comments, messages and the documentation say of wallet changes and *)
(* the program does not do, to be checked on the instances of the .cfg     *)
(* files.                                                                  *)
(***************************************************************************)
EXTENDS WalletChange

\* "one pending change per group at a time" (miniapp/server.py:2128).
OnePending == Cardinality(Pending) <= 1

\* "The scheduled change has been cancelled.  Your current wallet remains
\* unchanged." (handlers/admin_menu.py:624): a cancelled row stays cancelled.
CancelledStays ==
    [][\A c \in Change : change[c] = "cancelled" => change'[c] = "cancelled"]_vars

\* "A suspended or frozen group should not receive a wallet update"
\* (watcher/scheduler.py:153).
OnlyInGoodStanding ==
    [][payout' # payout => standing \notin {"suspended", "frozen"}]_vars

\* "If a passkey is set on this group, we need to verify it before scheduling"
\* (handlers/admin_menu.py:448).
PasskeyIsAsked ==
    [][request["bot"].pc = "address" /\ request'["bot"].pc = "replace" /\ passcode
         => request'["bot"].checked]_vars

\* "Apply atomically (groups.payout_wallet_address + row status='applied')"
\* (watcher/scheduler.py:125): nothing else comes in between, not even a restart.
AppliedTogether == applier = Resting /\ payout # NoChange => change[payout] = "applied"

\* "All subscriber and group records are permanently deleted"
\* (handlers/admin_menu.py:1460), once the bot has left.
LeftIsDeleted == left => standing = "deleted"
=============================================================================
