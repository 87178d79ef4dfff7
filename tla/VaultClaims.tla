---------------------------- MODULE VaultClaims --------------------------
(***************************************************************************)
(* What the documentation says of the vault and the vault does not do, to  *)
(* be checked on the small instances of the .cfg files.                    *)
(***************************************************************************)
EXTENDS Vault

\* "Underpayment: the contract rejects the message" (README.md:151): nothing
\* short of the required amount stays in the vault.
UnderpaymentBounces == accumulated_paid = 0

\* "The refund amount is exactly overage_held" (DOCUMENT.md:281).
RefundIsOverage ==
    [][paid'.refund > paid.refund => paid'.refund - paid.refund = overage_held]_vars

\* "Atomic split on Pay{}: admin's share and platform fee are sent in the same
\* transaction" (DOCUMENT.md:280): what one split owes, both get.
AtomicSplit == paid.admin = owed.admin /\ paid.platform = owed.platform
=============================================================================
