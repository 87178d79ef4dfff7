----------------------------- MODULE MCPayment -----------------------------
(***************************************************************************)
(* Small instances of Payment.                                             *)
(***************************************************************************)
EXTENDS Payment, TLC

CONSTANT v1  \* the cheaper link

MCOwner == [v \in Vault |-> CHOOSE s \in Sub : TRUE]
\* Two links of one row, made at different exchange rates.
MCRequired == [v \in Vault |-> IF v = v1 THEN 2 ELSE 3]

Symmetric == Permutations(Tx) \cup Permutations(Task)
=============================================================================
