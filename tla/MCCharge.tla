------------------------------ MODULE MCCharge ------------------------------
(***************************************************************************)
(* Small instances of Charge.                                              *)
(***************************************************************************)
EXTENDS Charge

CONSTANTS c1, v1, v2, t1

\* One live charge; v2 is the vault of a later link, at a dearer rate.
MCOwner == [v \in Vault |-> c1]
MCRequired == [v \in Vault |-> IF v = v1 THEN 2 ELSE 3]
MCMode == [c \in Charge |-> "live"]

\* One payment that covers every link, one that may be short.
MCAmount == [t \in Tx |-> IF t = t1 THEN {3} ELSE {1, 2}]
=============================================================================
