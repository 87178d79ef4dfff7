------------------------------ MODULE MCRefund ------------------------------
(***************************************************************************)
(* A small instance of Refund.                                             *)
(***************************************************************************)
EXTENDS Refund, TLC

CONSTANTS s1, s2, u1, u2, v1, v2, w1, w2

\* Two members with one subscription each.
MCUserOf == (s1 :> u1) @@ (s2 :> u2)
MCOwner == (v1 :> s1) @@ (v2 :> s2)
MCSubmitter == (w1 :> u1) @@ (w2 :> u2)
=============================================================================
