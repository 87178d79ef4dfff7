-------------------------- MODULE MCPaymentWorker --------------------------
(***************************************************************************)
(* Small instances of PaymentWorker.                                       *)
(***************************************************************************)
EXTENDS PaymentWorker

\* A payment that covers every rate, or one that is short of the price at the
\* dearer one.
MCAmount == [t \in Tx |-> {3, 4}]
=============================================================================
