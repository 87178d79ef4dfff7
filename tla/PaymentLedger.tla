--------------------------- MODULE PaymentLedger ---------------------------
(***************************************************************************)
(* What the payment pipeline promises, without coroutines, tables or       *)
(* caches: each payment is settled once.  It is held by whoever claims it, *)
(* and then either spent on one billing cycle of a subscription that may   *)
(* be activated, or void.  A void or spent payment never comes back.       *)
(***************************************************************************)
EXTENDS Naturals

CONSTANTS Sub, Tx

VARIABLES
    standing,  \* status of each subscription
    cycles,    \* billing cycles bought since the subscription was last reset
    entry      \* what became of each payment

vars == <<standing, cycles, entry>>

Ended == {"expired", "cancelled", "comped"}

Init ==
    /\ standing = [s \in Sub |-> "none"]
    /\ cycles = [s \in Sub |-> 0]
    /\ entry = [t \in Tx |-> "open"]

\* One claimant takes the payment.
Hold(t) ==
    /\ entry[t] = "open"
    /\ entry' = [entry EXCEPT ![t] = "held"]
    /\ UNCHANGED <<standing, cycles>>

\* The held payment buys one cycle.
Spend(t, s) ==
    /\ entry[t] = "held"
    /\ standing[s] \in {"pending", "active"}
    /\ entry' = [entry EXCEPT ![t] = "spent"]
    /\ standing' = [standing EXCEPT ![s] = "active"]
    /\ cycles' = [cycles EXCEPT ![s] = @ + 1]

\* Payments recorded without effect: residuals, claims whose row had ended,
\* claims lost with the process that made them.
Void(T) ==
    /\ \A t \in T : entry[t] \in {"open", "held"}
    /\ entry' = [t \in Tx |-> IF t \in T THEN "void" ELSE entry[t]]
    /\ UNCHANGED <<standing, cycles>>

\* A join request opens the subscription, or opens it again from zero.
Admit(s) ==
    /\ standing[s] # "deleted"
    /\ standing' = [standing EXCEPT ![s] = "pending"]
    /\ cycles' = [cycles EXCEPT ![s] = 0]
    /\ UNCHANGED entry

End(s, status) ==
    /\ standing[s] # "deleted"
    /\ standing' = [standing EXCEPT ![s] = status]
    /\ UNCHANGED <<cycles, entry>>

Remove(s) ==
    /\ standing[s] = "pending"
    /\ standing' = [standing EXCEPT ![s] = "deleted"]
    /\ cycles' = [cycles EXCEPT ![s] = 0]
    /\ UNCHANGED entry

Next ==
    \/ \E t \in Tx : Hold(t) \/ \E s \in Sub : Spend(t, s)
    \/ \E T \in SUBSET Tx : Void(T)
    \/ \E s \in Sub : \/ Admit(s) \/ Remove(s)
                      \/ \E status \in Ended : End(s, status)

Spec == Init /\ [][Next]_vars
=============================================================================
