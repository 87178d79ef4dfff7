--------------------------- MODULE PaymentClaims ---------------------------
(***************************************************************************)
(* What the documentation and the comments of Renewise say of the payment  *)
(* pipeline and the pipeline does not do, to be checked one by one on the  *)
(* instances of the .cfg files.                                            *)
(***************************************************************************)
EXTENDS MCPayment

\* "once claimed, we WILL activate the subscription" (inprocess_watcher.py:480):
\* a job past its activation step has credited its transaction.
ClaimedIsCredited ==
    \A j \in Task : at(j, "overpaid") => credit[job[j].tx] = 1

\* The local set makes the pipeline "NOT send a 'partial payment' DM during a
\* manual I've-Paid check" (join_request.py:620): no tap reaches the message.
TapIsSilent ==
    \A j \in Task : at(j, "notify") => job[j].origin # "tap"

\* What arrives short for an active row is "a residual internal contract message
\* ... arriving after the real payment" (inprocess_watcher.py:421): never the
\* transaction on which the vault completed a payment and split it.
ResidualIsNotAPayment ==
    \A j \in Task : at(j, "residual") => job[j].tx \notin accepted

\* The amount is locked so as not to "incorrectly reject a payment that the vault
\* itself accepted" (inprocess_watcher.py:357): a payer the vault accepted a
\* payment from on that very transaction is not told it was short.
AcceptedIsNotShort ==
    \A j \in Task : at(j, "notify") => job[j].tx \notin accepted

\* "Exact or sufficient payments: subscription is activated" (DOCUMENT.md, payment
\* flow): a row is not activated more often than its vaults took a full payment.
CreditIsBacked ==
    \A s \in Sub :
        Cardinality({t \in Tx : credit[t] > 0 /\ OwnerOf(t) = s})
          <= Cardinality({t \in accepted : OwnerOf(t) = s})

\* "Reset accumulated amount next renewal cycle starts from zero"
\* (inprocess_watcher.py:486): once no job is running, an active row holds no
\* partial payment of the cycle before.
NextCycleFromZero ==
    \A s \in Sub :
        (sub[s].status = "active" /\ \A j \in Task : ~Running(j)) => sub[s].paid = 0

\* "no 'partial payment' DM should ever fire for an already-active member"
\* (inprocess_watcher.py:424).
NoShortfallForActive ==
    \A j \in Task : at(j, "notify") => rowOf(j).status # "active"

\* The expiry of old charges "runs periodically in the watcher loop"
\* (inprocess_watcher.py:603): on SQLite it raises in every pass, and with it the
\* loop stops polling.
LoopGoesOn == ~stalled
=============================================================================
