---------------------------- MODULE RefundClaims ----------------------------
(***************************************************************************)
(* What comments and messages say of refunds and the program does not do,  *)
(* to be checked on the small instances of the .cfg files.                 *)
(***************************************************************************)
EXTENDS MCRefund

\* "we stop here in Python to avoid firing two trigger messages"
\* (handlers/refund.py:172): one row is not triggered by both jobs at a time.
OneTriggerAtATime ==
    at("handler", "wait") /\ at("retry", "wait") => job["handler"].row # job["retry"].row

\* "the refund still happened" (ton/refund_trigger.py:172): what is marked as
\* sent has left the vault.
SentWasPaid == \A r \in Row : row[r].status = "sent" => r \notin held

\* "vault holds overage in overage_held ... trigger wallet sends Refund{recipient}
\* to vault contract" (handlers/refund.py:9, 16): to the vault that holds it.
TriggerHitsItsVault == \A message \in pool : message.vault = overpaidOn[message.row]

\* "Refund cancelled." (superadmin/bot.py:2245): it stays cancelled.
CancelIsFinal ==
    [][\A r \in Row : row[r].status = "cancelled"
                        => row'[r].status \in {"cancelled", "deleted"}]_vars

\* "Retries every overpayment refund row in 'pending_send' status ... Only executes
\* when TRIGGER_MNEMONIC is configured" (inprocess_watcher.py:635, 643): with the
\* mnemonic alone, or after the poll loop has stalled, no row is retried.
MnemonicIsEnough ==
    \A r \in Row :
        row[r].status = "pending_send"
            ~> \/ row[r].status # "pending_send"
               \/ vault_address[SubOf(r)] = NoVault
               \/ configured = "none"
=============================================================================
