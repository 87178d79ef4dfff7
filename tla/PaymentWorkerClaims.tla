------------------------ MODULE PaymentWorkerClaims ------------------------
(***************************************************************************)
(* What comments and WATCHER_README.md say of the worker deployment and    *)
(* the code does not keep.  None of these is a property of PaymentWorker.  *)
(***************************************************************************)
EXTENDS MCPaymentWorker

\* A payment of at least the amount its link asked for is never answered with "too
\* low" (tasks.py, 124 to 127): it is judged by the price at the rate of the moment.
CoveredIsNotShort ==
    \A w \in Worker : at(w, "insufficient") => chain[worker[w].tx].value < Stored

\* Activating twice is a no-op (WATCHER_README.md, 201 and 202): an activation of an
\* active row moves its renewal date on.
ActivationIsIdempotent ==
    [][\A s \in Sub : sub[s].status = "active" => sub'[s].periods <= sub[s].periods]_vars

\* A link's vault is registered with the webhook server's polling loop
\* (WATCHER_README.md, 160): nothing calls /register.
NewVaultIsPolled == \A s \in Sub : faults = 0 => (s \in registered => s \in polled)

\* Every paid member who waits is welcomed or told of a renewal, unless something
\* failed: a renewal's job fails with a NameError before it publishes anything.
RenewalIsConfirmed == \A w \in Worker : at(w, "publish") => ~worker[w].renewal

\* A vault without activity for 30 minutes is polled more slowly (queries.py, 737 and 738):
\* the query that says so leaves it out, and the row of a member who still wants to pay
\* is in no round; on SQLite no row is.
WarmIsPolled ==
    \A s \in Sub : sub[s].status = "pending" /\ sub[s].required # 0 => s \in get_vaults_to_watch
=============================================================================
