-------------------------- MODULE MembershipClaims --------------------------
(***************************************************************************)
(* What the documents and comments say of memberships and the code does    *)
(* not keep.  None of these is a property of Membership.                   *)
(***************************************************************************)
EXTENDS Membership

\* Only memberships past the days of grace are expired (DOCUMENT.md, 297): a task in the
\* queue does not look at the date again, so one renewed meanwhile is ended too.
OnlyLapsedAreExpired ==
    [][\A m \in Member :
        (sub[m].status # "expired" /\ sub'[m].status = "expired") => PastGrace(m)]_vars

\* Free access has no expiry and no removal (DOCUMENT.md, 82): it is overwritten when it is
\* given between two statements of expire_and_kick or of the handler of one who left, and
\* by a later join request.
CompedIsKept ==
    [][\A m \in Member : sub[m].status = "comped" => sub'[m].status = "comped"]_vars

\* A payment for a live membership buys a cycle.
PaymentBuysCycle ==
    [][\A m \in Member : m \in paying \ paying' => sub[m].status \in {"pending", "active"}]_vars

\* One reminder per cycle (tasks.py, 265): two workers may both find the log empty.
RemindedOnce == \A m \in Member, c \in Cycle : reminded[<<m, c>>] <= 1

\* The task sends a renewal reminder (tasks.py, 264), and one sent is in the log: on
\* PostgreSQL a task ends without a fault, a record or a reminder.
TaskReminds ==
    [][\A w \in Worker : (at(w, "has") /\ worker'[w].pc = "idle" /\ faults' = faults)
            => <<of(w), worker[w].task.cycle>> \in logged]_vars

\* Whoever has left is not reminded (chat_member.py, 251): the task in the queue does not
\* look at the row.
LeaverIsNotReminded ==
    [][\A m \in Member, c \in Cycle :
        reminded'[<<m, c>>] > reminded[<<m, c>>] => sub[m].status = "active"]_vars
=============================================================================
