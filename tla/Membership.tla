----------------------------- MODULE Membership -----------------------------
(***************************************************************************)
(* The life of a membership after the first payment, in the deployment     *)
(* with scheduler, RQ workers and bot: reminders before a cycle ends,      *)
(* removal when the days of grace are over, renewals, members who leave,   *)
(* free access, and the kicks of the group's admin.                        *)
(*                                                                         *)
(* Scheduler jobs put tasks into the queue, workers run them statement by  *)
(* statement and publish, the bot's listener talks to Telegram, and what   *)
(* happens in the chat comes back as updates that the bot handles one      *)
(* after the other.  A payment's own processing is one step here; module   *)
(* PaymentWorker takes it apart.  Time is counted in days.                 *)
(*                                                                         *)
(* On PostgreSQL no reminder goes out: a cycle is a datetime there, and    *)
(* every task raises when it looks for it in a column of text.             *)
(***************************************************************************)
EXTENDS Naturals, Sequences, FiniteSets

CONSTANTS
    Member, Worker,
    NoMember,
    Interval,    \* groups.billing_interval_days
    Window,      \* REMINDER_WINDOW_DAYS
    Grace,       \* GRACE_PERIOD_DAYS
    Outside,     \* operations of the members and operators an instance has
    USE_POSTGRES,  \* the database: PostgreSQL, or SQLite
    MaxTime,     \* bound on the clock
    MaxCopies,   \* bound: copies of a task in the queue
    MaxMail,     \* bound: published actions, and updates, not yet handled
    MaxFaults    \* bound on crashes and failed calls

ASSUME MembershipAssumption ==
    /\ NoMember \notin Member
    /\ Interval \in Nat \ {0} /\ Window \in Nat /\ Grace \in Nat
    /\ Outside \subseteq {"leave", "renew", "kick", "comp", "force"}
    /\ USE_POSTGRES \in BOOLEAN
    /\ MaxTime \in Nat /\ MaxCopies \in Nat \ {0} /\ MaxMail \in Nat \ {0}
    /\ MaxFaults \in Nat

VARIABLES
    now,        \* the clock
    sub,        \* subscriptions: status and next_renewal_date (0 for NULL)
    logged,     \* reminder_log: (member, cycle) pairs
    queue,      \* the RQ queue: copies of each task
    worker,     \* what each worker process runs
    channel,    \* published actions on their way to the listener
    updates,    \* Telegram updates the bot has not handled
    listener,   \* the listener's work in progress, or that it is down
    handler,    \* the work in progress of the bot's update handlers
    chat,       \* the member: outside, asking to join, or in the chat
    banned,     \* members the chat has banned
    paying,     \* members with a payment on chain that is not processed yet
    reminded,   \* history: reminders published for a (member, cycle)
    lost,       \* history: members a fault, or a race named below, has left behind
    faults

bot   == <<channel, updates, listener, handler>>
room  == <<chat, banned>>
rq    == <<queue, worker>>
past  == <<reminded, lost, faults>>
vars  == <<now, sub, logged, queue, worker, bot, room, paying, past>>

-----------------------------------------------------------------------------
Cycle == 1..(MaxTime + Interval)
Remind(m, c) == [kind |-> "send_renewal_reminder", member |-> m, cycle |-> c]
Expire(m) == [kind |-> "expire_and_kick", member |-> m, cycle |-> 0]
NoTask == Expire(NoMember)
Task == {Remind(m, c) : m \in Member, c \in Cycle} \cup {Expire(m) : m \in Member}
Message(kind, m) == [kind |-> kind, member |-> m]

Idle == [pc |-> "idle", member |-> NoMember, seen |-> "none"]
Resting == [pc |-> "idle", task |-> NoTask]
at(w, pc) == worker[w].pc = pc
of(w) == worker[w].task.member
Goto(w, pc) == worker' = [worker EXCEPT ![w].pc = pc]
Done(w) == worker' = [worker EXCEPT ![w] = Resting]

SetStatus(m, s) == sub' = [sub EXCEPT ![m].status = s]
Fault(m) == faults < MaxFaults /\ faults' = faults + 1 /\ lost' = lost \cup {m}

\* A publish with no listener subscribed reaches nobody.
_publish_bot_action(kind, m) ==
    IF listener.pc = "down"
    THEN channel' = channel /\ lost' = lost \cup {m}
    ELSE /\ Len(channel) < MaxMail
         /\ channel' = Append(channel, Message(kind, m)) /\ lost' = lost

-----------------------------------------------------------------------------
(* The member and the payment.                                             *)

Tick ==
    /\ now < MaxTime /\ now' = now + 1
    /\ UNCHANGED <<sub, logged, rq, bot, room, paying, past>>

Ask(m) ==
    /\ chat[m] = "out" /\ m \notin banned /\ Len(updates) < MaxMail
    /\ chat' = [chat EXCEPT ![m] = "asking"]
    /\ updates' = Append(updates, Message("request", m))
    /\ UNCHANGED <<now, sub, logged, rq, channel, listener, handler, banned, paying, past>>

Leave(m) ==
    /\ "leave" \in Outside
    /\ chat[m] = "in" /\ Len(updates) < MaxMail
    /\ chat' = [chat EXCEPT ![m] = "out"]
    /\ updates' = Append(updates, Message("gone", m))
    /\ UNCHANGED <<now, sub, logged, rq, channel, listener, handler, banned, paying, past>>

\* For the first cycle, or for the next one when a reminder may be out.
Pay(m) ==
    /\ m \notin paying /\ sub[m].next <= MaxTime
    /\ \/ sub[m].status = "pending"
       \/ /\ "renew" \in Outside /\ sub[m].status = "active"
          /\ sub[m].next <= now + Window
    /\ paying' = paying \cup {m}
    /\ UNCHANGED <<now, sub, logged, rq, bot, room, past>>

\* Mutant of Extended: the date of a first cycle stays NULL.
Extended_no_coalesce(m) == IF sub[m].next = 0 THEN 0 ELSE sub[m].next + Interval

Extended(m) == (IF sub[m].next = 0 THEN now ELSE sub[m].next) + Interval

\* Mutant of activate_subscription: an ended row is revived too.
activate_subscription_any(m) ==
    /\ m \in paying /\ paying' = paying \ {m}
    /\ sub' = [sub EXCEPT ![m] = [status |-> "active", next |-> Extended(m)]]
    /\ IF sub[m].status # "active"
       THEN _publish_bot_action("approve_and_welcome", m) ELSE UNCHANGED <<channel, lost>>
    /\ UNCHANGED <<now, logged, rq, updates, listener, handler, room, reminded, faults>>

\* The payment is processed: a pending or active row gets one more cycle, counted from
\* the end of the last; to another row nothing happens.
activate_subscription(m) ==
    /\ m \in paying /\ paying' = paying \ {m}
    /\ IF sub[m].status \in {"pending", "active"}
       THEN sub' = [sub EXCEPT ![m] = [status |-> "active", next |-> Extended(m)]]
       ELSE sub' = sub
    /\ IF sub[m].status = "pending"
       THEN _publish_bot_action("approve_and_welcome", m) ELSE UNCHANGED <<channel, lost>>
    /\ UNCHANGED <<now, logged, rq, updates, listener, handler, room, reminded, faults>>

-----------------------------------------------------------------------------
(* The scheduler's hourly jobs.                                            *)

\* Mutant of get_subscriptions_due_reminder: the last day of the window is left out.
get_subscriptions_due_reminder_narrow ==
    {m \in Member : /\ sub[m].status = "active"
                    /\ sub[m].next > now /\ sub[m].next < now + Window
                    /\ <<m, sub[m].next>> \notin logged}

get_subscriptions_due_reminder ==
    {m \in Member : /\ sub[m].status = "active"
                    /\ sub[m].next > now /\ sub[m].next <= now + Window
                    /\ <<m, sub[m].next>> \notin logged}

get_subscriptions_past_grace ==
    {m \in Member : sub[m].status = "active" /\ sub[m].next + Grace < now}

\* Nothing is remembered of what the last run has enqueued.
enqueue(T) ==
    /\ T # {} /\ \A t \in T : queue[t] < MaxCopies
    /\ queue' = [t \in Task |-> IF t \in T THEN queue[t] + 1 ELSE queue[t]]
    /\ UNCHANGED <<now, sub, logged, worker, bot, room, paying, past>>

renewal_reminder_job ==
    enqueue({Remind(m, sub[m].next) : m \in get_subscriptions_due_reminder})

grace_enforcement_job ==
    enqueue({Expire(m) : m \in get_subscriptions_past_grace})

-----------------------------------------------------------------------------
(* The workers.                                                            *)

take(w, t) ==
    /\ at(w, "idle") /\ queue[t] > 0
    /\ queue' = [queue EXCEPT ![t] = @ - 1]
    /\ worker' = [worker EXCEPT ![w] =
            [pc |-> IF t.kind = "expire_and_kick" THEN "status" ELSE "has", task |-> t]]
    /\ UNCHANGED <<now, sub, logged, bot, room, paying, past>>

\* Mutant of has_reminder_been_sent: the log is not asked.
has_reminder_been_sent_skipped(w) ==
    /\ at(w, "has")
    /\ Goto(w, "record")
    /\ UNCHANGED <<now, sub, logged, queue, bot, room, paying, past>>

\* SQLite hands the cycle over as the text it was stored as.  PostgreSQL hands over a
\* datetime, which cannot be bound to the log's column: the task raises, and like every
\* task that raises is not run again.
has_reminder_been_sent(w) ==
    /\ at(w, "has")
    /\ IF USE_POSTGRES \/ <<of(w), worker[w].task.cycle>> \in logged
       THEN Done(w) ELSE Goto(w, "record")
    /\ UNCHANGED <<now, sub, logged, queue, bot, room, paying, past>>

\* Before the message is published, and a no-op if another worker was first.
record_reminder_sent(w) ==
    /\ at(w, "record")
    /\ logged' = logged \cup {<<of(w), worker[w].task.cycle>>}
    /\ Goto(w, "remind")
    /\ UNCHANGED <<now, sub, queue, bot, room, paying, past>>

publish_reminder(w) ==
    /\ at(w, "remind")
    /\ _publish_bot_action("send_renewal_reminder", of(w))
    /\ reminded' = [reminded EXCEPT ![<<of(w), worker[w].task.cycle>>] = @ + 1]
    /\ Done(w)
    /\ UNCHANGED <<now, sub, logged, queue, updates, listener, handler, room, paying, faults>>

\* expire_and_kick looks at the status alone, not at the date.
read_status(w) ==
    /\ at(w, "status")
    /\ IF sub[of(w)].status \in {"none", "comped", "expired", "cancelled"}
       THEN Goto(w, "verify") ELSE Goto(w, "expire")
    /\ UNCHANGED <<now, sub, logged, queue, bot, room, paying, past>>

\* The update names the row, not the status that was read.
set_expired(w) ==
    /\ at(w, "expire")
    /\ SetStatus(of(w), "expired")
    /\ Goto(w, "verify")
    /\ UNCHANGED <<now, logged, queue, bot, room, paying, past>>

\* Mutant of _was_expired: nobody is published for removal.
_was_expired_never(w) ==
    /\ at(w, "verify")
    /\ Done(w)
    /\ UNCHANGED <<now, sub, logged, queue, bot, room, paying, past>>

\* Whether this task or an earlier one has expired the row makes no difference.
_was_expired(w) ==
    /\ at(w, "verify")
    /\ IF sub[of(w)].status = "expired" THEN Goto(w, "kick") ELSE Done(w)
    /\ UNCHANGED <<now, sub, logged, queue, bot, room, paying, past>>

publish_kick(w) ==
    /\ at(w, "kick")
    /\ _publish_bot_action("kick_member", of(w))
    /\ Done(w)
    /\ UNCHANGED <<now, sub, logged, queue, updates, listener, handler, room, paying,
                   reminded, faults>>

Step(w) ==
    \/ has_reminder_been_sent(w) \/ record_reminder_sent(w) \/ publish_reminder(w)
    \/ read_status(w) \/ set_expired(w) \/ _was_expired(w) \/ publish_kick(w)

\* A task that raises, or whose process dies, is not run again: its retries wait for
\* an RQ scheduler no worker is started with.
fail(w) ==
    /\ ~at(w, "idle")
    /\ Fault(of(w)) /\ Done(w)
    /\ UNCHANGED <<now, sub, logged, queue, bot, room, paying, reminded>>

-----------------------------------------------------------------------------
(* The listener in the bot.                                                *)

\* An approval lets in whatever request is open when it arrives.  Two go wrong, and are
\* noted in lost: a request the bot has not handled, whose handler resets the row later,
\* and one made after the row the approval was meant for had ended.
Premature(m) == \/ sub[m].status = "pending"
                \/ \E i \in 1..Len(updates) : updates[i] = Message("request", m)
approve_chat_join_request(m) ==
    /\ chat' = [chat EXCEPT ![m] = IF @ = "asking" THEN "in" ELSE @]
    /\ lost' = IF chat[m] = "asking" /\ Premature(m) THEN lost \cup {m} ELSE lost

Head_(kind) == listener.pc = "idle" /\ channel # <<>> /\ Head(channel).kind = kind
Handled == channel' = Tail(channel)

_handle_approve_and_welcome ==
    LET m == Head(channel).member IN
    /\ Head_("approve_and_welcome") /\ Handled
    /\ approve_chat_join_request(m)
    /\ UNCHANGED <<now, sub, logged, rq, updates, listener, handler, banned, paying, reminded,
                   faults>>

\* A direct message whose number is added to the row of the log.
_handle_renewal_reminder ==
    /\ Head_("send_renewal_reminder") /\ Handled
    /\ UNCHANGED <<now, sub, logged, rq, updates, listener, handler, room, paying, past>>

\* A ban puts the member out of the chat and tells the bot so.
ban_chat_member(m) ==
    /\ Len(updates) < MaxMail
    /\ banned' = banned \cup {m}
    /\ chat' = [chat EXCEPT ![m] = "out"]
    /\ updates' = IF chat[m] = "in" THEN Append(updates, Message("gone", m)) ELSE updates

\* A failed ban is logged; the unban in the same try is then not reached.
_handle_kick_member ==
    LET m == Head(channel).member IN
    /\ Head_("kick_member") /\ Handled
    /\ \/ /\ ban_chat_member(m)
          /\ listener' = [Idle EXCEPT !.pc = "unban", !.member = m]
          /\ UNCHANGED <<lost, faults>>
       \/ Fault(m) /\ UNCHANGED <<room, updates, listener>>
    /\ UNCHANGED <<now, sub, logged, rq, handler, paying, reminded>>

\* Mutant of unban_chat_member: the member is left banned.
unban_chat_member_missing ==
    /\ listener.pc = "unban"
    /\ listener' = Idle
    /\ UNCHANGED <<now, sub, logged, rq, channel, updates, handler, room, paying, past>>

unban_chat_member ==
    /\ listener.pc = "unban"
    /\ listener' = Idle
    /\ \/ banned' = banned \ {listener.member} /\ UNCHANGED <<lost, faults>>
       \/ banned' = banned /\ Fault(listener.member)
    /\ UNCHANGED <<now, sub, logged, rq, channel, updates, handler, chat, paying, reminded>>

Listener ==
    \/ _handle_approve_and_welcome \/ _handle_renewal_reminder
    \/ _handle_kick_member \/ unban_chat_member

\* The bot process ends: what it was at and what was published is gone, updates wait.
stop_bot ==
    /\ listener.pc # "down" /\ faults < MaxFaults /\ faults' = faults + 1
    /\ listener' = [Idle EXCEPT !.pc = "down"] /\ handler' = Idle
    /\ channel' = <<>>
    /\ lost' = lost \cup {channel[i].member : i \in 1..Len(channel)}
                    \cup ({listener.member, handler.member} \ {NoMember})
    /\ UNCHANGED <<now, sub, logged, rq, updates, room, paying, reminded>>

start_bot_listener ==
    /\ listener.pc = "down" /\ listener' = Idle
    /\ UNCHANGED <<now, sub, logged, rq, channel, updates, handler, room, paying, past>>

-----------------------------------------------------------------------------
(* The bot's handlers: one update at a time, statement by statement.       *)

Free == handler.pc = "idle" /\ listener.pc # "down"
Update(kind) == Free /\ updates # <<>> /\ Head(updates).kind = kind
Work(pc, m, s) == handler' = [pc |-> pc, member |-> m, seen |-> s]

\* The upsert resets the row, whatever its status was.
handle_join_request ==
    /\ Update("request") /\ updates' = Tail(updates)
    /\ sub' = [sub EXCEPT ![Head(updates).member] = [status |-> "pending", next |-> 0]]
    /\ UNCHANGED <<now, logged, rq, channel, listener, handler, room, paying, past>>

handle_chat_member ==
    LET m == Head(updates).member IN
    /\ Update("gone") /\ updates' = Tail(updates)
    /\ Work("gone", m, sub[m].status)
    /\ UNCHANGED <<now, sub, logged, rq, channel, listener, room, paying, past>>

\* Mutant of cancel_left: only active memberships are looked at.
cancel_left_expired(m) ==
    /\ handler.pc = "gone" /\ handler.member = m
    /\ IF handler.seen \in {"expired"} THEN SetStatus(m, "cancelled") ELSE sub' = sub
    /\ handler' = Idle
    /\ UNCHANGED <<now, logged, rq, channel, updates, listener, room, paying, past>>

\* The decision is about the row as it was read, the update about the row as it is.
cancel_left(m) ==
    /\ handler.pc = "gone" /\ handler.member = m
    /\ IF handler.seen \in {"active", "pending", "frozen"}
       THEN SetStatus(m, "cancelled") ELSE sub' = sub
    /\ handler' = Idle
    /\ UNCHANGED <<now, logged, rq, channel, updates, listener, room, paying, past>>

\* The admin's kick: cancel, ban, unban.
cb_member_kick(m) ==
    /\ "kick" \in Outside /\ Free /\ chat[m] = "in"
    /\ SetStatus(m, "cancelled")
    /\ Work("ban", m, "none")
    /\ UNCHANGED <<now, logged, rq, channel, updates, listener, room, paying, past>>

kick_ban(m) ==
    /\ handler.pc = "ban" /\ handler.member = m
    /\ \/ ban_chat_member(m) /\ Work("unban", m, "none") /\ UNCHANGED <<lost, faults>>
       \/ Fault(m) /\ handler' = Idle /\ UNCHANGED <<room, updates>>
    /\ UNCHANGED <<now, sub, logged, rq, channel, listener, paying, reminded>>

kick_unban(m) ==
    /\ handler.pc = "unban" /\ handler.member = m
    /\ \/ banned' = banned \ {m} /\ UNCHANGED <<lost, faults>>
       \/ banned' = banned /\ Fault(m)
    /\ handler' = Idle
    /\ UNCHANGED <<now, sub, logged, rq, channel, updates, listener, chat, paying, reminded>>

\* Free access given in the bot, by name or from the list of members: the row, then
\* the approval of a join request there may be.
cb_member_comp(m) ==
    /\ "comp" \in Outside /\ Free
    /\ SetStatus(m, "comped")
    /\ Work("approve", m, "none")
    /\ UNCHANGED <<now, logged, rq, channel, updates, listener, room, paying, past>>

comp_approve(m) ==
    /\ handler.pc = "approve" /\ handler.member = m
    /\ approve_chat_join_request(m)
    /\ handler' = Idle
    /\ UNCHANGED <<now, sub, logged, rq, channel, updates, listener, banned, paying, reminded,
                   faults>>

Handlers ==
    \/ handle_join_request \/ handle_chat_member
    \/ \E m \in Member : cancel_left(m) \/ kick_ban(m) \/ kick_unban(m) \/ comp_approve(m)

-----------------------------------------------------------------------------
(* Other processes: the mini app gives free access without an approval, the *)
(* operator ends a row without a kick.                                      *)

api_group_comp(m) ==
    /\ "comp" \in Outside
    /\ sub[m].status # "comped" /\ SetStatus(m, "comped")
    /\ UNCHANGED <<now, logged, rq, bot, room, paying, past>>

force_cancel_subscription(m) ==
    /\ "force" \in Outside
    /\ sub[m].status \notin {"none", "cancelled", "pending"} /\ SetStatus(m, "cancelled")
    /\ lost' = lost \cup {m}
    /\ UNCHANGED <<now, logged, rq, bot, room, paying, reminded, faults>>

force_expire_subscription(m) ==
    /\ "force" \in Outside
    /\ sub[m].status = "active" /\ SetStatus(m, "expired")
    /\ lost' = lost \cup {m}
    /\ UNCHANGED <<now, logged, rq, bot, room, paying, reminded, faults>>

-----------------------------------------------------------------------------
Init ==
    /\ now = 0
    /\ sub = [m \in Member |-> [status |-> "none", next |-> 0]]
    /\ logged = {} /\ queue = [t \in Task |-> 0]
    /\ worker = [w \in Worker |-> Resting]
    /\ channel = <<>> /\ updates = <<>> /\ listener = Idle /\ handler = Idle
    /\ chat = [m \in Member |-> "out"] /\ banned = {} /\ paying = {}
    /\ reminded = [p \in Member \X Cycle |-> 0]
    /\ lost = {} /\ faults = 0

Members == \E m \in Member : Ask(m) \/ Leave(m) \/ Pay(m) \/ activate_subscription(m)

Workers ==
    \/ \E w \in Worker : Step(w) \/ fail(w)
    \/ \E w \in Worker, t \in Task : take(w, t)

Operators ==
    \E m \in Member : \/ cb_member_kick(m) \/ cb_member_comp(m) \/ api_group_comp(m)
                      \/ force_cancel_subscription(m) \/ force_expire_subscription(m)

Next ==
    \/ Tick \/ Members
    \/ renewal_reminder_job \/ grace_enforcement_job \/ Workers
    \/ Listener \/ stop_bot \/ start_bot_listener
    \/ Handlers \/ Operators

Spec == Init /\ [][Next]_vars

\* The hourly jobs run again and again, the queue is first in first out, the bot comes
\* back and handles what it is given.
Fairness ==
    /\ WF_vars(renewal_reminder_job) /\ WF_vars(grace_enforcement_job)
    /\ \A w \in Worker : WF_vars(Step(w))
    /\ \A m \in Member : /\ SF_vars(\E w \in Worker : take(w, Expire(m)))
                        /\ SF_vars(\E w \in Worker, c \in Cycle : take(w, Remind(m, c)))
    /\ WF_vars(Listener) /\ WF_vars(start_bot_listener)
    /\ WF_vars(Handlers)

FairSpec == Spec /\ Fairness

-----------------------------------------------------------------------------
(* Properties.                                                             *)

Statuses == {"none", "pending", "active", "expired", "cancelled", "comped"}
Rows == [status : Statuses, next : Cycle \cup {0}]
Reminding == [pc : {"has", "record", "remind"}, task : {Remind(m, c) : m \in Member, c \in Cycle}]
Expiring == [pc : {"status", "expire", "verify", "kick"}, task : {Expire(m) : m \in Member}]
Actions == [kind : {"approve_and_welcome", "send_renewal_reminder", "kick_member"},
            member : Member]
Events == [kind : {"request", "gone"}, member : Member]
Listenings == [pc : {"idle", "down"}, member : {NoMember}, seen : {"none"}]
              \cup [pc : {"unban"}, member : Member, seen : {"none"}]
Handlings == [pc : {"idle", "gone", "ban", "unban", "approve"}, member : Member \cup {NoMember},
              seen : Statuses]

\* Every variable keeps its shape; an active row has a date, and what is queued, run or
\* published is about a member with a row.
HasRow(m) == sub[m].status # "none"
TypeOK ==
    /\ now \in 0..MaxTime
    /\ sub \in [Member -> Rows]
    /\ \A m \in Member : sub[m].status = "active" => sub[m].next # 0
    /\ logged \subseteq Member \X Cycle
    /\ queue \in [Task -> 0..MaxCopies]
    /\ \A t \in Task : queue[t] > 0 => HasRow(t.member)
    /\ worker \in [Worker -> Reminding \cup Expiring \cup {Resting}]
    /\ \A w \in Worker : ~at(w, "idle") => HasRow(of(w))
    /\ channel \in Seq(Actions) /\ \A i \in 1..Len(channel) : HasRow(channel[i].member)
    /\ updates \in Seq(Events)
    /\ listener \in Listenings /\ handler \in Handlings
    /\ chat \in [Member -> {"out", "asking", "in"}]
    /\ banned \subseteq Member /\ paying \subseteq Member /\ lost \subseteq Member
    /\ faults \in 0..MaxFaults

\* Who sits in the chat without an active or free membership is on the way out: the
\* task that ended the row still has the removal to publish, or it is in the channel,
\* or the admin's kick is under way; unless a fault has lost that one message.
RemovalIsUnderWay(m) ==
    \/ \E w \in Worker : of(w) = m /\ worker[w].pc \in {"verify", "kick"}
    \/ \E i \in 1..Len(channel) : channel[i] = Message("kick_member", m)
    \/ handler.pc = "ban" /\ handler.member = m
NoFreeRider ==
    \A m \in Member :
        (chat[m] = "in" /\ sub[m].status \notin {"active", "comped"}) =>
            RemovalIsUnderWay(m) \/ m \in lost

\* However often the job enqueues it, a cycle's reminder goes out at most once per
\* worker: two that run it at once may both find the log empty, later ones do not.
RemindersBounded ==
    \A p \in Member \X Cycle : reminded[p] <= Cardinality(Worker)

\* A removal is not a permanent ban: whoever is banned is about to be unbanned, unless
\* the call failed or the bot stopped in between.
NobodyStaysBanned ==
    \A m \in banned :
        \/ listener.pc = "unban" /\ listener.member = m
        \/ handler.pc = "unban" /\ handler.member = m
        \/ m \in lost

\* A row that has ended is opened again only by a join request or as free access: no
\* payment processed late, no task and no update still under way revives it.
EndedNeedsRequest ==
    [][\A m \in Member : sub[m].status \in {"expired", "cancelled"} =>
            sub'[m].status # "active"]_vars

\* A member who does not pay is out of the chat in the end, although the removal is
\* published once and never repeated: unless a fault lost it, the membership was
\* renewed, or access became free.
PastGrace(m) == sub[m].status = "active" /\ sub[m].next + Grace < now
LapsedLeaves ==
    \A m \in Member : (PastGrace(m) /\ chat[m] = "in") ~>
        \/ chat[m] # "in" \/ m \in lost
        \/ sub[m].status = "comped" \/ (sub[m].status = "active" /\ ~PastGrace(m))

\* On SQLite a cycle about to end is reminded of, unless it ends, is extended or a fault
\* comes first.  On PostgreSQL none is.
DueIsReminded ==
    \A m \in Member, c \in Cycle :
        (/\ ~USE_POSTGRES /\ sub[m] = [status |-> "active", next |-> c]
         /\ c > now /\ c <= now + Window) ~>
            \/ reminded[<<m, c>>] > 0 \/ sub[m] # [status |-> "active", next |-> c]
            \/ now >= c \/ m \in lost

\* A member who left is cancelled in the end, so that nothing is asked of him any more,
\* whatever the workers were doing to the row meanwhile.
LeaverIsCancelled ==
    \A m \in Member :
        (sub[m].status = "active" /\ \E i \in 1..Len(updates) : updates[i] = Message("gone", m)) ~>
            (sub[m].status # "active" \/ m \in lost)
=============================================================================
