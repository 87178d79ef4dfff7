-------------------------- MODULE MembershipProofs --------------------------
(***************************************************************************)
(* Theorems about the life of a membership, for any number of members and  *)
(* workers, any cycle, window and days of grace, and any bounds.           *)
(***************************************************************************)
EXTENDS Membership, FiniteSetTheorems, SequenceTheorems, TLAPS

-----------------------------------------------------------------------------
(* Queues: what is in one, and what comes after what.                      *)

Among(e, S) == \E i \in 1..Len(S) : S[i] = e

\* Whatever of g is in the queue has an r behind it.
Follows(r, g, S) ==
    \A i \in 1..Len(S) : S[i] = g => \E j \in (i + 1)..Len(S) : S[j] = r

LEMMA AmongTail ==
  ASSUME NEW E, NEW S \in Seq(E), S # <<>>, NEW e
  PROVE  /\ Among(e, Tail(S)) => Among(e, S)
         /\ Among(e, S) => Head(S) = e \/ Among(e, Tail(S))
  <1>1. /\ Tail(S) \in Seq(E) /\ Len(Tail(S)) = Len(S) - 1 /\ Len(S) \in Nat
        /\ \A i \in 1..Len(Tail(S)) : Tail(S)[i] = S[i + 1]
    BY HeadTailProperties
  <1>2. Among(e, Tail(S)) => Among(e, S)
    <2> SUFFICES ASSUME NEW i \in 1..Len(Tail(S)), Tail(S)[i] = e PROVE Among(e, S)
      BY DEF Among
    <2> QED  BY <1>1 DEF Among
  <1>3. ASSUME NEW i \in 1..Len(S), S[i] = e PROVE Head(S) = e \/ Among(e, Tail(S))
    <2>1. CASE i = 1  BY <1>3, <2>1
    <2>2. CASE i # 1
      <3>1. i - 1 \in 1..Len(Tail(S)) /\ Tail(S)[i - 1] = e  BY <1>1, <1>3, <2>2
      <3> QED  BY <3>1 DEF Among
    <2> QED  BY <2>1, <2>2
  <1> QED  BY <1>2, <1>3 DEF Among

LEMMA AmongAppend ==
  ASSUME NEW E, NEW S \in Seq(E), NEW x \in E, NEW e
  PROVE  Among(e, Append(S, x)) <=> Among(e, S) \/ x = e
  <1>1. /\ Len(Append(S, x)) = Len(S) + 1 /\ Len(S) \in Nat
        /\ \A i \in 1..Len(S) : Append(S, x)[i] = S[i]
        /\ Append(S, x)[Len(S) + 1] = x
    BY AppendProperties
  <1> QED  BY <1>1 DEF Among

LEMMA FollowsTail ==
  ASSUME NEW E, NEW S \in Seq(E), S # <<>>, NEW r, NEW g, Follows(r, g, S)
  PROVE  Follows(r, g, Tail(S)) /\ (Head(S) = g => Among(r, Tail(S)))
  <1>1. /\ Len(Tail(S)) = Len(S) - 1 /\ Len(S) \in Nat /\ Len(S) > 0
        /\ \A i \in 1..Len(Tail(S)) : Tail(S)[i] = S[i + 1]
        /\ Head(S) = S[1]
    BY HeadTailProperties, EmptySeq
  <1>2. ASSUME NEW i \in 1..Len(Tail(S)), Tail(S)[i] = g
        PROVE  \E j \in (i + 1)..Len(Tail(S)) : Tail(S)[j] = r
    <2>1. i + 1 \in 1..Len(S) /\ S[i + 1] = g  BY <1>1, <1>2
    <2>2. PICK j \in (i + 2)..Len(S) : S[j] = r  BY <2>1 DEF Follows
    <2>3. j - 1 \in (i + 1)..Len(Tail(S)) /\ j - 1 \in 1..Len(Tail(S))  BY <1>1, <2>2
    <2>4. Tail(S)[j - 1] = r  BY <1>1, <2>2, <2>3
    <2> QED  BY <2>3, <2>4
  <1>3. ASSUME Head(S) = g PROVE Among(r, Tail(S))
    <2>1. PICK j \in 2..Len(S) : S[j] = r  BY <1>1, <1>3 DEF Follows
    <2>2. j - 1 \in 1..Len(Tail(S)) /\ Tail(S)[j - 1] = r  BY <1>1, <2>1
    <2> QED  BY <2>2 DEF Among
  <1> QED  BY <1>2, <1>3 DEF Follows

LEMMA FollowsAppend ==
  ASSUME NEW E, NEW S \in Seq(E), NEW x \in E, NEW r, NEW g, r # g,
         x = r \/ (x # g /\ Follows(r, g, S))
  PROVE  Follows(r, g, Append(S, x))
  <1>1. /\ Len(Append(S, x)) = Len(S) + 1 /\ Len(S) \in Nat
        /\ \A i \in 1..Len(S) : Append(S, x)[i] = S[i]
        /\ Append(S, x)[Len(S) + 1] = x
    BY AppendProperties
  <1> SUFFICES ASSUME NEW i \in 1..Len(Append(S, x)), Append(S, x)[i] = g
               PROVE  \E j \in (i + 1)..Len(Append(S, x)) : Append(S, x)[j] = r
    BY DEF Follows
  <1>2. i \in 1..Len(S) /\ S[i] = g  BY <1>1
  <1>3. CASE x = r  BY <1>1, <1>2, <1>3
  <1>4. CASE Follows(r, g, S)
    <2>1. PICK j \in (i + 1)..Len(S) : S[j] = r  BY <1>2, <1>4 DEF Follows
    <2> QED  BY <1>1, <1>2, <2>1
  <1> QED  BY <1>3, <1>4

LEMMA Nothing == ASSUME NEW e PROVE ~Among(e, <<>>)
  BY DEF Among

LEMMA AmongNone ==
  ASSUME NEW E, NEW S \in Seq(E), NEW r, NEW g, Follows(r, g, S), ~Among(r, S)
  PROVE  ~Among(g, S)
  <1> SUFFICES ASSUME NEW i \in 1..Len(S), S[i] = g PROVE FALSE  BY DEF Among
  <1>1. PICK j \in (i + 1)..Len(S) : S[j] = r  BY DEF Follows
  <1>2. j \in 1..Len(S)  BY <1>1, LenProperties
  <1> QED  BY <1>1, <1>2 DEF Among

-----------------------------------------------------------------------------
(* Tasks and the workers that run them.                                    *)

LEMMA TaskFacts ==
  /\ \A m : Expire(m).member = m /\ Expire(m).kind = "expire_and_kick"
  /\ \A m, c : /\ Remind(m, c).member = m /\ Remind(m, c).cycle = c
               /\ Remind(m, c).kind = "send_renewal_reminder"
  /\ \A t \in Task : t.member \in Member
  /\ Resting.pc = "idle" /\ Resting.task.member = NoMember
  BY DEF Expire, Remind, Task, Resting, NoTask

LEMMA GotoEffect ==
  ASSUME worker \in [Worker -> Reminding \cup Expiring \cup {Resting}], NEW w \in Worker,
         NEW pc, Goto(w, pc),
         \/ worker[w] \in Reminding /\ pc \in {"has", "record", "remind"}
         \/ worker[w] \in Expiring /\ pc \in {"status", "expire", "verify", "kick"}
  PROVE  /\ worker' \in [Worker -> Reminding \cup Expiring \cup {Resting}]
         /\ worker'[w].pc = pc /\ worker'[w].task = worker[w].task
         /\ \A i \in Worker : i # w => worker'[i] = worker[i]
  <1>1. worker' = [worker EXCEPT ![w] = [worker[w] EXCEPT !.pc = pc]]  BY DEF Goto
  <1>2. CASE worker[w] \in Reminding /\ pc \in {"has", "record", "remind"}
    <2>1. [worker[w] EXCEPT !.pc = pc] \in Reminding  BY <1>2 DEF Reminding
    <2> QED  BY <1>1, <1>2, <2>1 DEF Reminding
  <1>3. CASE worker[w] \in Expiring /\ pc \in {"status", "expire", "verify", "kick"}
    <2>1. [worker[w] EXCEPT !.pc = pc] \in Expiring  BY <1>3 DEF Expiring
    <2> QED  BY <1>1, <1>3, <2>1 DEF Expiring
  <1> QED  BY <1>2, <1>3

LEMMA DoneEffect ==
  ASSUME worker \in [Worker -> Reminding \cup Expiring \cup {Resting}], NEW w \in Worker, Done(w)
  PROVE  /\ worker' \in [Worker -> Reminding \cup Expiring \cup {Resting}]
         /\ worker'[w].pc = "idle"
         /\ \A i \in Worker : i # w => worker'[i] = worker[i]
  BY TaskFacts DEF Done

LEMMA TakeEffect ==
  ASSUME TypeOK, NEW w \in Worker, NEW t \in Task, take(w, t)
  PROVE  /\ worker' \in [Worker -> Reminding \cup Expiring \cup {Resting}]
         /\ worker'[w].pc \in {"has", "status"} /\ worker'[w].task = t
         /\ \A i \in Worker : i # w => worker'[i] = worker[i]
         /\ queue[t] > 0
         /\ queue' \in [Task -> 0..MaxCopies] /\ \A u \in Task : queue'[u] <= queue[u]
  <1> DEFINE r == [pc |-> IF t.kind = "expire_and_kick" THEN "status" ELSE "has", task |-> t]
  <1>1. r \in Reminding \cup Expiring /\ r.pc \in {"has", "status"} /\ r.task = t
    <2>1. CASE t \in {Expire(m) : m \in Member}
      BY <2>1, TaskFacts DEF Expiring
    <2>2. CASE t \in {Remind(m, c) : m \in Member, c \in Cycle}
      <3>1. t.kind = "send_renewal_reminder"  BY <2>2, TaskFacts
      <3> QED  BY <2>2, <3>1 DEF Reminding
    <2> QED  BY <2>1, <2>2 DEF Task
  <1>2. worker' = [worker EXCEPT ![w] = r] /\ queue[t] > 0
        /\ queue' = [queue EXCEPT ![t] = queue[t] - 1]
    BY DEF take
  <1> HIDE DEF r
  <1>3. queue[t] \in 0..MaxCopies /\ queue[t] - 1 \in 0..MaxCopies
    BY <1>2, MembershipAssumption DEF TypeOK
  <1> QED  BY <1>1, <1>2, <1>3, MembershipAssumption DEF TypeOK

\* Which kind of task is at which statement.
LEMMA WorkerFacts ==
  ASSUME TypeOK, NEW w \in Worker, ~at(w, "idle")
  PROVE  /\ of(w) \in Member /\ HasRow(of(w))
         /\ worker[w] \in Reminding \/ worker[w] \in Expiring
         /\ worker[w].pc \in {"has", "record", "remind"} =>
              worker[w] \in Reminding /\ worker[w].task.cycle \in Cycle
         /\ worker[w].pc \in {"status", "expire", "verify", "kick"} => worker[w] \in Expiring
  BY TaskFacts DEF TypeOK, at, of, Reminding, Expiring

-----------------------------------------------------------------------------
(* TypeOK.                                                                 *)

\* A payment on its way was made for a row whose date the bound still allows.
PaidInTime == \A m \in paying : sub[m].next <= MaxTime

LEMMA TypeInit == Init => TypeOK /\ PaidInTime
  <1> SUFFICES ASSUME Init PROVE TypeOK /\ PaidInTime  OBVIOUS
  <1>1. sub \in [Member -> Rows] /\ \A m \in Member : sub[m].status = "none"
    BY DEF Init, Rows, Statuses
  <1>2. worker \in [Worker -> Reminding \cup Expiring \cup {Resting}]
        /\ \A w \in Worker : at(w, "idle")
    BY TaskFacts DEF Init, at
  <1>3. listener \in Listenings /\ handler \in Handlings
    BY DEF Init, Idle, Listenings, Handlings, Statuses
  <1>4. channel \in Seq(Actions) /\ updates \in Seq(Events) /\ Len(channel) = 0
    BY DEF Init
  <1>5. now \in 0..MaxTime /\ faults \in 0..MaxFaults /\ queue \in [Task -> 0..MaxCopies]
        /\ \A t \in Task : queue[t] = 0
    BY MembershipAssumption DEF Init
  <1> QED  BY <1>1, <1>2, <1>3, <1>4, <1>5 DEF Init, TypeOK, PaidInTime

\* What depends on rows that stay rows.
LEMMA RowsKept ==
  ASSUME TypeOK, \A m \in Member : HasRow(m) => HasRow(m)'
  PROVE  /\ queue' = queue => \A t \in Task : queue'[t] > 0 => HasRow(t.member)'
         /\ worker' = worker => \A w \in Worker : ~at(w, "idle")' => (HasRow(of(w)))'
         /\ channel' = channel => \A i \in 1..Len(channel') : sub'[channel'[i].member].status # "none"
  <1>1. ASSUME queue' = queue, NEW t \in Task, queue'[t] > 0 PROVE HasRow(t.member)'
    BY <1>1, TaskFacts DEF TypeOK
  <1>2. ASSUME worker' = worker, NEW w \in Worker, ~at(w, "idle")' PROVE (HasRow(of(w)))'
    <2>1. ~at(w, "idle")  BY <1>2 DEF at
    <2>2. PICK m \in Member : m = of(w) /\ HasRow(m)  BY <2>1, WorkerFacts
    <2>3. HasRow(m)' /\ m = of(w)'  BY <1>2, <2>2 DEF of
    <2> QED  BY <2>3 DEF HasRow, of
  <1>3. ASSUME channel' = channel, NEW i \in 1..Len(channel')
        PROVE  sub'[channel'[i].member].status # "none"
    <2>1. PICK m \in Member : m = channel[i].member /\ HasRow(m)
      <3>1. channel[i] \in Actions  BY <1>3, ElementOfSeq, LenProperties DEF TypeOK
      <3> QED  BY <1>3, <3>1 DEF TypeOK, Actions
    <2>2. HasRow(m)'  BY <2>1
    <2> QED  BY <1>3, <2>1, <2>2 DEF HasRow
  <1> QED  BY <1>1, <1>2, <1>3

LEMMA StatusEffect ==
  ASSUME TypeOK, PaidInTime, NEW m \in Member, NEW s \in Statuses \ {"none", "active"},
         SetStatus(m, s)
  PROVE  /\ sub' \in [Member -> Rows]
         /\ \A i \in Member : sub'[i].status = "active" => sub'[i].next # 0
         /\ sub'[m].status = s
         /\ \A i \in Member : i # m => sub'[i] = sub[i]
         /\ \A i \in Member : sub'[i].next = sub[i].next
         /\ \A i \in Member : HasRow(i) => HasRow(i)'
  <1>1. sub \in [Member -> Rows] /\ sub[m] \in Rows  BY DEF TypeOK
  <1>2. [sub[m] EXCEPT !.status = s] \in Rows  BY <1>1 DEF Rows
  <1>3. sub' = [sub EXCEPT ![m] = [sub[m] EXCEPT !.status = s]]  BY DEF SetStatus
  <1>4. sub' \in [Member -> Rows] /\ sub'[m].status = s /\ sub'[m].next = sub[m].next
        /\ \A i \in Member : i # m => sub'[i] = sub[i]
    BY <1>1, <1>2, <1>3 DEF Rows
  <1> QED  BY <1>4 DEF TypeOK, HasRow

LEMMA PublishEffect ==
  ASSUME TypeOK, NEW m \in Member,
         NEW kind \in {"approve_and_welcome", "send_renewal_reminder", "kick_member"},
         _publish_bot_action(kind, m)
  PROVE  /\ channel' \in Seq(Actions)
         /\ \A i \in 1..Len(channel') : channel'[i].member = m \/ HasRow(channel'[i].member)
         /\ lost' \subseteq Member /\ lost \subseteq lost'
         /\ m \in lost' \/ Among(Message(kind, m), channel')
         /\ \A e : Among(e, channel) => Among(e, channel')
  <1>1. CASE listener.pc = "down"
    BY <1>1 DEF _publish_bot_action, TypeOK
  <1>2. CASE listener.pc # "down"
    <2> DEFINE x == Message(kind, m)
    <2>1. channel' = Append(channel, x) /\ lost' = lost /\ x \in Actions /\ x.member = m
      BY <1>2 DEF _publish_bot_action, Message, Actions
    <2> HIDE DEF x
    <2>2. channel \in Seq(Actions) /\ \A i \in 1..Len(channel) : HasRow(channel[i].member)
      BY DEF TypeOK
    <2>3. /\ channel' \in Seq(Actions) /\ Len(channel') = Len(channel) + 1
          /\ Len(channel) \in Nat
          /\ \A i \in 1..Len(channel) : channel'[i] = channel[i]
          /\ channel'[Len(channel) + 1] = x
      BY <2>1, <2>2, AppendProperties
    <2>4. \A i \in 1..Len(channel') : channel'[i].member = m \/ HasRow(channel'[i].member)
      BY <2>1, <2>2, <2>3
    <2>5. \A e : Among(e, channel') <=> Among(e, channel) \/ x = e
      BY <2>1, <2>2, AmongAppend
    <2>6. Among(x, channel')  BY <2>5
    <2> QED  BY <2>1, <2>3, <2>4, <2>5, <2>6 DEF TypeOK, x
  <1> QED  BY <1>1, <1>2

LEMMA TypeMembers ==
  ASSUME TypeOK, PaidInTime, Tick \/ Members
  PROVE  TypeOK' /\ PaidInTime'
  <1>1. CASE Tick
    <2>1. now' \in 0..MaxTime  BY <1>1, MembershipAssumption DEF Tick, TypeOK
    <2> QED
      BY <1>1, <2>1 DEF Tick, TypeOK, PaidInTime, HasRow, at, of, rq, bot, room, past
  <1>2. ASSUME NEW m \in Member, Ask(m) PROVE TypeOK' /\ PaidInTime'
    <2>1. Message("request", m) \in Events  BY DEF Message, Events
    <2>2. updates' \in Seq(Events) /\ chat' \in [Member -> {"out", "asking", "in"}]
      BY <1>2, <2>1, AppendProperties DEF Ask, TypeOK
    <2> QED
      BY <1>2, <2>2 DEF Ask, TypeOK, PaidInTime, HasRow, at, of, rq, past
  <1>3. ASSUME NEW m \in Member, Leave(m) PROVE TypeOK' /\ PaidInTime'
    <2>1. Message("gone", m) \in Events  BY DEF Message, Events
    <2>2. updates' \in Seq(Events) /\ chat' \in [Member -> {"out", "asking", "in"}]
      BY <1>3, <2>1, AppendProperties DEF Leave, TypeOK
    <2> QED
      BY <1>3, <2>2 DEF Leave, TypeOK, PaidInTime, HasRow, at, of, rq, past
  <1>4. ASSUME NEW m \in Member, Pay(m) PROVE TypeOK' /\ PaidInTime'
    BY <1>4 DEF Pay, TypeOK, PaidInTime, HasRow, at, of, rq, bot, room, past
  <1>5. ASSUME NEW m \in Member, activate_subscription(m) PROVE TypeOK' /\ PaidInTime'
    <2>1. sub \in [Member -> Rows] /\ sub[m] \in Rows /\ sub[m].next <= MaxTime
      BY <1>5 DEF activate_subscription, TypeOK, PaidInTime
    <2>2. Extended(m) \in Cycle
      BY <2>1, MembershipAssumption DEF Extended, Cycle, TypeOK, Rows
    <2>3. [status |-> "active", next |-> Extended(m)] \in Rows  BY <2>2 DEF Rows, Statuses
    <2>4. Extended(m) # 0  BY <2>2, MembershipAssumption DEF Cycle
    <2>5. /\ sub' \in [Member -> Rows]
          /\ \A i \in Member : i # m => sub'[i] = sub[i]
          /\ sub'[m].status = "active" => sub'[m].next # 0
          /\ HasRow(m) => HasRow(m)'
      <3>1. CASE sub' = sub  BY <2>1, <3>1 DEF TypeOK, HasRow
      <3>2. CASE sub' = [sub EXCEPT ![m] = [status |-> "active", next |-> Extended(m)]]
        BY <2>1, <2>3, <2>4, <3>2 DEF HasRow
      <3> QED  BY <1>5, <3>1, <3>2 DEF activate_subscription
    <2>6. \A i \in Member : HasRow(i) => HasRow(i)'  BY <2>5 DEF HasRow
    <2>7. channel' \in Seq(Actions) /\ lost' \subseteq Member
          /\ \A i \in 1..Len(channel') : sub'[channel'[i].member].status # "none"
      <3>1. CASE sub[m].status = "pending"
        <4>1. channel' \in Seq(Actions) /\ lost' \subseteq Member
              /\ \A i \in 1..Len(channel') : channel'[i].member = m \/ HasRow(channel'[i].member)
          BY <1>5, <3>1, PublishEffect DEF activate_subscription
        <4>2. HasRow(m)'  BY <2>6, <3>1 DEF HasRow
        <4>3. ASSUME NEW i \in 1..Len(channel')
              PROVE  sub'[channel'[i].member].status # "none"
          <5>1. channel'[i] \in Actions  BY <4>1, ElementOfSeq, LenProperties
          <5>2. PICK n \in Member : n = channel'[i].member  BY <5>1 DEF Actions
          <5>3. HasRow(n)'  BY <2>6, <4>1, <4>2, <5>2
          <5> QED  BY <5>2, <5>3 DEF HasRow
        <4> QED  BY <4>1, <4>3
      <3>2. CASE sub[m].status # "pending"
        <4>1. channel' = channel /\ lost' = lost
          BY <1>5, <3>2 DEF activate_subscription
        <4> QED  BY <2>6, <4>1, RowsKept DEF TypeOK
      <3> QED  BY <3>1, <3>2
    <2>8. PaidInTime'
      BY <1>5, <2>5 DEF PaidInTime, activate_subscription, TypeOK
    <2>9. queue' = queue /\ worker' = worker
      BY <1>5 DEF activate_subscription, rq
    <2>10. /\ \A t \in Task : queue'[t] > 0 => HasRow(t.member)'
           /\ \A w \in Worker : ~at(w, "idle")' => (HasRow(of(w)))'
      BY <2>6, <2>9, RowsKept
    <2> QED
      BY <1>5, <2>5, <2>7, <2>8, <2>9, <2>10 DEF activate_subscription, TypeOK, HasRow, room
  <1> QED  BY <1>1, <1>2, <1>3, <1>4, <1>5 DEF Members

LEMMA TypeScheduler ==
  ASSUME TypeOK, PaidInTime, renewal_reminder_job \/ grace_enforcement_job
  PROVE  TypeOK' /\ PaidInTime'
  <1>1. ASSUME NEW T, enqueue(T), \A t \in T : HasRow(t.member)
        PROVE  TypeOK' /\ PaidInTime'
    <2>1. queue' \in [Task -> 0..MaxCopies]
      BY <1>1, MembershipAssumption DEF enqueue, TypeOK
    <2>2. \A t \in Task : queue'[t] > 0 => HasRow(t.member)
      BY <1>1, <2>1 DEF enqueue, TypeOK
    <2> QED
      BY <1>1, <2>1, <2>2 DEF enqueue, TypeOK, PaidInTime, HasRow, at, of, bot, room, past
  <1>2. CASE renewal_reminder_job
    <2> DEFINE T == {Remind(m, sub[m].next) : m \in get_subscriptions_due_reminder}
    <2>1. \A t \in T : HasRow(t.member)
      <3> SUFFICES ASSUME NEW m \in get_subscriptions_due_reminder
                   PROVE  HasRow(Remind(m, sub[m].next).member)
        OBVIOUS
      <3>1. HasRow(m)  BY DEF get_subscriptions_due_reminder, HasRow
      <3> QED  BY <3>1, TaskFacts
    <2>2. enqueue(T)  BY <1>2 DEF renewal_reminder_job
    <2> HIDE DEF T
    <2> QED  BY <1>1, <2>1, <2>2
  <1>3. CASE grace_enforcement_job
    <2> DEFINE T == {Expire(m) : m \in get_subscriptions_past_grace}
    <2>1. \A t \in T : HasRow(t.member)
      BY TaskFacts DEF get_subscriptions_past_grace, HasRow
    <2>2. enqueue(T)  BY <1>3 DEF grace_enforcement_job
    <2> HIDE DEF T
    <2> QED  BY <1>1, <2>1, <2>2
  <1> QED  BY <1>2, <1>3

LEMMA TypeWorkers ==
  ASSUME TypeOK, PaidInTime, Workers
  PROVE  TypeOK' /\ PaidInTime'
  <1>0. worker \in [Worker -> Reminding \cup Expiring \cup {Resting}]  BY DEF TypeOK
  <1>1. ASSUME NEW w \in Worker, NEW t \in Task, take(w, t) PROVE TypeOK' /\ PaidInTime'
    <2>1. /\ worker' \in [Worker -> Reminding \cup Expiring \cup {Resting}]
          /\ worker'[w].task = t
          /\ \A i \in Worker : i # w => worker'[i] = worker[i]
          /\ queue[t] > 0
          /\ queue' \in [Task -> 0..MaxCopies] /\ \A u \in Task : queue'[u] <= queue[u]
      BY <1>1, TakeEffect
    <2>2. HasRow(t.member)  BY <2>1 DEF TypeOK
    <2>3. \A i \in Worker : worker'[i].pc # "idle" => HasRow(worker'[i].task.member)
      BY <2>1, <2>2 DEF TypeOK, at, of
    <2>4. \A u \in Task : queue'[u] > 0 => HasRow(u.member)
      BY <2>1, MembershipAssumption DEF TypeOK
    <2> QED
      BY <1>1, <2>1, <2>3, <2>4 DEF take, TypeOK, PaidInTime, HasRow, at, of, bot, room, past
  <1>2. ASSUME NEW w \in Worker, ~at(w, "idle"), UNCHANGED sub,
               worker' \in [Worker -> Reminding \cup Expiring \cup {Resting}],
               worker'[w].pc = "idle" \/ worker'[w].task = worker[w].task,
               \A i \in Worker : i # w => worker'[i] = worker[i]
        PROVE  \A i \in Worker : ~at(i, "idle")' => (HasRow(of(i)))'
    BY <1>2, WorkerFacts DEF TypeOK, at, of, HasRow
  <1>3. ASSUME NEW w \in Worker, has_reminder_been_sent(w) PROVE TypeOK' /\ PaidInTime'
    <2>1. ~at(w, "idle") /\ worker[w].pc = "has" /\ UNCHANGED sub
      BY <1>3 DEF has_reminder_been_sent, at
    <2>2. worker[w] \in Reminding  BY <2>1, WorkerFacts
    <2>3. /\ worker' \in [Worker -> Reminding \cup Expiring \cup {Resting}]
          /\ worker'[w].pc = "idle" \/ worker'[w].task = worker[w].task
          /\ \A i \in Worker : i # w => worker'[i] = worker[i]
      BY <1>0, <1>3, <2>2, GotoEffect, DoneEffect DEF has_reminder_been_sent
    <2>4. \A i \in Worker : ~at(i, "idle")' => (HasRow(of(i)))'
      BY <1>2, <2>1, <2>3
    <2> QED
      BY <1>3, <2>3, <2>4 DEF has_reminder_been_sent, TypeOK, PaidInTime, HasRow, bot, room,
                              past
  <1>4. ASSUME NEW w \in Worker, record_reminder_sent(w) PROVE TypeOK' /\ PaidInTime'
    <2>1. ~at(w, "idle") /\ worker[w].pc = "record" /\ UNCHANGED sub
      BY <1>4 DEF record_reminder_sent, at
    <2>2. worker[w] \in Reminding /\ of(w) \in Member /\ worker[w].task.cycle \in Cycle
      BY <2>1, WorkerFacts
    <2>3. /\ worker' \in [Worker -> Reminding \cup Expiring \cup {Resting}]
          /\ worker'[w].pc = "idle" \/ worker'[w].task = worker[w].task
          /\ \A i \in Worker : i # w => worker'[i] = worker[i]
      BY <1>0, <1>4, <2>2, GotoEffect DEF record_reminder_sent
    <2>4. \A i \in Worker : ~at(i, "idle")' => (HasRow(of(i)))'
      BY <1>2, <2>1, <2>3
    <2>5. logged' \subseteq Member \X Cycle
      BY <1>4, <2>2 DEF record_reminder_sent, TypeOK
    <2> QED
      BY <1>4, <2>3, <2>4, <2>5 DEF record_reminder_sent, TypeOK, PaidInTime, HasRow, bot,
                                    room, past
  <1>5. ASSUME NEW w \in Worker, publish_reminder(w) \/ publish_kick(w)
        PROVE  TypeOK' /\ PaidInTime'
    <2>1. ~at(w, "idle") /\ UNCHANGED sub /\ Done(w)
      BY <1>5 DEF publish_reminder, publish_kick, at
    <2>2. of(w) \in Member /\ HasRow(of(w))  BY <2>1, WorkerFacts
    <2>3. /\ worker' \in [Worker -> Reminding \cup Expiring \cup {Resting}]
          /\ worker'[w].pc = "idle" \/ worker'[w].task = worker[w].task
          /\ \A i \in Worker : i # w => worker'[i] = worker[i]
      BY <1>0, <2>1, DoneEffect
    <2>4. \A i \in Worker : ~at(i, "idle")' => (HasRow(of(i)))'
      BY <1>2, <2>1, <2>3
    <2>5. channel' \in Seq(Actions) /\ lost' \subseteq Member
          /\ \A i \in 1..Len(channel') : HasRow(channel'[i].member)
      BY <1>5, <2>2, PublishEffect DEF publish_reminder, publish_kick
    <2> QED
      BY <1>5, <2>3, <2>4, <2>5 DEF publish_reminder, publish_kick, TypeOK, PaidInTime, HasRow,
                                    room
  <1>6. ASSUME NEW w \in Worker, read_status(w) \/ _was_expired(w) PROVE TypeOK' /\ PaidInTime'
    <2>1. ~at(w, "idle") /\ worker[w].pc \in {"status", "verify"} /\ UNCHANGED sub
      BY <1>6 DEF read_status, _was_expired, at
    <2>2. worker[w] \in Expiring  BY <2>1, WorkerFacts
    <2>3. /\ worker' \in [Worker -> Reminding \cup Expiring \cup {Resting}]
          /\ worker'[w].pc = "idle" \/ worker'[w].task = worker[w].task
          /\ \A i \in Worker : i # w => worker'[i] = worker[i]
      BY <1>0, <1>6, <2>2, GotoEffect, DoneEffect DEF read_status, _was_expired
    <2>4. \A i \in Worker : ~at(i, "idle")' => (HasRow(of(i)))'
      BY <1>2, <2>1, <2>3
    <2> QED
      BY <1>6, <2>3, <2>4 DEF read_status, _was_expired, TypeOK, PaidInTime, HasRow, bot, room,
                              past
  <1>7. ASSUME NEW w \in Worker, set_expired(w) PROVE TypeOK' /\ PaidInTime'
    <2>1. ~at(w, "idle") /\ worker[w].pc = "expire"  BY <1>7 DEF set_expired, at
    <2>2. worker[w] \in Expiring /\ of(w) \in Member /\ HasRow(of(w))  BY <2>1, WorkerFacts
    <2>3. /\ worker' \in [Worker -> Reminding \cup Expiring \cup {Resting}]
          /\ worker'[w].task = worker[w].task
          /\ \A i \in Worker : i # w => worker'[i] = worker[i]
      BY <1>0, <1>7, <2>2, GotoEffect DEF set_expired
    <2>4. /\ sub' \in [Member -> Rows]
          /\ \A i \in Member : sub'[i].status = "active" => sub'[i].next # 0
          /\ \A i \in Member : sub'[i].next = sub[i].next
          /\ \A i \in Member : HasRow(i) => HasRow(i)'
      BY <1>7, <2>2, StatusEffect DEF set_expired, Statuses
    <2>5. \A i \in Worker : ~at(i, "idle")' => (HasRow(of(i)))'
      <3> SUFFICES ASSUME NEW i \in Worker, ~at(i, "idle")' PROVE (HasRow(of(i)))'  OBVIOUS
      <3>1. worker'[i].task = worker[i].task /\ ~at(i, "idle")
        BY <2>1, <2>3 DEF at
      <3>2. PICK m \in Member : m = of(i) /\ HasRow(m)  BY <3>1, WorkerFacts
      <3>3. HasRow(m)' /\ m = of(i)'  BY <2>4, <3>1, <3>2 DEF of
      <3> QED  BY <3>3 DEF HasRow
    <2>6. queue' = queue /\ channel' = channel  BY <1>7 DEF set_expired, bot
    <2>7. /\ \A t \in Task : queue'[t] > 0 => HasRow(t.member)'
          /\ \A i \in 1..Len(channel') : sub'[channel'[i].member].status # "none"
      BY <2>4, <2>6, RowsKept
    <2>8. paying' = paying  BY <1>7 DEF set_expired
    <2>9. PaidInTime'  BY <2>4, <2>8 DEF PaidInTime, TypeOK
    <2> QED
      BY <1>7, <2>3, <2>4, <2>5, <2>6, <2>7, <2>9 DEF set_expired, TypeOK, HasRow, bot, room, past
  <1>8. ASSUME NEW w \in Worker, fail(w) PROVE TypeOK' /\ PaidInTime'
    <2>1. ~at(w, "idle") /\ UNCHANGED sub  BY <1>8 DEF fail
    <2>2. /\ worker' \in [Worker -> Reminding \cup Expiring \cup {Resting}]
          /\ worker'[w].pc = "idle"
          /\ \A i \in Worker : i # w => worker'[i] = worker[i]
      BY <1>0, <1>8, DoneEffect DEF fail
    <2>3. \A i \in Worker : ~at(i, "idle")' => (HasRow(of(i)))'
      BY <1>2, <2>1, <2>2
    <2>4. lost' \subseteq Member /\ faults' \in 0..MaxFaults
      BY <1>8, <2>1, WorkerFacts, MembershipAssumption DEF fail, Fault, TypeOK
    <2> QED
      BY <1>8, <2>2, <2>3, <2>4 DEF fail, TypeOK, PaidInTime, HasRow, bot, room
  <1> QED
    BY <1>1, <1>3, <1>4, <1>5, <1>6, <1>7, <1>8 DEF Workers, Step

LEMMA ApprovalType ==
  ASSUME TypeOK, NEW m \in Member, approve_chat_join_request(m)
  PROVE  /\ chat' \in [Member -> {"out", "asking", "in"}]
         /\ lost' \subseteq Member
  BY DEF approve_chat_join_request, TypeOK

LEMMA BanType ==
  ASSUME TypeOK, NEW m \in Member, ban_chat_member(m)
  PROVE  /\ chat' \in [Member -> {"out", "asking", "in"}]
         /\ banned' \subseteq Member /\ updates' \in Seq(Events)
  <1>1. Message("gone", m) \in Events  BY DEF Message, Events
  <1> QED  BY <1>1, AppendProperties DEF ban_chat_member, TypeOK

\* The message the listener takes is about a member, and what stays in the channel was there.
LEMMA HandledEffect ==
  ASSUME TypeOK, channel # <<>>, Handled
  PROVE  /\ Head(channel) \in Actions /\ Head(channel).member \in Member
         /\ channel' \in Seq(Actions)
         /\ \A i \in 1..Len(channel') : HasRow(channel'[i].member)
  <1>1. /\ channel' \in Seq(Actions) /\ Len(channel') = Len(channel) - 1
        /\ Len(channel) \in Nat
        /\ \A i \in 1..Len(channel') : channel'[i] = channel[i + 1]
        /\ Head(channel) \in Actions
    BY HeadTailProperties DEF TypeOK, Handled
  <1>2. ASSUME NEW i \in 1..Len(channel') PROVE HasRow(channel'[i].member)
    <2>1. i + 1 \in 1..Len(channel) /\ channel'[i] = channel[i + 1]  BY <1>1
    <2> QED  BY <2>1 DEF TypeOK
  <1> QED  BY <1>1, <1>2 DEF Actions

LEMMA TypeListener ==
  ASSUME TypeOK, PaidInTime, Listener \/ stop_bot \/ start_bot_listener
  PROVE  TypeOK' /\ PaidInTime'
  <1>a. Idle \in Handlings /\ Idle \in Listenings /\ [Idle EXCEPT !.pc = "down"] \in Listenings
    BY DEF Idle, Handlings, Listenings, Statuses
  <1>1. CASE _handle_approve_and_welcome
    <2>1. PICK m \in Member : m = Head(channel).member
      BY <1>1, HandledEffect DEF _handle_approve_and_welcome, Head_
    <2>2. chat' \in [Member -> {"out", "asking", "in"}] /\ lost' \subseteq Member
      BY <1>1, <2>1, ApprovalType DEF _handle_approve_and_welcome
    <2>3. channel' \in Seq(Actions) /\ \A i \in 1..Len(channel') : HasRow(channel'[i].member)
      BY <1>1, HandledEffect DEF _handle_approve_and_welcome, Head_
    <2> QED
      BY <1>1, <2>2, <2>3 DEF _handle_approve_and_welcome, TypeOK, PaidInTime, HasRow, at, of, rq
  <1>2. CASE _handle_renewal_reminder
    <2>1. channel' \in Seq(Actions) /\ \A i \in 1..Len(channel') : HasRow(channel'[i].member)
      BY <1>2, HandledEffect DEF _handle_renewal_reminder, Head_
    <2> QED
      BY <1>2, <2>1 DEF _handle_renewal_reminder, TypeOK, PaidInTime, HasRow, at, of, rq, room,
                        past
  <1>3. CASE _handle_kick_member
    <2>1. PICK m \in Member : m = Head(channel).member
      BY <1>3, HandledEffect DEF _handle_kick_member, Head_
    <2>2. channel' \in Seq(Actions) /\ \A i \in 1..Len(channel') : HasRow(channel'[i].member)
      BY <1>3, HandledEffect DEF _handle_kick_member, Head_
    <2>3. CASE /\ ban_chat_member(m)
               /\ listener' = [Idle EXCEPT !.pc = "unban", !.member = m]
               /\ UNCHANGED <<lost, faults>>
      <3>1. listener' \in Listenings  BY <2>3 DEF Idle, Listenings
      <3>2. /\ chat' \in [Member -> {"out", "asking", "in"}]
            /\ banned' \subseteq Member /\ updates' \in Seq(Events)
        BY <2>3, BanType
      <3> QED
        BY <1>3, <2>2, <2>3, <3>1, <3>2 DEF _handle_kick_member, TypeOK, PaidInTime, HasRow, at,
                                            of, rq
    <2>4. CASE Fault(m) /\ UNCHANGED <<room, updates, listener>>
      <3>1. lost' \subseteq Member /\ faults' \in 0..MaxFaults
        BY <2>4, MembershipAssumption DEF Fault, TypeOK
      <3> QED
        BY <1>3, <2>2, <2>4, <3>1 DEF _handle_kick_member, TypeOK, PaidInTime, HasRow, at, of,
                                      rq, room
    <2> QED  BY <1>3, <2>1, <2>3, <2>4 DEF _handle_kick_member
  <1>4. CASE unban_chat_member
    <2>1. lost' \subseteq Member /\ faults' \in 0..MaxFaults /\ banned' \subseteq Member
      <3>1. CASE banned' = banned \ {listener.member} /\ UNCHANGED <<lost, faults>>
        BY <3>1 DEF TypeOK
      <3>2. CASE banned' = banned /\ Fault(listener.member)
        <4>1. listener.member \in Member
          BY <1>4 DEF unban_chat_member, TypeOK, Listenings
        <4> QED  BY <3>2, <4>1, MembershipAssumption DEF Fault, TypeOK
      <3> QED  BY <1>4, <3>1, <3>2 DEF unban_chat_member
    <2> QED
      BY <1>4, <1>a, <2>1 DEF unban_chat_member, TypeOK, PaidInTime, HasRow, at, of, rq
  <1>5. CASE stop_bot
    <2>1. lost' \subseteq Member
      <3>1. \A i \in 1..Len(channel) : channel[i].member \in Member
        <4> TAKE i \in 1..Len(channel)
        <4>1. channel[i] \in Actions  BY ElementOfSeq, LenProperties DEF TypeOK
        <4> QED  BY <4>1 DEF Actions
      <3>2. {listener.member, handler.member} \ {NoMember} \subseteq Member
        BY DEF TypeOK, Listenings, Handlings
      <3> QED  BY <1>5, <3>1, <3>2 DEF stop_bot, TypeOK
    <2>2. faults' \in 0..MaxFaults /\ channel' \in Seq(Actions) /\ Len(channel') = 0
      BY <1>5, MembershipAssumption DEF stop_bot, TypeOK
    <2> QED
      BY <1>5, <1>a, <2>1, <2>2 DEF stop_bot, TypeOK, PaidInTime, HasRow, at, of, rq, room
  <1>6. CASE start_bot_listener
    BY <1>6, <1>a DEF start_bot_listener, TypeOK, PaidInTime, HasRow, at, of, rq, room, past
  <1> QED  BY <1>1, <1>2, <1>3, <1>4, <1>5, <1>6 DEF Listener

\* What the rows, the queue, the workers and the channel say together when only the
\* status of one row has changed.
LEMMA TypeStatus ==
  ASSUME TypeOK, PaidInTime, NEW m \in Member, NEW s \in Statuses \ {"none", "active"},
         SetStatus(m, s), UNCHANGED <<queue, worker, channel, paying>>
  PROVE  /\ sub' \in [Member -> Rows]
         /\ \A i \in Member : sub'[i].status = "active" => sub'[i].next # 0
         /\ \A t \in Task : queue'[t] > 0 => HasRow(t.member)'
         /\ \A w \in Worker : ~at(w, "idle")' => (HasRow(of(w)))'
         /\ \A i \in 1..Len(channel') : sub'[channel'[i].member].status # "none"
         /\ PaidInTime'
  <1>1. \A i \in Member : HasRow(i) => HasRow(i)'  BY StatusEffect
  <1>2. PaidInTime'  BY StatusEffect DEF PaidInTime, TypeOK
  <1> QED  BY <1>1, <1>2, StatusEffect, RowsKept

LEMMA UpdateEffect ==
  ASSUME TypeOK, updates # <<>>, updates' = Tail(updates)
  PROVE  Head(updates) \in Events /\ Head(updates).member \in Member /\ updates' \in Seq(Events)
  <1>1. Head(updates) \in Events /\ updates' \in Seq(Events)
    BY HeadTailProperties DEF TypeOK
  <1> QED  BY <1>1 DEF Events

LEMMA WorkType ==
  ASSUME NEW m \in Member, NEW s \in Statuses, NEW pc \in {"gone", "ban", "unban", "approve"},
         Work(pc, m, s)
  PROVE  handler' \in Handlings
  BY DEF Work, Handlings

LEMMA TypeHandlers ==
  ASSUME TypeOK, PaidInTime, Handlers
  PROVE  TypeOK' /\ PaidInTime'
  <1>a. Idle \in Handlings  BY DEF Idle, Handlings, Statuses
  <1>1. CASE handle_join_request
    <2>1. updates' \in Seq(Events)
      BY <1>1, UpdateEffect DEF handle_join_request, Update
    <2>2. PICK m \in Member : m = Head(updates).member
      BY <1>1, UpdateEffect DEF handle_join_request, Update
    <2>3. [status |-> "pending", next |-> 0] \in Rows  BY DEF Rows, Statuses
    <2>4. sub' = [sub EXCEPT ![m] = [status |-> "pending", next |-> 0]]
      BY <1>1, <2>2 DEF handle_join_request
    <2>5. /\ sub' \in [Member -> Rows]
          /\ \A i \in Member : sub'[i].status = "active" => sub'[i].next # 0
          /\ \A i \in Member : HasRow(i) => HasRow(i)'
          /\ \A i \in Member : sub'[i].next = sub[i].next \/ sub'[i].next = 0
      BY <2>3, <2>4 DEF TypeOK, HasRow
    <2>6. PaidInTime'
      BY <1>1, <2>5, MembershipAssumption DEF handle_join_request, PaidInTime, TypeOK
    <2>7. UNCHANGED <<queue, worker, channel>>  BY <1>1 DEF handle_join_request, rq
    <2>8. /\ \A t \in Task : queue'[t] > 0 => HasRow(t.member)'
          /\ \A w \in Worker : ~at(w, "idle")' => (HasRow(of(w)))'
          /\ \A i \in 1..Len(channel') : sub'[channel'[i].member].status # "none"
      BY <2>5, <2>7, RowsKept
    <2> QED
      BY <1>1, <2>1, <2>5, <2>6, <2>7, <2>8 DEF handle_join_request, TypeOK, HasRow, room, past
  <1>2. CASE handle_chat_member
    <2>1. PICK m \in Member : m = Head(updates).member
      BY <1>2, UpdateEffect DEF handle_chat_member, Update
    <2>2. updates' \in Seq(Events)
      BY <1>2, UpdateEffect DEF handle_chat_member, Update
    <2>3. sub[m].status \in Statuses  BY DEF TypeOK, Rows
    <2>4. handler' \in Handlings  BY <1>2, <2>1, <2>3, WorkType DEF handle_chat_member
    <2> QED
      BY <1>2, <2>2, <2>4 DEF handle_chat_member, TypeOK, PaidInTime, HasRow, at, of, rq, room,
                              past
  <1>3. ASSUME NEW m \in Member, cancel_left(m) PROVE TypeOK' /\ PaidInTime'
    <2>1. UNCHANGED <<queue, worker, channel, paying>>  BY <1>3 DEF cancel_left, rq
    <2>2. CASE SetStatus(m, "cancelled")
      <3>1. /\ sub' \in [Member -> Rows]
            /\ \A i \in Member : sub'[i].status = "active" => sub'[i].next # 0
            /\ \A t \in Task : queue'[t] > 0 => HasRow(t.member)'
            /\ \A w \in Worker : ~at(w, "idle")' => (HasRow(of(w)))'
            /\ \A i \in 1..Len(channel') : sub'[channel'[i].member].status # "none"
            /\ PaidInTime'
        BY <2>1, <2>2, TypeStatus DEF Statuses
      <3> QED
        BY <1>3, <1>a, <2>1, <3>1 DEF cancel_left, TypeOK, HasRow, room, past
    <2>3. CASE sub' = sub
      BY <1>3, <1>a, <2>3 DEF cancel_left, TypeOK, PaidInTime, HasRow, at, of, rq, room, past
    <2> QED  BY <1>3, <2>2, <2>3 DEF cancel_left
  <1>4. ASSUME NEW m \in Member, kick_ban(m) PROVE TypeOK' /\ PaidInTime'
    <2>1. CASE ban_chat_member(m) /\ Work("unban", m, "none") /\ UNCHANGED <<lost, faults>>
      <3>1. /\ chat' \in [Member -> {"out", "asking", "in"}]
            /\ banned' \subseteq Member /\ updates' \in Seq(Events)
        BY <2>1, BanType
      <3>2. handler' \in Handlings  BY <2>1, WorkType DEF Statuses
      <3> QED
        BY <1>4, <2>1, <3>1, <3>2 DEF kick_ban, TypeOK, PaidInTime, HasRow, at, of, rq
    <2>2. CASE Fault(m) /\ handler' = Idle /\ UNCHANGED <<room, updates>>
      <3>1. lost' \subseteq Member /\ faults' \in 0..MaxFaults
        BY <2>2, MembershipAssumption DEF Fault, TypeOK
      <3> QED
        BY <1>4, <1>a, <2>2, <3>1 DEF kick_ban, TypeOK, PaidInTime, HasRow, at, of, rq, room
    <2> QED  BY <1>4, <2>1, <2>2 DEF kick_ban
  <1>5. ASSUME NEW m \in Member, kick_unban(m) PROVE TypeOK' /\ PaidInTime'
    <2>1. lost' \subseteq Member /\ faults' \in 0..MaxFaults /\ banned' \subseteq Member
      BY <1>5, MembershipAssumption DEF kick_unban, Fault, TypeOK
    <2> QED
      BY <1>5, <1>a, <2>1 DEF kick_unban, TypeOK, PaidInTime, HasRow, at, of, rq
  <1>6. ASSUME NEW m \in Member, comp_approve(m) PROVE TypeOK' /\ PaidInTime'
    <2>1. chat' \in [Member -> {"out", "asking", "in"}] /\ lost' \subseteq Member
      BY <1>6, ApprovalType DEF comp_approve
    <2> QED
      BY <1>6, <1>a, <2>1 DEF comp_approve, TypeOK, PaidInTime, HasRow, at, of, rq
  <1> QED  BY <1>1, <1>2, <1>3, <1>4, <1>5, <1>6 DEF Handlers

LEMMA TypeOperators ==
  ASSUME TypeOK, PaidInTime, Operators
  PROVE  TypeOK' /\ PaidInTime'
  <1> SUFFICES ASSUME NEW m \in Member,
                      \/ cb_member_kick(m) \/ cb_member_comp(m) \/ api_group_comp(m)
                      \/ force_cancel_subscription(m) \/ force_expire_subscription(m)
               PROVE  TypeOK' /\ PaidInTime'
    BY DEF Operators
  <1>1. PICK s \in Statuses \ {"none", "active"} : SetStatus(m, s)
    BY DEF cb_member_kick, cb_member_comp, api_group_comp, force_cancel_subscription,
           force_expire_subscription, Statuses
  <1>2. UNCHANGED <<queue, worker, channel, paying>>
    BY DEF cb_member_kick, cb_member_comp, api_group_comp, force_cancel_subscription,
           force_expire_subscription, rq, bot
  <1>3. /\ sub' \in [Member -> Rows]
        /\ \A i \in Member : sub'[i].status = "active" => sub'[i].next # 0
        /\ \A t \in Task : queue'[t] > 0 => HasRow(t.member)'
        /\ \A w \in Worker : ~at(w, "idle")' => (HasRow(of(w)))'
        /\ \A i \in 1..Len(channel') : sub'[channel'[i].member].status # "none"
        /\ PaidInTime'
    BY <1>1, <1>2, TypeStatus
  <1>4. CASE cb_member_kick(m) \/ cb_member_comp(m)
    <2>1. handler' \in Handlings
      BY <1>4, WorkType DEF cb_member_kick, cb_member_comp, Statuses
    <2> QED
      BY <1>2, <1>3, <1>4, <2>1 DEF cb_member_kick, cb_member_comp, TypeOK, HasRow, room, past
  <1>5. CASE api_group_comp(m)
    BY <1>2, <1>3, <1>5 DEF api_group_comp, TypeOK, HasRow, bot, room, past
  <1>6. CASE force_cancel_subscription(m) \/ force_expire_subscription(m)
    <2>1. lost' \subseteq Member
      BY <1>6 DEF force_cancel_subscription, force_expire_subscription, TypeOK
    <2> QED
      BY <1>2, <1>3, <1>6, <2>1 DEF force_cancel_subscription, force_expire_subscription, TypeOK,
                                    HasRow, bot, room
  <1> QED  BY <1>4, <1>5, <1>6

LEMMA TypeStep == TypeOK /\ PaidInTime /\ [Next]_vars => TypeOK' /\ PaidInTime'
  <1>1. CASE UNCHANGED vars
    BY <1>1 DEF vars, rq, bot, room, past, TypeOK, PaidInTime, HasRow, at, of
  <1> QED
    BY <1>1, TypeMembers, TypeScheduler, TypeWorkers, TypeListener, TypeHandlers, TypeOperators
    DEF Next

\* Every variable keeps its shape: an active row has a date, and what is queued, run or
\* published is about a member who has a row.
THEOREM TypeCorrect == Spec => []TypeOK
  <1> QED  BY TypeInit, TypeStep, PTL DEF Spec

-----------------------------------------------------------------------------
(* Who is banned.                                                          *)

LEMMA LostGrows == [Next]_vars => lost \subseteq lost'
  <1> SUFFICES ASSUME [Next]_vars PROVE lost \subseteq lost'  OBVIOUS
  <1>1. CASE UNCHANGED vars  BY <1>1 DEF vars, past
  <1>2. CASE Tick \/ Members
    BY <1>2 DEF Tick, Members, Ask, Leave, Pay, activate_subscription, _publish_bot_action, past
  <1>3. CASE renewal_reminder_job \/ grace_enforcement_job
    BY <1>3 DEF renewal_reminder_job, grace_enforcement_job, enqueue, past
  <1>4. CASE Workers
    BY <1>4 DEF Workers, Step, take, fail, has_reminder_been_sent, record_reminder_sent,
                publish_reminder, read_status, set_expired, _was_expired, publish_kick, Fault,
                _publish_bot_action, past
  <1>5. CASE Listener \/ stop_bot \/ start_bot_listener
    BY <1>5 DEF Listener, _handle_approve_and_welcome, _handle_renewal_reminder,
                _handle_kick_member, unban_chat_member, stop_bot, start_bot_listener, Fault,
                approve_chat_join_request, past
  <1>6. CASE Handlers
    BY <1>6 DEF Handlers, handle_join_request, handle_chat_member, cancel_left, kick_ban,
                kick_unban, comp_approve, Fault, approve_chat_join_request, past
  <1>7. CASE Operators
    BY <1>7 DEF Operators, cb_member_kick, cb_member_comp, api_group_comp,
                force_cancel_subscription, force_expire_subscription, past
  <1> QED  BY <1>1, <1>2, <1>3, <1>4, <1>5, <1>6, <1>7 DEF Next

LEMMA BannedStep == TypeOK /\ NobodyStaysBanned /\ [Next]_vars => NobodyStaysBanned'
  <1> SUFFICES ASSUME TypeOK, NobodyStaysBanned, [Next]_vars
               PROVE  NobodyStaysBanned'
    OBVIOUS
  <1>0. lost \subseteq lost'  BY LostGrows
  \* A step that bans nobody and leaves an unban under way alone.
  <1>1. ASSUME banned' = banned, listener.pc = "unban" => listener' = listener,
               handler.pc = "unban" => handler' = handler
        PROVE  NobodyStaysBanned'
    BY <1>0, <1>1 DEF NobodyStaysBanned
  <1>2. CASE UNCHANGED vars
    BY <1>1, <1>2 DEF vars, bot, room
  <1>3. CASE Tick \/ Members
    BY <1>1, <1>3 DEF Tick, Members, Ask, Leave, Pay, activate_subscription, bot, room
  <1>4. CASE renewal_reminder_job \/ grace_enforcement_job
    BY <1>1, <1>4 DEF renewal_reminder_job, grace_enforcement_job, enqueue, bot, room
  <1>5. CASE Workers
    BY <1>1, <1>5 DEF Workers, Step, take, fail, has_reminder_been_sent, record_reminder_sent,
                      publish_reminder, read_status, set_expired, _was_expired, publish_kick,
                      bot, room
  <1>6. CASE _handle_approve_and_welcome \/ _handle_renewal_reminder \/ start_bot_listener
    BY <1>1, <1>6 DEF _handle_approve_and_welcome, _handle_renewal_reminder, start_bot_listener,
                      room
  <1>7. CASE _handle_kick_member
    <2>1. PICK m \in Member : m = Head(channel).member
      BY <1>7, HandledEffect DEF _handle_kick_member, Head_
    <2>2. CASE ban_chat_member(m) /\ listener' = [Idle EXCEPT !.pc = "unban", !.member = m]
      <3>1. listener'.pc = "unban" /\ listener'.member = m /\ listener.pc = "idle"
            /\ handler' = handler /\ banned' = banned \cup {m}
        BY <1>7, <2>2 DEF Idle, _handle_kick_member, Head_, ban_chat_member
      <3> QED  BY <1>0, <3>1 DEF NobodyStaysBanned
    <2>3. CASE UNCHANGED <<room, updates, listener>>
      BY <1>1, <1>7, <2>3 DEF _handle_kick_member, room
    <2> QED  BY <1>7, <2>1, <2>2, <2>3 DEF _handle_kick_member
  <1>8. CASE unban_chat_member
    <2>1. CASE banned' = banned \ {listener.member}
      <3>1. handler' = handler  BY <1>8 DEF unban_chat_member
      <3> QED  BY <1>0, <2>1, <3>1 DEF NobodyStaysBanned
    <2>2. CASE banned' = banned /\ Fault(listener.member)
      <3>1. handler' = handler /\ listener.member \in lost'
        BY <1>8, <2>2 DEF unban_chat_member, Fault
      <3> QED  BY <1>0, <2>2, <3>1 DEF NobodyStaysBanned
    <2> QED  BY <1>8, <2>1, <2>2 DEF unban_chat_member
  <1>9. CASE stop_bot
    <2>1. banned' = banned /\ \A m \in Member : m \in {listener.member, handler.member} => m \in lost'
      BY <1>9, MembershipAssumption DEF stop_bot, room
    <2> QED  BY <1>0, <2>1 DEF NobodyStaysBanned, TypeOK
  <1>10. CASE \/ handle_join_request \/ handle_chat_member
              \/ \E m \in Member : cancel_left(m) \/ comp_approve(m)
    BY <1>1, <1>10 DEF handle_join_request, handle_chat_member, cancel_left, comp_approve,
                       Update, Free, room
  <1>11. ASSUME NEW m \in Member, kick_ban(m) PROVE NobodyStaysBanned'
    <2>1. handler.pc = "ban" /\ listener' = listener  BY <1>11 DEF kick_ban
    <2>2. CASE ban_chat_member(m) /\ Work("unban", m, "none")
      <3>1. handler'.pc = "unban" /\ handler'.member = m /\ banned' = banned \cup {m}
        BY <2>2 DEF Work, ban_chat_member
      <3> QED  BY <1>0, <2>1, <3>1 DEF NobodyStaysBanned
    <2>3. CASE UNCHANGED room
      BY <1>1, <2>1, <2>3 DEF room
    <2> QED  BY <1>11, <2>2, <2>3 DEF kick_ban
  <1>12. ASSUME NEW m \in Member, kick_unban(m) PROVE NobodyStaysBanned'
    <2>1. handler.member = m /\ listener' = listener  BY <1>12 DEF kick_unban
    <2>2. CASE banned' = banned \ {m}
      BY <1>0, <2>1, <2>2 DEF NobodyStaysBanned
    <2>3. CASE banned' = banned /\ Fault(m)
      BY <1>0, <2>1, <2>3 DEF NobodyStaysBanned, Fault
    <2> QED  BY <1>12, <2>2, <2>3 DEF kick_unban
  <1>13. CASE Operators
    BY <1>1, <1>13 DEF Operators, cb_member_kick, cb_member_comp, api_group_comp,
                       force_cancel_subscription, force_expire_subscription, Free, bot, room
  <1> QED
    BY <1>2, <1>3, <1>4, <1>5, <1>6, <1>7, <1>8, <1>9, <1>10, <1>11, <1>12, <1>13
    DEF Next, Listener, Handlers

\* A removal is not a permanent ban: whoever is banned is about to be unbanned by the
\* listener or by the admin's handler, unless a call failed or the bot stopped.
THEOREM BanIsLifted == Spec => []NobodyStaysBanned
  <1>1. Init => NobodyStaysBanned  BY DEF Init, NobodyStaysBanned
  <1> QED  BY <1>1, BannedStep, TypeCorrect, PTL DEF Spec

-----------------------------------------------------------------------------
(* Who comes back.                                                         *)

LEMMA EndedStep ==
  ASSUME TypeOK, PaidInTime, [Next]_vars, NEW m \in Member,
         sub[m].status \in {"expired", "cancelled"}
  PROVE  sub'[m].status # "active"
  <1>1. CASE UNCHANGED sub  BY <1>1
  <1>2. ASSUME NEW i \in Member, NEW s \in Statuses \ {"none", "active"}, SetStatus(i, s)
        PROVE  sub'[m].status # "active"
    BY <1>2, StatusEffect
  <1>3. CASE Members
    <2>1. ASSUME NEW i \in Member, activate_subscription(i) PROVE sub'[m] = sub[m]
      BY <2>1 DEF activate_subscription, TypeOK
    <2> QED  BY <1>1, <1>3, <2>1 DEF Members, Ask, Leave, Pay
  <1>4. CASE Workers
    <2>1. ASSUME NEW w \in Worker, set_expired(w) PROVE sub'[m].status # "active"
      <3>1. of(w) \in Member  BY <2>1, WorkerFacts DEF set_expired, at
      <3> QED  BY <1>2, <2>1, <3>1 DEF set_expired, Statuses
    <2> QED
      BY <1>1, <1>4, <2>1 DEF Workers, Step, take, fail, has_reminder_been_sent,
           record_reminder_sent, publish_reminder, read_status, _was_expired, publish_kick
  <1>5. CASE Handlers
    <2>1. CASE handle_join_request
      <3>1. PICK i \in Member : i = Head(updates).member
        BY <2>1, UpdateEffect DEF handle_join_request, Update
      <3> QED  BY <2>1, <3>1 DEF handle_join_request, TypeOK
    <2>2. ASSUME NEW i \in Member, cancel_left(i) PROVE sub'[m].status # "active"
      BY <1>1, <1>2, <2>2 DEF cancel_left, Statuses
    <2> QED
      BY <1>1, <1>5, <2>1, <2>2 DEF Handlers, handle_chat_member, kick_ban, kick_unban,
                                    comp_approve
  <1>6. CASE Operators
    BY <1>2, <1>6 DEF Operators, cb_member_kick, cb_member_comp, api_group_comp,
                      force_cancel_subscription, force_expire_subscription, Statuses
  <1> QED
    BY <1>1, <1>3, <1>4, <1>5, <1>6 DEF Next, Tick, renewal_reminder_job,
         grace_enforcement_job, enqueue, Listener, _handle_approve_and_welcome,
         _handle_renewal_reminder, _handle_kick_member, unban_chat_member, stop_bot,
         start_bot_listener, vars

\* No payment processed late, no task and no update revives a row that has ended: it
\* takes a join request, or free access.
THEOREM NoRevival == Spec => EndedNeedsRequest
  <1>1. TypeOK /\ PaidInTime /\ [Next]_vars =>
          [\A m \in Member : sub[m].status \in {"expired", "cancelled"} =>
               sub'[m].status # "active"]_vars
    BY EndedStep
  <1> QED  BY <1>1, TypeInit, TypeStep, PTL DEF Spec, EndedNeedsRequest

-----------------------------------------------------------------------------
(* Who sits in the chat.                                                   *)

Asked(m) == Among(Message("request", m), updates)
Left(m) == Among(Message("gone", m), updates)
LeftThenAsked(m) == Follows(Message("request", m), Message("gone", m), updates)
Noticed(m) == handler.pc = "gone" /\ handler.member = m
Banning(m) == handler.pc = "ban" /\ handler.member = m

\* The removal a task brings: _was_expired will find the row expired, or has.
Ending(m) ==
    \/ \E w \in Worker : /\ of(w) = m
                         /\ at(w, "kick") \/ (at(w, "verify") /\ sub[m].status = "expired")
    \/ Among(Message("kick_member", m), channel)

\* Whoever is in the chat pays, or has it free, or is on the way out, and no update
\* about the member is left that could end the row without a removal.  Whoever asks
\* has a request the bot will turn into a new row, or is let in to a live one.
Door(m) ==
    \/ m \in lost
    \/ /\ chat[m] = "in" =>
            /\ sub[m].status \in {"active", "comped"} \/ Ending(m) \/ Banning(m)
            /\ ~Asked(m) /\ ~Left(m) /\ ~Noticed(m)
       /\ chat[m] = "asking" =>
            /\ Asked(m) \/ sub[m].status \in {"pending", "active", "comped"} \/ Ending(m)
            /\ LeftThenAsked(m) /\ (Noticed(m) => Asked(m))

\* A step of somebody else, or one that changes nothing the member's door depends on.
SameUpdates(m) == (Asked(m)' <=> Asked(m)) /\ (Left(m)' => Left(m))
                  /\ (LeftThenAsked(m) => LeftThenAsked(m)')
SameHandler(m) == (Noticed(m)' => Noticed(m)) /\ (Banning(m) => Banning(m)')
SameRow(m) == \/ sub'[m].status \in {"active", "comped"} \/ Ending(m)'
              \/ sub'[m].status = sub[m].status /\ (Ending(m) => Ending(m)')
Calm(m) == \/ m \in lost'
           \/ chat'[m] = chat[m] /\ SameUpdates(m) /\ SameHandler(m) /\ SameRow(m)

LEMMA CalmKeeps ==
  ASSUME NEW m \in Member, Door(m), lost \subseteq lost', Calm(m)
  PROVE  Door(m)'
  <1>1. CASE m \in lost'  BY <1>1 DEF Door
  <1>2. CASE m \notin lost'
    BY <1>2 DEF Door, Calm, SameUpdates, SameHandler, SameRow
  <1> QED  BY <1>1, <1>2

LEMMA UpdatesStay == ASSUME NEW m \in Member, updates' = updates PROVE SameUpdates(m)
  BY DEF SameUpdates, Asked, Left, LeftThenAsked

LEMMA UpdatesTail ==
  ASSUME TypeOK, NEW m \in Member, updates # <<>>, updates' = Tail(updates),
         Head(updates).member # m
  PROVE  SameUpdates(m)
  <1>1. updates \in Seq(Events)  BY DEF TypeOK
  <1>2. Head(updates) # Message("request", m) /\ Head(updates) # Message("gone", m)
    BY DEF Message
  <1>3. \A e : (Among(e, updates') => Among(e, updates))
               /\ (Among(e, updates) => Head(updates) = e \/ Among(e, updates'))
    BY <1>1, AmongTail
  <1>4. LeftThenAsked(m) => LeftThenAsked(m)'
    BY <1>1, FollowsTail DEF LeftThenAsked
  <1> QED  BY <1>2, <1>3, <1>4 DEF SameUpdates, Asked, Left

LEMMA UpdatesAppend ==
  ASSUME TypeOK, NEW m \in Member, NEW x \in Events, updates' = Append(updates, x),
         x.member # m
  PROVE  SameUpdates(m)
  <1>1. updates \in Seq(Events)  BY DEF TypeOK
  <1>2. x # Message("request", m) /\ x # Message("gone", m)
        /\ Message("request", m) # Message("gone", m)
    BY DEF Message
  <1>3. \A e : Among(e, updates') <=> Among(e, updates) \/ x = e
    BY <1>1, AmongAppend
  <1>4. LeftThenAsked(m) => LeftThenAsked(m)'
    BY <1>1, <1>2, FollowsAppend DEF LeftThenAsked
  <1> QED  BY <1>2, <1>3, <1>4 DEF SameUpdates, Asked, Left

LEMMA BanOther ==
  ASSUME TypeOK, NEW m \in Member, NEW n \in Member, m # n, ban_chat_member(n)
  PROVE  chat'[m] = chat[m] /\ SameUpdates(m)
  <1>1. chat'[m] = chat[m]  BY DEF ban_chat_member, TypeOK
  <1>2. Message("gone", n) \in Events /\ Message("gone", n).member = n
    BY DEF Message, Events
  <1>3. updates' = updates \/ updates' = Append(updates, Message("gone", n))
    BY DEF ban_chat_member
  <1> QED  BY <1>1, <1>2, <1>3, UpdatesStay, UpdatesAppend

\* A member who is put out, or is out, has nothing to keep.
LEMMA OutIsFine == ASSUME NEW m \in Member, chat'[m] = "out" PROVE Door(m)'
  BY DEF Door

LEMMA EndingKept ==
  ASSUME NEW m \in Member, sub'[m].status = sub[m].status,
         \A w \in Worker :
            (of(w) = m /\ (at(w, "kick") \/ (at(w, "verify") /\ sub[m].status = "expired"))) =>
                worker'[w] = worker[w],
         Among(Message("kick_member", m), channel) => Among(Message("kick_member", m), channel')
  PROVE  SameRow(m)
  BY DEF SameRow, Ending, of, at

LEMMA HandlerStays == ASSUME NEW m \in Member, handler' = handler PROVE SameHandler(m)
  BY DEF SameHandler, Noticed, Banning

LEMMA CalmOutside ==
  ASSUME TypeOK, NEW m \in Member,
         \/ Tick \/ renewal_reminder_job \/ grace_enforcement_job
         \/ \E n \in Member : \/ Pay(n) \/ activate_subscription(n)
                              \/ n # m /\ (Ask(n) \/ Leave(n))
  PROVE  Calm(m)
  <1>1. ASSUME UNCHANGED <<sub, worker, bot, room>> PROVE Calm(m)
    BY <1>1, UpdatesStay, HandlerStays, EndingKept DEF Calm, bot, room
  <1>2. CASE Tick \/ renewal_reminder_job \/ grace_enforcement_job \/ \E n \in Member : Pay(n)
    BY <1>1, <1>2 DEF Tick, renewal_reminder_job, grace_enforcement_job, enqueue, Pay, rq
  <1>3. ASSUME NEW n \in Member, activate_subscription(n) PROVE Calm(m)
    <2>1. Among(Message("kick_member", m), channel) => Among(Message("kick_member", m), channel')
      BY <1>3, PublishEffect DEF activate_subscription
    <2>2. worker' = worker /\ updates' = updates /\ handler' = handler /\ chat' = chat
      BY <1>3 DEF activate_subscription, rq, room
    <2>3. sub'[m].status = "active" \/ sub'[m] = sub[m]
      BY <1>3 DEF activate_subscription, TypeOK
    <2>4. SameRow(m)
      BY <2>1, <2>2, <2>3, EndingKept DEF SameRow
    <2> QED  BY <2>2, <2>4, UpdatesStay, HandlerStays DEF Calm
  <1>4. ASSUME NEW n \in Member, n # m, Ask(n) \/ Leave(n) PROVE Calm(m)
    <2>1. PICK x \in Events : x.member = n /\ updates' = Append(updates, x)
      <3>1. \A k \in {"request", "gone"} : Message(k, n) \in Events /\ Message(k, n).member = n
        BY DEF Message, Events
      <3> QED  BY <1>4, <3>1 DEF Ask, Leave
    <2>2. chat'[m] = chat[m] /\ UNCHANGED <<sub, worker, channel, handler>>
      BY <1>4 DEF Ask, Leave, TypeOK, rq
    <2> QED  BY <1>4, <2>1, <2>2, UpdatesAppend, HandlerStays, EndingKept DEF Calm
  <1> QED  BY <1>2, <1>3, <1>4

LEMMA CalmWorkers ==
  ASSUME TypeOK, PaidInTime, NEW m \in Member, Workers
  PROVE  Calm(m)
  <1>0. worker \in [Worker -> Reminding \cup Expiring \cup {Resting}]  BY DEF TypeOK
  <1> DEFINE kick == Message("kick_member", m)
  \* Worker w moves; what the others bring for m stays.
  <1>1. ASSUME NEW w \in Worker, UNCHANGED <<chat, updates, handler>>,
               \A i \in Worker : i # w => worker'[i] = worker[i],
               sub'[m].status = sub[m].status,
               ~(of(w) = m /\ (at(w, "kick") \/ (at(w, "verify") /\ sub[m].status = "expired"))),
               Among(kick, channel) => Among(kick, channel')
        PROVE  Calm(m)
    BY <1>1, UpdatesStay, HandlerStays, EndingKept DEF Calm
  <1>2. ASSUME UNCHANGED <<chat, updates, handler>>, Ending(m)'
        PROVE  Calm(m)
    BY <1>2, UpdatesStay, HandlerStays DEF Calm, SameRow
  <1>3. ASSUME NEW w \in Worker, NEW t \in Task, take(w, t) PROVE Calm(m)
    <2>1. \A i \in Worker : i # w => worker'[i] = worker[i]  BY <1>3, TakeEffect
    <2> QED  BY <1>1, <1>3, <2>1 DEF take, at, bot, room
  <1>4. ASSUME NEW w \in Worker, has_reminder_been_sent(w) \/ record_reminder_sent(w)
        PROVE  Calm(m)
    <2>1. worker[w] \in Reminding
      BY <1>4, WorkerFacts DEF has_reminder_been_sent, record_reminder_sent, at
    <2>2. \A i \in Worker : i # w => worker'[i] = worker[i]
      BY <1>0, <1>4, <2>1, GotoEffect, DoneEffect DEF has_reminder_been_sent, record_reminder_sent
    <2> QED
      BY <1>1, <1>4, <2>2 DEF has_reminder_been_sent, record_reminder_sent, at, bot, room
  <1>5. ASSUME NEW w \in Worker, publish_reminder(w) PROVE Calm(m)
    <2>1. \A i \in Worker : i # w => worker'[i] = worker[i]
      BY <1>0, <1>5, DoneEffect DEF publish_reminder
    <2>2. of(w) \in Member  BY <1>5, WorkerFacts DEF publish_reminder, at
    <2>3. Among(kick, channel) => Among(kick, channel')
      BY <1>5, <2>2, PublishEffect DEF publish_reminder
    <2> QED  BY <1>1, <1>5, <2>1, <2>3 DEF publish_reminder, at, room
  <1>6. ASSUME NEW w \in Worker, read_status(w) PROVE Calm(m)
    <2>1. worker[w] \in Expiring  BY <1>6, WorkerFacts DEF read_status, at
    <2>2. \A i \in Worker : i # w => worker'[i] = worker[i]
      BY <1>0, <1>6, <2>1, GotoEffect DEF read_status
    <2> QED  BY <1>1, <1>6, <2>2 DEF read_status, at, bot, room
  <1>7. ASSUME NEW w \in Worker, set_expired(w) PROVE Calm(m)
    <2>1. worker[w] \in Expiring /\ of(w) \in Member
      BY <1>7, WorkerFacts DEF set_expired, at
    <2>2. /\ \A i \in Worker : i # w => worker'[i] = worker[i]
          /\ worker'[w].pc = "verify" /\ worker'[w].task = worker[w].task
      BY <1>0, <1>7, <2>1, GotoEffect DEF set_expired
    <2>3. /\ sub'[of(w)].status = "expired"
          /\ \A i \in Member : i # of(w) => sub'[i] = sub[i]
      BY <1>7, <2>1, StatusEffect DEF set_expired, Statuses
    <2>4. UNCHANGED <<chat, updates, handler, channel>>
      BY <1>7 DEF set_expired, bot, room
    <2>5. CASE of(w) = m
      <3>1. Ending(m)'  BY <2>2, <2>3, <2>5 DEF Ending, of, at
      <3> QED  BY <1>2, <2>4, <3>1
    <2>6. CASE of(w) # m
      BY <1>1, <2>2, <2>3, <2>4, <2>6
    <2> QED  BY <2>5, <2>6
  <1>8. ASSUME NEW w \in Worker, _was_expired(w) PROVE Calm(m)
    <2>1. worker[w] \in Expiring /\ at(w, "verify") BY <1>8, WorkerFacts DEF _was_expired, at
    <2>2. \A i \in Worker : i # w => worker'[i] = worker[i]
      BY <1>0, <1>8, <2>1, GotoEffect, DoneEffect DEF _was_expired
    <2>3. UNCHANGED <<sub, chat, updates, handler, channel>>
      BY <1>8 DEF _was_expired, bot, room
    <2>4. CASE of(w) = m /\ sub[m].status = "expired"
      <3>1. worker'[w].pc = "kick" /\ worker'[w].task = worker[w].task
        BY <1>0, <1>8, <2>1, <2>4, GotoEffect DEF _was_expired
      <3>2. Ending(m)'  BY <2>4, <3>1 DEF Ending, of, at
      <3> QED  BY <1>2, <2>3, <3>2
    <2>5. CASE ~(of(w) = m /\ sub[m].status = "expired")
      BY <1>1, <2>1, <2>2, <2>3, <2>5 DEF at
    <2> QED  BY <2>4, <2>5
  <1>9. ASSUME NEW w \in Worker, publish_kick(w) PROVE Calm(m)
    <2>1. \A i \in Worker : i # w => worker'[i] = worker[i]
      BY <1>0, <1>9, DoneEffect DEF publish_kick
    <2>2. of(w) \in Member  BY <1>9, WorkerFacts DEF publish_kick, at
    <2>3. /\ \A e : Among(e, channel) => Among(e, channel')
          /\ of(w) \in lost' \/ Among(Message("kick_member", of(w)), channel')
      BY <1>9, <2>2, PublishEffect DEF publish_kick
    <2>4. UNCHANGED <<sub, chat, updates, handler>>  BY <1>9 DEF publish_kick, room
    <2>5. CASE of(w) = m
      <3>1. m \in lost' \/ Ending(m)'  BY <2>3, <2>5 DEF Ending
      <3> QED  BY <1>2, <2>4, <3>1 DEF Calm
    <2>6. CASE of(w) # m
      BY <1>1, <2>1, <2>3, <2>4, <2>6
    <2> QED  BY <2>5, <2>6
  <1>10. ASSUME NEW w \in Worker, fail(w) PROVE Calm(m)
    <2>1. \A i \in Worker : i # w => worker'[i] = worker[i]
      BY <1>0, <1>10, DoneEffect DEF fail
    <2>2. of(w) \in lost' /\ UNCHANGED <<sub, chat, updates, handler, channel>>
      BY <1>10 DEF fail, Fault, bot, room
    <2>3. CASE of(w) = m  BY <2>2, <2>3 DEF Calm
    <2>4. CASE of(w) # m  BY <1>1, <2>1, <2>2, <2>4
    <2> QED  BY <2>3, <2>4
  <1> QED
    BY <1>3, <1>4, <1>5, <1>6, <1>7, <1>8, <1>9, <1>10 DEF Workers, Step

\* An approval: it lets in a member whose row is live or about to be removed, or is noted.
LEMMA ApprovalKeeps ==
  ASSUME TypeOK, NEW m \in Member, Door(m), approve_chat_join_request(m),
         UNCHANGED <<sub, updates>>, SameHandler(m), Ending(m) => Ending(m)'
  PROVE  Door(m)'
  <1>0. lost \subseteq lost'  BY DEF approve_chat_join_request
  <1>1. CASE chat[m] # "asking"
    <2>1. chat'[m] = chat[m]  BY <1>1 DEF approve_chat_join_request, TypeOK
    <2>2. Calm(m)  BY <2>1, UpdatesStay DEF Calm, SameRow
    <2> QED  BY <1>0, <2>2, CalmKeeps
  <1>2. CASE chat[m] = "asking" /\ Premature(m)
    <2>1. m \in lost'  BY <1>2 DEF approve_chat_join_request
    <2> QED  BY <2>1 DEF Door
  <1>3. CASE chat[m] = "asking" /\ ~Premature(m)
    <2>1. sub[m].status # "pending" /\ ~Asked(m)
      BY <1>3 DEF Premature, Asked, Among
    <2>2. CASE m \in lost
      BY <1>0, <2>2 DEF Door
    <2>3. CASE m \notin lost
      <3>1. /\ sub[m].status \in {"active", "comped"} \/ Ending(m)
            /\ LeftThenAsked(m) /\ ~Noticed(m)
        BY <1>3, <2>1, <2>3 DEF Door
      <3>2. ~Left(m)
        BY <2>1, <3>1, AmongNone DEF Left, LeftThenAsked, Asked, TypeOK
      <3>3. ~Asked(m)' /\ ~Left(m)' /\ ~Noticed(m)'
        BY <2>1, <3>1, <3>2 DEF Asked, Left, SameHandler
      <3>4. sub'[m].status \in {"active", "comped"} \/ Ending(m)'
        BY <3>1
      <3>5. chat'[m] = "in"  BY <1>3 DEF approve_chat_join_request, TypeOK
      <3> QED  BY <3>3, <3>4, <3>5 DEF Door
    <2> QED  BY <2>2, <2>3
  <1> QED  BY <1>1, <1>2, <1>3

LEMMA OtherApproval ==
  ASSUME TypeOK, NEW m \in Member, NEW n \in Member, n # m, approve_chat_join_request(n),
         UNCHANGED <<sub, updates>>, SameHandler(m), Ending(m) => Ending(m)'
  PROVE  Calm(m)
  <1>1. chat'[m] = chat[m]  BY DEF approve_chat_join_request, TypeOK
  <1> QED  BY <1>1, UpdatesStay DEF Calm, SameRow

\* Taking a message that is no removal of m from the channel.
LEMMA EndingHandled ==
  ASSUME TypeOK, NEW m \in Member, channel # <<>>, Handled, UNCHANGED <<sub, worker>>,
         Head(channel) # Message("kick_member", m)
  PROVE  Ending(m) => Ending(m)'
  <1>1. Among(Message("kick_member", m), channel) => Among(Message("kick_member", m), channel')
    BY AmongTail DEF TypeOK, Handled
  <1> QED  BY <1>1 DEF Ending, of, at

LEMMA DoorListener ==
  ASSUME TypeOK, NEW m \in Member, Door(m), lost \subseteq lost',
         Listener \/ stop_bot \/ start_bot_listener
  PROVE  Door(m)'
  <1>1. CASE _handle_approve_and_welcome
    <2>1. PICK n \in Member : n = Head(channel).member
      BY <1>1, HandledEffect DEF _handle_approve_and_welcome, Head_
    <2>2. /\ channel # <<>> /\ Handled /\ Head(channel).kind = "approve_and_welcome"
          /\ UNCHANGED <<sub, worker, updates, handler>> /\ approve_chat_join_request(n)
      BY <1>1, <2>1 DEF _handle_approve_and_welcome, Head_, rq
    <2>3. Head(channel) # Message("kick_member", m)  BY <2>2 DEF Message
    <2>4. Ending(m) => Ending(m)'  BY <2>2, <2>3, EndingHandled
    <2>5. CASE n = m  BY <2>2, <2>4, <2>5, HandlerStays, ApprovalKeeps
    <2>6. CASE n # m  BY <2>2, <2>4, <2>6, HandlerStays, OtherApproval, CalmKeeps
    <2> QED  BY <2>5, <2>6
  <1>2. CASE _handle_renewal_reminder
    <2>1. /\ channel # <<>> /\ Handled /\ Head(channel).kind = "send_renewal_reminder"
          /\ UNCHANGED <<sub, worker, updates, handler, chat>>
      BY <1>2 DEF _handle_renewal_reminder, Head_, rq, room
    <2>2. Head(channel) # Message("kick_member", m)  BY <2>1 DEF Message
    <2>3. Ending(m) => Ending(m)'  BY <2>1, <2>2, EndingHandled
    <2>4. Calm(m)  BY <2>1, <2>3, UpdatesStay, HandlerStays DEF Calm, SameRow
    <2> QED  BY <2>4, CalmKeeps
  <1>3. CASE _handle_kick_member
    <2>1. PICK n \in Member : n = Head(channel).member
      BY <1>3, HandledEffect DEF _handle_kick_member, Head_
    <2>2. /\ channel # <<>> /\ Handled /\ UNCHANGED <<sub, worker, handler>>
          /\ \/ ban_chat_member(n)
             \/ Fault(n) /\ UNCHANGED <<chat, updates>>
      BY <1>3, <2>1 DEF _handle_kick_member, Head_, rq, room
    <2>3. CASE n = m
      <3>1. CASE ban_chat_member(m)
        <4>1. chat'[m] = "out"  BY <3>1 DEF ban_chat_member, TypeOK
        <4> QED  BY <4>1, OutIsFine
      <3>2. CASE Fault(m)
        BY <3>2 DEF Fault, Door
      <3> QED  BY <2>2, <2>3, <3>1, <3>2
    <2>4. CASE n # m
      <3>1. Head(channel) # Message("kick_member", m)  BY <2>1, <2>4 DEF Message
      <3>2. Ending(m) => Ending(m)'  BY <2>2, <3>1, EndingHandled
      <3>3. chat'[m] = chat[m] /\ SameUpdates(m)
        BY <2>2, <2>4, BanOther, UpdatesStay
      <3>4. Calm(m)  BY <2>2, <3>2, <3>3, HandlerStays DEF Calm, SameRow
      <3> QED  BY <3>4, CalmKeeps
    <2> QED  BY <2>3, <2>4
  <1>4. CASE unban_chat_member \/ start_bot_listener
    <2>1. UNCHANGED <<sub, worker, updates, handler, chat, channel>>
      BY <1>4 DEF unban_chat_member, start_bot_listener, rq, room
    <2>2. Calm(m)  BY <2>1, UpdatesStay, HandlerStays, EndingKept DEF Calm
    <2> QED  BY <2>2, CalmKeeps
  <1>5. CASE stop_bot
    <2>1. UNCHANGED <<sub, worker, updates, chat>>  BY <1>5 DEF stop_bot, rq, room
    <2>2. CASE m \in lost'  BY <2>2 DEF Door
    <2>3. CASE m \notin lost'
      <3>1. handler.member # m  BY <1>5, <2>3, MembershipAssumption DEF stop_bot
      <3>2. ~Noticed(m)' /\ ~Banning(m)  BY <1>5, <3>1 DEF stop_bot, Noticed, Banning, Idle
      <3>3. ~Among(Message("kick_member", m), channel)
        <4>1. \A i \in 1..Len(channel) : channel[i].member \in lost'
          BY <1>5 DEF stop_bot
        <4> QED  BY <2>3, <4>1 DEF Among, Message
      <3>4. Calm(m)
        BY <2>1, <3>2, <3>3, UpdatesStay, EndingKept DEF Calm, SameHandler
      <3> QED  BY <3>4, CalmKeeps
    <2> QED  BY <2>2, <2>3
  <1> QED  BY <1>1, <1>2, <1>3, <1>4, <1>5 DEF Listener

LEMMA DoorHandlers ==
  ASSUME TypeOK, PaidInTime, NEW m \in Member, Door(m), lost \subseteq lost', Handlers
  PROVE  Door(m)'
  <1>1. CASE handle_join_request
    <2>1. PICK n \in Member : n = Head(updates).member
      BY <1>1, UpdateEffect DEF handle_join_request, Update
    <2>2. /\ updates # <<>> /\ updates' = Tail(updates) /\ Head(updates).kind = "request"
          /\ UNCHANGED <<worker, channel, handler, chat>> /\ handler.pc = "idle"
          /\ sub' = [sub EXCEPT ![n] = [status |-> "pending", next |-> 0]]
      BY <1>1, <2>1 DEF handle_join_request, Update, Free, rq, room
    <2>3. CASE n = m
      <3>1. Head(updates) = Message("request", m) /\ Head(updates) \in Events
        BY <1>1, <2>1, <2>2, <2>3, UpdateEffect DEF Message, Events
      <3>2. Asked(m)
        <4>1. Head(updates) = updates[1] /\ 1 \in 1..Len(updates)
          BY <2>2, HeadTailProperties, EmptySeq, LenProperties DEF TypeOK
        <4> QED  BY <3>1, <4>1 DEF Asked, Among
      <3>3. sub'[m].status = "pending"  BY <2>2, <2>3 DEF TypeOK
      <3>4. chat[m] # "in" \/ m \in lost  BY <3>2 DEF Door
      <3>5. m \in lost \/ chat[m] # "asking" \/ LeftThenAsked(m)'
        BY <2>2, FollowsTail DEF Door, LeftThenAsked, TypeOK
      <3>6. ~Noticed(m)'  BY <2>2 DEF Noticed
      <3> QED  BY <2>2, <3>3, <3>4, <3>5, <3>6 DEF Door
    <2>4. CASE n # m
      <3>1. sub'[m] = sub[m]  BY <2>2, <2>4 DEF TypeOK
      <3>2. Calm(m)
        BY <2>1, <2>2, <2>4, <3>1, UpdatesTail, HandlerStays, EndingKept DEF Calm
      <3> QED  BY <3>2, CalmKeeps
    <2> QED  BY <2>3, <2>4
  <1>2. CASE handle_chat_member
    <2>1. PICK n \in Member : n = Head(updates).member
      BY <1>2, UpdateEffect DEF handle_chat_member, Update
    <2>2. /\ updates # <<>> /\ updates' = Tail(updates) /\ Head(updates).kind = "gone"
          /\ UNCHANGED <<sub, worker, channel, chat>> /\ handler.pc = "idle"
          /\ Work("gone", n, sub[n].status)
      BY <1>2, <2>1 DEF handle_chat_member, Update, Free, rq, room
    <2>3. CASE n = m
      <3>1. Head(updates) = Message("gone", m) /\ Head(updates) \in Events
        BY <1>2, <2>1, <2>2, <2>3, UpdateEffect DEF Message, Events
      <3>2. Left(m)
        <4>1. Head(updates) = updates[1] /\ 1 \in 1..Len(updates)
          BY <2>2, HeadTailProperties, EmptySeq, LenProperties DEF TypeOK
        <4> QED  BY <3>1, <4>1 DEF Left, Among
      <3>3. chat[m] # "in" \/ m \in lost  BY <3>2 DEF Door
      <3>4. m \in lost \/ chat[m] # "asking" \/ (LeftThenAsked(m)' /\ Asked(m)')
        BY <2>2, <3>1, FollowsTail DEF Door, LeftThenAsked, Asked, TypeOK
      <3> QED  BY <2>2, <3>3, <3>4 DEF Door
    <2>4. CASE n # m
      <3>1. SameHandler(m)
        BY <2>2, <2>4 DEF Work, SameHandler, Noticed, Banning
      <3>2. Calm(m)
        BY <2>1, <2>2, <2>4, <3>1, UpdatesTail, EndingKept DEF Calm
      <3> QED  BY <3>2, CalmKeeps
    <2> QED  BY <2>3, <2>4
  <1>3. ASSUME NEW n \in Member, cancel_left(n) PROVE Door(m)'
    <2>1. /\ UNCHANGED <<worker, channel, updates, chat>> /\ handler' = Idle
          /\ handler.pc = "gone" /\ handler.member = n
      BY <1>3 DEF cancel_left, rq, room
    <2>2. ~Noticed(m)' /\ ~Banning(m)  BY <2>1 DEF Noticed, Banning, Idle
    <2>3. CASE n = m
      <3>1. Noticed(m)  BY <2>1, <2>3 DEF Noticed
      <3>2. m \in lost \/ chat[m] # "in"  BY <3>1 DEF Door
      <3>3. m \in lost \/ chat[m] # "asking" \/ (Asked(m)' /\ LeftThenAsked(m)')
        BY <2>1, <3>1 DEF Door, Asked, LeftThenAsked
      <3> QED  BY <2>1, <2>2, <3>2, <3>3 DEF Door
    <2>4. CASE n # m
      <3>1. sub'[m] = sub[m]
        BY <1>3, <2>4 DEF cancel_left, SetStatus, TypeOK
      <3>2. Calm(m)
        BY <2>1, <2>2, <3>1, UpdatesStay, EndingKept DEF Calm, SameHandler
      <3> QED  BY <3>2, CalmKeeps
    <2> QED  BY <2>3, <2>4
  <1>4. ASSUME NEW n \in Member, kick_ban(n) PROVE Door(m)'
    <2>1. /\ UNCHANGED <<sub, worker, channel>> /\ handler.pc = "ban" /\ handler.member = n
          /\ handler'.pc \in {"unban", "idle"}
      BY <1>4 DEF kick_ban, rq, Work, Idle
    <2>2. CASE n = m
      <3>1. CASE ban_chat_member(m)
        <4>1. chat'[m] = "out"  BY <3>1 DEF ban_chat_member, TypeOK
        <4> QED  BY <4>1, OutIsFine
      <3>2. CASE Fault(m)  BY <3>2 DEF Fault, Door
      <3> QED  BY <1>4, <2>2, <3>1, <3>2 DEF kick_ban
    <2>3. CASE n # m
      <3>1. chat'[m] = chat[m] /\ SameUpdates(m)
        BY <1>4, <2>3, BanOther, UpdatesStay DEF kick_ban, room
      <3>2. SameHandler(m)  BY <2>1, <2>3 DEF SameHandler, Noticed, Banning
      <3>3. Calm(m)  BY <2>1, <3>1, <3>2, EndingKept DEF Calm
      <3> QED  BY <3>3, CalmKeeps
    <2> QED  BY <2>2, <2>3
  <1>5. ASSUME NEW n \in Member, kick_unban(n) PROVE Door(m)'
    <2>1. /\ UNCHANGED <<sub, worker, channel, updates, chat>> /\ handler.pc = "unban"
          /\ handler' = Idle
      BY <1>5 DEF kick_unban, rq
    <2>2. SameHandler(m)  BY <2>1 DEF SameHandler, Noticed, Banning, Idle
    <2>3. Calm(m)  BY <2>1, <2>2, UpdatesStay, EndingKept DEF Calm
    <2> QED  BY <2>3, CalmKeeps
  <1>6. ASSUME NEW n \in Member, comp_approve(n) PROVE Door(m)'
    <2>1. /\ UNCHANGED <<sub, worker, channel, updates>> /\ handler.pc = "approve"
          /\ handler' = Idle /\ approve_chat_join_request(n)
      BY <1>6 DEF comp_approve, rq
    <2>2. SameHandler(m)  BY <2>1 DEF SameHandler, Noticed, Banning, Idle
    <2>3. Ending(m) => Ending(m)'  BY <2>1 DEF Ending, of, at
    <2> QED  BY <2>1, <2>2, <2>3, ApprovalKeeps, OtherApproval, CalmKeeps
  <1> QED  BY <1>1, <1>2, <1>3, <1>4, <1>5, <1>6 DEF Handlers

LEMMA DoorOperators ==
  ASSUME TypeOK, PaidInTime, NEW m \in Member, Door(m), lost \subseteq lost', Operators
  PROVE  Door(m)'
  <1>1. PICK n \in Member :
            \/ cb_member_kick(n) \/ cb_member_comp(n) \/ api_group_comp(n)
            \/ force_cancel_subscription(n) \/ force_expire_subscription(n)
    BY DEF Operators
  <1>2. PICK s \in Statuses \ {"none", "active"} : SetStatus(n, s)
    BY <1>1 DEF cb_member_kick, cb_member_comp, api_group_comp, force_cancel_subscription,
           force_expire_subscription, Statuses
  <1>3. UNCHANGED <<worker, channel, updates, chat>>
    BY <1>1 DEF cb_member_kick, cb_member_comp, api_group_comp, force_cancel_subscription,
           force_expire_subscription, rq, bot, room
  <1>4. CASE n # m
    <2>1. sub'[m] = sub[m]  BY <1>2, <1>4, StatusEffect
    <2>2. SameHandler(m)
      BY <1>1, <1>4 DEF cb_member_kick, cb_member_comp, api_group_comp, Free, Work,
           force_cancel_subscription, force_expire_subscription, bot, SameHandler, Noticed, Banning
    <2>3. Calm(m)  BY <1>3, <2>1, <2>2, UpdatesStay, EndingKept DEF Calm
    <2> QED  BY <2>3, CalmKeeps
  <1>5. CASE n = m /\ cb_member_kick(m)
    <2>1. chat[m] = "in" /\ Banning(m)' /\ ~Noticed(m)'
      BY <1>5 DEF cb_member_kick, Work, Banning, Noticed
    <2>2. m \in lost \/ (~Asked(m)' /\ ~Left(m)')
      BY <1>3, <2>1 DEF Door, Asked, Left
    <2> QED  BY <1>3, <2>1, <2>2 DEF Door
  <1>6. CASE n = m /\ (cb_member_comp(m) \/ api_group_comp(m))
    <2>1. sub'[m].status = "comped"
      BY <1>6 DEF cb_member_comp, api_group_comp, SetStatus, TypeOK, Rows
    <2>2. SameHandler(m)
      BY <1>6 DEF cb_member_comp, api_group_comp, Free, Work, bot, SameHandler, Noticed, Banning
    <2>3. Calm(m)  BY <1>3, <2>1, <2>2, UpdatesStay DEF Calm, SameRow
    <2> QED  BY <2>3, CalmKeeps
  <1>7. CASE n = m /\ (force_cancel_subscription(m) \/ force_expire_subscription(m))
    BY <1>7 DEF force_cancel_subscription, force_expire_subscription, Door
  <1> QED  BY <1>1, <1>4, <1>5, <1>6, <1>7

LEMMA DoorStep ==
  ASSUME TypeOK, PaidInTime, [Next]_vars, \A m \in Member : Door(m), NEW m \in Member
  PROVE  Door(m)'
  <1>0. lost \subseteq lost'  BY LostGrows
  <1>1. CASE \/ Tick \/ renewal_reminder_job \/ grace_enforcement_job
             \/ \E n \in Member : \/ Pay(n) \/ activate_subscription(n)
                                  \/ n # m /\ (Ask(n) \/ Leave(n))
    BY <1>0, <1>1, CalmOutside, CalmKeeps
  <1>2. CASE Ask(m)
    <2>1. /\ chat[m] = "out" /\ chat'[m] = "asking" /\ UNCHANGED handler
          /\ updates' = Append(updates, Message("request", m))
      BY <1>2 DEF Ask, TypeOK
    <2>2. Message("request", m) \in Events /\ Message("request", m) # Message("gone", m)
      BY DEF Message, Events
    <2>3. Asked(m)'  BY <2>1, <2>2, AmongAppend DEF Asked, TypeOK
    <2>4. LeftThenAsked(m)'
      BY <2>1, <2>2, FollowsAppend DEF LeftThenAsked, TypeOK
    <2> QED  BY <2>1, <2>3, <2>4 DEF Door
  <1>3. CASE Leave(m)
    <2>1. chat'[m] = "out"  BY <1>3 DEF Leave, TypeOK
    <2> QED  BY <2>1, OutIsFine
  <1>4. CASE Workers
    BY <1>0, <1>4, CalmWorkers, CalmKeeps
  <1>5. CASE Listener \/ stop_bot \/ start_bot_listener
    BY <1>0, <1>5, DoorListener
  <1>6. CASE Handlers
    BY <1>0, <1>6, DoorHandlers
  <1>7. CASE Operators
    BY <1>0, <1>7, DoorOperators
  <1>8. CASE UNCHANGED vars
    BY <1>8 DEF vars, rq, bot, room, past, Door, Ending, Banning, Noticed, Asked, Left,
                LeftThenAsked, of, at
  <1> QED  BY <1>1, <1>2, <1>3, <1>4, <1>5, <1>6, <1>7, <1>8 DEF Next, Members

\* Whoever sits in the chat without an active or free membership is on the way out: a
\* task, a message or the admin's handler still has the removal to make, unless a fault
\* or a race that is noted has lost it.
THEOREM NobodyRidesFree == Spec => []NoFreeRider
  <1>1. Init => \A m \in Member : Door(m)
    BY DEF Init, Door
  <1>2. TypeOK /\ PaidInTime /\ (\A m \in Member : Door(m)) /\ [Next]_vars =>
          (\A m \in Member : Door(m))'
    BY DoorStep
  <1>3. (\A m \in Member : Door(m)) => NoFreeRider
    <2> SUFFICES ASSUME NEW m \in Member, Door(m), chat[m] = "in",
                        sub[m].status \notin {"active", "comped"}, m \notin lost
                 PROVE  RemovalIsUnderWay(m)
      BY DEF NoFreeRider
    <2>1. Ending(m) \/ Banning(m)  BY DEF Door
    <2> QED  BY <2>1 DEF Ending, Banning, Among, RemovalIsUnderWay, at
  <1> QED  BY <1>1, <1>2, <1>3, TypeInit, TypeStep, PTL DEF Spec

-----------------------------------------------------------------------------
(* How many reminders a cycle gets.                                        *)

\* The workers that have found the log empty and are to publish the reminder.
OnIt(m, c) == {w \in Worker : /\ worker[w].pc \in {"record", "remind"}
                              /\ worker[w].task = Remind(m, c)}

\* What was published and what is about to be come from different workers as long as the
\* log is empty, and once it is not, nobody joins them.
Sent ==
    /\ reminded \in [Member \X Cycle -> Nat]
    /\ \A m \in Member, c \in Cycle :
          /\ reminded[<<m, c>>] + Cardinality(OnIt(m, c)) <= Cardinality(Worker)
          /\ reminded[<<m, c>>] > 0 => <<m, c>> \in logged
    /\ \A w \in Worker : at(w, "remind") => <<of(w), worker[w].task.cycle>> \in logged

LEMMA OnItFacts ==
  ASSUME IsFiniteSet(Worker), NEW m, NEW c
  PROVE  /\ Cardinality(Worker) \in Nat
         /\ OnIt(m, c) \subseteq Worker /\ IsFiniteSet(OnIt(m, c))
         /\ Cardinality(OnIt(m, c)) \in Nat /\ Cardinality(OnIt(m, c)) <= Cardinality(Worker)
         /\ \A S : S \subseteq OnIt(m, c) => /\ Cardinality(S) \in Nat
                                             /\ Cardinality(S) <= Cardinality(OnIt(m, c))
  <1>1. OnIt(m, c) \subseteq Worker  BY DEF OnIt
  <1>2. IsFiniteSet(OnIt(m, c)) /\ Cardinality(OnIt(m, c)) <= Cardinality(Worker)
    BY <1>1, FS_Subset
  <1>3. \A S : S \subseteq OnIt(m, c) =>
           IsFiniteSet(S) /\ Cardinality(S) <= Cardinality(OnIt(m, c))
    BY <1>2, FS_Subset
  <1> QED  BY <1>1, <1>2, <1>3, FS_CardinalityType

\* A step after which no worker is to publish that was not before.
LEMMA SentKept ==
  ASSUME Sent, IsFiniteSet(Worker), UNCHANGED reminded, logged \subseteq logged',
         \A w \in Worker :
            \/ worker'[w] = worker[w]
            \/ worker'[w].pc \notin {"record", "remind"}
            \/ /\ worker[w].pc \in {"record", "remind"} /\ worker'[w].task = worker[w].task
               /\ <<of(w), worker[w].task.cycle>> \in logged'
  PROVE  Sent'
  <1>1. ASSUME NEW m \in Member, NEW c \in Cycle
        PROVE  reminded[<<m, c>>] + Cardinality(OnIt(m, c)') <= Cardinality(Worker)
    <2>1. OnIt(m, c)' \subseteq OnIt(m, c)  BY DEF OnIt
    <2>2. /\ Cardinality(OnIt(m, c)') <= Cardinality(OnIt(m, c))
          /\ Cardinality(OnIt(m, c)') \in Nat /\ Cardinality(OnIt(m, c)) \in Nat
          /\ Cardinality(Worker) \in Nat
      BY <2>1, OnItFacts
    <2>3. reminded[<<m, c>>] \in Nat
          /\ reminded[<<m, c>>] + Cardinality(OnIt(m, c)) <= Cardinality(Worker)
      BY DEF Sent
    <2> QED  BY <2>2, <2>3
  <1>2. \A w \in Worker : at(w, "remind")' => <<of(w), worker[w].task.cycle>>' \in logged'
    BY DEF Sent, at, of
  <1> QED  BY <1>1, <1>2 DEF Sent

LEMMA SentStep ==
  ASSUME TypeOK, Sent, IsFiniteSet(Worker), [Next]_vars
  PROVE  Sent'
  <1>1. CASE UNCHANGED <<worker, logged, reminded>>  BY <1>1, SentKept
  <1>2. ASSUME NEW w \in Worker, NEW t \in Task, take(w, t) PROVE Sent'
    <2>1. UNCHANGED <<logged, reminded>>  BY <1>2 DEF take, past
    <2> QED  BY <1>2, <2>1, TakeEffect, SentKept
  <1>3. ASSUME NEW w \in Worker, fail(w) PROVE Sent'
    <2>1. UNCHANGED <<logged, reminded>> /\ Done(w)  BY <1>3 DEF fail
    <2> QED  BY <2>1, DoneEffect, SentKept DEF TypeOK
  <1>4. ASSUME NEW w \in Worker, read_status(w) \/ set_expired(w) \/ _was_expired(w) PROVE Sent'
    <2>1. UNCHANGED <<logged, reminded>>
      BY <1>4 DEF read_status, set_expired, _was_expired, past
    <2>2. worker[w] \in Expiring
          /\ (Done(w) \/ \E pc \in {"verify", "expire", "kick"} : Goto(w, pc))
      BY <1>4, WorkerFacts DEF read_status, set_expired, _was_expired, at
    <2>3. /\ worker'[w].pc \notin {"record", "remind"}
          /\ \A i \in Worker : i # w => worker'[i] = worker[i]
      BY <2>2, DoneEffect, GotoEffect DEF TypeOK
    <2> QED  BY <2>1, <2>3, SentKept
  <1>5. ASSUME NEW w \in Worker, publish_kick(w) PROVE Sent'
    <2>1. UNCHANGED <<logged, reminded>> /\ Done(w)  BY <1>5 DEF publish_kick
    <2> QED  BY <2>1, DoneEffect, SentKept DEF TypeOK
  <1>6. ASSUME NEW w \in Worker, record_reminder_sent(w) PROVE Sent'
    <2>1. /\ UNCHANGED reminded /\ at(w, "record") /\ Goto(w, "remind")
          /\ logged' = logged \cup {<<of(w), worker[w].task.cycle>>}
      BY <1>6 DEF record_reminder_sent, past
    <2>2. worker[w] \in Reminding  BY <2>1, WorkerFacts DEF at
    <2>3. /\ worker'[w].task = worker[w].task
          /\ \A i \in Worker : i # w => worker'[i] = worker[i]
      BY <2>1, <2>2, GotoEffect DEF TypeOK
    <2> QED  BY <2>1, <2>3, SentKept DEF at
  <1>7. ASSUME NEW w \in Worker, has_reminder_been_sent(w) PROVE Sent'
    <2>1. UNCHANGED <<logged, reminded>> /\ at(w, "has")
      BY <1>7 DEF has_reminder_been_sent, past
    <2>2. CASE Done(w)  BY <2>1, <2>2, DoneEffect, SentKept DEF TypeOK
    <2>3. CASE Goto(w, "record") /\ <<of(w), worker[w].task.cycle>> \notin logged
      <3>1. worker[w] \in Reminding  BY <2>1, WorkerFacts DEF at
      <3>2. /\ worker'[w].task = worker[w].task /\ worker'[w].pc = "record"
            /\ \A i \in Worker : i # w => worker'[i] = worker[i]
        BY <2>3, <3>1, GotoEffect DEF TypeOK
      <3>3. ASSUME NEW m \in Member, NEW c \in Cycle
            PROVE  reminded[<<m, c>>] + Cardinality(OnIt(m, c)') <= Cardinality(Worker)
        <4>1. /\ reminded[<<m, c>>] \in Nat /\ (reminded[<<m, c>>] > 0 => <<m, c>> \in logged)
              /\ reminded[<<m, c>>] + Cardinality(OnIt(m, c)) <= Cardinality(Worker)
          BY DEF Sent
        <4>2. Cardinality(Worker) \in Nat /\ Cardinality(OnIt(m, c)) \in Nat  BY OnItFacts
        <4>3. CASE worker[w].task = Remind(m, c)
          <5>1. <<m, c>> \notin logged  BY <2>3, <4>3, TaskFacts DEF of
          <5>2. reminded[<<m, c>>] = 0  BY <4>1, <5>1
          <5>3. OnIt(m, c)' \subseteq Worker  BY DEF OnIt
          <5>4. Cardinality(OnIt(m, c)') <= Cardinality(Worker)
                /\ Cardinality(OnIt(m, c)') \in Nat
            BY <5>3, FS_Subset, FS_CardinalityType
          <5> QED  BY <5>2, <5>4
        <4>4. CASE worker[w].task # Remind(m, c)
          <5>1. OnIt(m, c)' \subseteq OnIt(m, c)  BY <3>2, <4>4 DEF OnIt
          <5>2. /\ Cardinality(OnIt(m, c)') <= Cardinality(OnIt(m, c))
                /\ Cardinality(OnIt(m, c)') \in Nat
            BY <5>1, OnItFacts
          <5> QED  BY <4>1, <4>2, <5>2
        <4> QED  BY <4>3, <4>4
      <3>4. \A i \in Worker : at(i, "remind")' =>
               <<of(i), worker[i].task.cycle>>' \in logged'
        BY <2>1, <3>2 DEF Sent, at, of
      <3> QED  BY <2>1, <3>3, <3>4 DEF Sent
    <2> QED  BY <1>7, <2>2, <2>3 DEF has_reminder_been_sent
  <1>8. ASSUME NEW w \in Worker, publish_reminder(w) PROVE Sent'
    <2> DEFINE t == worker[w].task
    <2>1. /\ at(w, "remind") /\ Done(w) /\ UNCHANGED logged
          /\ reminded' = [reminded EXCEPT ![<<of(w), t.cycle>>] = reminded[<<of(w), t.cycle>>] + 1]
      BY <1>8 DEF publish_reminder
    <2>2. worker[w] \in Reminding  BY <2>1, WorkerFacts DEF at
    <2>3. PICK n \in Member, d \in Cycle : t = Remind(n, d)  BY <2>2 DEF Reminding
    <2>4. of(w) = n /\ t.cycle = d  BY <2>3, TaskFacts DEF of
    <2> HIDE DEF t
    <2>5. /\ worker'[w].pc = "idle"
          /\ \A i \in Worker : i # w => worker'[i] = worker[i]
      BY <2>1, DoneEffect DEF TypeOK
    <2>6. /\ reminded \in [Member \X Cycle -> Nat] /\ <<n, d>> \in Member \X Cycle
          /\ reminded' = [reminded EXCEPT ![<<n, d>>] = reminded[<<n, d>>] + 1]
      BY <2>1, <2>4 DEF Sent
    <2>7. /\ reminded' \in [Member \X Cycle -> Nat]
          /\ \A m \in Member, c \in Cycle :
                reminded'[<<m, c>>] = IF m = n /\ c = d THEN reminded[<<m, c>>] + 1 ELSE reminded[<<m, c>>]
      BY <2>6
    <2>8. <<n, d>> \in logged  BY <2>1, <2>4 DEF Sent, t
    <2>9. ASSUME NEW m \in Member, NEW c \in Cycle
          PROVE  reminded'[<<m, c>>] + Cardinality(OnIt(m, c)') <= Cardinality(Worker)
      <3>1. /\ reminded[<<m, c>>] \in Nat
            /\ reminded[<<m, c>>] + Cardinality(OnIt(m, c)) <= Cardinality(Worker)
        BY DEF Sent
      <3>2. OnIt(m, c)' \subseteq OnIt(m, c) \ {w}  BY <2>5 DEF OnIt
      <3>3. /\ Cardinality(OnIt(m, c)') <= Cardinality(OnIt(m, c))
            /\ Cardinality(OnIt(m, c)') \in Nat /\ Cardinality(OnIt(m, c)) \in Nat
            /\ Cardinality(Worker) \in Nat /\ IsFiniteSet(OnIt(m, c))
        BY <3>2, OnItFacts
      <3>4. CASE m = n /\ c = d
        <4>1. w \in OnIt(m, c)  BY <2>1, <2>3, <3>4 DEF OnIt, at, t
        <4>2. /\ IsFiniteSet(OnIt(m, c) \ {w})
              /\ Cardinality(OnIt(m, c) \ {w}) = Cardinality(OnIt(m, c)) - 1
          BY <3>3, <4>1, FS_RemoveElement
        <4>3. Cardinality(OnIt(m, c)') <= Cardinality(OnIt(m, c)) - 1
          BY <3>2, <4>2, FS_Subset
        <4> QED  BY <2>7, <3>1, <3>3, <3>4, <4>3
      <3>5. CASE ~(m = n /\ c = d)  BY <2>7, <3>1, <3>3, <3>5
      <3> QED  BY <3>4, <3>5
    <2>10. \A m \in Member, c \in Cycle : reminded'[<<m, c>>] > 0 => <<m, c>> \in logged'
      BY <2>1, <2>7, <2>8 DEF Sent
    <2>11. \A i \in Worker : at(i, "remind")' => <<of(i), worker[i].task.cycle>>' \in logged'
      BY <2>1, <2>5 DEF Sent, at, of
    <2> QED  BY <2>7, <2>9, <2>10, <2>11 DEF Sent
  <1>9. CASE Workers
    BY <1>2, <1>3, <1>4, <1>5, <1>6, <1>7, <1>8, <1>9 DEF Workers, Step
  <1>10. CASE Tick \/ Members
    <2>1. UNCHANGED <<worker, logged, reminded>>
      BY <1>10 DEF Tick, Members, Ask, Leave, Pay, activate_subscription, rq, past
    <2> QED  BY <1>1, <2>1
  <1>11. CASE renewal_reminder_job \/ grace_enforcement_job
    <2>1. UNCHANGED <<worker, logged, reminded>>
      BY <1>11 DEF renewal_reminder_job, grace_enforcement_job, enqueue, past
    <2> QED  BY <1>1, <2>1
  <1>12. CASE Listener \/ stop_bot \/ start_bot_listener
    <2>1. UNCHANGED <<worker, logged, reminded>>
      BY <1>12 DEF Listener, _handle_approve_and_welcome, _handle_renewal_reminder,
                   _handle_kick_member, unban_chat_member, stop_bot, start_bot_listener,
                   approve_chat_join_request, rq, past
    <2> QED  BY <1>1, <2>1
  <1>13. CASE Handlers
    <2>1. UNCHANGED <<worker, logged, reminded>>
      BY <1>13 DEF Handlers, handle_join_request, handle_chat_member, cancel_left, kick_ban,
                   kick_unban, comp_approve, approve_chat_join_request, rq, past
    <2> QED  BY <1>1, <2>1
  <1>14. CASE Operators
    <2>1. UNCHANGED <<worker, logged, reminded>>
      BY <1>14 DEF Operators, cb_member_kick, cb_member_comp, api_group_comp,
                   force_cancel_subscription, force_expire_subscription, rq, past
    <2> QED  BY <1>1, <2>1
  <1>15. CASE UNCHANGED vars  BY <1>1, <1>15 DEF vars, rq, past
  <1> QED  BY <1>9, <1>10, <1>11, <1>12, <1>13, <1>14, <1>15 DEF Next

\* Whatever the hourly job enqueues and however the tasks overlap, a cycle's reminder goes
\* out at most once for each worker process.
THEOREM RemindersAreFew == ASSUME IsFiniteSet(Worker) PROVE Spec => []RemindersBounded
  <1>1. Init => Sent
    <2> SUFFICES ASSUME Init PROVE Sent  OBVIOUS
    <2>1. /\ reminded \in [Member \X Cycle -> Nat]
          /\ \A m \in Member, c \in Cycle : reminded[<<m, c>>] = 0
      BY DEF Init
    <2>2. \A w \in Worker : worker[w].pc = "idle"  BY TaskFacts DEF Init
    <2>3. ASSUME NEW m \in Member, NEW c \in Cycle
          PROVE  reminded[<<m, c>>] + Cardinality(OnIt(m, c)) <= Cardinality(Worker)
      <3>1. reminded[<<m, c>>] = 0  BY <2>1
      <3> QED  BY <3>1, OnItFacts
    <2> QED  BY <2>1, <2>2, <2>3 DEF Sent, at
  <1>2. TypeOK /\ Sent /\ [Next]_vars => Sent'  BY SentStep
  <1>3. Sent => RemindersBounded
    <2> SUFFICES ASSUME Sent, NEW m \in Member, NEW c \in Cycle
                 PROVE  reminded[<<m, c>>] <= Cardinality(Worker)
      BY DEF RemindersBounded
    <2>1. /\ reminded[<<m, c>>] \in Nat
          /\ reminded[<<m, c>>] + Cardinality(OnIt(m, c)) <= Cardinality(Worker)
      BY DEF Sent
    <2> QED  BY <2>1, OnItFacts
  <1> QED  BY <1>1, <1>2, <1>3, TypeInit, TypeStep, PTL DEF Spec
=============================================================================
