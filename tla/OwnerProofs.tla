----------------------------- MODULE OwnerProofs -----------------------------
(***************************************************************************)
(* Theorems about what an owner has: the paywalled chat, the passkey of a  *)
(* payout wallet and the console of a platform, for any number of admins,  *)
(* requests and keys, any operations and any bounds.                       *)
(*                                                                         *)
(* The group's definitions are taken as they are, those of the passkey and *)
(* of the console under P and C.                                           *)
(***************************************************************************)
EXTENDS Owner, FiniteSetTheorems, SequenceTheorems, TLAPS

-----------------------------------------------------------------------------
(* The group: what its statements write.                                   *)

Places == {"idle", "freeze", "upsert", "link", "activate", "price", "resolve",
           "status", "suspend", "cancel", "leave", "delete", "subscribe"}

LEMMA DoEffect ==
  ASSUME TypeOK, NEW t \in Thread, NEW q \in Tasks, Do(t, q)
  PROVE  /\ task' \in [Thread -> Tasks] /\ task'[t] = q
         /\ \A u \in Thread : u # t => task'[u] = task[u]
  BY DEF TypeOK, Do

LEMMA ThenEffect ==
  ASSUME TypeOK, NEW t \in Thread, NEW p \in Places, Then(t, p)
  PROVE  /\ task' \in [Thread -> Tasks] /\ task'[t] = [task[t] EXCEPT !.at = p]
         /\ \A u \in Thread : u # t => task'[u] = task[u]
  <1>1. task[t] \in Tasks  BY DEF TypeOK
  <1>2. [task[t] EXCEPT !.at = p] \in Tasks  BY ONLY <1>1, p \in Places DEF Tasks, Places
  <1>3. task' = [task EXCEPT ![t] = [task[t] EXCEPT !.at = p]]  BY DEF Then
  <1> QED  BY <1>2, <1>3 DEF TypeOK

LEMMA RestIs == Rest \in Tasks /\ Rest.at = "idle" /\ Rest.op = "none"
  BY DEF Rest, Tasks

LEMMA AbsentIs == Absent \in Groups /\ Absent.status = "absent" /\ Absent.owner = Nobody
  BY DEF Absent, Groups

LEMMA NoWizardIs ==
  NoWizard \in Wizards /\ NoWizard.step = "none" /\ NoWizard.chat = FALSE
  BY DEF NoWizard, Wizards
-----------------------------------------------------------------------------
(* The wizard: what a step of it makes of its state.                       *)

\* The user made the bot an admin of the chat, with every right it needs.
Granted(a) == \E i \in DOMAIN grants : grants[i].by = a /\ grants[i].perms

\* The steps that only a chat without missing rights leads to.
Deep == {"detect", "fee", "interval", "price", "agree", "wallet", "final"}

\* What the wizard of a may come to be.
Legal(a, w) ==
    /\ w \in Wizards
    /\ w.step \in Deep => Granted(a)
    /\ w.step = "final" => w.shown = <<w.price, w.wallet>>

LEMMA GrantFacts ==
  ASSUME TypeOK, NEW a, NEW k \in 0 .. Len(grants), NEW i \in Recent(a, k)
  PROVE  grants[i] \in Grants /\ (grants[i].perms => Granted(a))
  <1>1. i \in 1 .. Len(grants) /\ DOMAIN grants = 1 .. Len(grants) /\ grants[i].by = a
    BY LenProperties DEF TypeOK, Recent
  <1>2. grants[i] \in Grants  BY <1>1, ElementOfSeq DEF TypeOK
  <1> QED  BY <1>1, <1>2 DEF Granted

LEMMA ToIsLegal ==
  ASSUME TypeOK, NEW a \in Admin, Legal(a, wizard[a]),
         NEW s \in {"none", "instructions", "pick", "detect", "fee", "interval", "price",
                    "agree", "wallet", "passkey", "confirm", "saved"},
         To(a, s), s \in Deep => wizard[a].step \in Deep \/ Granted(a)
  PROVE  \E w : Legal(a, w) /\ wizard' = [wizard EXCEPT ![a] = w]
  <1> DEFINE w == [wizard[a] EXCEPT !.step = s]
  <1>1. wizard[a] \in Wizards  BY DEF TypeOK
  <1>2. w \in Wizards /\ w.step = s  BY <1>1 DEF Wizards
  <1> QED  BY <1>2 DEF To, Legal

LEMMA PresentIsLegal ==
  ASSUME TypeOK, NEW a \in Admin, Legal(a, wizard[a]),
         NEW k \in 0 .. Len(grants), NEW i \in Recent(a, k), Present(a, i)
  PROVE  \E w : Legal(a, w) /\ wizard' = [wizard EXCEPT ![a] = w]
  <1>1. CASE grants[i].perms
    <2> DEFINE w == [wizard[a] EXCEPT !.step = "detect", !.chat = TRUE]
    <2>1. wizard[a] \in Wizards  BY DEF TypeOK
    <2>2. w \in Wizards /\ w.step = "detect"  BY <2>1 DEF Wizards
    <2>3. wizard' = [wizard EXCEPT ![a] = w]  BY <1>1 DEF Present
    <2>4. Legal(a, w)  BY <1>1, <2>2, GrantFacts DEF Legal
    <2> QED  BY <2>3, <2>4
  <1>2. CASE ~grants[i].perms
    <2>1. To(a, "instructions")  BY <1>2 DEF Present
    <2> QED  BY <2>1, ToIsLegal DEF Deep
  <1> QED  BY <1>1, <1>2

LEMMA WizardStep ==
  ASSUME TypeOK, NEW a \in Admin, Legal(a, wizard[a]), Wizard(a)
  PROVE  Ready /\ \E w : Legal(a, w) /\ wizard' = [wizard EXCEPT ![a] = w]
  <1> DEFINE Moved == \E w : Legal(a, w) /\ wizard' = [wizard EXCEPT ![a] = w]
  <1> USE DEF in_step
  <1>0. wizard[a] \in Wizards /\ Len(grants) \in Nat  BY LenProperties DEF TypeOK
  <1>a. Legal(a, NoWizard)  BY NoWizardIs DEF Legal, Deep
  <1>1. ASSUME cmd_create_paywall(a) PROVE Moved
    <2>1. CASE a \in barred  BY <1>1, <2>1, ToIsLegal DEF cmd_create_paywall, Deep
    <2>2. CASE a \notin barred
      <3> DEFINE w == [NoWizard EXCEPT !.step = "instructions"]
      <3>1. w \in Wizards /\ w.step = "instructions"  BY NoWizardIs DEF Wizards
      <3> QED  BY <1>1, <2>2, <3>1 DEF cmd_create_paywall, Go, Legal, Deep
    <2> QED  BY <2>1, <2>2
  <1>2. ASSUME cb_check_now(a) PROVE Moved
    <2>1. PICK k \in 0 .. Len(grants) :
             /\ Recent(a, k) # {}
             /\ IF group.status = "active" THEN Go(a, NoWizard)
                ELSE IF Recent(a, k) = Newest(a, k) THEN \A i \in Recent(a, k) : Present(a, i)
                ELSE To(a, "pick")
      BY <1>2 DEF cb_check_now
    <2>2. CASE Go(a, NoWizard)  BY <1>a, <2>2 DEF Go
    <2>3. CASE \A i \in Recent(a, k) : Present(a, i)  BY <2>1, <2>3, PresentIsLegal
    <2>4. CASE To(a, "pick")  BY <2>4, ToIsLegal DEF Deep
    <2> QED  BY <2>1, <2>2, <2>3, <2>4
  <1>3. ASSUME cb_pick_chat(a) PROVE Moved
    BY <1>0, <1>3, PresentIsLegal DEF cb_pick_chat
  <1>4. ASSUME cb_grant_confirm(a) PROVE Moved
    <2>1. PICK i \in Recent(a, 0) :
             Go(a, IF group.status = "active" THEN NoWizard
                   ELSE [NoWizard EXCEPT !.chat = TRUE,
                            !.step = IF grants[i].perms THEN "fee" ELSE "instructions"])
      BY <1>4 DEF cb_grant_confirm
    <2>2. CASE group.status = "active"  BY <1>a, <2>1, <2>2 DEF Go
    <2>3. CASE group.status # "active"
      <3>1. PICK s \in {"fee", "instructions"} :
               s = IF grants[i].perms THEN "fee" ELSE "instructions"
        OBVIOUS
      <3> DEFINE w == [NoWizard EXCEPT !.chat = TRUE, !.step = s]
      <3>2. w \in Wizards /\ w.step = s  BY NoWizardIs DEF Wizards
      <3>3. s = "fee" => Granted(a)  BY <1>0, <3>1, GrantFacts
      <3>4. Legal(a, w)  BY <3>2, <3>3 DEF Legal, Deep
      <3> QED  BY <2>1, <2>3, <3>1, <3>4 DEF Go
    <2> QED  BY <2>2, <2>3
  <1>5. ASSUME \/ cb_confirm_chat(a) \/ cb_fee_ok(a) \/ cb_interval(a) \/ cb_price_ok(a)
               \/ cb_back_to_instructions(a) \/ msg_passkey_set(a) \/ msg_passkey_again(a)
        PROVE  Moved
    BY <1>5, ToIsLegal DEF cb_confirm_chat, cb_fee_ok, cb_interval, cb_price_ok,
       cb_back_to_instructions, msg_passkey_set, msg_passkey_again, Deep
  <1>6. ASSUME msg_price(a) PROVE Moved
    <2>1. PICK p \in Price : wizard' = [wizard EXCEPT ![a].step = "agree", ![a].price = p]
      BY <1>6 DEF msg_price
    <2> DEFINE w == [wizard[a] EXCEPT !.step = "agree", !.price = p]
    <2>2. w \in Wizards /\ w.step = "agree"  BY <1>0 DEF Wizards
    <2>3. Legal(a, w)  BY <1>6, <2>2 DEF Legal, Deep, msg_price
    <2> QED  BY <2>1, <2>3
  <1>7. ASSUME msg_wallet(a) PROVE Moved
    <2>1. PICK v \in Wallet : wizard' = [wizard EXCEPT ![a].step = "final", ![a].wallet = v,
                                                       ![a].shown = <<wizard[a].price, v>>]
      BY <1>7 DEF msg_wallet
    <2> DEFINE w == [wizard[a] EXCEPT !.step = "final", !.wallet = v,
                                      !.shown = <<wizard[a].price, v>>]
    <2>2. /\ w \in Wizards /\ w.step = "final"
          /\ w.price = wizard[a].price /\ w.wallet = v /\ w.shown = <<wizard[a].price, v>>
      BY <1>0 DEF Wizards
    <2>3. Legal(a, w)  BY <1>7, <2>2 DEF Legal, Deep, msg_wallet
    <2>4. wizard' = [wizard EXCEPT ![a] = w]  BY <2>1
    <2> QED  BY <2>3, <2>4
  <1>8. ASSUME cmd_cancel(a) PROVE Moved
    BY <1>8, <1>a DEF cmd_cancel, Go
  <1>9. Ready
    BY DEF Wizard, cmd_create_paywall, cb_check_now, cb_pick_chat, cb_grant_confirm,
       cb_confirm_chat, cb_fee_ok, cb_interval, cb_price_ok, cb_back_to_instructions,
       msg_price, msg_wallet, cmd_cancel, msg_passkey_set, msg_passkey_again
  <1> QED
    BY <1>1, <1>2, <1>3, <1>4, <1>5, <1>6, <1>7, <1>8, <1>9 DEF Wizard

-----------------------------------------------------------------------------
(* Types.                                                                  *)

\* A promotion that has not been handled yet has its place in the bound.
Room == \A i \in DOMAIN updates : ~updates[i].gone => Len(grants) + i <= MaxGrants

LEMMA WriteEffect ==
  ASSUME TypeOK, NEW g \in Groups, g.status # "absent", Write(g)
  PROVE  group' \in Groups /\ (Exists' \/ group' = Absent) /\ (Exists' <=> Exists)
  BY DEF TypeOK, Write, Exists

LEMMA AppendUpdate ==
  ASSUME TypeOK, Room, NEW u \in Updates, updates' = Append(updates, u),
         UNCHANGED grants, ~u.gone => Len(grants) + Len(updates) < MaxGrants,
         GroupAssumption
  PROVE  updates' \in Seq(Updates) /\ Room'
  <1>1. /\ updates' \in Seq(Updates) /\ Len(updates) \in Nat /\ Len(grants) \in Nat
        /\ DOMAIN updates = 1 .. Len(updates) /\ DOMAIN updates' = 1 .. Len(updates) + 1
        /\ \A i \in 1 .. Len(updates) : updates'[i] = updates[i]
        /\ updates'[Len(updates) + 1] = u
    BY AppendProperties, LenProperties DEF TypeOK
  <1>2. MaxGrants \in Nat  BY DEF GroupAssumption
  <1>3. ASSUME NEW i \in DOMAIN updates', ~updates'[i].gone PROVE Len(grants) + i <= MaxGrants
    <2>1. CASE i \in 1 .. Len(updates)  BY <1>1, <1>3, <2>1 DEF Room
    <2>2. CASE i = Len(updates) + 1  BY <1>1, <1>2, <1>3, <2>2
    <2> QED  BY <1>1, <2>1, <2>2
  <1> QED  BY <1>1, <1>3 DEF Room

LEMMA HandleEffect ==
  ASSUME TypeOK, Room, GroupAssumption, handle_my_chat_member
  PROVE  /\ updates' \in Seq(Updates) /\ grants' \in Seq(Grants)
         /\ Len(grants') <= MaxGrants /\ Room'
         /\ \A a : Granted(a) => Granted(a)'
         /\ LET u == Head(updates) IN
               /\ u \in Updates /\ (~u.gone => u.by \in Admin)
               /\ \A a : a = u.by /\ ~u.gone /\ u.perms => Granted(a)'
  <1> DEFINE u == Head(updates)
             g == [by |-> u.by, perms |-> u.perms]
  <1>1. /\ updates # <<>> /\ updates' = Tail(updates)
        /\ grants' = IF u.gone THEN grants ELSE Append(grants, g)
    BY DEF handle_my_chat_member
  <1>2. /\ updates' \in Seq(Updates) /\ u \in Updates /\ u = updates[1]
        /\ Len(updates) \in Nat /\ Len(updates) > 0 /\ Len(grants) \in Nat
        /\ DOMAIN updates = 1 .. Len(updates) /\ DOMAIN updates' = 1 .. Len(updates) - 1
        /\ \A i \in 1 .. Len(updates) - 1 : updates'[i] = updates[i + 1]
    BY <1>1, HeadTailProperties, LenProperties, EmptySeq DEF TypeOK
  <1>3. ~u.gone => u.by \in Admin /\ g \in Grants  BY <1>2 DEF Updates, Grants
  <1>4. /\ grants' \in Seq(Grants) /\ DOMAIN grants = 1 .. Len(grants)
        /\ DOMAIN grants' = 1 .. Len(grants')
        /\ \A i \in 1 .. Len(grants) : grants'[i] = grants[i] /\ i \in 1 .. Len(grants')
        /\ Len(grants') = IF u.gone THEN Len(grants) ELSE Len(grants) + 1
        /\ ~u.gone => grants'[Len(grants')] = g
    BY <1>1, <1>2, <1>3, AppendProperties, LenProperties DEF TypeOK
  <1>5. MaxGrants \in Nat  BY DEF GroupAssumption
  <1>6. Len(grants') <= MaxGrants
    <2>1. CASE u.gone
      <3>1. Len(grants') = Len(grants)  BY <1>4, <2>1
      <3> QED  BY <3>1 DEF TypeOK
    <2>2. CASE ~u.gone
      <3>1. 1 \in DOMAIN updates /\ ~updates[1].gone  BY <1>2, <2>2
      <3>2. Len(grants) + 1 <= MaxGrants  BY <3>1 DEF Room
      <3>3. Len(grants') = Len(grants) + 1  BY <1>4, <2>2
      <3> QED  BY <3>2, <3>3
    <2> QED  BY <2>1, <2>2
  <1>7. ASSUME NEW i \in 1 .. Len(updates) - 1, ~updates'[i].gone
        PROVE  Len(grants') + i <= MaxGrants
    <2>1. i + 1 \in DOMAIN updates /\ ~updates[i + 1].gone  BY <1>2, <1>7
    <2>2. Len(grants) + (i + 1) <= MaxGrants  BY <2>1 DEF Room
    <2>3. Len(grants') \in {Len(grants), Len(grants) + 1}  BY <1>4
    <2> QED  BY <1>2, <1>5, <2>2, <2>3
  <1>8. \A a : Granted(a) => Granted(a)'  BY <1>4 DEF Granted
  <1>9. ASSUME NEW a, a = u.by, ~u.gone, u.perms PROVE Granted(a)'
    <2>1. Len(grants') = Len(grants) + 1 /\ grants'[Len(grants')] = g  BY <1>4, <1>9
    <2>2. Len(grants') \in 1 .. Len(grants')  BY <1>2, <2>1
    <2>3. Len(grants') \in DOMAIN grants'  BY <1>4, <2>2
    <2>4. g.by = u.by /\ g.perms = u.perms  OBVIOUS
    <2> HIDE DEF g
    <2> QED  BY <1>9, <2>1, <2>3, <2>4 DEF Granted
  <1> QED  BY <1>2, <1>3, <1>4, <1>6, <1>7, <1>8, <1>9 DEF Room

LEMMA RestartEffect ==
  ASSUME TypeOK, Room, GroupAssumption, Restart
  PROVE  updates' \in Seq(Updates) /\ Room'
  <1>1. PICK n \in 0 .. Len(updates) : updates' = SubSeq(updates, n + 1, Len(updates))
    BY DEF Restart
  <1>2. Len(updates) \in Nat /\ Len(grants) \in Nat /\ DOMAIN updates = 1 .. Len(updates)
    BY LenProperties DEF TypeOK
  <1>3. /\ updates' \in Seq(Updates) /\ DOMAIN updates' = 1 .. Len(updates')
        /\ Len(updates') = Len(updates) - n
        /\ \A i \in 1 .. Len(updates) - n : updates'[i] = updates[n + i]
    <2>1. n + 1 \in 1 .. Len(updates) + 1 /\ Len(updates) \in n .. Len(updates)
      BY <1>1, <1>2
    <2>2. \A i \in n + 1 .. Len(updates) : updates[i] \in Updates
      BY <1>2, ElementOfSeq DEF TypeOK
    <2> DEFINE rest == SubSeq(updates, n + 1, Len(updates))
    <2>3. /\ rest \in Seq(Updates)
          /\ Len(rest) = IF n + 1 <= Len(updates) THEN Len(updates) - (n + 1) + 1 ELSE 0
          /\ \A i \in 1 .. Len(updates) - (n + 1) + 1 : rest[i] = updates[n + 1 + i - 1]
      <3>1. n + 1 \in Int /\ Len(updates) \in Int  BY <1>1, <1>2
      <3> QED  BY ONLY <2>2, <3>1, SubSeqProperties
    <2>4. updates' = rest  BY <1>1
    <2>5. PICK m \in Nat : m = Len(updates)  BY <1>2
    <2>6. n \in Nat /\ n <= m  BY <1>1, <2>5
    <2> HIDE DEF rest
    <2>7. Len(rest) = m - n
      <3>1. Len(rest) = IF n + 1 <= m THEN m - (n + 1) + 1 ELSE 0  BY ONLY <2>3, <2>5
      <3> QED  BY ONLY <2>5, <2>6, <3>1
    <2>8. DOMAIN rest = 1 .. Len(rest)  BY ONLY <2>3, LenProperties
    <2>9. ASSUME NEW i \in 1 .. m - n PROVE rest[i] = updates[n + i]
      <3>1. i \in 1 .. m - (n + 1) + 1 /\ n + 1 + i - 1 = n + i  BY ONLY <2>5, <2>6, <2>9
      <3>2. rest[i] = updates[n + 1 + i - 1]  BY ONLY <2>3, <2>5, <3>1
      <3> QED  BY ONLY <3>1, <3>2
    <2> QED  BY ONLY <2>3, <2>4, <2>5, <2>7, <2>8, <2>9
  <1>4. MaxGrants \in Nat /\ UNCHANGED grants  BY DEF GroupAssumption, Restart
  <1>5. ASSUME NEW i \in 1 .. Len(updates'), ~updates'[i].gone
        PROVE  Len(grants) + i <= MaxGrants
    <2>1. i \in 1 .. Len(updates) - n  BY <1>3
    <2>2. n + i \in DOMAIN updates  BY <1>1, <1>2, <2>1
    <2>3. ~updates[n + i].gone  BY <1>3, <1>5, <2>1
    <2>4. Len(grants) + (n + i) <= MaxGrants  BY <2>2, <2>3 DEF Room
    <2> QED  BY <1>2, <1>4, <2>1, <2>4
  <1> QED  BY <1>3, <1>4, <1>5 DEF Room

-----------------------------------------------------------------------------
(* The inductive invariant, and steps of the shapes that most actions have. *)

\* What thread t may be doing: who is about to own the group made the bot its
\* admin; what the wizard writes was shown to the user, whose wizard stands still
\* until it is written.
Sound(t, q) ==
    /\ q.at = "upsert" => Granted(q.by)
    /\ q.at = "status" => q.status \in {"active", "paused"}
    /\ q.op = "final" => /\ t = "bot" /\ q.at # "idle"
                         /\ wizard[q.by].shown = <<q.price, q.wallet>>

Owned == Exists => Granted(group.owner)
WizardsLegal == \A a \in Admin : Legal(a, wizard[a])
TasksSound == \A t \in Thread : Sound(t, task[t])

IInv == TypeOK /\ Room /\ Owned /\ WizardsLegal /\ TasksSound /\ NothingLeftBehind

LEMMA GrantsKept ==
  ASSUME UNCHANGED grants PROVE \A a : Granted(a) <=> Granted(a)'
  BY DEF Granted

LEMMA RestIsSound == ASSUME NEW t PROVE Sound(t, Rest)
  BY RestIs DEF Sound

LEMMA RestIsSoundNext == ASSUME NEW t PROVE Sound(t, Rest)'
  BY RestIs DEF Sound, Rest

LEMMA ThreadFacts == "bot" \in Thread /\ \A r \in Request : r \in Thread
  BY DEF Thread

\* One thread moves on and no wizard does.
LEMMA TasksMove ==
  ASSUME TypeOK, TasksSound, NEW t \in Thread, NEW q \in Tasks, Do(t, q),
         UNCHANGED wizard, \A a : Granted(a) => Granted(a)',
         \A a : q.at = "upsert" /\ a = q.by => Granted(a)',
         q.at = "status" => q.status \in {"active", "paused"},
         q.op = "final" => /\ t = "bot" /\ q.at # "idle"
                           /\ wizard[q.by].shown = <<q.price, q.wallet>>
  PROVE  /\ task' \in [Thread -> Tasks] /\ TasksSound'
         /\ \A u \in Thread : at(u, "status")' => task'[u].status \in {"active", "paused"}
  <1>1. /\ task' \in [Thread -> Tasks] /\ task'[t] = q
        /\ \A u \in Thread : u # t => task'[u] = task[u]
    BY DoEffect
  <1>2. ASSUME NEW u \in Thread PROVE Sound(u, task[u])'
    <2>1. CASE u = t
      <3>1. task'[u] = q  BY <1>1, <2>1
      <3>2. q.at = "upsert" => Granted(task[u].by)'  BY <3>1 DEF Granted
      <3> QED  BY <2>1, <3>1, <3>2 DEF Sound
    <2>2. CASE u # t
      <3>1. task'[u] = task[u] /\ Sound(u, task[u])  BY <1>1, <2>2 DEF TasksSound
      <3>2. task[u].at = "upsert" => Granted(task[u].by)'  BY <3>1 DEF Sound, Granted
      <3> QED  BY <3>1, <3>2 DEF Sound
    <2> QED  BY <2>1, <2>2
  <1> QED  BY <1>1, <1>2 DEF TasksSound, Sound, at

\* The row keeps its owner, and what hangs on it.
LEMMA RowMove ==
  ASSUME TypeOK, Owned, NothingLeftBehind, NEW g \in Groups,
         g.status # "absent", g.owner = group.owner, Write(g),
         UNCHANGED <<member, changes, passkey, grants>>
  PROVE  Owned' /\ NothingLeftBehind'
  <1>1. CASE Exists
    BY <1>1 DEF Write, Exists, Owned, Granted, NothingLeftBehind
  <1>2. CASE ~Exists
    BY <1>2 DEF Write, Exists, Owned, Granted, NothingLeftBehind
  <1> QED  BY <1>1, <1>2

LEMMA LegalKept ==
  ASSUME WizardsLegal, UNCHANGED wizard, \A a : Granted(a) => Granted(a)'
  PROVE  WizardsLegal'
  BY DEF WizardsLegal, Legal, Granted

\* A handler begins, or goes on with what Telegram answered: nothing is written.
LEMMA BeginStep ==
  ASSUME IInv, NEW t \in Thread, NEW q \in Tasks, begin(t, q),
         q.at = "upsert" => Granted(q.by),
         q.at = "status" => q.status \in {"active", "paused"},
         q.op = "final" => /\ t = "bot" /\ q.at # "idle"
                           /\ wizard[q.by].shown = <<q.price, q.wallet>>
  PROVE  IInv'
  <1>1. Do(t, q) /\ UNCHANGED <<group, member, changes, passkey, rights, updates, grants,
                                barred, wizard, talk, shut, faults>>
    BY DEF begin, row, chat, talks
  <1>2. \A a : Granted(a) <=> Granted(a)'  BY <1>1, GrantsKept
  <1>3. /\ task' \in [Thread -> Tasks] /\ TasksSound'
        /\ \A u \in Thread : at(u, "status")' => task'[u].status \in {"active", "paused"}
    BY <1>1, <1>2, TasksMove DEF IInv
  <1>4. TypeOK'  BY <1>1, <1>3 DEF IInv, TypeOK, Exists, at
  <1>5. Room'  BY <1>1 DEF IInv, Room
  <1>6. Owned' /\ NothingLeftBehind'
    BY <1>1 DEF IInv, Owned, NothingLeftBehind, Exists, Granted
  <1>7. WizardsLegal'  BY <1>1, <1>2, LegalKept DEF IInv
  <1> QED  BY <1>3, <1>4, <1>5, <1>6, <1>7 DEF IInv

\* A statement writes the row, its thread moves on.
LEMMA WriteStep ==
  ASSUME IInv, NEW t \in Thread, NEW q \in Tasks, Do(t, q), NEW g \in Groups,
         g.status # "absent", g.owner = group.owner, Write(g),
         UNCHANGED <<member, changes, passkey, chat, barred, talks, shut, faults>>,
         q.at # "upsert", q.at # "status",
         q.op = "final" => /\ t = "bot" /\ q.at # "idle"
                           /\ wizard[q.by].shown = <<q.price, q.wallet>>
  PROVE  IInv'
  <1>1. UNCHANGED <<member, changes, passkey, rights, updates, grants,
                    barred, wizard, talk, shut, faults>>
    BY DEF chat, talks
  <1>2. \A a : Granted(a) <=> Granted(a)'  BY <1>1, GrantsKept
  <1>3. /\ task' \in [Thread -> Tasks] /\ TasksSound'
        /\ \A u \in Thread : at(u, "status")' => task'[u].status \in {"active", "paused"}
    BY <1>1, <1>2, TasksMove DEF IInv
  <1>4. group' \in Groups /\ (Exists' \/ group' = Absent)  BY WriteEffect DEF IInv
  <1>5. TypeOK'  BY <1>1, <1>3, <1>4 DEF IInv, TypeOK, Exists, at
  <1>6. Room'  BY <1>1 DEF IInv, Room
  <1>7. Owned' /\ NothingLeftBehind'  BY <1>1, RowMove DEF IInv
  <1>8. WizardsLegal'  BY <1>1, <1>2, LegalKept DEF IInv
  <1> QED  BY <1>3, <1>5, <1>6, <1>7, <1>8 DEF IInv

\* No thread moves, and neither the grants nor the wizards change.
LEMMA StillStep ==
  ASSUME IInv, UNCHANGED <<task, wizard, grants>>, TypeOK', Room', Owned', NothingLeftBehind'
  PROVE  IInv'
  <1>1. \A a : Granted(a) <=> Granted(a)'  BY GrantsKept
  <1>2. WizardsLegal'  BY <1>1, LegalKept DEF IInv
  <1>3. TasksSound'  BY DEF IInv, TasksSound, Sound, Granted
  <1> QED  BY <1>2, <1>3 DEF IInv

-----------------------------------------------------------------------------
(* Every action keeps the inductive invariant.                             *)

LEMMA StatusWritten ==
  ASSUME TypeOK, NEW s \in {"active", "paused", "frozen", "suspended"}
  PROVE  LET g == [group EXCEPT !.status = s] IN
         g \in Groups /\ g.status # "absent" /\ g.owner = group.owner
  <1>1. group \in Groups  BY DEF TypeOK
  <1> QED  BY <1>1 DEF Groups

LEMMA ChatStep ==
  ASSUME GroupAssumption, IInv, Chat
  PROVE  IInv'
  <1> USE DEF row, chat, talks
  <1>1. ASSUME NEW a \in Admin, NEW perms \in BOOLEAN, promote(a, perms) PROVE IInv'
    <2> DEFINE u == [by |-> a, perms |-> perms, gone |-> FALSE]
    <2>1. u \in Updates /\ updates' = Append(updates, u)  BY <1>1 DEF Updates, promote
    <2>2. updates' \in Seq(Updates) /\ Room'
      BY <1>1, <2>1, AppendUpdate DEF IInv, promote, Room
    <2>3. TypeOK'
      BY <1>1, <2>2 DEF IInv, TypeOK, promote, Exists, at
    <2>4. Owned' /\ NothingLeftBehind'
      BY <1>1 DEF IInv, Owned, NothingLeftBehind, Exists, Granted, promote
    <2> QED  BY <1>1, <2>2, <2>3, <2>4, StillStep DEF promote
  <1>2. ASSUME NEW a \in Admin, demote(a) PROVE IInv'
    <2> DEFINE u == [by |-> a, perms |-> FALSE, gone |-> TRUE]
    <2>1. u \in Updates /\ updates' = Append(updates, u)  BY <1>2 DEF Updates, demote
    <2>2. updates' \in Seq(Updates) /\ Room'
      BY <1>2, <2>1, AppendUpdate DEF IInv, demote, Room
    <2>3. TypeOK'
      BY <1>2, <2>2 DEF IInv, TypeOK, demote, Exists, at
    <2>4. Owned' /\ NothingLeftBehind'
      BY <1>2 DEF IInv, Owned, NothingLeftBehind, Exists, Granted, demote
    <2> QED  BY <1>2, <2>2, <2>3, <2>4, StillStep DEF demote
  <1>3. ASSUME handle_my_chat_member PROVE IInv'
    <2> DEFINE u == Head(updates)
    <2>0. TypeOK /\ Room /\ TasksSound  BY DEF IInv
    <2>1. /\ updates' \in Seq(Updates) /\ grants' \in Seq(Grants)
          /\ Len(grants') <= MaxGrants /\ Room'
          /\ \A a : Granted(a) => Granted(a)'
          /\ u \in Updates /\ (~u.gone => u.by \in Admin)
          /\ \A a : a = u.by /\ ~u.gone /\ u.perms => Granted(a)'
      BY <1>3, <2>0, HandleEffect
    <2>2. UNCHANGED <<group, member, changes, passkey, rights, barred, wizard, talk,
                      shut, faults>>
      BY <1>3 DEF handle_my_chat_member
    <2> HIDE DEF u
    <2>3. /\ task' \in [Thread -> Tasks] /\ TasksSound'
          /\ \A t \in Thread : at(t, "status")' => task'[t].status \in {"active", "paused"}
      <3>1. CASE u.gone /\ group.status \in {"active", "frozen"}
        <4> DEFINE q == [Rest EXCEPT !.at = "freeze"]
        <4>1. q \in Tasks /\ q.at = "freeze" /\ q.op = "none"  BY DEF Tasks, Rest
        <4>2. Do("bot", q)  BY <1>3, <3>1 DEF handle_my_chat_member, u
        <4> HIDE DEF q
        <4> QED  BY <2>0, <2>1, <2>2, <4>1, <4>2, TasksMove, ThreadFacts
      <3>2. CASE ~u.gone /\ u.perms
        <4> DEFINE q == [Rest EXCEPT !.at = "upsert", !.op = "added", !.by = u.by]
        <4>1. q \in Tasks /\ q.at = "upsert" /\ q.op = "added" /\ q.by = u.by
          BY <2>1, <3>2 DEF Tasks, Rest
        <4>2. Do("bot", q)  BY <1>3, <3>2 DEF handle_my_chat_member, u
        <4>3. \A a : a = q.by => Granted(a)'  BY <2>1, <3>2, <4>1
        <4> HIDE DEF q
        <4> QED  BY <2>0, <2>1, <2>2, <4>1, <4>2, <4>3, TasksMove, ThreadFacts
      <3>3. CASE /\ ~(u.gone /\ group.status \in {"active", "frozen"})
                 /\ ~(~u.gone /\ u.perms)
        <4>1. UNCHANGED task  BY <1>3, <3>3 DEF handle_my_chat_member, u
        <4>2. TasksSound'
          <5> SUFFICES ASSUME NEW t \in Thread PROVE Sound(t, task[t])'  BY DEF TasksSound
          <5>1. Sound(t, task[t])  BY <2>0 DEF TasksSound
          <5>2. \A a : a = task[t].by /\ Granted(a) => Granted(a)'  BY <2>1
          <5>3. task[t].at = "upsert" => Granted(task[t].by)'
            BY <4>1, <5>1, <5>2 DEF Sound, Granted
          <5> QED  BY <2>2, <4>1, <5>1, <5>3 DEF Sound
        <4> QED  BY <2>0, <4>1, <4>2 DEF TypeOK, at
      <3> QED  BY <3>1, <3>2, <3>3
    <2>4. TypeOK'  BY <2>0, <2>1, <2>2, <2>3 DEF TypeOK, Exists, at
    <2>5. Owned' /\ NothingLeftBehind'
      <3>1. \A a : a = group.owner /\ Granted(a) => Granted(a)'  BY <2>1
      <3> QED  BY <2>2, <3>1 DEF IInv, Owned, NothingLeftBehind, Exists, Granted
    <2>6. WizardsLegal'  BY <2>1, <2>2, LegalKept DEF IInv
    <2> QED  BY <2>1, <2>3, <2>4, <2>5, <2>6 DEF IInv
  <1>4. ASSUME freeze_group PROVE IInv'
    <2>1. TypeOK  BY DEF IInv
    <2> QED
      BY <1>4, <2>1, WriteStep, StatusWritten, RestIs, ThreadFacts DEF freeze_group, Finish
  <1> QED  BY <1>1, <1>2, <1>3, <1>4 DEF Chat

\* A thread goes on to another statement.
LEMMA OnWard ==
  ASSUME IInv, NEW t \in Thread, NEW p \in Places \ {"upsert", "status", "idle"}
  PROVE  LET q == [task[t] EXCEPT !.at = p] IN
         /\ q \in Tasks /\ q.at = p
         /\ q.op = "final" => t = "bot" /\ wizard[q.by].shown = <<q.price, q.wallet>>
         /\ Then(t, p) => Do(t, q)
  <1>1. task[t] \in Tasks /\ Sound(t, task[t])  BY DEF IInv, TypeOK, TasksSound
  <1>2. [task[t] EXCEPT !.at = p] \in Tasks  BY <1>1 DEF Tasks, Places
  <1> QED  BY <1>1, <1>2 DEF Tasks, Sound, Then, Do

LEMMA UpsertStep ==
  ASSUME GroupAssumption, IInv, NEW t \in Thread, upsert_group(t)
  PROVE  IInv'
  <1> DEFINE q == task[t]
             r == IF q.op = "added" THEN Rest ELSE [q EXCEPT !.at = "link"]
  <1>0. TypeOK /\ q \in Tasks /\ q.at = "upsert" /\ Sound(t, q) /\ Granted(q.by)
    BY DEF IInv, TypeOK, TasksSound, Sound, upsert_group, at
  <1>1. UNCHANGED <<member, changes, passkey, rights, updates, grants,
                    barred, wizard, talk, shut, faults>>
    BY DEF upsert_group, chat, talks
  <1>2. \A a : Granted(a) <=> Granted(a)'  BY <1>1, GrantsKept
  <1>3. /\ r \in Tasks /\ Do(t, r) /\ r.at \notin {"upsert", "status"}
        /\ r.op = "final" => /\ t = "bot" /\ r.at # "idle"
                             /\ wizard[r.by].shown = <<r.price, r.wallet>>
    <2>1. CASE q.op = "added"
      BY <2>1, RestIs DEF upsert_group, Finish
    <2>2. CASE q.op # "added"
      BY <2>2, OnWard DEF upsert_group, Places
    <2> QED  BY <2>1, <2>2
  <1> HIDE DEF r
  <1>4. /\ task' \in [Thread -> Tasks] /\ TasksSound'
        /\ \A u \in Thread : at(u, "status")' => task'[u].status \in {"active", "paused"}
    BY <1>1, <1>2, <1>3, TasksMove DEF IInv
  <1>5. group' \in Groups /\ group'.status # "absent" /\ group'.owner = q.by
    <2>1. q.by \in Admin \cup {Nobody}  BY <1>0 DEF Tasks
    <2>2. group \in Groups  BY <1>0 DEF TypeOK
    <2> QED  BY <2>1, <2>2, AbsentIs DEF upsert_group, Groups, Exists, NewStatus
  <1>6. TypeOK'  BY <1>0, <1>1, <1>4, <1>5 DEF TypeOK, Exists, at
  <1>7. Room'  BY <1>1 DEF IInv, Room
  <1>8. Owned' /\ NothingLeftBehind'
    BY <1>0, <1>1, <1>5 DEF Owned, NothingLeftBehind, Exists, Granted
  <1>9. WizardsLegal'  BY <1>1, <1>2, LegalKept DEF IInv
  <1> QED  BY <1>4, <1>6, <1>7, <1>8, <1>9 DEF IInv

LEMMA PriceStep ==
  ASSUME GroupAssumption, IInv, NEW t \in Thread, update_group_price_usd_cents(t)
  PROVE  IInv'
  <1> DEFINE q == task[t]
             g == [group EXCEPT !.price = q.price]
             w == IF Exists /\ passkey THEN NoWizard ELSE [NoWizard EXCEPT !.step = "passkey"]
  <1>0. TypeOK /\ q \in Tasks /\ Sound(t, q) /\ group \in Groups
    BY DEF IInv, TypeOK, TasksSound
  <1>1. UNCHANGED <<member, changes, passkey, rights, updates, grants,
                    barred, talk, shut, faults>>
    BY DEF update_group_price_usd_cents, chat
  <1>2. \A a : Granted(a) <=> Granted(a)'  BY <1>1, GrantsKept
  <1>3. /\ task' \in [Thread -> Tasks] /\ task'[t] = Rest
        /\ \A u \in Thread : u # t => task'[u] = task[u]
    BY <1>0, DoEffect, RestIs DEF update_group_price_usd_cents, Finish
  <1>4. g \in Groups /\ g.owner = group.owner /\ g.status = group.status
    BY <1>0 DEF Groups, Tasks
  <1>5. group' \in Groups /\ (Exists' <=> Exists) /\ (Exists' \/ group' = Absent)
        /\ group'.owner = group.owner
    BY <1>0, <1>4 DEF update_group_price_usd_cents, Write, Exists, TypeOK
  <1>6. wizard' = IF q.op # "final" THEN wizard ELSE [wizard EXCEPT ![q.by] = w]
    BY DEF update_group_price_usd_cents
  <1>7. w \in Wizards /\ \A a : Legal(a, w) /\ Legal(a, w)'
    BY NoWizardIs DEF Wizards, Legal, Deep, NoWizard
  <1> HIDE DEF w
  <1>8. wizard' \in [Admin -> Wizards] /\ WizardsLegal'
    <2>1. ASSUME NEW a \in Admin PROVE Legal(a, wizard[a])'
      <3>1. wizard'[a] = w \/ wizard'[a] = wizard[a]  BY <1>0, <1>6 DEF TypeOK
      <3>2. Legal(a, wizard[a])  BY DEF IInv, WizardsLegal
      <3>3. Legal(a, wizard'[a])  BY <1>7, <3>1, <3>2
      <3>4. Granted(a) => Granted(a)'  BY <1>2
      <3> QED  BY <3>3, <3>4 DEF Legal
    <2> QED  BY <1>0, <1>6, <1>7, <2>1 DEF WizardsLegal, TypeOK
  <1>9. TasksSound'
    <2> SUFFICES ASSUME NEW u \in Thread PROVE Sound(u, task[u])'  BY DEF TasksSound
    <2>1. CASE u = t  BY <1>3, <2>1, RestIs DEF Sound
    <2>2. CASE u # t
      <3>1. task'[u] = task[u] /\ Sound(u, task[u])
        BY <1>3, <2>2 DEF IInv, TasksSound
      <3>2. task[u].op = "final" => UNCHANGED wizard  BY <1>0, <1>6, <2>2, <3>1 DEF Sound
      <3>3. task[u].at = "upsert" => Granted(task[u].by)'
        BY <1>1, <3>1 DEF Sound, Granted
      <3> QED  BY <3>1, <3>2, <3>3 DEF Sound
    <2> QED  BY <2>1, <2>2
  <1>10. TypeOK'  BY <1>0, <1>1, <1>3, <1>5, <1>8, RestIs DEF TypeOK, at
  <1>11. Room'  BY <1>1 DEF IInv, Room
  <1>12. Owned' /\ NothingLeftBehind'
    BY <1>1, <1>5 DEF IInv, Owned, NothingLeftBehind, Granted
  <1> QED  BY <1>8, <1>9, <1>10, <1>11, <1>12 DEF IInv

\* A thread moves on; neither the grants nor the wizards change.
LEMMA MoveOn ==
  ASSUME IInv, NEW t \in Thread, NEW q \in Tasks, Do(t, q), UNCHANGED <<wizard, grants>>,
         q.at \notin {"upsert", "status"},
         q.op = "final" => /\ t = "bot" /\ q.at # "idle"
                           /\ wizard[q.by].shown = <<q.price, q.wallet>>
  PROVE  /\ task' \in [Thread -> Tasks] /\ TasksSound' /\ WizardsLegal'
         /\ \A u \in Thread : at(u, "status")' => task'[u].status \in {"active", "paused"}
  <1>1. \A a : Granted(a) <=> Granted(a)'  BY GrantsKept
  <1>2. WizardsLegal'  BY <1>1, LegalKept DEF IInv
  <1> QED  BY <1>1, <1>2, TasksMove DEF IInv

LEMMA GoOn ==
  ASSUME IInv, NEW t \in Thread, NEW p \in Places \ {"upsert", "status", "idle"}, Then(t, p),
         UNCHANGED <<wizard, grants>>
  PROVE  /\ task' \in [Thread -> Tasks] /\ TasksSound' /\ WizardsLegal'
         /\ \A u \in Thread : at(u, "status")' => task'[u].status \in {"active", "paused"}
  <1> DEFINE q == [task[t] EXCEPT !.at = p]
  <1>1. /\ q \in Tasks /\ q.at = p /\ Do(t, q)
        /\ q.op = "final" => t = "bot" /\ wizard[q.by].shown = <<q.price, q.wallet>>
    BY OnWard
  <1> HIDE DEF q
  <1> QED  BY <1>1, MoveOn

LEMMA DeletionStep ==
  ASSUME GroupAssumption, IInv, NEW t \in Thread,
         cancel_pending_group_subscriptions(t) \/ leave_chat(t) \/ delete_group(t)
  PROVE  IInv'
  <1>1. ASSUME cancel_pending_group_subscriptions(t) PROVE IInv'
    <2>1. UNCHANGED <<group, changes, passkey, rights, updates, grants, barred, wizard, talk,
                      shut, faults>>
      BY <1>1 DEF cancel_pending_group_subscriptions, chat, talks
    <2>2. /\ task' \in [Thread -> Tasks] /\ TasksSound' /\ WizardsLegal'
          /\ \A u \in Thread : at(u, "status")' => task'[u].status \in {"active", "paused"}
      BY <1>1, <2>1, GoOn DEF cancel_pending_group_subscriptions, Places
    <2>3. TypeOK'
      BY <1>1, <2>1, <2>2 DEF IInv, TypeOK, cancel_pending_group_subscriptions, Exists, at
    <2>4. Room' /\ Owned' /\ NothingLeftBehind'
      BY <1>1, <2>1 DEF IInv, Room, Owned, Granted, NothingLeftBehind, Exists,
         cancel_pending_group_subscriptions
    <2> QED  BY <2>2, <2>3, <2>4 DEF IInv
  <1>2. ASSUME leave_chat(t) PROVE IInv'
    <2>1. UNCHANGED <<group, member, changes, passkey, grants, barred, wizard, talk,
                      shut, faults>> /\ rights' = "out"
      BY <1>2 DEF leave_chat, row, talks
    <2>2. /\ task' \in [Thread -> Tasks] /\ TasksSound' /\ WizardsLegal'
          /\ \A u \in Thread : at(u, "status")' => task'[u].status \in {"active", "paused"}
      BY <1>2, <2>1, GoOn DEF leave_chat, Places
    <2>3. updates' \in Seq(Updates) /\ Room'
      <3>1. CASE rights = "out"
        BY <1>2, <2>1, <3>1 DEF leave_chat, IInv, TypeOK, Room
      <3>2. CASE rights # "out"
        <4> DEFINE u == [by |-> Nobody, perms |-> FALSE, gone |-> TRUE]
        <4>1. u \in Updates /\ u.gone  BY DEF Updates
        <4>2. updates' = Append(updates, u)  BY <1>2, <3>2 DEF leave_chat
        <4> HIDE DEF u
        <4> QED  BY <2>1, <4>1, <4>2, AppendUpdate DEF IInv
      <3> QED  BY <3>1, <3>2
    <2>4. TypeOK'  BY <2>1, <2>2, <2>3 DEF IInv, TypeOK, Exists, at
    <2>5. Owned' /\ NothingLeftBehind'
      BY <2>1 DEF IInv, Owned, Granted, NothingLeftBehind, Exists
    <2> QED  BY <2>2, <2>3, <2>4, <2>5 DEF IInv
  <1>3. ASSUME delete_group(t) PROVE IInv'
    <2>1. UNCHANGED <<rights, updates, grants, barred, wizard, talk, faults>> /\ Do(t, Rest)
          /\ shut' \in BOOLEAN
      BY <1>3 DEF delete_group, chat, talks, Finish
    <2>2. /\ task' \in [Thread -> Tasks] /\ TasksSound' /\ WizardsLegal'
          /\ \A u \in Thread : at(u, "status")' => task'[u].status \in {"active", "paused"}
      BY <2>1, RestIs, MoveOn
    <2>3. \/ UNCHANGED <<group, member, changes, passkey>>
          \/ group' = Absent /\ member' = "none" /\ changes' = "none" /\ passkey' = FALSE
      BY <1>3 DEF delete_group, row
    <2>4. TypeOK'  BY <2>1, <2>2, <2>3, AbsentIs DEF IInv, TypeOK, Exists, at
    <2>5. Room' /\ Owned' /\ NothingLeftBehind'
      BY <2>1, <2>3, AbsentIs DEF IInv, Room, Owned, Granted, NothingLeftBehind, Exists
    <2> QED  BY <2>2, <2>4, <2>5 DEF IInv
  <1> QED  BY <1>1, <1>2, <1>3

LEMMA StatementsStep ==
  ASSUME GroupAssumption, IInv, NEW t \in Thread,
         \/ upsert_group(t) \/ create_invite_link(t) \/ activate_paywall(t)
         \/ update_group_price_usd_cents(t) \/ set_group_status(t)
         \/ cancel_pending_group_subscriptions(t) \/ leave_chat(t) \/ delete_group(t)
  PROVE  IInv'
  <1> DEFINE q == task[t]
  <1>0. TypeOK /\ q \in Tasks /\ Sound(t, q) /\ group \in Groups
    BY DEF IInv, TypeOK, TasksSound
  <1>1. ASSUME create_invite_link(t) PROVE IInv'
    <2>1. PICK ok \in BOOLEAN : Do(t, [q EXCEPT !.at = "activate", !.link = ok])
      BY <1>1 DEF create_invite_link
    <2> DEFINE r == [q EXCEPT !.at = "activate", !.link = ok]
    <2>2. /\ r \in Tasks /\ r.at = "activate" /\ r.op = q.op /\ r.by = q.by
          /\ r.price = q.price /\ r.wallet = q.wallet
      BY <1>0 DEF Tasks
    <2>3. begin(t, r)  BY <1>1, <2>1 DEF create_invite_link, begin
    <2> HIDE DEF r
    <2> QED  BY <1>0, <2>2, <2>3, BeginStep DEF Sound
  <1>2. ASSUME activate_paywall(t) PROVE IInv'
    <2> DEFINE g == [group EXCEPT !.status = "active", !.wallet = q.wallet,
                                  !.link = group.link \/ q.link]
               r == IF q.op = "refresh" THEN Rest ELSE [q EXCEPT !.at = "price"]
    <2>1. g \in Groups /\ g.status = "active" /\ g.owner = group.owner
      BY <1>0 DEF Groups, Tasks
    <2>2. /\ r \in Tasks /\ Do(t, r) /\ r.at \notin {"upsert", "status"}
          /\ r.op = "final" => /\ t = "bot" /\ r.at # "idle"
                               /\ wizard[r.by].shown = <<r.price, r.wallet>>
      <3>1. CASE q.op = "refresh"
        BY <1>2, <3>1, RestIs DEF activate_paywall, Finish
      <3>2. CASE q.op # "refresh"
        BY <1>2, <3>2, OnWard DEF activate_paywall, Places
      <3> QED  BY <3>1, <3>2
    <2>3. /\ Write(g)
          /\ UNCHANGED <<member, changes, passkey, chat, barred, talks, shut, faults>>
      BY <1>2 DEF activate_paywall
    <2> HIDE DEF g, r
    <2> QED  BY <2>1, <2>2, <2>3, WriteStep
  <1>3. ASSUME set_group_status(t) PROVE IInv'
    <2> DEFINE s == IF at(t, "suspend") THEN "suspended" ELSE q.status
               g == [group EXCEPT !.status = s]
               r == IF at(t, "suspend") THEN [q EXCEPT !.at = "cancel"] ELSE Rest
    <2>1. s \in {"active", "paused", "suspended"}
      BY <1>0, <1>3 DEF set_group_status, Sound, at
    <2>2. g \in Groups /\ g.status # "absent" /\ g.owner = group.owner
      BY <1>0, <2>1 DEF Groups
    <2>3. /\ r \in Tasks /\ Do(t, r) /\ r.at \notin {"upsert", "status"}
          /\ r.op = "final" => /\ t = "bot" /\ r.at # "idle"
                               /\ wizard[r.by].shown = <<r.price, r.wallet>>
      <3>1. CASE at(t, "suspend")
        BY <1>3, <3>1, OnWard DEF set_group_status, Places
      <3>2. CASE ~at(t, "suspend")
        BY <1>3, <3>2, RestIs DEF set_group_status, Finish
      <3> QED  BY <3>1, <3>2
    <2>4. /\ Write(g)
          /\ UNCHANGED <<member, changes, passkey, chat, barred, talks, shut, faults>>
      BY <1>3 DEF set_group_status
    <2> HIDE DEF g, r
    <2> QED  BY <2>2, <2>3, <2>4, WriteStep
  <1> QED  BY <1>1, <1>2, <1>3, UpsertStep, PriceStep, DeletionStep

LEMMA SetupStep ==
  ASSUME GroupAssumption, IInv, NEW a \in Admin,
         Only(Wizard(a)) \/ cb_final_confirm(a) \/ msg_passkey_confirm(a)
  PROVE  IInv'
  <1>0. TypeOK /\ Legal(a, wizard[a]) /\ wizard[a] \in Wizards
    BY DEF IInv, TypeOK, WizardsLegal
  <1>1. ASSUME NEW w, Legal(a, w), wizard' = [wizard EXCEPT ![a] = w], Ready,
               UNCHANGED <<group, member, changes, rights, updates, grants, barred,
                           talk, task, shut, faults>>,
               passkey' \in BOOLEAN, passkey' => passkey \/ Exists
        PROVE  IInv'
    <2>1. w \in Wizards /\ wizard' \in [Admin -> Wizards]
      BY <1>0, <1>1 DEF Legal, TypeOK
    <2>2. TypeOK'  BY <1>0, <1>1, <2>1 DEF TypeOK, Exists, at
    <2>3. Room' /\ Owned' /\ NothingLeftBehind'
      BY <1>1 DEF IInv, Room, Owned, Granted, NothingLeftBehind, Exists
    <2>4. WizardsLegal'
      <3> SUFFICES ASSUME NEW b \in Admin PROVE Legal(b, wizard[b])'  BY DEF WizardsLegal
      <3>1. Legal(b, wizard[b])  BY DEF IInv, WizardsLegal
      <3>2. wizard'[b] = IF b = a THEN w ELSE wizard[b]  BY <1>0, <1>1 DEF TypeOK
      <3> QED  BY <1>1, <3>1, <3>2 DEF Legal, Granted
    <2>5. TasksSound'
      <3> SUFFICES ASSUME NEW t \in Thread PROVE Sound(t, task[t])'  BY DEF TasksSound
      <3>1. Sound(t, task[t])  BY DEF IInv, TasksSound
      <3>2. task[t].op # "final"  BY <1>1, <3>1 DEF Sound, Ready, at
      <3> QED  BY <1>1, <3>1, <3>2 DEF Sound, Granted
    <2> QED  BY <2>2, <2>3, <2>4, <2>5 DEF IInv
  <1>2. ASSUME Only(Wizard(a)) PROVE IInv'
    <2>1. Wizard(a) /\ UNCHANGED <<group, member, changes, passkey, rights, updates, grants,
                                   barred, talk, task, shut, faults>>
      BY <1>2 DEF Only, row, chat
    <2>2. Ready /\ \E w : Legal(a, w) /\ wizard' = [wizard EXCEPT ![a] = w]
      BY <1>0, <2>1, WizardStep
    <2>3. passkey' \in BOOLEAN /\ (passkey' => passkey \/ Exists)
      BY <1>0, <2>1 DEF TypeOK
    <2> QED  BY <1>1, <2>1, <2>2, <2>3
  <1>3. ASSUME cb_final_confirm(a) PROVE IInv'
    <2> DEFINE w == wizard[a]
               q == [Rest EXCEPT !.at = "upsert", !.op = "final", !.by = a,
                                 !.wallet = w.wallet, !.price = w.price]
    <2>1. w.step = "final"  BY <1>3 DEF cb_final_confirm, in_step
    <2>2. /\ q \in Tasks /\ q.at = "upsert" /\ q.op = "final" /\ q.by = a
          /\ q.price = w.price /\ q.wallet = w.wallet
      BY <1>0 DEF Tasks, Wizards, Rest
    <2>3. begin("bot", q)  BY <1>3 DEF cb_final_confirm, begin
    <2>4. Granted(a) /\ w.shown = <<w.price, w.wallet>>
      BY <1>0, <2>1 DEF Legal, Deep
    <2> HIDE DEF q
    <2> QED  BY <2>2, <2>3, <2>4, BeginStep, ThreadFacts
  <1>4. ASSUME msg_passkey_confirm(a) PROVE IInv'
    <2>1. /\ UNCHANGED <<group, member, changes, rights, updates, grants,
                         barred, talk, task, shut, faults>>
          /\ Ready /\ wizard[a].step = "confirm" /\ To(a, "saved")
          /\ passkey' = (passkey \/ Exists)
      BY <1>4 DEF msg_passkey_confirm, chat, in_step
    <2>2. \E w : Legal(a, w) /\ wizard' = [wizard EXCEPT ![a] = w]
      BY <1>0, <2>1, ToIsLegal DEF Deep
    <2>3. passkey' \in BOOLEAN /\ (passkey' => passkey \/ Exists)
      BY <1>0, <2>1 DEF TypeOK, Exists
    <2> QED  BY <1>1, <2>1, <2>2, <2>3
  <1> QED  BY <1>2, <1>3, <1>4

LEMMA MiniAppStep ==
  ASSUME GroupAssumption, IInv, NEW r \in Request,
         \/ refresh_group_meta(r)
         \/ \E a \in Admin :
               \/ api_groups_create(r, a) \/ api_group_detail(r, a) \/ api_my_groups(r, a)
               \/ api_group_pause(r, a) \/ api_group_update_price(r, a)
               \/ api_group_delete(r, a)
  PROVE  IInv'
  <1>0. TypeOK /\ r \in Thread /\ group \in Groups /\ task[r] \in Tasks /\ Sound(r, task[r])
    BY ThreadFacts DEF IInv, TypeOK, TasksSound
  <1>a. r # "bot"  BY DEF GroupAssumption
  <1>1. ASSUME refresh_group_meta(r) PROVE IInv'
    <2>1. CASE Finish(r)
      <3>1. begin(r, Rest)  BY <1>1, <2>1 DEF refresh_group_meta, begin, Finish
      <3> QED  BY <1>0, <3>1, RestIs, BeginStep
    <2>2. CASE \E ok \in BOOLEAN : Do(r, [task[r] EXCEPT !.at = "activate", !.link = ok])
      <3>1. PICK ok \in BOOLEAN : Do(r, [task[r] EXCEPT !.at = "activate", !.link = ok])
        BY <2>2
      <3> DEFINE q == [task[r] EXCEPT !.at = "activate", !.link = ok]
      <3>2. q \in Tasks /\ q.at = "activate" /\ q.op = task[r].op  BY <1>0 DEF Tasks
      <3>3. begin(r, q)  BY <1>1, <3>1 DEF refresh_group_meta, begin
      <3> HIDE DEF q
      <3> QED  BY <1>0, <1>a, <3>2, <3>3, BeginStep DEF Sound
    <2> QED  BY <1>1, <2>1, <2>2 DEF refresh_group_meta
  <1>2. ASSUME NEW a \in Admin, api_groups_create(r, a) PROVE IInv'
    <2>1. Granted(a)
      <3>1. PICK k \in 0 .. Len(grants) : \E i \in Newest(a, k) : grants[i].perms
        BY <1>2 DEF api_groups_create
      <3>2. PICK i \in Recent(a, k) : grants[i].perms  BY <3>1 DEF Newest
      <3> QED  BY <1>0, <3>2, GrantFacts
    <2>2. PICK w \in Wallet, p \in Price :
             begin(r, [Rest EXCEPT !.at = "upsert", !.op = "create", !.by = a,
                                   !.wallet = w, !.price = p])
      BY <1>2 DEF api_groups_create
    <2> DEFINE q == [Rest EXCEPT !.at = "upsert", !.op = "create", !.by = a,
                                 !.wallet = w, !.price = p]
    <2>3. q \in Tasks /\ q.at = "upsert" /\ q.op = "create" /\ q.by = a
      BY DEF Tasks, Rest
    <2>4. begin(r, q)  BY <2>2
    <2> HIDE DEF q
    <2> QED  BY <1>0, <2>1, <2>3, <2>4, BeginStep
  <1>3. ASSUME NEW a \in Admin, api_group_detail(r, a) \/ api_my_groups(r, a) PROVE IInv'
    <2>1. PICK s \in {"detail", "list"} :
             begin(r, [Rest EXCEPT !.at = "resolve", !.op = "refresh",
                                   !.wallet = group.wallet, !.status = s])
      BY <1>3 DEF api_group_detail, api_my_groups
    <2> DEFINE q == [Rest EXCEPT !.at = "resolve", !.op = "refresh",
                                 !.wallet = group.wallet, !.status = s]
    <2>2. q \in Tasks /\ q.at = "resolve" /\ q.op = "refresh"
      <3>1. group.wallet \in Wallet \cup {NoWallet}  BY <1>0 DEF Groups
      <3> QED  BY <2>1, <3>1 DEF Tasks, Rest
    <2>3. begin(r, q)  BY <2>1
    <2> HIDE DEF q
    <2> QED  BY <1>0, <2>2, <2>3, BeginStep
  <1>4. ASSUME NEW a \in Admin, api_group_pause(r, a) PROVE IInv'
    <2>1. PICK s \in {"active", "paused"} : begin(r, [Rest EXCEPT !.at = "status", !.status = s])
      BY <1>4 DEF api_group_pause
    <2> DEFINE q == [Rest EXCEPT !.at = "status", !.status = s]
    <2>2. q \in Tasks /\ q.at = "status" /\ q.op = "none" /\ q.status = s
      BY DEF Tasks, Rest
    <2>3. begin(r, q)  BY <2>1
    <2> HIDE DEF q
    <2> QED  BY <1>0, <2>2, <2>3, BeginStep
  <1>5. ASSUME NEW a \in Admin, api_group_update_price(r, a) PROVE IInv'
    <2>1. PICK p \in Price : begin(r, [Rest EXCEPT !.at = "price", !.op = "menu", !.price = p])
      BY <1>5 DEF api_group_update_price
    <2> DEFINE q == [Rest EXCEPT !.at = "price", !.op = "menu", !.price = p]
    <2>2. q \in Tasks /\ q.at = "price" /\ q.op = "menu"  BY DEF Tasks, Rest
    <2>3. begin(r, q)  BY <2>1
    <2> HIDE DEF q
    <2> QED  BY <1>0, <2>2, <2>3, BeginStep
  <1>6. ASSUME NEW a \in Admin, api_group_delete(r, a) PROVE IInv'
    <2> DEFINE q == [Rest EXCEPT !.at = "suspend", !.op = "delete"]
    <2>1. q \in Tasks /\ q.at = "suspend" /\ q.op = "delete"  BY DEF Tasks, Rest
    <2>2. begin(r, q)  BY <1>6 DEF api_group_delete
    <2> HIDE DEF q
    <2> QED  BY <1>0, <2>1, <2>2, BeginStep
  <1> QED  BY <1>1, <1>2, <1>3, <1>4, <1>5, <1>6

LEMMA MenuStep ==
  ASSUME GroupAssumption, IInv, NEW a \in Admin,
         \/ cb_pause(a) \/ \E c \in {"price", "delete"} : cb_menu(a, c)
         \/ cb_cancel_input(a) \/ cb_price_confirm(a) \/ msg_delete_confirm_name(a)
  PROVE  IInv'
  <1>0. TypeOK  BY DEF IInv
  <1>1. ASSUME cb_pause(a) PROVE IInv'
    <2>1. PICK s \in {"active", "paused"} :
             begin("bot", [Rest EXCEPT !.at = "status", !.status = s])
      BY <1>1 DEF cb_pause
    <2> DEFINE q == [Rest EXCEPT !.at = "status", !.status = s]
    <2>2. q \in Tasks /\ q.at = "status" /\ q.op = "none" /\ q.status = s
      BY DEF Tasks, Rest
    <2>3. begin("bot", q)  BY <2>1
    <2> HIDE DEF q
    <2> QED  BY <2>2, <2>3, BeginStep, ThreadFacts
  <1>2. ASSUME NEW c \in {"none", "price", "delete"}, talk' = [talk EXCEPT ![a] = c],
               UNCHANGED <<row, chat, barred, wizard, task, shut, faults>>
        PROVE  IInv'
    <2>1. TypeOK'  BY <1>0, <1>2 DEF TypeOK, row, chat, Exists, at
    <2>2. Room' /\ Owned' /\ NothingLeftBehind'
      BY <1>2 DEF IInv, Room, Owned, Granted, NothingLeftBehind, Exists, row, chat
    <2> QED  BY <1>2, <2>1, <2>2, StillStep DEF chat
  <1>3. ASSUME NEW c, NEW q \in Tasks, q.at \notin {"upsert", "status"}, q.op # "final",
               confirm(a, c, q)
        PROVE  IInv'
    <2>1. /\ UNCHANGED <<group, member, changes, passkey, rights, updates, grants, barred,
                         wizard, shut, faults>>
          /\ Do("bot", q) /\ talk' = [talk EXCEPT ![a] = "none"]
      BY <1>3 DEF confirm, row, chat
    <2>2. /\ task' \in [Thread -> Tasks] /\ TasksSound' /\ WizardsLegal'
          /\ \A u \in Thread : at(u, "status")' => task'[u].status \in {"active", "paused"}
      BY <1>3, <2>1, MoveOn, ThreadFacts
    <2>3. TypeOK'  BY <1>0, <2>1, <2>2 DEF TypeOK, Exists, at
    <2>4. Room' /\ Owned' /\ NothingLeftBehind'
      BY <2>1 DEF IInv, Room, Owned, Granted, NothingLeftBehind, Exists
    <2> QED  BY <2>2, <2>3, <2>4 DEF IInv
  <1>4. ASSUME cb_price_confirm(a) PROVE IInv'
    <2>1. PICK p \in Price :
             confirm(a, "price", [Rest EXCEPT !.at = "price", !.op = "menu", !.price = p])
      BY <1>4 DEF cb_price_confirm
    <2>2. LET q == [Rest EXCEPT !.at = "price", !.op = "menu", !.price = p] IN
          q \in Tasks /\ q.at = "price" /\ q.op = "menu"
      BY DEF Tasks, Rest
    <2> QED  BY <1>3, <2>1, <2>2
  <1>5. ASSUME msg_delete_confirm_name(a) PROVE IInv'
    <2>1. LET q == [Rest EXCEPT !.at = "suspend", !.op = "delete"] IN
          q \in Tasks /\ q.at = "suspend" /\ q.op = "delete"
      BY DEF Tasks, Rest
    <2> QED  BY <1>3, <1>5, <2>1 DEF msg_delete_confirm_name
  <1> QED  BY <1>1, <1>2, <1>4, <1>5 DEF cb_menu, cb_cancel_input

LEMMA MembersStep ==
  ASSUME GroupAssumption, IInv,
         \/ handle_join_request \/ create_subscription \/ activate_subscription
         \/ create_pending_wallet_change \/ apply_wallet_change
  PROVE  IInv'
  <1>0. TypeOK /\ group \in Groups  BY DEF IInv, TypeOK
  <1>1. ASSUME handle_join_request PROVE IInv'
    <2> DEFINE q == [Rest EXCEPT !.at = "subscribe"]
    <2>1. q \in Tasks /\ q.at = "subscribe" /\ q.op = "none"  BY DEF Tasks, Rest
    <2>2. begin("bot", q)  BY <1>1 DEF handle_join_request
    <2> HIDE DEF q
    <2> QED  BY <2>1, <2>2, BeginStep, ThreadFacts
  <1>2. ASSUME create_subscription PROVE IInv'
    <2>1. /\ UNCHANGED <<group, changes, passkey, rights, updates, grants, barred, wizard,
                         talk, shut, faults>>
          /\ Do("bot", Rest) /\ member' = IF Exists THEN "pending" ELSE member
      BY <1>2 DEF create_subscription, chat, talks, Finish, Refers
    <2>2. /\ task' \in [Thread -> Tasks] /\ TasksSound' /\ WizardsLegal'
          /\ \A u \in Thread : at(u, "status")' => task'[u].status \in {"active", "paused"}
      BY <2>1, RestIs, MoveOn, ThreadFacts
    <2>3. TypeOK'  BY <1>0, <2>1, <2>2 DEF TypeOK, Exists, at
    <2>4. Room' /\ Owned' /\ NothingLeftBehind'
      BY <2>1 DEF IInv, Room, Owned, Granted, NothingLeftBehind, Exists
    <2> QED  BY <2>2, <2>3, <2>4 DEF IInv
  <1>3. ASSUME activate_subscription \/ create_pending_wallet_change PROVE IInv'
    <2>1. /\ UNCHANGED <<group, passkey, rights, updates, grants, barred, wizard, talk, task,
                         shut, faults>>
          /\ \/ member = "pending" /\ member' = "active" /\ UNCHANGED changes
             \/ Exists /\ changes' = "pending" /\ UNCHANGED member
      BY <1>3 DEF activate_subscription, create_pending_wallet_change, chat, talks
    <2>2. TypeOK'  BY <1>0, <2>1 DEF TypeOK, Exists, at
    <2>3. Room' /\ Owned' /\ NothingLeftBehind'
      BY <2>1 DEF IInv, Room, Owned, Granted, NothingLeftBehind, Exists
    <2> QED  BY <2>1, <2>2, <2>3, StillStep
  <1>4. ASSUME apply_wallet_change PROVE IInv'
    <2>1. PICK w \in Wallet : Write([group EXCEPT !.wallet = w])
      BY <1>4 DEF apply_wallet_change
    <2>2. /\ UNCHANGED <<member, passkey, rights, updates, grants, barred, wizard, talk, task,
                         shut, faults>>
          /\ changes = "pending" /\ changes' = "past" /\ group.status = "active"
      BY <1>4 DEF apply_wallet_change, chat, talks
    <2>3. /\ group' \in Groups /\ group'.status = "active" /\ group'.owner = group.owner
      BY <1>0, <2>1, <2>2 DEF Write, Exists, Groups
    <2>4. TypeOK'  BY <1>0, <2>2, <2>3 DEF TypeOK, Exists, at
    <2>5. Room' /\ Owned' /\ NothingLeftBehind'
      BY <2>2, <2>3 DEF IInv, Room, Owned, Granted, NothingLeftBehind, Exists
    <2> QED  BY <2>2, <2>4, <2>5, StillStep
  <1> QED  BY <1>1, <1>2, <1>3, <1>4

LEMMA OperatorStep ==
  ASSUME GroupAssumption, IInv, Operator
  PROVE  IInv'
  <1>0. TypeOK /\ group \in Groups  BY DEF IInv, TypeOK
  <1>1. /\ UNCHANGED <<member, changes, passkey, rights, updates, grants, wizard, talk, task,
                       faults>>
        /\ barred' \subseteq Admin /\ shut' \in BOOLEAN
        /\ \/ UNCHANGED group
           \/ /\ Exists
              /\ \E s \in {"suspended", "active"} : group' = [group EXCEPT !.status = s]
    <2>1. CASE sa_suspend
      BY <1>0, <2>1 DEF sa_suspend, chat, talks, TypeOK
    <2>2. ASSUME NEW a \in Admin, ban_admin(a) \/ suspend_admin(a) \/ unban_admin(a)
          PROVE  <1>1!1 /\ <1>1!2 /\ <1>1!3
      <3>1. group.owner = a => Exists
        BY <1>0, AbsentIs DEF GroupAssumption, TypeOK
      <3> QED
        BY <1>0, <2>2, <3>1 DEF ban_admin, suspend_admin, unban_admin, row, chat, talks, TypeOK
    <2> QED  BY <2>1, <2>2 DEF Operator
  <1>2. /\ group' \in Groups /\ (Exists' <=> Exists) /\ group'.owner = group.owner
        /\ (Exists' \/ group' = Absent)
    BY <1>0, <1>1 DEF Groups, Exists, TypeOK
  <1>3. TypeOK'  BY <1>0, <1>1, <1>2 DEF TypeOK, at
  <1>4. Room' /\ Owned' /\ NothingLeftBehind'
    BY <1>1, <1>2 DEF IInv, Room, Owned, Granted, NothingLeftBehind
  <1> QED  BY <1>1, <1>3, <1>4, StillStep

LEMMA RestartStep ==
  ASSUME GroupAssumption, IInv, Restart
  PROVE  IInv'
  <1>0. TypeOK /\ Room /\ MaxFaults \in Nat  BY DEF IInv, GroupAssumption
  <1>1. updates' \in Seq(Updates) /\ Room'  BY <1>0, RestartEffect
  <1>2. /\ UNCHANGED <<group, member, changes, passkey, rights, grants, barred, shut>>
        /\ task' = [t \in Thread |-> Rest]
        /\ wizard' = [a \in Admin |-> NoWizard] /\ talk' = [a \in Admin |-> "none"]
        /\ faults < MaxFaults /\ faults' = faults + 1
    BY DEF Restart, row
  <1>3. task' \in [Thread -> Tasks] /\ \A t \in Thread : task'[t] = Rest /\ task'[t].at = "idle"
    BY <1>2, RestIs
  <1>4. wizard' \in [Admin -> Wizards] /\ \A a \in Admin : wizard'[a] = NoWizard
    BY <1>2, NoWizardIs
  <1>5. faults' \in 0 .. MaxFaults  BY <1>0, <1>2 DEF TypeOK
  <1>6. TypeOK'  BY <1>0, <1>1, <1>2, <1>3, <1>4, <1>5 DEF TypeOK, Exists, at
  <1>7. Owned' /\ NothingLeftBehind'
    BY <1>2 DEF IInv, Owned, Granted, NothingLeftBehind, Exists
  <1>8. WizardsLegal'  BY <1>4, NoWizardIs DEF WizardsLegal, Legal, Deep
  <1>9. TasksSound'  BY <1>3, RestIs DEF TasksSound, Sound
  <1> QED  BY <1>1, <1>6, <1>7, <1>8, <1>9 DEF IInv

LEMMA InitInv == ASSUME GroupAssumption, Init PROVE IInv
  <1>1. /\ updates \in Seq(Updates) /\ grants \in Seq(Grants) /\ Len(grants) = 0
        /\ DOMAIN updates = {}
    BY EmptySeq, LenProperties DEF Init
  <1>2. /\ wizard \in [Admin -> Wizards] /\ \A a \in Admin : wizard[a] = NoWizard
        /\ task \in [Thread -> Tasks] /\ \A t \in Thread : task[t] = Rest
    BY NoWizardIs, RestIs DEF Init
  <1>3. MaxGrants \in Nat /\ MaxFaults \in Nat  BY DEF GroupAssumption
  <1>a. group \in Groups /\ group = Absent  BY AbsentIs DEF Init
  <1>b. Len(grants) <= MaxGrants /\ faults \in 0 .. MaxFaults  BY <1>1, <1>3 DEF Init
  <1>c. \A t \in Thread : ~at(t, "status")  BY <1>2, RestIs DEF at
  <1>d. /\ member = "none" /\ changes = "none" /\ passkey = FALSE /\ rights = "out"
        /\ barred = {} /\ shut = FALSE /\ talk = [a \in Admin |-> "none"]
    BY DEF Init
  <1>4. TypeOK  BY <1>1, <1>2, <1>a, <1>b, <1>c, <1>d DEF TypeOK
  <1>5. Room /\ Owned /\ NothingLeftBehind
    BY <1>1, AbsentIs DEF Init, Room, Owned, NothingLeftBehind, Exists
  <1>6. WizardsLegal  BY <1>2, NoWizardIs DEF WizardsLegal, Legal, Deep
  <1>7. TasksSound  BY <1>2, RestIs DEF TasksSound, Sound
  <1> QED  BY <1>4, <1>5, <1>6, <1>7 DEF IInv

LEMMA NextInv == ASSUME GroupAssumption, IInv, [Next]_vars PROVE IInv'
  <1>1. CASE Chat  BY <1>1, ChatStep
  <1>2. CASE Statements  BY <1>2, StatementsStep DEF Statements
  <1>3. CASE Setup  BY <1>3, SetupStep DEF Setup
  <1>4. CASE MiniApp  BY <1>4, MiniAppStep DEF MiniApp
  <1>5. CASE Menu
    <2>1. PICK a \in Admin :
             \/ cb_pause(a) \/ \E c \in {"price", "delete"} : cb_menu(a, c)
             \/ cb_cancel_input(a) \/ cb_price_confirm(a) \/ msg_delete_confirm_name(a)
      BY <1>5 DEF Menu
    <2> QED  BY <2>1, MenuStep
  <1>6. CASE Members  BY <1>6, MembersStep DEF Members
  <1>7. CASE Operator  BY <1>7, OperatorStep
  <1>8. CASE Restart  BY <1>8, RestartStep
  <1>9. CASE UNCHANGED vars
    <2>1. UNCHANGED <<group, member, changes, passkey, rights, updates, grants, barred,
                      wizard, talk, task, shut, faults>>
      BY <1>9 DEF vars, row, chat, talks
    <2>2. TypeOK'  BY <2>1 DEF IInv, TypeOK, Exists, at
    <2>3. Room' /\ Owned' /\ NothingLeftBehind'
      BY <2>1 DEF IInv, Room, Owned, Granted, NothingLeftBehind, Exists
    <2> QED  BY <2>1, <2>2, <2>3, StillStep
  <1> QED  BY <1>1, <1>2, <1>3, <1>4, <1>5, <1>6, <1>7, <1>8, <1>9 DEF Next

LEMMA GroupInv == ASSUME GroupAssumption PROVE Spec => []IInv
  BY InitInv, NextInv, PTL DEF Spec

\* Every variable of the group keeps its type, the promotions of the bot their bound,
\* and a group that does not exist has the row of no group.
THEOREM TypeCorrect == ASSUME GroupAssumption PROVE Spec => []TypeOK
  <1>1. IInv => TypeOK  BY DEF IInv
  <1> QED  BY <1>1, GroupInv, PTL

\* Whoever comes to own a paywall made the bot an admin of the chat with every right
\* it needs, whatever wizard, form or late update of whichever admin came between.
THEOREM OwnerIsAdmin == ASSUME GroupAssumption PROVE Spec => []OwnerMadeItAdmin
  <1>1. IInv => OwnerMadeItAdmin  BY DEF IInv, Owned, Granted, OwnerMadeItAdmin
  <1> QED  BY <1>1, GroupInv, PTL

\* What cb_final_confirm has written is what the last summary showed, however the
\* admin went through the wizard.
THEOREM SummaryIsWritten == ASSUME GroupAssumption PROVE Spec => []ShownIsActivated
  <1>1. IInv => ShownIsActivated
    BY ThreadFacts DEF IInv, TasksSound, Sound, ShownIsActivated
  <1> QED  BY <1>1, GroupInv, PTL

\* A group that is deleted leaves no member, passkey or wallet change behind, whatever
\* was under way.
THEOREM DeletedWhole == ASSUME GroupAssumption PROVE Spec => []NothingLeftBehind
  <1>1. IInv => NothingLeftBehind  BY DEF IInv
  <1> QED  BY <1>1, GroupInv, PTL

-----------------------------------------------------------------------------
(* The passkey: requests, and the transactions that hold a connection.     *)

\* The instance has its own copy of FiniteSets.
LEMMA SameCount ==
  ASSUME NEW S
  PROVE  (P!IsFiniteSet(S) <=> IsFiniteSet(S)) /\ P!Cardinality(S) = Cardinality(S)
  <1>1. P!IsFiniteSet(S) <=> IsFiniteSet(S)  BY DEF P!IsFiniteSet, IsFiniteSet
  <1>2. P!Cardinality(S) = Cardinality(S)  BY DEF P!Cardinality, Cardinality
  <1> QED  BY <1>1, <1>2

Inside(q) == q.at \in {"update", "audit", "commit"}

LEMMA PasscodeFacts ==
  ASSUME P!PasscodeAssumption
  PROVE  /\ MAX_ATTEMPTS \in Nat /\ MAX_ATTEMPTS >= 1
         /\ PoolSize \in Nat /\ Elsewhere \in Nat
         /\ IsFiniteSet(Request) /\ NoRequest \notin Request /\ NoCode \notin Code
  BY SameCount DEF P!PasscodeAssumption

LEMMA IdleIs ==
  ASSUME P!PasscodeAssumption
  PROVE  /\ P!Idle \in P!Requests /\ P!Idle.at = "idle" /\ ~Inside(P!Idle)
         /\ P!Idle.writes = "nothing"
  BY PasscodeFacts DEF P!Idle, P!Requests, Inside

LEMMA RequestEffect ==
  ASSUME P!TypeOK, NEW r \in Request, NEW q \in P!Requests,
         request' = [request EXCEPT ![r] = q]
  PROVE  /\ request' \in [Request -> P!Requests] /\ request'[r] = q
         /\ \A s \in Request : s # r => request'[s] = request[s]
  BY DEF P!TypeOK

LEMMA HeldFinite ==
  ASSUME P!PasscodeAssumption
  PROVE  /\ IsFiniteSet(P!Held) /\ Cardinality(P!Held) \in Nat
         /\ \A r : r \in P!Held <=> r \in Request /\ Inside(request[r])
  <1>1. P!Held \subseteq Request  BY DEF P!Held
  <1> QED  BY <1>1, PasscodeFacts, FS_Subset, FS_CardinalityType DEF P!Held, Inside

\* A request that enters its transaction holds one connection more, one that
\* leaves it one less.
LEMMA HeldMove ==
  ASSUME P!PasscodeAssumption, P!TypeOK, NEW r \in Request, NEW q \in P!Requests,
         request' = [request EXCEPT ![r] = q]
  PROVE  /\ Inside(q) /\ Inside(request[r]) => Cardinality(P!Held') = Cardinality(P!Held)
         /\ Inside(q) /\ ~Inside(request[r]) => Cardinality(P!Held') = Cardinality(P!Held) + 1
         /\ ~Inside(q) => Cardinality(P!Held') <= Cardinality(P!Held)
        /\ Cardinality(P!Held') \in Nat
  <1>1. /\ request'[r] = q
        /\ \A s \in Request : s # r => request'[s] = request[s]
    BY RequestEffect
  <1>2. Inside(q) => P!Held' = P!Held \cup {r}  BY <1>1 DEF P!Held, Inside
  <1>3. ~Inside(q) => P!Held' = P!Held \ {r}  BY <1>1 DEF P!Held, Inside
  <1>4. r \in P!Held <=> Inside(request[r])  BY HeldFinite
  <1>5. /\ Cardinality(P!Held) \in Nat
        /\ Cardinality(P!Held \cup {r}) =
              IF r \in P!Held THEN Cardinality(P!Held) ELSE Cardinality(P!Held) + 1
        /\ Cardinality(P!Held \ {r}) =
              IF r \in P!Held THEN Cardinality(P!Held) - 1 ELSE Cardinality(P!Held)
    BY HeldFinite, FS_AddElement, FS_RemoveElement
  <1>6. CASE Inside(q)
    <2>1. P!Held' = P!Held \cup {r}  BY <1>2, <1>6
    <2>2. Cardinality(P!Held') = Cardinality(P!Held \cup {r})  BY <2>1
    <2>3. CASE r \in P!Held  BY <1>4, <1>5, <1>6, <2>2, <2>3
    <2>4. CASE r \notin P!Held  BY <1>4, <1>5, <1>6, <2>2, <2>4
    <2> QED  BY <2>3, <2>4
  <1>7. CASE ~Inside(q)
    <2>1. P!Held' = P!Held \ {r}  BY <1>3, <1>7
    <2>2. Cardinality(P!Held') = Cardinality(P!Held \ {r})  BY <2>1
    <2>3. Cardinality(P!Held \ {r}) \in Nat
      BY HeldFinite, FS_RemoveElement, FS_CardinalityType
    <2> QED  BY <1>5, <1>7, <2>2, <2>3
  <1> QED  BY <1>6, <1>7

LEMMA HeldSame == ASSUME UNCHANGED request PROVE P!Held' = P!Held
  BY DEF P!Held

\* The connections in use, and who holds the lock of the row.
Holding ==
    /\ Cardinality(P!Held) + others <= PoolSize
    /\ holder # NoRequest => request[holder].at \in {"audit", "commit"}
    /\ \A r \in Request : request[r].at \in {"audit", "commit"} => holder = r
    /\ \A r \in Request : request[r].at = "audit" => request[r].audits > 0

\* What a request becomes when it arrives, reads the row, takes its lock, writes an
\* audit line.
LEMMA AskEffect ==
  ASSUME P!PasscodeAssumption, P!TypeOK, NEW r \in Request, P!ask(r)
  PROVE  /\ ~Inside(request[r])
         /\ \E q \in P!Requests : ~Inside(q) /\ request' = [request EXCEPT ![r] = q]
  <1>1. PICK op \in {"set", "check", "wallet"}, given \in Code \cup {NoCode},
             new \in Code \cup {NoCode}, to \in Wallet \cup {NoWallet} :
           request' = [request EXCEPT ![r] =
              [P!Idle EXCEPT !.at = "waiting", !.op = op, !.given = given,
                             !.new = new, !.to = to]]
    <2>1. PICK op \in P!Ops, given \in Code \cup {NoCode} :
             \E new \in IF op = "set" THEN Code ELSE {NoCode} :
             \E to \in IF op = "wallet" THEN Wallet ELSE {NoWallet} :
                request' = [request EXCEPT ![r] =
                   [P!Idle EXCEPT !.at = "waiting", !.op = op, !.given = given,
                                  !.new = new, !.to = to]]
      BY DEF P!ask
    <2>2. op \in {"set", "check", "wallet"}  BY <2>1 DEF P!Ops
    <2> QED  BY <2>1, <2>2
  <1> DEFINE q == [P!Idle EXCEPT !.at = "waiting", !.op = op, !.given = given,
                                 !.new = new, !.to = to]
  <1>2. q \in P!Requests
    <2>1. P!Idle \in P!Requests  BY IdleIs
    <2> QED  BY ONLY <1>1, <2>1 DEF P!Requests
  <1>3. ~Inside(q)
    <2>1. P!Idle \in P!Requests  BY IdleIs
    <2>2. q.at = "waiting"  BY ONLY <2>1 DEF P!Requests
    <2> QED  BY ONLY <2>2 DEF Inside
  <1>4. ~Inside(request[r])  BY DEF P!ask, P!at, Inside
  <1> QED  BY <1>1, <1>2, <1>3, <1>4

LEMMA BeginEffect ==
  ASSUME P!PasscodeAssumption, P!TypeOK, NEW r \in Request, P!begin(r)
  PROVE  /\ ~Inside(request[r])
         /\ \E q \in P!Requests :
               /\ request' = [request EXCEPT ![r] = q]
               /\ \/ ~Inside(q)
                  \/ /\ q.at = "update" /\ q.failed = failed
                     /\ q.writes = "lock" => ~locked /\ failed + 1 >= MAX_ATTEMPTS
                     /\ q.writes = "count" => ~locked /\ failed + 1 < MAX_ATTEMPTS
  <1> DEFINE old == request[r]
             q == [old EXCEPT !.at = "update", !.failed = failed, !.writes = P!Writes(old),
                              !.audits = P!Audits(old, P!Writes(old))]
  <1>1. ~Inside(old) /\ old \in P!Requests  BY DEF P!begin, P!at, Inside, P!TypeOK
  <1>2. CASE request' = [request EXCEPT ![r] = P!Idle]  BY <1>1, <1>2, IdleIs
  <1>3. CASE request' = [request EXCEPT ![r] = q] /\ ~P!Locked(old.op)
    <2>1. P!Writes(old) \in {"nothing", "count", "lock", "clear", "set"}
      BY DEF P!Writes
    <2>2. P!Audits(old, P!Writes(old)) \in 0 .. 2  BY DEF P!Audits
    <2>3. failed \in 0 .. MAX_ATTEMPTS  BY DEF P!TypeOK
    <2>4. q \in P!Requests  BY <1>1, <2>1, <2>2, <2>3 DEF P!Requests
    <2>5. q.at = "update" /\ q.failed = failed /\ q.writes = P!Writes(old)
      BY <1>1 DEF P!Requests
    <2>6. P!Writes(old) = "lock" => ~locked /\ failed + 1 >= MAX_ATTEMPTS
      BY <1>3 DEF P!Writes, P!Wrong, P!Locked, P!Protected
    <2>7. P!Writes(old) = "count" => ~locked /\ failed + 1 < MAX_ATTEMPTS
      BY <1>3, <2>3, PasscodeFacts DEF P!Writes, P!Wrong, P!Locked, P!Protected
    <2> HIDE DEF q
    <2> QED  BY <1>1, <1>3, <2>4, <2>5, <2>6, <2>7
  <1> QED  BY <1>1, <1>2, <1>3 DEF P!begin

LEMMA UpdateEffect ==
  ASSUME P!PasscodeAssumption, P!TypeOK, NEW r \in Request, P!update(r)
  PROVE  /\ request[r].at = "update" /\ holder = NoRequest /\ holder' = r
         /\ \E q \in P!Requests :
               /\ request' = [request EXCEPT ![r] = q]
               /\ q.at = IF request[r].audits > 0 THEN "audit" ELSE "commit"
               /\ q.failed = request[r].failed /\ q.writes = request[r].writes
               /\ q.audits = request[r].audits
  <1> DEFINE p == IF request[r].audits > 0 THEN "audit" ELSE "commit"
             q == [request[r] EXCEPT !.at = p]
  <1>1. request[r] \in P!Requests  BY DEF P!TypeOK
  <1>2. /\ q \in P!Requests /\ q.at = p /\ q.failed = request[r].failed
        /\ q.writes = request[r].writes /\ q.audits = request[r].audits
    BY <1>1 DEF P!Requests
  <1>3. request' = [request EXCEPT ![r] = q]  BY DEF P!update
  <1> HIDE DEF q
  <1> QED  BY <1>2, <1>3 DEF P!update, P!at

LEMMA AuditEffect ==
  ASSUME P!PasscodeAssumption, P!TypeOK, Holding, NEW r \in Request, P!audit(r)
  PROVE  /\ request[r].at = "audit"
         /\ \E q \in P!Requests :
               /\ request' = [request EXCEPT ![r] = q]
               /\ q.at \in {"audit", "commit"} /\ (q.at = "audit" => q.audits > 0)
               /\ q.failed = request[r].failed /\ q.writes = request[r].writes
  <1> DEFINE p == IF request[r].audits = 1 THEN "commit" ELSE "audit"
             n == request[r].audits - 1
             q == [request[r] EXCEPT !.audits = n, !.at = p]
  <1>1. request[r] \in P!Requests /\ request[r].at = "audit" /\ request[r].audits > 0
    BY DEF P!TypeOK, P!audit, P!at, Holding
  <1>2. n \in 0 .. 2 /\ (p = "audit" => n > 0)  BY <1>1 DEF P!Requests
  <1>3. /\ q \in P!Requests /\ q.at = p /\ q.failed = request[r].failed
        /\ q.writes = request[r].writes /\ q.audits = n
    BY <1>1, <1>2 DEF P!Requests
  <1>4. request' = [request EXCEPT ![r] = q]  BY DEF P!audit
  <1> HIDE DEF q, n
  <1> QED  BY <1>1, <1>2, <1>3, <1>4

\* The columns keep their types when a transaction commits.
LEMMA CommitEffect ==
  ASSUME P!PasscodeAssumption, P!TypeOK, NEW r \in Request, P!commit(r)
  PROVE  /\ request[r].at = "commit" /\ holder' = NoRequest
         /\ request' = [request EXCEPT ![r] = P!Idle]
         /\ hash' \in Code \cup {NoCode} /\ failed' \in 0 .. MAX_ATTEMPTS
         /\ locked' \in BOOLEAN /\ wallet' \in Wallet \cup {NoWallet} /\ guesses' \in Nat
         /\ UNCHANGED <<table, others>>
         /\ LET q == request[r] IN
               \/ /\ q.writes = "count" /\ failed' = P!Capped(q.failed + 1)
                  /\ locked' = locked /\ guesses' = guesses + 1
               \/ /\ q.writes = "lock" /\ locked' = TRUE /\ guesses' = guesses + 1
               \/ /\ q.writes \in {"set", "clear"} /\ failed' = 0
                  /\ locked' = FALSE /\ guesses' = 0
               \/ /\ q.writes = "nothing" /\ UNCHANGED <<failed, locked, guesses>>
  <1> DEFINE q == request[r]
  <1>1. /\ q \in P!Requests /\ failed \in 0 .. MAX_ATTEMPTS /\ locked \in BOOLEAN
        /\ hash \in Code \cup {NoCode} /\ wallet \in Wallet \cup {NoWallet} /\ guesses \in Nat
    BY DEF P!TypeOK
  <1>2. /\ q.writes \in {"nothing", "count", "lock", "clear", "set"}
        /\ q.failed \in 0 .. MAX_ATTEMPTS /\ q.new \in Code \cup {NoCode}
        /\ q.to \in Wallet \cup {NoWallet}
    BY <1>1 DEF P!Requests
  <1>3. P!Capped(q.failed + 1) \in 0 .. MAX_ATTEMPTS
    BY <1>2, PasscodeFacts DEF P!Capped
  <1>4. hash' \in Code \cup {NoCode} /\ wallet' \in Wallet \cup {NoWallet}
    BY <1>1, <1>2 DEF P!commit
  <1>5. \/ /\ q.writes = "count" /\ failed' = P!Capped(q.failed + 1)
           /\ locked' = locked /\ guesses' = guesses + 1
        \/ /\ q.writes = "lock" /\ failed' = P!Capped(q.failed + 1)
           /\ locked' = TRUE /\ guesses' = guesses + 1
        \/ /\ q.writes \in {"set", "clear"} /\ failed' = 0
           /\ locked' = FALSE /\ guesses' = 0
        \/ /\ q.writes = "nothing" /\ UNCHANGED <<failed, locked, guesses>>
    BY <1>2 DEF P!commit
  <1> HIDE DEF q
  <1>6. 0 \in 0 .. MAX_ATTEMPTS /\ guesses + 1 \in Nat  BY <1>1, PasscodeFacts
  <1>7. failed' \in 0 .. MAX_ATTEMPTS  BY <1>1, <1>3, <1>5, <1>6
  <1>8. guesses' \in Nat  BY <1>1, <1>5, <1>6
  <1>9. locked' = locked \/ locked' = TRUE \/ locked' = FALSE  BY <1>5
  <1>10. locked' \in BOOLEAN  BY <1>1, <1>9
  <1> QED  BY <1>4, <1>5, <1>7, <1>8, <1>10 DEF P!commit, P!at, q

LEMMA PasscodeTypeStep ==
  ASSUME P!PasscodeAssumption, P!TypeOK, Holding, P!Next
  PROVE  P!TypeOK'
  <1> USE DEF P!row
  <1>1. ASSUME NEW r \in Request, P!ask(r) \/ P!begin(r) \/ P!audit(r) PROVE P!TypeOK'
    <2>1. PICK q \in P!Requests : request' = [request EXCEPT ![r] = q]
      BY <1>1, AskEffect, BeginEffect, AuditEffect
    <2>2. UNCHANGED <<table, hash, failed, locked, wallet, holder, others, guesses>>
      BY <1>1 DEF P!ask, P!begin, P!audit
    <2> QED  BY <2>1, <2>2, RequestEffect DEF P!TypeOK
  <1>2. ASSUME NEW r \in Request, P!update(r) PROVE P!TypeOK'
    <2>1. PICK q \in P!Requests : request' = [request EXCEPT ![r] = q]
      BY <1>2, UpdateEffect
    <2>2. UNCHANGED <<table, hash, failed, locked, wallet, others, guesses>> /\ holder' = r
      BY <1>2 DEF P!update
    <2> QED  BY <2>1, <2>2, RequestEffect DEF P!TypeOK
  <1>3. ASSUME NEW r \in Request, P!give_up(r) PROVE P!TypeOK'
    <2>1. UNCHANGED <<table, hash, failed, locked, wallet, holder, others, guesses>>
      BY <1>3 DEF P!give_up
    <2> QED  BY <1>3, <2>1, IdleIs, RequestEffect DEF P!TypeOK, P!give_up
  <1>4. ASSUME NEW r \in Request, P!commit(r) PROVE P!TypeOK'
    BY <1>4, CommitEffect, IdleIs, RequestEffect DEF P!TypeOK
  <1>5. ASSUME P!begin_elsewhere \/ P!audit_elsewhere PROVE P!TypeOK'
    BY <1>5, PasscodeFacts DEF P!begin_elsewhere, P!audit_elsewhere, P!TypeOK
  <1>6. ASSUME P!Cooldown PROVE P!TypeOK'
    BY <1>6 DEF P!Cooldown, P!TypeOK
  <1> QED  BY <1>1, <1>2, <1>3, <1>4, <1>5, <1>6 DEF P!Next

LEMMA FreeIs ==
  ASSUME P!PasscodeAssumption
  PROVE  P!Free = PoolSize - Cardinality(P!Held) - others
  BY SameCount DEF P!Free

LEMMA HoldingStep ==
  ASSUME P!PasscodeAssumption, P!TypeOK, Holding, P!Next
  PROVE  Holding'
  <1>0. /\ Cardinality(P!Held) \in Nat /\ others \in Nat /\ PoolSize \in Nat
        /\ NoRequest \notin Request /\ Cardinality(P!Held) + others <= PoolSize
    BY HeldFinite, PasscodeFacts DEF P!TypeOK, Holding
  <1>1. ASSUME NEW r \in Request, P!ask(r) PROVE Holding'
    <2>1. PICK q \in P!Requests : ~Inside(q) /\ request' = [request EXCEPT ![r] = q]
      BY <1>1, AskEffect
    <2>2. UNCHANGED <<holder, others>> /\ ~Inside(request[r])  BY <1>1, AskEffect DEF P!ask
    <2>3. Cardinality(P!Held') <= Cardinality(P!Held) /\ Cardinality(P!Held') \in Nat
      BY <2>1, HeldMove
    <2>4. Cardinality(P!Held') + others' <= PoolSize  BY <1>0, <2>2, <2>3
    <2>5. /\ request'[r] = q
          /\ \A s \in Request : s # r => request'[s] = request[s]
      BY <2>1, RequestEffect
    <2> QED  BY <1>0, <2>1, <2>2, <2>4, <2>5 DEF Holding, Inside, P!TypeOK
  <1>2. ASSUME NEW r \in Request, P!begin(r) PROVE Holding'
    <2>1. /\ ~Inside(request[r])
          /\ \E q \in P!Requests :
                /\ request' = [request EXCEPT ![r] = q]
                /\ ~Inside(q) \/ q.at = "update"
      BY <1>2, BeginEffect
    <2>2. PICK q \in P!Requests : /\ request' = [request EXCEPT ![r] = q]
                                  /\ ~Inside(q) \/ q.at = "update"
      BY <2>1
    <2>3. UNCHANGED <<holder, others>> /\ PoolSize - Cardinality(P!Held) - others > 0
      BY <1>2, FreeIs DEF P!begin
    <2>4. Cardinality(P!Held') <= Cardinality(P!Held) + 1 /\ Cardinality(P!Held') \in Nat
      <3>1. /\ Inside(q) /\ ~Inside(request[r]) =>
                  Cardinality(P!Held') = Cardinality(P!Held) + 1
            /\ ~Inside(q) => Cardinality(P!Held') <= Cardinality(P!Held)
            /\ Cardinality(P!Held') \in Nat
        BY <2>2, HeldMove
      <3> QED  BY <1>0, <2>1, <3>1
    <2>5. Cardinality(P!Held') + others' <= PoolSize  BY <1>0, <2>3, <2>4
    <2>6. /\ request'[r] = q
          /\ \A s \in Request : s # r => request'[s] = request[s]
      BY <2>2, RequestEffect
    <2> QED  BY <1>0, <2>1, <2>2, <2>3, <2>5, <2>6 DEF Holding, Inside, P!TypeOK
  <1>3. ASSUME NEW r \in Request, P!update(r) PROVE Holding'
    <2>1. PICK q \in P!Requests :
             /\ request' = [request EXCEPT ![r] = q]
             /\ q.at = IF request[r].audits > 0 THEN "audit" ELSE "commit"
             /\ q.audits = request[r].audits
      BY <1>3, UpdateEffect
    <2>2. request[r].at = "update" /\ holder = NoRequest /\ holder' = r /\ UNCHANGED others
      BY <1>3, UpdateEffect DEF P!update
    <2>3. Cardinality(P!Held') = Cardinality(P!Held)
      <3>1. Inside(q) /\ Inside(request[r])  BY <2>1, <2>2 DEF Inside
      <3> QED  BY <2>1, <3>1, HeldMove
    <2>4. Cardinality(P!Held') + others' <= PoolSize  BY <1>0, <2>2, <2>3
    <2>5. /\ request'[r] = q
          /\ \A s \in Request : s # r => request'[s] = request[s]
      BY <2>1, RequestEffect
    <2>6. \A s \in Request : request[s].at \notin {"audit", "commit"}
      BY <1>0, <2>2 DEF Holding
    <2> QED  BY <1>0, <2>1, <2>2, <2>4, <2>5, <2>6 DEF Holding
  <1>4. ASSUME NEW r \in Request, P!give_up(r) \/ P!commit(r) PROVE Holding'
    <2>1. request' = [request EXCEPT ![r] = P!Idle] /\ UNCHANGED others
      BY <1>4 DEF P!give_up, P!commit
    <2>2. Cardinality(P!Held') <= Cardinality(P!Held) /\ Cardinality(P!Held') \in Nat
      BY <2>1, IdleIs, HeldMove
    <2>3. Cardinality(P!Held') + others' <= PoolSize  BY <1>0, <2>1, <2>2
    <2>4. /\ request'[r] = P!Idle /\ P!Idle.at = "idle"
          /\ \A s \in Request : s # r => request'[s] = request[s]
      BY <2>1, IdleIs, RequestEffect
    <2>5. CASE P!give_up(r)
      <3>1. request[r].at = "update" /\ UNCHANGED holder  BY <2>5 DEF P!give_up, P!at
      <3> QED  BY <1>0, <2>3, <2>4, <3>1 DEF Holding, P!TypeOK
    <2>6. CASE P!commit(r)
      <3>1. request[r].at = "commit" /\ holder' = NoRequest  BY <2>6 DEF P!commit, P!at
      <3>2. holder = r  BY <3>1 DEF Holding
      <3> QED  BY <1>0, <2>3, <2>4, <3>1, <3>2 DEF Holding
    <2> QED  BY <1>4, <2>5, <2>6
  <1>5. ASSUME NEW r \in Request, P!audit(r) PROVE Holding'
    <2>1. PICK q \in P!Requests :
             /\ request' = [request EXCEPT ![r] = q]
             /\ q.at \in {"audit", "commit"} /\ (q.at = "audit" => q.audits > 0)
      BY <1>5, AuditEffect
    <2>2. request[r].at = "audit" /\ UNCHANGED <<holder, others>>
      BY <1>5, AuditEffect DEF P!audit
    <2>3. Cardinality(P!Held') = Cardinality(P!Held)
      <3>1. Inside(q) /\ Inside(request[r])  BY <2>1, <2>2 DEF Inside
      <3> QED  BY <2>1, <3>1, HeldMove
    <2>4. Cardinality(P!Held') + others' <= PoolSize  BY <1>0, <2>2, <2>3
    <2>5. /\ request'[r] = q
          /\ \A s \in Request : s # r => request'[s] = request[s]
      BY <2>1, RequestEffect
    <2>6. holder = r  BY <2>2 DEF Holding
    <2> QED  BY <1>0, <2>1, <2>2, <2>4, <2>5, <2>6 DEF Holding
  <1>6. ASSUME P!begin_elsewhere \/ P!audit_elsewhere \/ P!Cooldown PROVE Holding'
    <2>1. UNCHANGED <<holder, request>>
      BY <1>6 DEF P!begin_elsewhere, P!audit_elsewhere, P!Cooldown
    <2>2. P!Held' = P!Held  BY <2>1, HeldSame
    <2>3. Cardinality(P!Held') + others' <= PoolSize
      BY <1>0, <1>6, <2>2, FreeIs DEF P!begin_elsewhere, P!audit_elsewhere, P!Cooldown
    <2> QED  BY <2>1, <2>3 DEF Holding
  <1> QED  BY <1>1, <1>2, <1>3, <1>4, <1>5, <1>6 DEF P!Next

LEMMA PasscodeInit == ASSUME P!PasscodeAssumption, P!Init PROVE P!TypeOK /\ Holding
  <1>1. request \in [Request -> P!Requests] /\ \A r \in Request : request[r] = P!Idle
    BY IdleIs DEF P!Init
  <1>a. 0 \in 0 .. MAX_ATTEMPTS /\ 0 \in 0 .. Elsewhere /\ 0 \in Nat  BY PasscodeFacts
  <1>b. /\ table \in {"group", "platform"} /\ hash = NoCode /\ failed = 0 /\ locked = FALSE
        /\ wallet = NoWallet /\ holder = NoRequest /\ others = 0 /\ guesses = 0
    BY DEF P!Init
  <1>2. P!TypeOK  BY <1>1, <1>a, <1>b DEF P!TypeOK
  <1>3. P!Held = {}  BY <1>1, IdleIs DEF P!Held, Inside
  <1>4. Cardinality(P!Held) + others <= PoolSize
    BY <1>3, FS_EmptySet, PasscodeFacts DEF P!Init
  <1> QED  BY <1>1, <1>2, <1>4, IdleIs DEF P!Init, Holding

LEMMA PasscodeSame == ASSUME UNCHANGED P!vars PROVE UNCHANGED <<request, holder, others, guesses,
                                                               failed, locked, table, hash, wallet>>
  BY DEF P!vars, P!row

LEMMA PasscodeInv ==
  ASSUME P!PasscodeAssumption PROVE P!Spec => [](P!TypeOK /\ Holding)
  <1>1. P!TypeOK /\ Holding /\ [P!Next]_(P!vars) => (P!TypeOK /\ Holding)'
    <2> SUFFICES ASSUME P!TypeOK, Holding, [P!Next]_(P!vars) PROVE (P!TypeOK /\ Holding)'
      OBVIOUS
    <2>1. CASE P!Next  BY <2>1, PasscodeTypeStep, HoldingStep
    <2>2. CASE UNCHANGED P!vars
      BY <2>2, PasscodeSame, HeldSame DEF P!TypeOK, Holding
    <2> QED  BY <2>1, <2>2
  <1> QED  BY <1>1, PasscodeInit, PTL DEF P!Spec

\* The row, the pool and the requests of a passkey have their types: for any number
\* of requests, passkeys, wallets, attempts and connections.
THEOREM PasscodeTypes == ASSUME P!PasscodeAssumption PROVE P!Spec => []P!TypeOK
  BY PasscodeInv, PTL

\* Requests on passkeys wait for each other for good only in one way: the whole pool is
\* held by requests on different groups, each at its audit line; on one row that is the
\* holder of its lock alone.  For any number of requests, groups and connections.
THEOREM OnlyTheWholePool ==
  ASSUME P!PasscodeAssumption PROVE P!Spec => []OnlyAFullPoolBlocks
  <1>1. ASSUME P!TypeOK, Holding PROVE P!OnlyAFullPoolBlocks
    <2> SUFFICES ASSUME P!Deadlocked
                 PROVE  /\ P!Cardinality(P!Held) + others = PoolSize
                        /\ \A r \in P!Held : r = holder /\ request[r].at = "audit"
      BY DEF P!OnlyAFullPoolBlocks, P!at
    <2>0. /\ Cardinality(P!Held) \in Nat /\ others \in Nat /\ PoolSize \in Nat
          /\ Cardinality(P!Held) + others <= PoolSize
      BY <1>1, HeldFinite, PasscodeFacts DEF P!TypeOK, Holding
    <2>1. P!Free \in Nat /\ P!Free = PoolSize - Cardinality(P!Held) - others
      BY <2>0, FreeIs
    <2>2. \A r \in P!Held : r \in Request /\ request[r].at \in {"audit", "update"}
      BY HeldFinite DEF P!Deadlocked, P!at
    <2>3. ASSUME NEW r \in P!Held, request[r].at = "update"
          PROVE  request[holder].at = "audit" /\ P!Free > 0 /\ holder \in P!Held
      <3>1. holder # NoRequest /\ (request[holder].at = "audit" => P!Free > 0)
        BY <2>3 DEF P!Deadlocked, P!at
      <3>2. holder \in Request /\ request[holder].at \in {"audit", "commit"}
        BY <1>1, <3>1 DEF P!TypeOK, Holding
      <3>3. holder \in P!Held  BY <3>2, HeldFinite DEF Inside
      <3>4. request[holder].at = "audit"  BY <2>2, <3>2, <3>3
      <3> QED  BY <3>1, <3>3, <3>4
    <2>4. \A r \in P!Held : request[r].at = "audit" => P!Free = 0
      BY DEF P!Deadlocked, P!at
    <2>5. \A r \in P!Held : request[r].at = "audit"
      BY <2>1, <2>2, <2>3, <2>4
    <2>6. P!Free = 0
      BY <2>4, <2>5 DEF P!Deadlocked
    <2>7. \A r \in P!Held : r = holder
      BY <1>1, <2>2, <2>5 DEF Holding
    <2> QED  BY <2>0, <2>1, <2>5, <2>6, <2>7, SameCount
  <1>2. P!Spec => []P!OnlyAFullPoolBlocks  BY <1>1, PasscodeInv, PTL
  <1> QED  BY <1>2 DEF OnlyAFullPoolBlocks

\* The pool is enough while fewer groups than it has connections are asked at a time:
\* each group has one lock to hold, so that no deadlock is in reach of them.  With the
\* five connections of the code that leaves room for four groups.
COROLLARY FewGroupsNeverBlock ==
  ASSUME P!PasscodeAssumption
  PROVE  P!Spec => [](P!Deadlocked => others + 1 >= PoolSize)
  <1>1. ASSUME P!TypeOK, Holding, P!OnlyAFullPoolBlocks, P!Deadlocked
        PROVE  others + 1 >= PoolSize
    <2>1. Cardinality(P!Held) + others = PoolSize /\ P!Held \subseteq {holder}
      BY <1>1, SameCount DEF P!OnlyAFullPoolBlocks
    <2>2. Cardinality(P!Held) <= 1 /\ Cardinality(P!Held) \in Nat
      <3>1. IsFiniteSet({holder}) /\ Cardinality({holder}) = 1  BY FS_Singleton
      <3> QED  BY <2>1, <3>1, FS_Subset, HeldFinite
    <2>3. others \in Nat /\ PoolSize \in Nat  BY <1>1, PasscodeFacts DEF P!TypeOK
    <2> QED  BY <2>1, <2>2, <2>3
  <1>2. P!Spec => []P!OnlyAFullPoolBlocks  BY OnlyTheWholePool DEF OnlyAFullPoolBlocks
  <1> QED  BY <1>1, <1>2, PasscodeInv, PTL

-----------------------------------------------------------------------------
(* How many wrong passkeys two requests at a time get looked at.           *)

\* Twice the sum of the numbers up to n.
Twice(n) == n * (n + 1)

LEMMA TwiceFacts ==
  /\ Twice(0) = 0 /\ Twice(1) = 2
  /\ \A n \in Nat : Twice(n) \in Nat /\ Twice(n + 1) = Twice(n) + 2 * (n + 1)
  /\ \A m, n \in Nat : m <= n => Twice(m) <= Twice(n)
  <1>1. Twice(0) = 0 /\ Twice(1) = 2  BY DEF Twice
  <1>2. \A n \in Nat : n * (n + 1) \in Nat  OBVIOUS
  <1>3. \A n \in Nat : (n + 1) * (n + 2) = n * (n + 1) + 2 * (n + 1)  OBVIOUS
  <1>4. ASSUME NEW m \in Nat, NEW n \in Nat, m <= n PROVE m * (m + 1) <= n * (n + 1)
    <2>1. m * (m + 1) <= n * (m + 1)  BY <1>4
    <2>2. n * (m + 1) <= n * (n + 1)  BY <1>4
    <2> QED  BY <1>2, <2>1, <2>2
  <1> QED  BY <1>1, <1>2, <1>3, <1>4 DEF Twice

\* Twice the wrong passkeys that may still be looked at before the row locks: with
\* the counter at f and nothing under way; and while a request that read a at the
\* counter is under way, which may set it back to a + 1 when it is done.
Left(f) == Twice(MAX_ATTEMPTS - f) + 2

LeftWith(f, a) ==
    IF a <= f THEN 2 * (MAX_ATTEMPTS - f) + Twice(MAX_ATTEMPTS - a - 1) + 2 ELSE Left(f)

Below == 0 .. MAX_ATTEMPTS - 1

LEMMA LeftFacts ==
  ASSUME P!PasscodeAssumption, NEW f \in Below, NEW a \in Below
  PROVE  /\ Left(f) \in Nat /\ LeftWith(f, a) \in Nat
         /\ Left(f) <= LeftWith(f, a) /\ LeftWith(f, f) = Left(f)
         /\ 4 <= LeftWith(f, a)
         /\ Left(f) <= Left(0) /\ LeftWith(0, a) = Left(0)
         /\ a + 1 \in Below => /\ 2 + Left(a + 1) <= LeftWith(f, a)
                               /\ 2 + LeftWith(a + 1, f) <= LeftWith(f, a)
         /\ f + 1 \in Below => 2 + LeftWith(f + 1, a) <= LeftWith(f, a)
  <1> DEFINE M == MAX_ATTEMPTS
  <1>1. PICK x \in Nat : x = M - f - 1 /\ x + 1 = M - f
    BY PasscodeFacts DEF Below
  <1>2. PICK y \in Nat : y = M - a - 1 /\ y + 1 = M - a
    BY PasscodeFacts DEF Below
  <1>3. /\ Twice(x) \in Nat /\ Twice(y) \in Nat
        /\ Twice(x + 1) = Twice(x) + 2 * (x + 1) /\ Twice(y + 1) = Twice(y) + 2 * (y + 1)
        /\ x <= y => Twice(x) <= Twice(y)
        /\ y <= x => Twice(y) <= Twice(x)
    BY TwiceFacts
  <1>4. y + 1 <= x => Twice(y + 1) <= Twice(x)
    <2>1. y + 1 \in Nat  OBVIOUS
    <2> QED  BY <2>1, TwiceFacts
  <1>5. a <= f <=> x <= y  BY <1>1, <1>2, PasscodeFacts DEF Below
  <1>6. Left(f) = Twice(x) + 2 * (x + 1) + 2  BY <1>1, <1>3 DEF Left
  <1>7. LeftWith(f, a) = IF x <= y THEN 2 * (x + 1) + Twice(y) + 2
                         ELSE Twice(x) + 2 * (x + 1) + 2
    BY <1>1, <1>2, <1>5, <1>6 DEF LeftWith
  <1>8. /\ Left(f) \in Nat /\ LeftWith(f, a) \in Nat /\ Left(f) <= LeftWith(f, a)
        /\ 4 <= LeftWith(f, a)
    BY <1>1, <1>2, <1>3, <1>6, <1>7
  <1>9. LeftWith(f, f) = Left(f)  BY <1>1, <1>3, <1>6, PasscodeFacts DEF LeftWith, Below
  <1>10. Left(f) <= Left(0) /\ LeftWith(0, a) = Left(0)
    <2>1. M \in Nat /\ M - 1 \in Nat /\ M - f \in Nat /\ M - f <= M
      BY PasscodeFacts DEF Below
    <2>2. /\ Twice(M) \in Nat /\ Twice(M - f) \in Nat /\ Twice(M - f) <= Twice(M)
          /\ Twice((M - 1) + 1) = Twice(M - 1) + 2 * ((M - 1) + 1)
      BY <2>1, TwiceFacts
    <2>3. (M - 1) + 1 = M /\ M - 0 = M /\ M - 0 - 1 = M - 1  BY <2>1
    <2>4. Twice(M) = Twice(M - 1) + 2 * M  BY <2>2, <2>3
    <2>5. Left(0) = Twice(M) + 2  BY <2>3 DEF Left
    <2>6. Left(f) <= Left(0)  BY <2>2, <2>5 DEF Left
    <2>7. CASE a = 0
      <3>1. LeftWith(0, a) = 2 * M + Twice(M - 1) + 2  BY <2>3, <2>7 DEF LeftWith
      <3>2. Twice(M - 1) \in Nat  BY <2>1, TwiceFacts
      <3> QED  BY <2>1, <2>2, <2>4, <2>5, <2>6, <3>1, <3>2
    <2>8. CASE a # 0  BY <2>6, <2>8, PasscodeFacts DEF LeftWith, Below
    <2> QED  BY <2>6, <2>7, <2>8
  <1>11. ASSUME a + 1 \in Below
         PROVE  2 + Left(a + 1) <= LeftWith(f, a) /\ 2 + LeftWith(a + 1, f) <= LeftWith(f, a)
    <2>1. y >= 1 /\ M - (a + 1) = y  BY <1>2, <1>11, PasscodeFacts DEF Below
    <2>2. Left(a + 1) = Twice(y) + 2  BY <2>1 DEF Left
    <2>3. f <= a + 1 <=> y <= x + 1  BY <1>1, <1>2, PasscodeFacts DEF Below
    <2>4. LeftWith(a + 1, f) = IF y <= x + 1 THEN 2 * y + Twice(x) + 2 ELSE Twice(y) + 2
      BY <1>1, <2>1, <2>2, <2>3 DEF LeftWith
    <2>5. 2 + Left(a + 1) <= LeftWith(f, a)
      BY <1>1, <1>2, <1>3, <1>7, <2>2
    <2>6. CASE x <= y
      <3>1. x = y \/ x + 1 <= y  BY <1>1, <1>2, <2>6
      <3>2. LeftWith(f, a) = 2 * (x + 1) + Twice(y) + 2  BY <1>7, <2>6
      <3>3. CASE x = y  BY <1>1, <1>3, <2>4, <2>5, <3>2, <3>3
      <3>4. CASE x + 1 = y
        <4>1. Twice(y) = Twice(x) + 2 * y  BY <1>3, <3>4
        <4> QED  BY <1>1, <1>2, <1>3, <2>4, <2>5, <3>2, <3>4, <4>1
      <3>5. CASE x + 1 < y  BY <1>1, <1>2, <1>3, <2>4, <2>5, <3>2, <3>5
      <3> QED  BY <1>1, <1>2, <2>5, <3>1, <3>3, <3>4, <3>5
    <2>7. CASE ~(x <= y)
      <3>1. y + 1 <= x  BY <1>1, <1>2, <2>7
      <3>2. LeftWith(f, a) = Twice(x) + 2 * (x + 1) + 2  BY <1>7, <2>7
      <3>3. LeftWith(a + 1, f) = 2 * y + Twice(x) + 2  BY <1>1, <1>2, <2>4, <3>1
      <3> QED  BY <1>1, <1>2, <1>3, <2>5, <3>1, <3>2, <3>3
    <2> QED  BY <2>5, <2>6, <2>7
  <1>12. ASSUME f + 1 \in Below PROVE 2 + LeftWith(f + 1, a) <= LeftWith(f, a)
    <2>1. x >= 1 /\ M - (f + 1) = x  BY <1>1, <1>12, PasscodeFacts DEF Below
    <2>2. a <= f + 1 <=> x <= y + 1  BY <1>1, <1>2, PasscodeFacts DEF Below
    <2>3. LeftWith(f + 1, a) = IF x <= y + 1 THEN 2 * x + Twice(y) + 2 ELSE Twice(x) + 2
      BY <1>2, <2>1, <2>2 DEF LeftWith, Left
    <2>4. CASE x <= y
      <3>1. LeftWith(f, a) = 2 * (x + 1) + Twice(y) + 2  BY <1>7, <2>4
      <3>2. LeftWith(f + 1, a) = 2 * x + Twice(y) + 2  BY <1>1, <1>2, <2>3, <2>4
      <3> QED  BY <1>1, <1>2, <1>3, <3>1, <3>2
    <2>5. CASE ~(x <= y)
      <3>1. LeftWith(f, a) = Twice(x) + 2 * (x + 1) + 2  BY <1>7, <2>5
      <3>2. CASE x = y + 1
        <4>1. Twice(x) = Twice(y) + 2 * x  BY <1>3, <3>2
        <4>2. LeftWith(f + 1, a) = 2 * x + Twice(y) + 2  BY <1>1, <1>2, <2>3, <3>2
        <4> QED  BY <1>1, <1>2, <1>3, <3>1, <4>1, <4>2
      <3>3. CASE x # y + 1
        <4>1. LeftWith(f + 1, a) = Twice(x) + 2  BY <1>1, <1>2, <2>3, <2>5, <3>3
        <4> QED  BY <1>1, <1>3, <3>1, <4>1
      <3> QED  BY <3>2, <3>3
    <2> QED  BY <2>4, <2>5
  <1> QED  BY <1>8, <1>9, <1>10, <1>11, <1>12

\* A transaction that has decided that the passkey was wrong; what it took the
\* counter for; and what the counter is.
Refusing(r) == Inside(request[r]) /\ request[r].writes \in {"count", "lock"}

Seen(r) == IF request[r].writes = "lock" THEN MAX_ATTEMPTS - 1 ELSE request[r].failed

Now == IF failed = MAX_ATTEMPTS THEN MAX_ATTEMPTS - 1 ELSE failed

\* The wrong passkeys that were looked at, and those that still may be.  A locked row
\* sees the ones under way and no other; of two under way one has read the counter
\* last, as it is.
Guessed ==
    /\ \A r \in Request : Refusing(r) =>
          /\ Seen(r) \in Below
          /\ request[r].writes = "count" => request[r].failed + 1 \in Below
    /\ 2 * guesses <= Left(0)
    /\ locked =>
          /\ \A r \in Request : Refusing(r) => 2 * guesses + 2 <= Left(0)
          /\ \A r, s \in Request : r # s /\ Refusing(r) /\ Refusing(s) =>
                2 * guesses + 4 <= Left(0)
    /\ ~locked =>
          /\ 2 * guesses + Left(Now) <= Left(0)
          /\ \A r \in Request : Refusing(r) => 2 * guesses + LeftWith(Now, Seen(r)) <= Left(0)
          /\ \A r, s \in Request : r # s /\ Refusing(r) /\ Refusing(s) =>
                Seen(r) = Now \/ Seen(s) = Now

\* Two requests at a time.
Few == \A r, s, u \in Request : r # s => u = r \/ u = s

LEMMA FewIs == ASSUME P!PasscodeAssumption, Cardinality(Request) <= 2 PROVE Few
  <1> SUFFICES ASSUME NEW r \in Request, NEW s \in Request, NEW u \in Request,
                      r # s, u # r, u # s
               PROVE  FALSE
    BY DEF Few
  <1>1. IsFiniteSet({r}) /\ Cardinality({r}) = 1  BY FS_Singleton
  <1>2. IsFiniteSet({r} \cup {s}) /\ Cardinality({r} \cup {s}) = 2  BY <1>1, FS_AddElement
  <1>3. Cardinality(({r} \cup {s}) \cup {u}) = 3  BY <1>2, FS_AddElement
  <1>4. ({r} \cup {s}) \cup {u} \subseteq Request  OBVIOUS
  <1>5. Cardinality(({r} \cup {s}) \cup {u}) <= Cardinality(Request)
    BY <1>4, PasscodeFacts, FS_Subset
  <1>6. Cardinality(Request) \in Nat  BY PasscodeFacts, FS_CardinalityType
  <1> QED  BY <1>3, <1>5, <1>6

LEMMA NowIs == ASSUME P!PasscodeAssumption, P!TypeOK PROVE Now \in Below
  BY PasscodeFacts DEF P!TypeOK, Now, Below

\* Nobody decides anything.
LEMMA GuessCalm ==
  ASSUME Guessed, UNCHANGED <<failed, locked, guesses>>,
         \A s \in Request : Refusing(s)' =>
            /\ Refusing(s) /\ request'[s].writes = request[s].writes
            /\ request'[s].failed = request[s].failed
  PROVE  Guessed'
  <1>1. \A s \in Request : Refusing(s)' => Refusing(s) /\ Seen(s)' = Seen(s)  BY DEF Seen
  <1>2. Now' = Now  BY DEF Now
  <1>3. \A r \in Request : Refusing(r)' =>
          /\ Seen(r)' \in Below
          /\ request'[r].writes = "count" => request'[r].failed + 1 \in Below
    BY <1>1 DEF Guessed
  <1> QED  BY <1>1, <1>2, <1>3 DEF Guessed

\* A row that is not locked is read, and the passkey is wrong.
LEMMA GuessBegin ==
  ASSUME P!PasscodeAssumption, P!TypeOK, Guessed, NEW r \in Request, NEW q \in P!Requests,
         request' = [request EXCEPT ![r] = q], UNCHANGED <<failed, locked, guesses>>,
         q.failed = failed, ~locked,
         \/ q.writes = "lock" /\ failed + 1 >= MAX_ATTEMPTS
         \/ q.writes = "count" /\ failed + 1 < MAX_ATTEMPTS
  PROVE  Guessed'
  <1>1. /\ request'[r] = q
        /\ \A s \in Request : s # r => request'[s] = request[s]
    BY RequestEffect
  <1>2. Now' = Now /\ Now \in Below  BY NowIs DEF Now
  <1>3. Seen(r)' = Now /\ (q.writes = "count" => q.failed + 1 \in Below)
    BY <1>1, PasscodeFacts DEF Seen, Now, Below, P!TypeOK
  <1>4. \A s \in Request : s # r /\ Refusing(s)' => Refusing(s) /\ Seen(s)' = Seen(s)
    BY <1>1 DEF Refusing, Seen
  <1>5. 2 * guesses + Left(Now) <= Left(0) /\ LeftWith(Now, Now) = Left(Now)
    BY <1>2, LeftFacts DEF Guessed
  <1>6. \A s \in Request : Refusing(s)' =>
          /\ Seen(s)' \in Below
          /\ request'[s].writes = "count" => request'[s].failed + 1 \in Below
    BY <1>1, <1>2, <1>3, <1>4 DEF Guessed
  <1>7. \A s \in Request : Refusing(s)' => 2 * guesses' + LeftWith(Now', Seen(s)') <= Left(0)
    BY <1>2, <1>3, <1>4, <1>5 DEF Guessed
  <1>8. \A s, u \in Request : s # u /\ Refusing(s)' /\ Refusing(u)' =>
          Seen(s)' = Now' \/ Seen(u)' = Now'
    BY <1>2, <1>3, <1>4 DEF Guessed
  <1> QED  BY <1>2, <1>5, <1>6, <1>7, <1>8 DEF Guessed

LEMMA GuessCommit ==
  ASSUME P!PasscodeAssumption, P!TypeOK, Few, Guessed, NEW r \in Request, P!commit(r)
  PROVE  Guessed'
  <1> DEFINE q == request[r]
  <1>1. /\ request'[r] = P!Idle /\ ~Inside(P!Idle)
        /\ \A s \in Request : s # r => request'[s] = request[s]
    BY CommitEffect, IdleIs, RequestEffect
  <1>2. \A s \in Request : Refusing(s)' => s # r /\ Refusing(s) /\ Seen(s)' = Seen(s)
    BY <1>1 DEF Refusing, Seen
  <1>3. \A s \in Request : Refusing(s)' =>
          /\ Seen(s)' \in Below
          /\ request'[s].writes = "count" => request'[s].failed + 1 \in Below
    BY <1>1, <1>2 DEF Guessed
  <1>4. \A s, u \in Request : s # u => ~(Refusing(s)' /\ Refusing(u)')
    BY <1>2 DEF Few
  <1>5. /\ guesses \in Nat /\ Left(0) \in Nat /\ Now \in Below /\ locked \in BOOLEAN
        /\ failed \in 0 .. MAX_ATTEMPTS /\ 0 \in Below
    <2>1. 0 \in Below  BY PasscodeFacts DEF Below
    <2> QED  BY <2>1, NowIs, LeftFacts DEF P!TypeOK
  <1>6. q.at = "commit" /\ Inside(q)  BY CommitEffect DEF Inside
  <1>7. CASE q.writes = "count"
    <2>1. failed' = P!Capped(q.failed + 1) /\ locked' = locked /\ guesses' = guesses + 1
      BY <1>7, CommitEffect
    <2> DEFINE a == q.failed
    <2>2. Refusing(r) /\ Seen(r) = a /\ a \in Below /\ a + 1 \in Below
      BY <1>6, <1>7 DEF Refusing, Seen, Guessed
    <2>3. failed' = a + 1 /\ Now' = a + 1
      BY <2>1, <2>2, PasscodeFacts DEF P!Capped, Below, Now
    <2>4. CASE ~locked
      <3>1. /\ 2 + Left(a + 1) <= LeftWith(Now, a) /\ LeftWith(Now, a) \in Nat
            /\ 2 + LeftWith(a + 1, Now) <= LeftWith(Now, a)
            /\ Left(a + 1) \in Nat /\ LeftWith(a + 1, Now) \in Nat
        BY <1>5, <2>2, LeftFacts
      <3>2. 2 * guesses + LeftWith(Now, a) <= Left(0)  BY <2>2, <2>4 DEF Guessed
      <3>3. 2 * guesses' + Left(Now') <= Left(0) /\ 2 * guesses' <= Left(0)
        BY <1>5, <2>1, <2>3, <3>1, <3>2
      <3>4. ASSUME NEW s \in Request, Refusing(s)'
            PROVE  2 * guesses' + LeftWith(Now', Seen(s)') <= Left(0)
        <4>1. s # r /\ Refusing(s) /\ Seen(s)' = Seen(s) /\ Seen(s) \in Below
          BY <1>2, <3>4 DEF Guessed
        <4>2. Seen(s) = Now \/ a = Now
          BY <2>2, <2>4, <4>1 DEF Guessed
        <4>3. CASE Seen(s) = Now
          BY <1>5, <2>1, <2>3, <3>1, <3>2, <4>1, <4>3
        <4>4. CASE a = Now
          <5>1. /\ 2 + LeftWith(Now + 1, Seen(s)) <= LeftWith(Now, Seen(s))
                /\ LeftWith(Now, Seen(s)) \in Nat /\ LeftWith(Now + 1, Seen(s)) \in Nat
            BY <1>5, <2>2, <4>1, <4>4, LeftFacts
          <5>2. 2 * guesses + LeftWith(Now, Seen(s)) <= Left(0)
            BY <2>4, <4>1 DEF Guessed
          <5> QED  BY <1>5, <2>1, <2>3, <4>1, <4>4, <5>1, <5>2
        <4> QED  BY <4>2, <4>3, <4>4
      <3>5. ~locked'  BY <2>1, <2>4
      <3> QED  BY <1>3, <1>4, <3>3, <3>4, <3>5 DEF Guessed
    <2>5. CASE locked
      <3>1. 2 * guesses + 2 <= Left(0)  BY <2>2, <2>5 DEF Guessed
      <3>2. 2 * guesses' <= Left(0)  BY <1>5, <2>1, <3>1
      <3>3. ASSUME NEW s \in Request, Refusing(s)' PROVE 2 * guesses' + 2 <= Left(0)
        <4>1. 2 * guesses + 4 <= Left(0)  BY <1>2, <2>2, <2>5, <3>3 DEF Guessed
        <4> QED  BY <1>5, <2>1, <4>1
      <3>4. locked'  BY <2>1, <2>5
      <3> QED  BY <1>3, <1>4, <3>2, <3>3, <3>4 DEF Guessed
    <2> QED  BY <2>4, <2>5
  <1>8. CASE q.writes = "lock"
    <2>1. locked' = TRUE /\ guesses' = guesses + 1  BY <1>8, CommitEffect
    <2>2. Refusing(r) /\ Seen(r) \in Below  BY <1>6, <1>8 DEF Refusing, Guessed
    <2>3. 2 * guesses + 2 <= Left(0)
      <3>1. CASE locked  BY <2>2, <3>1 DEF Guessed
      <3>2. CASE ~locked
        <4>1. 2 * guesses + LeftWith(Now, Seen(r)) <= Left(0)  BY <2>2, <3>2 DEF Guessed
        <4>2. 4 <= LeftWith(Now, Seen(r)) /\ LeftWith(Now, Seen(r)) \in Nat
          BY <1>5, <2>2, LeftFacts
        <4> QED  BY <1>5, <4>1, <4>2
      <3> QED  BY <3>1, <3>2
    <2>4. ASSUME NEW s \in Request, Refusing(s)' PROVE 2 * guesses + 4 <= Left(0)
      <3>0. s # r /\ Refusing(s)  BY <1>2, <2>4
      <3>1. CASE locked  BY <2>2, <3>0, <3>1 DEF Guessed
      <3>2. CASE ~locked
        <4>1. 2 * guesses + LeftWith(Now, Seen(r)) <= Left(0)  BY <2>2, <3>2 DEF Guessed
        <4>2. 4 <= LeftWith(Now, Seen(r)) /\ LeftWith(Now, Seen(r)) \in Nat
          BY <1>5, <2>2, LeftFacts
        <4> QED  BY <1>5, <4>1, <4>2
      <3> QED  BY <3>1, <3>2
    <2>5. 2 * guesses' <= Left(0)  BY <1>5, <2>1, <2>3
    <2>6. \A s \in Request : Refusing(s)' => 2 * guesses' + 2 <= Left(0)
      BY <1>5, <2>1, <2>4
    <2>7. locked'  BY <2>1
    <2> QED  BY <1>3, <1>4, <2>5, <2>6, <2>7 DEF Guessed
  <1>9. CASE q.writes \in {"set", "clear"}
    <2>1. failed' = 0 /\ locked' = FALSE /\ guesses' = 0  BY <1>9, CommitEffect
    <2>2. Now' = 0  BY <2>1, PasscodeFacts DEF Now
    <2>3. \A s \in Request : Refusing(s)' => LeftWith(0, Seen(s)') = Left(0)
      BY <1>3, <1>5, LeftFacts
    <2>4. 2 * guesses' <= Left(0) /\ 2 * guesses' + Left(Now') <= Left(0)
      BY <1>5, <2>1, <2>2
    <2>5. \A s \in Request : Refusing(s)' => 2 * guesses' + LeftWith(Now', Seen(s)') <= Left(0)
      BY <1>5, <2>1, <2>2, <2>3
    <2>6. ~locked'  BY <2>1
    <2> QED  BY <1>3, <1>4, <2>4, <2>5, <2>6 DEF Guessed
  <1>10. CASE q.writes = "nothing"
    <2>1. UNCHANGED <<failed, locked, guesses>>  BY <1>10, CommitEffect
    <2>2. \A s \in Request : Refusing(s)' =>
            /\ Refusing(s) /\ request'[s].writes = request[s].writes
            /\ request'[s].failed = request[s].failed
      BY <1>1, <1>2
    <2> QED  BY <2>1, <2>2, GuessCalm
  <1>11. q.writes \in {"nothing", "count", "lock", "clear", "set"}
    BY DEF P!TypeOK, P!Requests
  <1> QED  BY <1>7, <1>8, <1>9, <1>10, <1>11

LEMMA GuessStep ==
  ASSUME P!PasscodeAssumption, P!TypeOK, Holding, Few, Guessed, P!Next
  PROVE  Guessed'
  <1>1. ASSUME NEW r \in Request, NEW q \in P!Requests, request' = [request EXCEPT ![r] = q],
               UNCHANGED <<failed, locked, guesses>>,
               ~Inside(q) \/ /\ Inside(request[r]) /\ q.writes = request[r].writes
                             /\ q.failed = request[r].failed
        PROVE  Guessed'
    <2>1. /\ request'[r] = q
          /\ \A s \in Request : s # r => request'[s] = request[s]
      BY <1>1, RequestEffect
    <2> QED  BY <1>1, <2>1, GuessCalm DEF Refusing
  <1> USE DEF P!row
  <1>2. ASSUME NEW r \in Request, P!ask(r) PROVE Guessed'
    <2>1. UNCHANGED <<failed, locked, guesses>>  BY <1>2 DEF P!ask
    <2> QED  BY <1>1, <1>2, <2>1, AskEffect
  <1>3. ASSUME NEW r \in Request, P!begin(r) PROVE Guessed'
    <2>1. UNCHANGED <<failed, locked, guesses>>  BY <1>3 DEF P!begin
    <2>2. PICK q \in P!Requests :
             /\ request' = [request EXCEPT ![r] = q]
             /\ \/ ~Inside(q)
                \/ /\ q.at = "update" /\ q.failed = failed
                   /\ q.writes = "lock" => ~locked /\ failed + 1 >= MAX_ATTEMPTS
                   /\ q.writes = "count" => ~locked /\ failed + 1 < MAX_ATTEMPTS
      BY <1>3, BeginEffect
    <2>3. CASE ~Inside(q)  BY <1>1, <2>1, <2>2, <2>3
    <2>4. CASE Inside(q) /\ q.writes \in {"lock", "count"}
      <3>1. /\ q.failed = failed /\ ~locked
            /\ \/ q.writes = "lock" /\ failed + 1 >= MAX_ATTEMPTS
               \/ q.writes = "count" /\ failed + 1 < MAX_ATTEMPTS
        BY <2>2, <2>4
      <3> QED  BY <2>1, <2>2, <3>1, GuessBegin
    <2>5. CASE q.writes \notin {"lock", "count"}
      <3>1. /\ request'[r] = q
            /\ \A s \in Request : s # r => request'[s] = request[s]
        BY <2>2, RequestEffect
      <3> QED  BY <2>1, <2>5, <3>1, GuessCalm DEF Refusing
    <2> QED  BY <2>3, <2>4, <2>5
  <1>4. ASSUME NEW r \in Request, P!update(r) PROVE Guessed'
    <2>1. UNCHANGED <<failed, locked, guesses>> /\ Inside(request[r])
      BY <1>4, UpdateEffect DEF P!update, Inside
    <2> QED  BY <1>1, <1>4, <2>1, UpdateEffect
  <1>5. ASSUME NEW r \in Request, P!give_up(r) PROVE Guessed'
    <2>1. UNCHANGED <<failed, locked, guesses>> /\ request' = [request EXCEPT ![r] = P!Idle]
      BY <1>5 DEF P!give_up
    <2> QED  BY <1>1, <2>1, IdleIs
  <1>6. ASSUME NEW r \in Request, P!audit(r) PROVE Guessed'
    <2>1. UNCHANGED <<failed, locked, guesses>> /\ Inside(request[r])
      BY <1>6, AuditEffect DEF P!audit, Inside
    <2> QED  BY <1>1, <1>6, <2>1, AuditEffect
  <1>7. ASSUME P!begin_elsewhere \/ P!audit_elsewhere PROVE Guessed'
    <2>1. UNCHANGED <<failed, locked, guesses, request>>
      BY <1>7 DEF P!begin_elsewhere, P!audit_elsewhere
    <2> QED  BY <2>1, GuessCalm DEF Refusing
  <1>8. ASSUME P!Cooldown PROVE Guessed'
    <2>1. /\ locked' = FALSE /\ guesses' = 0 /\ UNCHANGED <<failed, request>> /\ P!Held = {}
      BY <1>8 DEF P!Cooldown
    <2>2. \A s \in Request : ~Refusing(s)'  BY <2>1, HeldFinite DEF Refusing
    <2>3. 0 \in Below /\ Now \in Below  BY NowIs, PasscodeFacts DEF Below
    <2>4. Left(Now) <= Left(0) /\ Left(0) \in Nat /\ Left(Now) \in Nat  BY <2>3, LeftFacts
    <2>5. Now' = Now  BY <2>1 DEF Now
    <2>6. 2 * guesses' <= Left(0) /\ 2 * guesses' + Left(Now') <= Left(0) /\ ~locked'
      BY <2>1, <2>4, <2>5
    <2> QED  BY <2>2, <2>6 DEF Guessed
  <1> QED
    BY <1>2, <1>3, <1>4, <1>5, <1>6, <1>7, <1>8, GuessCommit DEF P!Next

LEMMA GuessInit == ASSUME P!PasscodeAssumption, P!Init PROVE Guessed
  <1>1. \A r \in Request : ~Refusing(r)  BY IdleIs DEF P!Init, Refusing
  <1>2. Now = 0 /\ guesses = 0 /\ ~locked  BY PasscodeFacts DEF P!Init, Now
  <1>3. 0 \in Below  BY PasscodeFacts DEF Below
  <1>4. Left(0) \in Nat  BY <1>3, LeftFacts
  <1>5. 2 * guesses <= Left(0) /\ 2 * guesses + Left(Now) <= Left(0)  BY <1>2, <1>4
  <1> QED  BY <1>1, <1>2, <1>5 DEF Guessed

\* However two requests at a time overlap on one row, fewer wrong passkeys are looked
\* at before it locks than the sum of the numbers up to the threshold, and one: for
\* every threshold.
THEOREM GuessesAreFew == ASSUME P!PasscodeAssumption PROVE P!Spec => []GuessesBounded
  <1> DEFINE Inv == P!TypeOK /\ Holding /\ (Few => Guessed)
  <1>1. P!Init => Inv  BY PasscodeInit, GuessInit
  <1>2. Inv /\ [P!Next]_(P!vars) => Inv'
    <2> SUFFICES ASSUME Inv, [P!Next]_(P!vars) PROVE Inv'  OBVIOUS
    <2>1. CASE P!Next  BY <2>1, PasscodeTypeStep, HoldingStep, GuessStep DEF Few
    <2>2. CASE UNCHANGED P!vars
      <3>1. Few => Guessed'
        BY <2>2, PasscodeSame, GuessCalm DEF Refusing
      <3> QED  BY <2>2, <3>1, PasscodeSame, HeldSame DEF P!TypeOK, Holding, Few
    <2> QED  BY <2>1, <2>2
  <1>3. Inv => P!GuessesBounded
    <2> SUFFICES ASSUME Inv, P!Cardinality(Request) <= 2
                 PROVE  guesses <= (MAX_ATTEMPTS * (MAX_ATTEMPTS + 1)) \div 2 + 1
      BY DEF P!GuessesBounded
    <2>1. Few  BY SameCount, FewIs
    <2>2. 2 * guesses <= Twice(MAX_ATTEMPTS) + 2 /\ guesses \in Nat
      BY <2>1, PasscodeFacts DEF Guessed, Left, P!TypeOK
    <2>3. PICK n \in Nat : n = MAX_ATTEMPTS * (MAX_ATTEMPTS + 1) /\ n = Twice(MAX_ATTEMPTS)
      BY PasscodeFacts, TwiceFacts DEF Twice
    <2>4. guesses <= n \div 2 + 1  BY <2>2, <2>3
    <2> QED  BY <2>3, <2>4
  <1> HIDE DEF Inv
  <1>4. P!Spec => []P!GuessesBounded  BY <1>1, <1>2, <1>3, PTL DEF P!Spec
  <1> QED  BY <1>4 DEF GuessesBounded

\* A refused passkey leaves the counter above zero, whatever the request that counts it
\* has read: what a right one clears, it clears together with the history.
Remembered == guesses > 0 => failed > 0

LEMMA RememberedStep ==
  ASSUME P!PasscodeAssumption, P!TypeOK, Remembered, [P!Next]_(P!vars)
  PROVE  Remembered'
  <1>1. CASE UNCHANGED <<failed, guesses>>  BY <1>1 DEF Remembered
  <1>2. ASSUME NEW r \in Request, P!commit(r) PROVE Remembered'
    <2> DEFINE q == request[r]
    <2>1. q.failed \in Nat /\ P!Capped(q.failed + 1) > 0
      <3>1. q \in P!Requests  BY DEF P!TypeOK
      <3>2. q.failed \in Nat  BY <3>1, PasscodeFacts DEF P!Requests
      <3> QED  BY <3>2, PasscodeFacts DEF P!Capped
    <2>2. \/ failed' = P!Capped(q.failed + 1)
          \/ guesses' = 0
          \/ UNCHANGED <<failed, guesses>>
      BY <1>2 DEF P!commit
    <2> HIDE DEF q
    <2>3. CASE guesses' = 0  BY <2>3 DEF Remembered
    <2> QED  BY <1>1, <2>1, <2>2, <2>3 DEF Remembered
  <1>3. CASE P!Cooldown
    <2>1. guesses' = 0  BY <1>3 DEF P!Cooldown
    <2> QED  BY <2>1 DEF Remembered
  <1>4. ASSUME NEW r \in Request,
               P!ask(r) \/ P!begin(r) \/ P!update(r) \/ P!give_up(r) \/ P!audit(r)
        PROVE  Remembered'
    <2>1. UNCHANGED <<failed, guesses>>
      BY <1>4 DEF P!ask, P!begin, P!update, P!give_up, P!audit, P!row
    <2> QED  BY <1>1, <2>1
  <1>5. CASE P!begin_elsewhere \/ P!audit_elsewhere
    <2>1. UNCHANGED <<failed, guesses>>
      BY <1>5 DEF P!begin_elsewhere, P!audit_elsewhere, P!row
    <2> QED  BY <1>1, <2>1
  <1>6. CASE UNCHANGED P!vars  BY <1>1, <1>6, PasscodeSame
  <1> QED  BY <1>2, <1>3, <1>4, <1>5, <1>6 DEF P!Next

\* No refused passkey is forgotten: as long as one was looked at since the row was last
\* clear, the counter stands above zero, for any number of requests that overlap.
THEOREM WrongIsCounted == ASSUME P!PasscodeAssumption PROVE P!Spec => []P!WrongIsRemembered
  <1>1. P!Init => Remembered  BY DEF P!Init, Remembered
  <1>2. P!TypeOK /\ Remembered /\ [P!Next]_(P!vars) => Remembered'  BY RememberedStep
  <1>3. Remembered => P!WrongIsRemembered  BY DEF Remembered, P!WrongIsRemembered
  <1>4. P!Spec => []P!TypeOK  BY PasscodeTypes
  <1> QED  BY <1>1, <1>2, <1>3, <1>4, PTL DEF P!Spec

-----------------------------------------------------------------------------
(* The console: the keys that were taken back.                             *)

\* An active platform is one of those its owner has.
Counted == platform = "active" => owned >= 1

\* The two modes have keys of their own, and those drawn for the live mode and not
\* stored yet are new, each a request's own.
DrawnKeys ==
  /\ secret["test"] # secret["live"]
  /\ \A r \in Request : C!busy(r, "generate") =>
       /\ doing[r].key \in Key /\ age[doing[r].key] = 0
       /\ \A m \in C!Mode : secret[m] # doing[r].key
  /\ \A r, s \in Request :
       C!busy(r, "generate") /\ C!busy(s, "generate") /\ doing[r].key = doing[s].key => r = s

\* What was read of a key goes into the cache of that key.
ReadKeys == \A r \in Request : C!busy(r, "cache") => doing[r].key \in Key

\* A key that was taken back opens no active platform.
Shut == \A k \in Key : age[k] > 0 => platform # "active" \/ \A m \in C!Mode : secret[m] # k

\* A minute later nobody has an active row in hand that was read for it, and one
\* that is cached has been there for a minute.
Stale ==
  \A k \in Key : age[k] > 1 =>
    /\ \A r \in Request : C!busy(r, "cache") /\ doing[r].key = k => doing[r].status # "active"
    /\ cache[k].status = "active" => age[k] = 2 /\ ~cache[k].fresh

Retired == DrawnKeys /\ ReadKeys /\ Shut /\ Stale

LEMMA ConsoleFacts ==
  ASSUME C!ConsoleAssumption
  PROVE  /\ NoKey \notin Key /\ MaxPlatforms \in Nat /\ MaxPlatforms >= 2
         /\ MaxAge \in Nat /\ MaxAge >= 1
  BY DEF C!ConsoleAssumption

LEMMA QuietIs == C!Quiet \in C!Coroutines /\ C!Quiet.at = "idle" /\ C!Quiet.key = NoKey
  BY DEF C!Quiet, C!Coroutines, C!Mode

LEMMA NotCachedIs ==
  C!NotCached \in C!Entries /\ C!NotCached.status = "absent"
  BY DEF C!NotCached, C!Entries, C!Mode

LEMMA DoingEffect ==
  ASSUME C!TypeOK, NEW r \in Request, NEW q \in C!Coroutines, C!Do(r, q)
  PROVE  /\ doing' \in [Request -> C!Coroutines] /\ doing'[r] = q
         /\ \A s \in Request : s # r => doing'[s] = doing[s]
  BY DEF C!TypeOK, C!Do

\* A request that begins to do what is neither to cache nor to store a key.
Elsewise == {"idle", "pop", "pop_all", "hook", "insert", "wallet", "create"}

LEMMA BusyIs ==
  ASSUME NEW q \in C!Coroutines, NEW p, p \in {"cache", "generate"} \cup Elsewise
  PROVE  /\ [q EXCEPT !.at = p] \in C!Coroutines /\ [q EXCEPT !.at = p].at = p
         /\ [q EXCEPT !.at = p].key = q.key
  BY DEF C!Coroutines, Elsewise

\* An age of a key grows when it is taken back for the first time.
LEMMA TakeBackEffect ==
  ASSUME C!ConsoleAssumption, C!TypeOK, NEW ks, C!TakeBack(ks)
  PROVE  /\ age' \in [Key -> 0 .. MaxAge]
         /\ \A k \in Key : age'[k] = age[k] \/ (age[k] = 0 /\ age'[k] = 1 /\ k \in ks)
         /\ \A k \in ks \cap Key : age'[k] > 0
  <1>1. 0 \in 0 .. MaxAge /\ 1 \in 0 .. MaxAge  BY ConsoleFacts
  <1>2. age \in [Key -> 0 .. MaxAge]  BY DEF C!TypeOK
  <1>3. age' = [k \in Key |-> IF k \in ks /\ age[k] = 0 THEN 1 ELSE age[k]]  BY DEF C!TakeBack
  <1> QED  BY ONLY <1>1, <1>2, <1>3, ConsoleFacts

LEMMA RestsEffect ==
  ASSUME C!TypeOK, NEW r \in Request, C!Rest(r)
  PROVE  /\ doing' \in [Request -> C!Coroutines] /\ doing'[r].at = "idle"
         /\ \A s \in Request : s # r => doing'[s] = doing[s]
  BY QuietIs, DoingEffect DEF C!Rest

LEMMA ReadsStep ==
  ASSUME C!ConsoleAssumption, C!TypeOK, Counted, C!Authentication
  PROVE  (C!TypeOK /\ Counted)'
  <1>1. CASE C!Minute
    <2>1. /\ cache' = [k \in Key |-> C!Aged(cache[k])]
          /\ age' = [k \in Key |-> IF age[k] \in 1 .. MaxAge - 1 THEN age[k] + 1 ELSE age[k]]
          /\ UNCHANGED <<platform, secret, payout, hooks, drawn, owned, doing>>
      BY <1>1 DEF C!Minute, C!hook
    <2>2. \A e \in C!Entries : C!Aged(e) \in C!Entries
      BY NotCachedIs DEF C!Aged, C!Entries
    <2>3. cache' \in [Key -> C!Entries]  BY <2>1, <2>2 DEF C!TypeOK
    <2>4. \A n \in 0 .. MaxAge : (IF n \in 1 .. MaxAge - 1 THEN n + 1 ELSE n) \in 0 .. MaxAge
      BY ConsoleFacts
    <2>5. age' \in [Key -> 0 .. MaxAge]  BY <2>1, <2>4 DEF C!TypeOK
    <2> QED  BY <2>1, <2>3, <2>5 DEF C!TypeOK, Counted
  <1>2. ASSUME NEW r \in Request, C!lookup(r) PROVE (C!TypeOK /\ Counted)'
    <2>1. PICK m \in C!Mode, k \in Key :
             C!Do(r, [C!Quiet EXCEPT !.at = "cache", !.key = k, !.mode = m, !.status = platform])
      BY <1>2, Zenon DEF C!lookup
    <2>2. platform \in {"active", "revoked"}  BY <1>2 DEF C!lookup, C!TypeOK
    <2>3. [C!Quiet EXCEPT !.at = "cache", !.key = k, !.mode = m, !.status = platform]
             \in C!Coroutines
      BY <2>2, QuietIs DEF C!Coroutines
    <2>4. UNCHANGED <<platform, secret, cache, age, payout, hooks, drawn, owned>>
      BY <1>2 DEF C!lookup, C!keys, C!hook
    <2> QED  BY <2>1, <2>3, <2>4, DoingEffect DEF C!TypeOK, Counted
  <1>3. ASSUME NEW r \in Request, C!cache_row(r) PROVE (C!TypeOK /\ Counted)'
    <2>1. doing[r] \in C!Coroutines  BY DEF C!TypeOK
    <2>2. [status |-> doing[r].status, mode |-> doing[r].mode, fresh |-> TRUE] \in C!Entries
      BY <2>1 DEF C!Coroutines, C!Entries
    <2>3. cache' \in [Key -> C!Entries]  BY <1>3, <2>2 DEF C!cache_row, C!TypeOK
    <2>4. C!Rest(r) /\ UNCHANGED <<platform, secret, age, payout, hooks, drawn, owned>>
      BY <1>3 DEF C!cache_row, C!hook
    <2> QED  BY <2>3, <2>4, RestsEffect DEF C!TypeOK, Counted
  <1> QED  BY <1>1, <1>2, <1>3 DEF C!Authentication

LEMMA TakenEffect ==
  ASSUME C!ConsoleAssumption, C!TypeOK, C!TakeBack({secret[m] : m \in C!Mode})
  PROVE  /\ age' \in [Key -> 0 .. MaxAge]
         /\ \A k \in Key : age'[k] = age[k]
                           \/ (age[k] = 0 /\ age'[k] = 1 /\ \E m \in C!Mode : secret[m] = k)
  BY TakeBackEffect

LEMMA KeysTypeStep ==
  ASSUME C!ConsoleAssumption, C!TypeOK, Counted, C!Keys
  PROVE  (C!TypeOK /\ Counted)'
  <1>1. CASE C!revoke_platform
    <2>1. /\ platform = "active" /\ platform' = "revoked" /\ owned' = owned - 1
          /\ UNCHANGED <<secret, cache, payout, hooks, drawn, doing>>
      BY <1>1 DEF C!revoke_platform, C!hook
    <2>2. owned' \in Nat  BY <2>1 DEF Counted, C!TypeOK
    <2>3. age' \in [Key -> 0 .. MaxAge]  BY <1>1, TakenEffect DEF C!revoke_platform
    <2> QED  BY <2>1, <2>2, <2>3 DEF C!TypeOK, Counted
  <1>2. ASSUME NEW r \in Request, C!generate_live_keys(r) PROVE (C!TypeOK /\ Counted)'
    <2>1. PICK k \in Key : C!Do(r, [C!Quiet EXCEPT !.at = "generate", !.key = k])
      BY <1>2, Zenon DEF C!generate_live_keys
    <2>2. [C!Quiet EXCEPT !.at = "generate", !.key = k] \in C!Coroutines
      BY QuietIs DEF C!Coroutines
    <2>3. UNCHANGED <<platform, secret, cache, age, payout, hooks, drawn, owned>>
      BY <1>2 DEF C!generate_live_keys, C!keys, C!hook
    <2> QED  BY <2>1, <2>2, <2>3, DoingEffect DEF C!TypeOK, Counted
  <1>3. ASSUME NEW r \in Request, C!store_live_keys(r) PROVE (C!TypeOK /\ Counted)'
    <2>1. C!Rest(r) /\ UNCHANGED <<platform, cache, payout, hooks, drawn, owned>>
      BY <1>3 DEF C!store_live_keys, C!hook
    <2>2. doing[r].key \in Key \cup {NoKey}  BY DEF C!TypeOK, C!Coroutines
    <2>3. secret' \in [C!Mode -> Key \cup {NoKey}] /\ secret'["test"] \in Key
      BY <1>3, <2>2 DEF C!store_live_keys, C!TypeOK, C!Mode
    <2>4. age' \in [Key -> 0 .. MaxAge]
      BY <1>3, TakeBackEffect DEF C!store_live_keys, C!TypeOK
    <2> QED  BY <2>1, <2>3, <2>4, RestsEffect DEF C!TypeOK, Counted
  <1>4. ASSUME NEW r \in Request, C!regenerate_platform_keys(r) PROVE (C!TypeOK /\ Counted)'
    <2>1. PICK m \in C!Mode, k \in Key :
             /\ secret' = [secret EXCEPT ![m] = k] /\ C!TakeBack({secret[m]})
             /\ C!Do(r, [C!Quiet EXCEPT !.at = "pop", !.mode = m])
      BY <1>4, Zenon DEF C!regenerate_platform_keys, C!Rotated
    <2>2. [C!Quiet EXCEPT !.at = "pop", !.mode = m] \in C!Coroutines
      BY QuietIs DEF C!Coroutines
    <2>3. secret' \in [C!Mode -> Key \cup {NoKey}] /\ secret'["test"] \in Key
      BY <2>1 DEF C!TypeOK, C!Mode
    <2>4. UNCHANGED <<platform, cache, payout, hooks, drawn, owned>>
      BY <1>4 DEF C!regenerate_platform_keys, C!hook
    <2> QED  BY <2>1, <2>2, <2>3, <2>4, TakeBackEffect, DoingEffect DEF C!TypeOK, Counted
  <1>5. ASSUME NEW r \in Request, C!pop_stale(r) PROVE (C!TypeOK /\ Counted)'
    <2>1. C!Rest(r) /\ UNCHANGED <<platform, secret, age, payout, hooks, drawn, owned>>
      BY <1>5 DEF C!pop_stale, C!hook
    <2>2. cache' \in [Key -> C!Entries]
      BY <1>5, NotCachedIs DEF C!pop_stale, C!TypeOK
    <2> QED  BY <2>1, <2>2, RestsEffect DEF C!TypeOK, Counted
  <1>6. ASSUME NEW r \in Request, C!api_developer_delete_platform(r)
        PROVE  (C!TypeOK /\ Counted)'
    <2>1. /\ platform' = "deleted" /\ hooks' = {}
          /\ owned' = IF platform = "active" THEN owned - 1 ELSE owned
          /\ C!Do(r, [C!Quiet EXCEPT !.at = "pop_all"])
          /\ UNCHANGED <<secret, cache, payout, drawn>>
      BY <1>6 DEF C!api_developer_delete_platform
    <2>2. owned' \in Nat  BY <2>1 DEF Counted, C!TypeOK
    <2>3. [C!Quiet EXCEPT !.at = "pop_all"] \in C!Coroutines  BY QuietIs, BusyIs DEF Elsewise
    <2>4. age' \in [Key -> 0 .. MaxAge]
      BY <1>6, TakenEffect DEF C!api_developer_delete_platform
    <2> QED  BY <2>1, <2>2, <2>3, <2>4, DoingEffect DEF C!TypeOK, Counted
  <1>7. ASSUME NEW r \in Request, C!pop_all(r) PROVE (C!TypeOK /\ Counted)'
    <2>1. /\ C!Rest(r) /\ cache' = [k \in Key |-> C!NotCached]
          /\ UNCHANGED <<platform, secret, age, payout, hooks, drawn, owned>>
      BY <1>7 DEF C!pop_all, C!hook
    <2> QED  BY <2>1, NotCachedIs, RestsEffect DEF C!TypeOK, Counted
  <1> QED
    BY <1>1, <1>2, <1>3, <1>4, <1>5, <1>6, <1>7 DEF C!Keys

\* The rest of the console leaves the keys and the cache alone, and has its
\* requests neither cache a row nor store a key.
Apart == /\ UNCHANGED <<platform, secret, cache, age>>
         /\ \A r \in Request : doing'[r] = doing[r] \/ doing'[r].at \in Elsewise

LEMMA BeginsEffect ==
  ASSUME C!TypeOK, NEW r \in Request, NEW q \in C!Coroutines, q.at \in Elsewise, C!Do(r, q)
  PROVE  /\ doing' \in [Request -> C!Coroutines]
         /\ \A s \in Request : doing'[s] = doing[s] \/ doing'[s].at \in Elsewise
  BY DoingEffect

LEMMA RestsApart ==
  ASSUME C!TypeOK, NEW r \in Request, C!Rest(r)
  PROVE  /\ doing' \in [Request -> C!Coroutines]
         /\ \A s \in Request : doing'[s] = doing[s] \/ doing'[s].at \in Elsewise
  BY QuietIs, BeginsEffect DEF C!Rest, Elsewise

LEMMA EndpointStep ==
  ASSUME C!ConsoleAssumption, C!TypeOK, Counted, C!Endpoint
  PROVE  (C!TypeOK /\ Counted)' /\ Apart
  <1>1. CASE C!rotate_webhook_secret
    <2>1. UNCHANGED <<platform, secret, cache, age, payout, owned, doing>>
      BY <1>1 DEF C!rotate_webhook_secret, C!keys
    <2>2. hooks' \subseteq drawn' /\ drawn' \subseteq Secret
      BY <1>1 DEF C!rotate_webhook_secret, C!TypeOK
    <2> QED  BY <2>1, <2>2 DEF C!TypeOK, Counted, Apart
  <1>2. ASSUME NEW r \in Request, C!set_platform_webhook(r)
        PROVE  (C!TypeOK /\ Counted)' /\ Apart
    <2>1. /\ C!Do(r, [C!Quiet EXCEPT !.at = "hook"])
          /\ UNCHANGED <<platform, secret, cache, age, payout, hooks, drawn, owned>>
      BY <1>2 DEF C!set_platform_webhook, C!keys, C!hook
    <2> DEFINE q == [C!Quiet EXCEPT !.at = "hook"]
    <2>2. q \in C!Coroutines /\ q.at \in Elsewise  BY QuietIs, BusyIs DEF Elsewise
    <2>3. C!Do(r, q)  BY <2>1
    <2> HIDE DEF q
    <2> QED  BY <2>1, <2>2, <2>3, BeginsEffect DEF C!TypeOK, Counted, Apart
  <1>3. ASSUME NEW r \in Request, C!deactivate(r) PROVE (C!TypeOK /\ Counted)' /\ Apart
    <2> DEFINE q == [C!Quiet EXCEPT !.at = "insert", !.secrets = hooks]
    <2>1. /\ C!Do(r, q)
          /\ UNCHANGED <<platform, secret, cache, age, payout, hooks, drawn, owned>>
      BY <1>3 DEF C!deactivate, C!keys, C!hook
    <2>2. hooks \in SUBSET Secret  BY DEF C!TypeOK
    <2>3. q \in C!Coroutines /\ q.at \in Elsewise
      BY <2>2, QuietIs DEF C!Coroutines, Elsewise
    <2> HIDE DEF q
    <2> QED  BY <2>1, <2>3, BeginsEffect DEF C!TypeOK, Counted, Apart
  <1>4. ASSUME NEW r \in Request, C!insert_endpoint(r) PROVE (C!TypeOK /\ Counted)' /\ Apart
    <2>1. C!Rest(r) /\ UNCHANGED <<platform, secret, cache, age, payout, owned>>
      BY <1>4 DEF C!insert_endpoint, C!keys
    <2>2. hooks' \subseteq drawn' /\ drawn' \subseteq Secret
      BY <1>4 DEF C!insert_endpoint, C!Remaining, C!hook, C!TypeOK
    <2> QED  BY <2>1, <2>2, RestsApart DEF C!TypeOK, Counted, Apart
  <1> QED  BY <1>1, <1>2, <1>3, <1>4 DEF C!Endpoint

LEMMA RowsStep ==
  ASSUME C!ConsoleAssumption, C!TypeOK, Counted, C!Rows
  PROVE  (C!TypeOK /\ Counted)' /\ Apart
  <1>1. ASSUME NEW r \in Request, C!api_developer_update_wallet(r)
        PROVE  (C!TypeOK /\ Counted)' /\ Apart
    <2> DEFINE q == [C!Quiet EXCEPT !.at = "wallet", !.live = secret["live"] # NoKey]
    <2>1. /\ C!Do(r, q)
          /\ UNCHANGED <<platform, secret, cache, age, payout, hooks, drawn, owned>>
      BY <1>1 DEF C!api_developer_update_wallet, C!keys, C!hook
    <2>2. q \in C!Coroutines /\ q.at \in Elsewise
      BY QuietIs DEF C!Coroutines, Elsewise
    <2> HIDE DEF q
    <2> QED  BY <2>1, <2>2, BeginsEffect DEF C!TypeOK, Counted, Apart
  <1>2. ASSUME NEW r \in Request, C!update_platform_wallet(r)
        PROVE  (C!TypeOK /\ Counted)' /\ Apart
    <2>1. C!Rest(r) /\ UNCHANGED <<platform, secret, cache, age, hooks, drawn, owned>>
      BY <1>2 DEF C!update_platform_wallet, C!keys, C!hook
    <2>2. payout' \in {"none", "mainnet", "testnet"}
      BY <1>2 DEF C!update_platform_wallet, C!TypeOK
    <2> QED  BY <2>1, <2>2, RestsApart DEF C!TypeOK, Counted, Apart
  <1>3. ASSUME NEW r \in Request, C!api_developer_platforms_create(r)
        PROVE  (C!TypeOK /\ Counted)' /\ Apart
    <2> DEFINE q == [C!Quiet EXCEPT !.at = "create"]
    <2>1. /\ C!Do(r, q)
          /\ UNCHANGED <<platform, secret, cache, age, payout, hooks, drawn, owned>>
      BY <1>3 DEF C!api_developer_platforms_create, C!keys, C!hook
    <2>2. q \in C!Coroutines /\ q.at \in Elsewise  BY QuietIs, BusyIs DEF Elsewise
    <2> HIDE DEF q
    <2> QED  BY <2>1, <2>2, BeginsEffect DEF C!TypeOK, Counted, Apart
  <1>4. ASSUME NEW r \in Request, C!create_platform(r) PROVE (C!TypeOK /\ Counted)' /\ Apart
    <2>1. /\ C!Rest(r) /\ owned' = owned + 1
          /\ UNCHANGED <<platform, secret, cache, age, payout, hooks, drawn>>
      BY <1>4 DEF C!create_platform, C!keys, C!hook
    <2>2. owned' \in Nat /\ (owned >= 1 => owned' >= 1)  BY <2>1 DEF C!TypeOK
    <2> QED  BY <2>1, <2>2, RestsApart DEF C!TypeOK, Counted, Apart
  <1> QED  BY <1>1, <1>2, <1>3, <1>4 DEF C!Rows

\* What keeps the two parts that speak of the cache: keys are taken back, requests
\* look nothing up, entries leave the cache.
LEMMA StaleKept ==
  ASSUME Stale, ReadKeys,
         \A r \in Request : doing'[r] = doing[r] \/ doing'[r].at # "cache",
         \A k \in Key : age'[k] = age[k] \/ age'[k] = 1,
         \A k \in Key : cache'[k] = cache[k] \/ cache'[k].status # "active"
  PROVE  Stale' /\ ReadKeys'
  <1>1. ReadKeys'  BY DEF ReadKeys, C!busy
  <1>2. ASSUME NEW k \in Key, age'[k] > 1
        PROVE  /\ \A r \in Request : C!busy(r, "cache")' /\ doing'[r].key = k
                                        => doing'[r].status # "active"
               /\ cache'[k].status = "active" => age'[k] = 2 /\ ~cache'[k].fresh
    <2>1. age'[k] = age[k]  BY <1>2
    <2> QED  BY <1>2, <2>1 DEF Stale, C!busy
  <1> QED  BY <1>1, <1>2 DEF Stale

LEMMA ApartKeeps == ASSUME Retired, Apart PROVE Retired'
  <1>1. \A r \in Request : doing'[r] = doing[r] \/ doing'[r].at \notin {"cache", "generate"}
    BY DEF Apart, Elsewise
  <1>2. Stale' /\ ReadKeys'  BY <1>1, StaleKept DEF Retired, Apart
  <1>3. DrawnKeys'  BY <1>1 DEF Retired, Apart, DrawnKeys, C!busy
  <1>4. Shut'  BY DEF Retired, Apart, Shut
  <1> QED  BY <1>2, <1>3, <1>4 DEF Retired

\* Taking back all keys of a platform that is active no more.
LEMMA TakenKeeps ==
  ASSUME C!ConsoleAssumption, C!TypeOK, Retired, NEW ks,
         ks = {secret[m] : m \in C!Mode}, C!TakeBack(ks), secret' = secret,
         platform' # "active", cache' = cache,
         \A r \in Request : doing'[r] = doing[r] \/ doing'[r].at \in Elsewise
  PROVE  Retired'
  <1>1. \A k \in Key : age'[k] = age[k] \/ (age'[k] = 1 /\ k \in ks)  BY TakeBackEffect
  <1>2. \A r \in Request : doing'[r] = doing[r] \/ doing'[r].at \notin {"cache", "generate"}
    BY DEF Elsewise
  <1>3. Stale' /\ ReadKeys'  BY <1>1, <1>2, StaleKept DEF Retired
  <1>4. Shut'  BY DEF Shut
  <1>5. DrawnKeys'
    <2>1. secret'["test"] # secret'["live"]  BY DEF Retired, DrawnKeys, C!Mode
    <2>2. ASSUME NEW r \in Request, C!busy(r, "generate")'
          PROVE  /\ C!busy(r, "generate") /\ doing'[r] = doing[r]
                 /\ doing'[r].key \in Key /\ age'[doing'[r].key] = 0
                 /\ \A m \in C!Mode : secret'[m] # doing'[r].key
      <3>1. C!busy(r, "generate") /\ doing'[r] = doing[r]  BY <1>2, <2>2 DEF C!busy
      <3>2. /\ doing[r].key \in Key /\ age[doing[r].key] = 0
            /\ \A m \in C!Mode : secret[m] # doing[r].key
        BY <3>1 DEF Retired, DrawnKeys
      <3>3. doing[r].key \notin ks  BY <3>2
      <3> QED  BY <1>1, <3>1, <3>2, <3>3
    <2> QED  BY <2>1, <2>2 DEF DrawnKeys, Retired
  <1> QED  BY <1>3, <1>4, <1>5 DEF Retired

LEMMA MinuteRetires ==
  ASSUME C!ConsoleAssumption, C!TypeOK, Retired, C!Minute PROVE Retired'
  <1>1. /\ cache' = [k \in Key |-> C!Aged(cache[k])]
        /\ age' = [k \in Key |-> IF age[k] \in 1 .. MaxAge - 1 THEN age[k] + 1 ELSE age[k]]
        /\ UNCHANGED <<platform, secret, doing>>
        /\ \A r \in Request : doing[r].at = "idle"
    BY DEF C!Minute, C!busy
  <1>2. \A r \in Request : ~C!busy(r, "cache")' /\ ~C!busy(r, "generate")'
    BY <1>1 DEF C!busy
  <1>3. DrawnKeys' /\ ReadKeys'  BY <1>1, <1>2 DEF Retired, DrawnKeys, ReadKeys
  <1>4. \A k \in Key : age[k] \in Nat /\ cache[k] \in C!Entries
    BY ConsoleFacts DEF C!TypeOK
  <1>5. \A k \in Key : age'[k] > 0 => age[k] > 0  BY <1>1, <1>4
  <1>6. Shut'  BY <1>1, <1>5 DEF Retired, Shut
  <1>7. ASSUME NEW k \in Key, age'[k] > 1, cache'[k].status = "active"
        PROVE  age'[k] = 2 /\ ~cache'[k].fresh
    <2>1. cache'[k] = C!Aged(cache[k])  BY <1>1
    <2>2. cache[k].fresh /\ cache[k].status = "active" /\ ~cache'[k].fresh
      BY <1>4, <1>7, <2>1, NotCachedIs DEF C!Aged, C!Entries
    <2>3. ~(age[k] > 1)  BY <2>2 DEF Retired, Stale
    <2> QED  BY <1>1, <1>4, <1>7, <2>2, <2>3
  <1> QED  BY <1>2, <1>3, <1>6, <1>7 DEF Retired, Stale

LEMMA ReadsRetire ==
  ASSUME C!ConsoleAssumption, C!TypeOK, Retired, C!Authentication PROVE Retired'
  <1>1. ASSUME NEW r \in Request, C!lookup(r) PROVE Retired'
    <2>1. PICK m \in C!Mode, k \in Key :
             /\ secret[m] = k
             /\ C!Do(r, [C!Quiet EXCEPT !.at = "cache", !.key = k, !.mode = m,
                                        !.status = platform])
      BY <1>1, Zenon DEF C!lookup
    <2> DEFINE q == [C!Quiet EXCEPT !.at = "cache", !.key = k, !.mode = m, !.status = platform]
    <2>2. platform \in {"active", "revoked"}  BY <1>1 DEF C!lookup, C!TypeOK
    <2>3. q \in C!Coroutines /\ q.at = "cache" /\ q.key = k /\ q.status = platform
      BY <2>2, QuietIs DEF C!Coroutines
    <2>4. C!Do(r, q)  BY <2>1
    <2> HIDE DEF q
    <2>5. doing'[r] = q /\ \A s \in Request : s # r => doing'[s] = doing[s]
      BY <2>3, <2>4, DoingEffect
    <2>6. UNCHANGED <<platform, secret, cache, age>>  BY <1>1 DEF C!lookup, C!keys
    <2>7. DrawnKeys'  BY <2>3, <2>5, <2>6 DEF Retired, DrawnKeys, C!busy
    <2>8. Shut'  BY <2>6 DEF Retired, Shut
    <2>9. ReadKeys'  BY <2>3, <2>5 DEF Retired, ReadKeys, C!busy
    <2>10. age[k] > 0 => platform # "active"  BY <2>1 DEF Retired, Shut
    <2>11. age[k] > 1 => q.status # "active"
      BY <2>3, <2>10, ConsoleFacts DEF C!TypeOK
    <2>12. Stale'  BY <2>3, <2>5, <2>6, <2>11 DEF Retired, Stale, C!busy
    <2> QED  BY <2>7, <2>8, <2>9, <2>12 DEF Retired
  <1>2. ASSUME NEW r \in Request, C!cache_row(r) PROVE Retired'
    <2>1. doing[r].key \in Key /\ C!busy(r, "cache")
      BY <1>2 DEF C!cache_row, Retired, ReadKeys
    <2>2. /\ cache'[doing[r].key].status = doing[r].status
          /\ \A k \in Key : k # doing[r].key => cache'[k] = cache[k]
      BY <1>2, <2>1 DEF C!cache_row, C!TypeOK
    <2>3. C!Rest(r) /\ UNCHANGED <<platform, secret, age>>  BY <1>2 DEF C!cache_row
    <2>4. \A s \in Request : doing'[s] = doing[s] \/ doing'[s].at \notin {"cache", "generate"}
      BY <2>3, RestsApart DEF Elsewise
    <2>5. DrawnKeys'  BY <2>3, <2>4 DEF Retired, DrawnKeys, C!busy
    <2>6. Shut'  BY <2>3 DEF Retired, Shut
    <2>7. ReadKeys'  BY <2>4 DEF Retired, ReadKeys, C!busy
    <2>8. age[doing[r].key] > 1 => doing[r].status # "active"  BY <2>1 DEF Retired, Stale
    <2>9. Stale'  BY <2>2, <2>3, <2>4, <2>8 DEF Retired, Stale, C!busy
    <2> QED  BY <2>5, <2>6, <2>7, <2>9 DEF Retired
  <1> QED  BY <1>1, <1>2, MinuteRetires DEF C!Authentication

\* A new key takes the place of one that is taken back.
LEMMA Replaced ==
  ASSUME C!ConsoleAssumption, C!TypeOK, Retired, NEW m \in C!Mode, NEW k \in Key,
         age[k] = 0, \A n \in C!Mode : secret[n] # k,
         secret' = [secret EXCEPT ![m] = k], C!TakeBack({secret[m]}),
         platform' = platform
  PROVE  /\ secret'["test"] # secret'["live"] /\ Shut'
         /\ \A j \in Key : age'[j] = age[j] \/ (age'[j] = 1 /\ j = secret[m])
  <1>1. \A j \in Key : age'[j] = age[j] \/ (age'[j] = 1 /\ j = secret[m])
    BY TakeBackEffect
  <1>2. \A n \in C!Mode : secret'[n] = IF n = m THEN k ELSE secret[n]  BY DEF C!TypeOK
  <1>3. secret["test"] # secret["live"]  BY DEF Retired, DrawnKeys
  <1>4. secret'["test"] # secret'["live"]  BY <1>2, <1>3 DEF C!Mode
  <1>5. ASSUME NEW j \in Key, age'[j] > 0, platform = "active"
        PROVE  \A n \in C!Mode : secret'[n] # j
    <2>1. CASE age'[j] = age[j]  BY <1>2, <1>5, <2>1 DEF Retired, Shut
    <2>2. CASE age'[j] # age[j]
      <3>1. j = secret[m] /\ j # k  BY <1>1, <2>2
      <3>2. \A n \in C!Mode : n # m => secret[n] # secret[m]  BY <1>3 DEF C!Mode
      <3> QED  BY <1>2, <3>1, <3>2
    <2> QED  BY <2>1, <2>2
  <1>6. Shut'  BY <1>5 DEF Shut
  <1> QED  BY <1>1, <1>4, <1>6

LEMMA KeysRetire ==
  ASSUME C!ConsoleAssumption, C!TypeOK, Retired, C!Keys PROVE Retired'
  <1>1. CASE C!revoke_platform
    <2>1. /\ platform' = "revoked" /\ UNCHANGED <<secret, cache, doing>>
          /\ C!TakeBack({secret[m] : m \in C!Mode})
      BY <1>1 DEF C!revoke_platform
    <2> QED  BY <2>1, TakenKeeps
  <1>2. ASSUME NEW r \in Request, C!generate_live_keys(r) PROVE Retired'
    <2>1. PICK k \in Key : C!Unused(k) /\ C!Do(r, [C!Quiet EXCEPT !.at = "generate", !.key = k])
      BY <1>2, Zenon DEF C!generate_live_keys
    <2> DEFINE q == [C!Quiet EXCEPT !.at = "generate", !.key = k]
    <2>2. q \in C!Coroutines /\ q.at = "generate" /\ q.key = k  BY QuietIs DEF C!Coroutines
    <2>3. C!Do(r, q)  BY <2>1
    <2> HIDE DEF q
    <2>4. doing'[r] = q /\ \A s \in Request : s # r => doing'[s] = doing[s]
      BY <2>2, <2>3, DoingEffect
    <2>5. UNCHANGED <<platform, secret, cache, age>>  BY <1>2 DEF C!generate_live_keys, C!keys
    <2>6. Stale' /\ ReadKeys'  BY <2>2, <2>4, <2>5, StaleKept DEF Retired
    <2>7. Shut'  BY <2>5 DEF Retired, Shut
    <2>8. DrawnKeys'  BY <2>1, <2>2, <2>4, <2>5 DEF Retired, DrawnKeys, C!busy, C!Unused
    <2> QED  BY <2>6, <2>7, <2>8 DEF Retired
  <1>3. ASSUME NEW r \in Request, C!store_live_keys(r) PROVE Retired'
    <2>1. /\ C!busy(r, "generate") /\ C!Rest(r) /\ UNCHANGED <<platform, cache>>
      BY <1>3 DEF C!store_live_keys
    <2>2. /\ \A s \in Request : s # r => doing'[s] = doing[s]
          /\ doing'[r].at = "idle"
      BY <2>1, RestsEffect
    <2>3. CASE platform = "deleted"
      <3>1. UNCHANGED <<secret, age>>  BY <1>3, <2>3 DEF C!store_live_keys
      <3>2. Apart  BY <2>1, <2>2, <3>1 DEF Apart, Elsewise
      <3> QED  BY <3>2, ApartKeeps
    <2>4. CASE platform # "deleted"
      <3> DEFINE k == doing[r].key
      <3>1. /\ secret' = [secret EXCEPT !["live"] = k] /\ C!TakeBack({secret["live"]})
        BY <1>3, <2>4 DEF C!store_live_keys
      <3>2. /\ k \in Key /\ age[k] = 0 /\ \A n \in C!Mode : secret[n] # k
        BY <2>1 DEF Retired, DrawnKeys
      <3>3. "live" \in C!Mode  BY DEF C!Mode
      <3>4. /\ secret'["test"] # secret'["live"] /\ Shut'
            /\ \A j \in Key : age'[j] = age[j] \/ (age'[j] = 1 /\ j = secret["live"])
        BY <2>1, <3>1, <3>2, <3>3, Replaced
      <3>5. Stale' /\ ReadKeys'  BY <2>1, <2>2, <3>4, StaleKept DEF Retired
      <3>6. \A n \in C!Mode : secret'[n] = secret[n] \/ secret'[n] = k
        BY <3>1 DEF C!TypeOK
      <3>7. ASSUME NEW s \in Request, C!busy(s, "generate")'
            PROVE  /\ C!busy(s, "generate") /\ doing'[s] = doing[s]
                   /\ doing'[s].key \in Key /\ age'[doing'[s].key] = 0
                   /\ \A n \in C!Mode : secret'[n] # doing'[s].key
        <4>1. s # r /\ doing'[s] = doing[s] /\ C!busy(s, "generate")
          BY <2>2, <3>7 DEF C!busy
        <4>2. doing[s].key # k  BY <2>1, <4>1 DEF Retired, DrawnKeys
        <4>3. /\ doing[s].key \in Key /\ age[doing[s].key] = 0
              /\ \A n \in C!Mode : secret[n] # doing[s].key
          BY <4>1 DEF Retired, DrawnKeys
        <4> QED  BY <3>3, <3>4, <3>6, <4>1, <4>2, <4>3
      <3>8. DrawnKeys'  BY <3>4, <3>7 DEF Retired, DrawnKeys
      <3> QED  BY <3>4, <3>5, <3>8 DEF Retired
    <2> QED  BY <2>3, <2>4
  <1>4. ASSUME NEW r \in Request, C!regenerate_platform_keys(r) PROVE Retired'
    <2>1. PICK m \in C!Mode, k \in Key :
             /\ C!Unused(k) /\ secret' = [secret EXCEPT ![m] = k] /\ C!TakeBack({secret[m]})
             /\ C!Do(r, [C!Quiet EXCEPT !.at = "pop", !.mode = m])
      BY <1>4, Zenon DEF C!regenerate_platform_keys, C!Rotated
    <2> DEFINE q == [C!Quiet EXCEPT !.at = "pop", !.mode = m]
    <2>2. q \in C!Coroutines /\ q.at = "pop"  BY QuietIs DEF C!Coroutines
    <2>3. C!Do(r, q)  BY <2>1
    <2> HIDE DEF q
    <2>4. doing'[r].at = "pop" /\ \A s \in Request : s # r => doing'[s] = doing[s]
      BY <2>2, <2>3, DoingEffect
    <2>5. platform' = platform /\ cache' = cache  BY <1>4 DEF C!regenerate_platform_keys
    <2>6. /\ age[k] = 0 /\ \A n \in C!Mode : secret[n] # k
          /\ \A s \in Request : doing[s].key # k
      BY <2>1 DEF C!Unused
    <2>7. /\ secret'["test"] # secret'["live"] /\ Shut'
          /\ \A j \in Key : age'[j] = age[j] \/ (age'[j] = 1 /\ j = secret[m])
      BY <2>1, <2>5, <2>6, Replaced
    <2>8. Stale' /\ ReadKeys'  BY <2>4, <2>5, <2>7, StaleKept DEF Retired
    <2>9. \A n \in C!Mode : secret'[n] = secret[n] \/ secret'[n] = k  BY <2>1 DEF C!TypeOK
    <2>10. ASSUME NEW s \in Request, C!busy(s, "generate")'
           PROVE  /\ C!busy(s, "generate") /\ doing'[s] = doing[s]
                  /\ doing'[s].key \in Key /\ age'[doing'[s].key] = 0
                  /\ \A n \in C!Mode : secret'[n] # doing'[s].key
      <3>1. doing'[s] = doing[s] /\ C!busy(s, "generate")  BY <2>4, <2>10 DEF C!busy
      <3>2. /\ doing[s].key \in Key /\ age[doing[s].key] = 0
            /\ \A n \in C!Mode : secret[n] # doing[s].key
        BY <3>1 DEF Retired, DrawnKeys
      <3> QED  BY <2>6, <2>7, <2>9, <3>1, <3>2
    <2>11. DrawnKeys'  BY <2>7, <2>10 DEF Retired, DrawnKeys
    <2> QED  BY <2>7, <2>8, <2>11 DEF Retired
  <1>5. ASSUME NEW r \in Request, C!Rest(r), UNCHANGED <<platform, secret, age>>,
               \A k \in Key : cache'[k] = cache[k] \/ cache'[k].status # "active"
        PROVE  Retired'
    <2>1. \A s \in Request : doing'[s] = doing[s] \/ doing'[s].at \notin {"cache", "generate"}
      BY <1>5, RestsApart DEF Elsewise
    <2>2. Stale' /\ ReadKeys'  BY <1>5, <2>1, StaleKept DEF Retired
    <2>3. DrawnKeys'  BY <1>5, <2>1 DEF Retired, DrawnKeys, C!busy
    <2>4. Shut'  BY <1>5 DEF Retired, Shut
    <2> QED  BY <2>2, <2>3, <2>4 DEF Retired
  <1>6. ASSUME NEW r \in Request, C!pop_stale(r) PROVE Retired'
    <2>1. C!Rest(r) /\ UNCHANGED <<platform, secret, age>>  BY <1>6 DEF C!pop_stale
    <2>2. \A k \in Key : cache'[k] = cache[k] \/ cache'[k].status # "active"
      BY <1>6, NotCachedIs DEF C!pop_stale
    <2> QED  BY <1>5, <2>1, <2>2
  <1>7. ASSUME NEW r \in Request, C!pop_all(r) PROVE Retired'
    <2>1. C!Rest(r) /\ UNCHANGED <<platform, secret, age>>  BY <1>7 DEF C!pop_all
    <2>2. \A k \in Key : cache'[k].status # "active"
      BY <1>7, NotCachedIs DEF C!pop_all
    <2> QED  BY <1>5, <2>1, <2>2
  <1>8. ASSUME NEW r \in Request, C!api_developer_delete_platform(r) PROVE Retired'
    <2> DEFINE q == [C!Quiet EXCEPT !.at = "pop_all"]
    <2>1. /\ platform' = "deleted" /\ C!Do(r, q) /\ UNCHANGED <<secret, cache>>
          /\ C!TakeBack({secret[m] : m \in C!Mode})
      BY <1>8 DEF C!api_developer_delete_platform
    <2>2. q \in C!Coroutines /\ q.at \in Elsewise  BY QuietIs, BusyIs DEF Elsewise
    <2> HIDE DEF q
    <2>3. \A s \in Request : doing'[s] = doing[s] \/ doing'[s].at \in Elsewise
      BY <2>1, <2>2, BeginsEffect
    <2> QED  BY <2>1, <2>3, TakenKeeps
  <1> QED
    BY <1>1, <1>2, <1>3, <1>4, <1>6, <1>7, <1>8 DEF C!Keys

LEMMA ConsoleInit ==
  ASSUME C!ConsoleAssumption, C!Init PROVE C!TypeOK /\ Counted /\ Retired
  <1>1. PICK k \in Key : secret = [m \in C!Mode |-> IF m = "test" THEN k ELSE NoKey]
    BY DEF C!Init
  <1>2. /\ secret \in [C!Mode -> Key \cup {NoKey}] /\ secret["test"] \in Key
        /\ secret["test"] # secret["live"]
    BY <1>1, ConsoleFacts DEF C!Mode
  <1>3. /\ cache \in [Key -> C!Entries] /\ doing \in [Request -> C!Coroutines]
        /\ \A r \in Request : doing[r].at = "idle"
    BY QuietIs, NotCachedIs DEF C!Init
  <1>4. age \in [Key -> 0 .. MaxAge] /\ \A j \in Key : age[j] = 0
    BY ConsoleFacts DEF C!Init
  <1>5. owned \in Nat /\ owned >= 1  BY ConsoleFacts DEF C!Init
  <1>6. /\ platform = "active" /\ payout = "none"
        /\ hooks \subseteq drawn /\ drawn \subseteq Secret
    BY DEF C!Init
  <1>7. C!TypeOK /\ Counted  BY <1>2, <1>3, <1>4, <1>5, <1>6 DEF C!TypeOK, Counted
  <1>8. Retired
    BY <1>2, <1>3, <1>4 DEF Retired, DrawnKeys, ReadKeys, Shut, Stale, C!busy
  <1> QED  BY <1>7, <1>8

LEMMA ConsoleInv ==
  ASSUME C!ConsoleAssumption PROVE C!Spec => [](C!TypeOK /\ Counted /\ Retired)
  <1> DEFINE Inv == C!TypeOK /\ Counted /\ Retired
  <1>1. C!Init => Inv  BY ConsoleInit
  <1>2. Inv /\ [C!Next]_(C!vars) => Inv'
    <2> SUFFICES ASSUME Inv, [C!Next]_(C!vars) PROVE Inv'  OBVIOUS
    <2>1. CASE C!Authentication  BY <2>1, ReadsStep, ReadsRetire
    <2>2. CASE C!Keys  BY <2>2, KeysTypeStep, KeysRetire
    <2>3. CASE C!Endpoint  BY <2>3, EndpointStep, ApartKeeps
    <2>4. CASE C!Rows  BY <2>4, RowsStep, ApartKeeps
    <2>5. CASE UNCHANGED C!vars
      <3>1. UNCHANGED <<platform, secret, cache, age, payout, hooks, drawn, owned, doing>>
        BY <2>5 DEF C!vars, C!keys, C!hook
      <3>2. Apart  BY <3>1 DEF Apart
      <3> QED  BY <3>1, <3>2, ApartKeeps DEF C!TypeOK, Counted
    <2> QED  BY <2>1, <2>2, <2>3, <2>4, <2>5 DEF C!Next
  <1> HIDE DEF Inv
  <1>3. C!Spec => []Inv  BY <1>1, <1>2, PTL DEF C!Spec
  <1> QED  BY <1>3 DEF Inv

\* The rows of the console, the cache and the coroutines have their types: for any
\* number of requests, keys and secrets, and any number of platforms above one.
THEOREM ConsoleTypes == ASSUME C!ConsoleAssumption PROVE C!Spec => []C!TypeOK
  BY ConsoleInv, PTL

\* Whatever requests were under way when a key was rotated, overwritten, revoked or
\* deleted with its platform, the cache does not let it in two minutes later: for any
\* number of requests and keys.
THEOREM KeysAreForgotten == ASSUME C!ConsoleAssumption PROVE C!Spec => []RetiredIsForgotten
  <1>1. C!TypeOK /\ Counted /\ Retired => C!RetiredIsForgotten
    BY ConsoleFacts DEF Retired, Stale, C!RetiredIsForgotten, C!TypeOK
  <1>2. C!Spec => []C!RetiredIsForgotten  BY <1>1, ConsoleInv, PTL
  <1> QED  BY <1>2 DEF RetiredIsForgotten

\* A platform that has an endpoint is never left without one, not by two requests that
\* set it up, deactivate each other's and rotate its secret at once; only its deletion
\* takes the endpoint away.
THEOREM EndpointStays == C!Spec => C!EndpointIsKept
  <1>1. ASSUME [C!Next]_(C!vars), hooks # {}, platform' # "deleted" PROVE hooks' # {}
    <2>1. CASE UNCHANGED hooks  BY <1>1, <2>1
    <2>2. CASE C!Authentication
      <3>1. UNCHANGED hooks
        BY <2>2 DEF C!Authentication, C!Minute, C!lookup, C!cache_row, C!hook
      <3> QED  BY <2>1, <3>1
    <2>3. CASE C!Keys
      <3>1. UNCHANGED hooks
        BY <1>1, <2>3
        DEF C!Keys, C!revoke_platform, C!generate_live_keys, C!store_live_keys,
            C!regenerate_platform_keys, C!pop_stale, C!api_developer_delete_platform,
            C!pop_all, C!hook
      <3> QED  BY <2>1, <3>1
    <2>4. CASE C!rotate_webhook_secret
      BY <1>1, <2>4 DEF C!rotate_webhook_secret
    <2>5. ASSUME NEW r \in Request, C!set_platform_webhook(r) \/ C!deactivate(r)
          PROVE  hooks' # {}
      <3>1. UNCHANGED hooks  BY <2>5 DEF C!set_platform_webhook, C!deactivate, C!hook
      <3> QED  BY <2>1, <3>1
    <2>6. ASSUME NEW r \in Request, C!insert_endpoint(r) PROVE hooks' # {}
      BY <1>1, <2>6 DEF C!insert_endpoint, C!Remaining, C!hook
    <2>7. CASE C!Rows
      <3>1. UNCHANGED hooks
        BY <2>7 DEF C!Rows, C!api_developer_update_wallet, C!update_platform_wallet,
                    C!api_developer_platforms_create, C!create_platform, C!hook
      <3> QED  BY <2>1, <3>1
    <2>8. CASE UNCHANGED C!vars  BY <2>1, <2>8 DEF C!vars, C!hook
    <2> QED  BY <1>1, <2>2, <2>3, <2>4, <2>5, <2>6, <2>7, <2>8 DEF C!Next, C!Endpoint
  <1>2. [C!Next]_(C!vars) =>
           [hooks # {} /\ platform' # "deleted" => hooks' # {}]_(C!vars)
    BY <1>1
  <1> QED  BY <1>2, PTL DEF C!Spec, C!EndpointIsKept
=============================================================================
