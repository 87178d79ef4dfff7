------------------------------- MODULE Group -------------------------------
(***************************************************************************)
(* The life of one paywalled chat: the bot is made an admin of it, the     *)
(* wizard of the bot or the mini app sets the paywall up, the owner pauses,*)
(* resumes, prices and deletes it, the operator suspends it, the bot is    *)
(* thrown out.  All of them write the one row of `groups`.                 *)
(*                                                                         *)
(* The bot handles one update at a time; the requests of the mini app and  *)
(* the operator's bot run beside it in the same process.  A handler that   *)
(* awaits between two statements is a task of several steps, and whatever  *)
(* it has read it keeps.                                                   *)
(***************************************************************************)
EXTENDS Naturals, Sequences

CONSTANTS
    Admin,              \* Telegram admins of the chat
    Request,            \* coroutines that serve the mini app
    Wallet, Price,      \* payout addresses and prices that may be typed
    NoWallet, NoPrice,  \* NULL or "", and 0 cents
    Nobody,
    Doing,              \* bound: what happens in an instance, of Doings
    MaxGrants,          \* bound: promotions of the bot
    MaxFaults           \* bound: restarts

Doings == {"wizard", "create", "refresh", "status", "price", "delete", "members",
           "wallet", "operator", "demote"}

\* What the constants are assumed to be: the modules that use this one assume it.
GroupAssumption ==
    /\ Doing \subseteq Doings
    /\ NoWallet \notin Wallet /\ NoPrice \notin Price /\ Nobody \notin Admin
    /\ "bot" \notin Request
    /\ MaxGrants \in Nat \ {0} /\ MaxFaults \in Nat

VARIABLES
    group,      \* the row of `groups`
    member,     \* the subscription of a member of the chat
    changes,    \* pending_wallet_changes of the group: "none", "pending", "past"
    passkey,    \* wallet_passcode_hash is set
    rights,     \* the bot in the chat: "admin", "limited", "member" or "out"
    updates,    \* my_chat_member updates that Telegram has not delivered
    grants,     \* recent_admin_grants, by id
    barred,     \* banned_admins and admin_suspensions
    wizard,     \* conversation and user_data of each admin: the wizard
    talk,       \* conversation of each admin with the menu
    task,       \* what the bot and the mini app's coroutines are doing
    shut,       \* history: suspended by the operator, not unsuspended since
    faults      \* restarts so far

chat  == <<rights, updates, grants>>
talks == <<wizard, talk>>
row   == <<group, member, changes, passkey>>
vars  == <<row, chat, barred, talks, task, shut, faults>>

Thread == {"bot"} \cup Request

NoWizard == [step |-> "none", chat |-> FALSE, price |-> NoPrice, wallet |-> NoWallet,
             shown |-> <<NoPrice, NoWallet>>]

Rest == [at |-> "idle", op |-> "none", by |-> Nobody, wallet |-> NoWallet,
         price |-> NoPrice, link |-> FALSE, status |-> "active"]

Absent == [status |-> "absent", owner |-> Nobody, wallet |-> NoWallet,
           price |-> NoPrice, link |-> FALSE]

Init ==
    /\ group = Absent /\ member = "none" /\ changes = "none" /\ passkey = FALSE
    /\ rights = "out" /\ updates = <<>> /\ grants = <<>>
    /\ barred = {} /\ shut = FALSE /\ faults = 0
    /\ wizard = [a \in Admin |-> NoWizard]
    /\ talk = [a \in Admin |-> "none"]
    /\ task = [t \in Thread |-> Rest]

Exists == group.status # "absent"
at(t, p) == task[t].at = p
Do(t, q) == task' = [task EXCEPT ![t] = q]
Then(t, p) == task' = [task EXCEPT ![t].at = p]
Finish(t) == Do(t, Rest)

\* UPDATE groups SET ... WHERE id: a row that is gone is not written.
Write(g) == group' = IF Exists THEN g ELSE group

\* The bot is not inside a handler: it takes the next update.
Ready == at("bot", "idle")

----------------------------------------------------------------------------
(* Telegram, and handle_my_chat_member.                                    *)

\* An admin of the chat makes the bot an admin, with all rights or without
\* some, or changes the rights it has.
promote(a, perms) ==
    /\ Len(grants) + Len(updates) < MaxGrants
    /\ rights' = IF perms THEN "admin" ELSE "limited"
    /\ updates' = Append(updates, [by |-> a, perms |-> perms, gone |-> FALSE])
    /\ UNCHANGED <<row, grants, barred, talks, task, shut, faults>>

\* The bot is demoted or thrown out.
demote(a) ==
    /\ rights \in {"admin", "limited", "member"}
    /\ rights' = IF rights = "member" THEN "out" ELSE "member"
    /\ updates' = Append(updates, [by |-> a, perms |-> FALSE, gone |-> TRUE])
    /\ UNCHANGED <<row, grants, barred, talks, task, shut, faults>>

\* A promotion is always recorded; with all rights it also enters the group.
\* A removal freezes a group that is neither paused nor suspended.
handle_my_chat_member ==
    LET u == Head(updates) IN
    /\ Ready /\ updates # <<>>
    /\ updates' = Tail(updates)
    /\ grants' = IF u.gone THEN grants ELSE Append(grants, [by |-> u.by, perms |-> u.perms])
    /\ CASE u.gone /\ group.status \in {"active", "frozen"} ->
                Do("bot", [Rest EXCEPT !.at = "freeze"])
         [] ~u.gone /\ u.perms ->
                Do("bot", [Rest EXCEPT !.at = "upsert", !.op = "added", !.by = u.by])
         [] OTHER -> UNCHANGED task
    /\ UNCHANGED <<row, rights, barred, talks, shut, faults>>

freeze_group ==
    /\ at("bot", "freeze")
    /\ Write([group EXCEPT !.status = "frozen"])
    /\ Finish("bot")
    /\ UNCHANGED <<member, changes, passkey, chat, barred, talks, shut, faults>>

\* The rows of recent_admin_grants of one user that are younger than a quarter
\* of an hour: the last ones, however many they are.
Recent(a, k) == {i \in k + 1 .. Len(grants) : grants[i].by = a}

\* Mutant of Newest: the rows of the chat, whoever made the bot its admin.
Newest_any(a, k) == {i \in k + 1 .. Len(grants) : i = Len(grants)}

Newest(a, k) == {i \in Recent(a, k) : \A j \in Recent(a, k) : j <= i}

----------------------------------------------------------------------------
(* The wizard of the bot.  Only its owner's handlers touch it.             *)

in_step(a, ss) == Ready /\ wizard[a].step \in ss
Go(a, w) == wizard' = [wizard EXCEPT ![a] = w]
To(a, s) == wizard' = [wizard EXCEPT ![a].step = s]
Only(changed) == changed /\ UNCHANGED <<row, chat, barred, talk, task, shut, faults>>

cmd_create_paywall(a) ==
    /\ Ready
    /\ IF a \in barred THEN To(a, "none") ELSE Go(a, [NoWizard EXCEPT !.step = "instructions"])

\* _present_single_grant: the chat is stored when no right is missing.
Present(a, i) ==
    IF grants[i].perms
       THEN wizard' = [wizard EXCEPT ![a].step = "detect", ![a].chat = TRUE]
       ELSE To(a, "instructions")

\* A chat whose paywall is live ends the wizard.
cb_check_now(a) ==
    /\ in_step(a, {"instructions"})
    /\ \E k \in 0 .. Len(grants) :
          LET found == Recent(a, k) IN
          /\ found # {}
          /\ IF group.status = "active" THEN Go(a, NoWizard)
             ELSE IF found = Newest(a, k) THEN \A i \in found : Present(a, i)
             ELSE To(a, "pick")

cb_pick_chat(a) ==
    /\ in_step(a, {"pick"})
    /\ \E i \in Recent(a, 0) : Present(a, i)

\* The button of the message that greets whoever added the bot: a way in at any
\* time, for any of the user's grants.
cb_grant_confirm(a) ==
    /\ Ready
    /\ \E i \in Recent(a, 0) :
          Go(a, IF group.status = "active" THEN NoWizard
                ELSE [NoWizard EXCEPT !.chat = TRUE,
                         !.step = IF grants[i].perms THEN "fee" ELSE "instructions"])

cb_confirm_chat(a) == in_step(a, {"detect", "interval"}) /\ To(a, "fee")
cb_fee_ok(a) == in_step(a, {"fee", "price"}) /\ To(a, "interval")
cb_interval(a) == in_step(a, {"interval", "price", "agree", "wallet"}) /\ To(a, "price")
cb_price_ok(a) == in_step(a, {"agree", "final"}) /\ To(a, "wallet")
cb_back_to_instructions(a) == in_step(a, {"detect", "pick", "fee"}) /\ To(a, "instructions")

\* Mutant of msg_price: a price typed after the summary needs no other summary.
msg_price_to_final(a) ==
    /\ in_step(a, {"price"})
    /\ \E p \in Price :
          wizard' = [wizard EXCEPT ![a].price = p,
              ![a].step = IF wizard[a].wallet = NoWallet THEN "agree" ELSE "final"]

msg_price(a) ==
    /\ in_step(a, {"price"})
    /\ \E p \in Price : wizard' = [wizard EXCEPT ![a].step = "agree", ![a].price = p]

\* A wallet is typed, or the one of an earlier paywall taken; the summary shows it.
msg_wallet(a) ==
    /\ in_step(a, {"wallet"})
    /\ \E w \in Wallet :
          wizard' = [wizard EXCEPT ![a].step = "final", ![a].wallet = w,
                                   ![a].shown = <<wizard[a].price, w>>]

\* cb_back_to_start, cmd_cancel and cb_skip_passkey forget what was entered.
cmd_cancel(a) ==
    /\ Ready /\ wizard[a].step \notin {"none", "saved"}
    /\ Go(a, NoWizard)

msg_passkey_set(a) == in_step(a, {"passkey"}) /\ To(a, "confirm")

\* The two differ.
msg_passkey_again(a) == in_step(a, {"confirm"}) /\ To(a, "passkey")

Wizard(a) ==
    \/ cmd_create_paywall(a) \/ cb_check_now(a) \/ cb_pick_chat(a) \/ cb_grant_confirm(a)
    \/ cb_confirm_chat(a) \/ cb_fee_ok(a) \/ cb_interval(a) \/ cb_price_ok(a)
    \/ cb_back_to_instructions(a) \/ msg_price(a) \/ msg_wallet(a) \/ cmd_cancel(a)
    \/ msg_passkey_set(a) \/ msg_passkey_again(a)

\* The summary is confirmed: nothing is looked up again before the paywall is
\* written, neither the chat's standing nor the user's.
cb_final_confirm(a) ==
    LET w == wizard[a] IN
    /\ in_step(a, {"final"})
    /\ w.chat /\ w.price # NoPrice /\ w.wallet # NoWallet
    /\ Do("bot", [Rest EXCEPT !.at = "upsert", !.op = "final", !.by = a,
                              !.wallet = w.wallet, !.price = w.price])
    /\ UNCHANGED <<row, chat, barred, talks, shut, faults>>

\* The two agree: set_group_passcode answers whether it took the passkey, and
\* the admin is told that it did.
msg_passkey_confirm(a) ==
    /\ in_step(a, {"confirm"})
    /\ To(a, "saved")
    /\ passkey' = (passkey \/ Exists)
    /\ UNCHANGED <<group, member, changes, chat, barred, talk, task, shut, faults>>

----------------------------------------------------------------------------
(* What the wizard and the mini app write.                                 *)

\* Mutant of NewStatus: a status that the table's CHECK does not know.
NewStatus_pending == "pending"

\* A row is not shown in "My Networks" until its paywall is activated.
NewStatus == "suspended"

\* INSERT ... ON CONFLICT: a new row is suspended; an old one gets a new owner.
upsert_group(t) ==
    LET q == task[t] IN
    /\ at(t, "upsert")
    /\ group' = IF Exists THEN [group EXCEPT !.owner = q.by]
                ELSE [Absent EXCEPT !.status = NewStatus, !.owner = q.by]
    /\ IF q.op = "added" THEN Finish(t) ELSE Then(t, "link")
    /\ UNCHANGED <<member, changes, passkey, chat, barred, talks, shut, faults>>

\* createChatInviteLink may fail, and does where the bot may not invite.
create_invite_link(t) ==
    /\ at(t, "link")
    /\ \E ok \in BOOLEAN :
          /\ ok => rights = "admin"
          /\ Do(t, [task[t] EXCEPT !.at = "activate", !.link = ok])
    /\ UNCHANGED <<row, chat, barred, talks, shut, faults>>

\* Whatever the status was, it is 'active' now.
activate_paywall(t) ==
    LET q == task[t] IN
    /\ at(t, "activate")
    /\ Write([group EXCEPT !.status = "active", !.wallet = q.wallet,
                           !.link = group.link \/ q.link])
    /\ IF q.op = "refresh" THEN Finish(t) ELSE Then(t, "price")
    /\ UNCHANGED <<member, changes, passkey, chat, barred, talks, shut, faults>>

\* The price follows in a statement of its own.  The wizard goes on to ask for a
\* passkey if the row has none.
update_group_price_usd_cents(t) ==
    LET q == task[t] IN
    /\ at(t, "price")
    /\ Write([group EXCEPT !.price = q.price])
    /\ Finish(t)
    /\ wizard' = IF q.op # "final" THEN wizard
                 ELSE [wizard EXCEPT ![q.by] =
                          IF Exists /\ passkey THEN NoWizard
                          ELSE [NoWizard EXCEPT !.step = "passkey"]]
    /\ UNCHANGED <<member, changes, passkey, chat, barred, talk, shut, faults>>

----------------------------------------------------------------------------
(* The mini app.  verify_admin_or_403 reads the row once.                  *)

verify_admin_or_403(r, a) == at(r, "idle") /\ Exists /\ group.owner = a

begin(r, q) ==
    /\ Do(r, q)
    /\ UNCHANGED <<row, chat, barred, talks, shut, faults>>

\* The chat in the body must be one the user made the bot an admin of, lately
\* and with all rights.  Whether the paywall is live already is not asked.
api_groups_create(r, a) ==
    /\ at(r, "idle") /\ a \notin barred
    /\ \E k \in 0 .. Len(grants) : \E i \in Newest(a, k) : grants[i].perms
    /\ \E w \in Wallet, p \in Price :
          begin(r, [Rest EXCEPT !.at = "upsert", !.op = "create", !.by = a,
                                !.wallet = w, !.price = p])

\* The details of a group that lacks a link, and the list of groups, which reads
\* rows without a chat type and so finds all of them changed.
api_group_detail(r, a) ==
    /\ verify_admin_or_403(r, a) /\ ~group.link
    /\ begin(r, [Rest EXCEPT !.at = "resolve", !.op = "refresh", !.wallet = group.wallet,
                             !.status = "detail"])

api_my_groups(r, a) ==
    /\ verify_admin_or_403(r, a)
    /\ begin(r, [Rest EXCEPT !.at = "resolve", !.op = "refresh", !.wallet = group.wallet,
                             !.status = "list"])

\* getChat and createChatInviteLink answer: what they say is stored, by the
\* statement that sets a paywall live and its wallet to the one read before.
\* Without an answer the details are stored all the same, the list is not.
refresh_group_meta(r) ==
    LET q == task[r] IN
    /\ at(r, "resolve")
    /\ \/ Finish(r)
       \/ /\ q.status = "detail" \/ rights # "out"
          /\ \E ok \in BOOLEAN :
                /\ ok => rights = "admin"
                /\ Do(r, [q EXCEPT !.at = "activate", !.link = ok])
    /\ UNCHANGED <<row, chat, barred, talks, shut, faults>>

\* Resuming asks only that the group is not active, pausing that it is not paused.
api_group_pause(r, a) ==
    /\ verify_admin_or_403(r, a)
    /\ \E s \in {"active", "paused"} \ {group.status} :
          begin(r, [Rest EXCEPT !.at = "status", !.status = s])

api_group_update_price(r, a) ==
    /\ verify_admin_or_403(r, a)
    /\ \E p \in Price : begin(r, [Rest EXCEPT !.at = "price", !.op = "menu", !.price = p])

api_group_delete(r, a) ==
    verify_admin_or_403(r, a) /\ begin(r, [Rest EXCEPT !.at = "suspend", !.op = "delete"])

\* set_group_status, of the pause button and of a deletion.
set_group_status(t) ==
    /\ task[t].at \in {"status", "suspend"}
    /\ Write([group EXCEPT !.status =
                 IF at(t, "suspend") THEN "suspended" ELSE task[t].status])
    /\ IF at(t, "suspend") THEN Then(t, "cancel") ELSE Finish(t)
    /\ UNCHANGED <<member, changes, passkey, chat, barred, talks, shut, faults>>

----------------------------------------------------------------------------
(* The bot's menu.  get_groups_for_admin finds active and paused groups.   *)

_require_group(a) == Ready /\ group.owner = a /\ group.status \in {"active", "paused"}

\* The button is a toggle on the status that was read.
cb_pause(a) ==
    /\ _require_group(a)
    /\ begin("bot", [Rest EXCEPT !.at = "status",
                        !.status = IF group.status = "active" THEN "paused" ELSE "active"])

\* The conversations keep the group they were opened with.
cb_menu(a, c) ==
    /\ _require_group(a)
    /\ talk' = [talk EXCEPT ![a] = c]
    /\ UNCHANGED <<row, chat, barred, wizard, task, shut, faults>>

cb_cancel_input(a) ==
    /\ Ready /\ talk[a] # "none"
    /\ talk' = [talk EXCEPT ![a] = "none"]
    /\ UNCHANGED <<row, chat, barred, wizard, task, shut, faults>>

\* The price is confirmed, or the name typed: neither looks at the group again.
confirm(a, c, q) ==
    /\ Ready /\ talk[a] = c
    /\ talk' = [talk EXCEPT ![a] = "none"]
    /\ Do("bot", q)
    /\ UNCHANGED <<row, chat, barred, wizard, shut, faults>>

cb_price_confirm(a) ==
    \E p \in Price : confirm(a, "price", [Rest EXCEPT !.at = "price", !.op = "menu", !.price = p])

msg_delete_confirm_name(a) ==
    confirm(a, "delete", [Rest EXCEPT !.at = "suspend", !.op = "delete"])

----------------------------------------------------------------------------
(* Deletion, in the bot and in the mini app.                               *)

cancel_pending_group_subscriptions(t) ==
    /\ at(t, "cancel")
    /\ member' = IF member = "pending" THEN "cancelled" ELSE member
    /\ Then(t, "leave")
    /\ UNCHANGED <<group, changes, passkey, chat, barred, talks, shut, faults>>

\* The members are told, then the bot leaves: Telegram tells the bot so.
leave_chat(t) ==
    /\ at(t, "leave")
    /\ rights' = "out"
    /\ updates' = IF rights = "out" THEN updates
                  ELSE Append(updates, [by |-> Nobody, perms |-> FALSE, gone |-> TRUE])
    /\ Then(t, "delete")
    /\ UNCHANGED <<row, grants, barred, talks, shut, faults>>

\* One transaction.  The rows of pending_wallet_changes are cancelled, not
\* deleted: they still refer to the group, which makes the last DELETE fail.
delete_group(t) ==
    /\ at(t, "delete")
    /\ IF changes # "none" THEN UNCHANGED row
       ELSE group' = Absent /\ member' = "none" /\ changes' = "none" /\ passkey' = FALSE
    /\ shut' = (shut /\ changes # "none")
    /\ Finish(t)
    /\ UNCHANGED <<chat, barred, talks, faults>>

----------------------------------------------------------------------------
(* Members.                                                                *)

\* Only an active group takes join requests.
handle_join_request ==
    /\ Ready /\ group.status = "active" /\ member # "active"
    /\ begin("bot", [Rest EXCEPT !.at = "subscribe"])

\* Mutant of Refers: SQLite without foreign keys.
Refers_not == TRUE

\* subscriptions.group_id REFERENCES groups.
Refers == Exists

create_subscription ==
    /\ at("bot", "subscribe")
    /\ member' = IF Refers THEN "pending" ELSE member
    /\ Finish("bot")
    /\ UNCHANGED <<group, changes, passkey, chat, barred, talks, shut, faults>>

\* The pipeline credits the payment, whatever the group's standing.
activate_subscription ==
    /\ member = "pending"
    /\ member' = "active"
    /\ UNCHANGED <<group, changes, passkey, chat, barred, talks, task, shut, faults>>

\* A wallet change is asked for, and applied when it is due.
create_pending_wallet_change ==
    /\ Exists /\ changes = "none"
    /\ changes' = "pending"
    /\ UNCHANGED <<group, member, passkey, chat, barred, talks, task, shut, faults>>

apply_wallet_change ==
    /\ changes = "pending" /\ group.status = "active"
    /\ \E w \in Wallet : Write([group EXCEPT !.wallet = w])
    /\ changes' = "past"
    /\ UNCHANGED <<member, passkey, chat, barred, talks, task, shut, faults>>

----------------------------------------------------------------------------
(* The operator.                                                           *)

\* A ban suspends the admin's groups; lifting it leaves them as they are.
ban_admin(a) ==
    /\ a \notin barred
    /\ barred' = barred \cup {a}
    /\ IF group.owner = a
          THEN group' = [group EXCEPT !.status = "suspended"] /\ shut' = TRUE
          ELSE UNCHANGED <<group, shut>>
    /\ UNCHANGED <<member, changes, passkey, chat, talks, task, faults>>

suspend_admin(a) ==
    /\ a \notin barred
    /\ barred' = barred \cup {a}
    /\ UNCHANGED <<row, chat, talks, task, shut, faults>>

unban_admin(a) ==
    /\ a \in barred
    /\ barred' = barred \ {a}
    /\ UNCHANGED <<row, chat, talks, task, shut, faults>>

sa_suspend ==
    /\ Exists
    /\ \E s \in {"suspended", "active"} :
          /\ (s = "suspended") # (group.status = "suspended")
          /\ group' = [group EXCEPT !.status = s]
          /\ shut' = (s = "suspended")
    /\ UNCHANGED <<member, changes, passkey, chat, barred, talks, task, faults>>

\* The process dies: conversations and requests are gone, and so are the updates
\* it had fetched.
Restart ==
    /\ faults < MaxFaults
    /\ faults' = faults + 1
    /\ task' = [t \in Thread |-> Rest]
    /\ wizard' = [a \in Admin |-> NoWizard]
    /\ talk' = [a \in Admin |-> "none"]
    /\ \E n \in 0 .. Len(updates) : updates' = SubSeq(updates, n + 1, Len(updates))
    /\ UNCHANGED <<row, rights, grants, barred, shut>>

Chat ==
    \/ \E a \in Admin : \/ "demote" \in Doing /\ demote(a)
                        \/ \E perms \in BOOLEAN : promote(a, perms)
    \/ handle_my_chat_member \/ freeze_group

Statements ==
    \E t \in Thread :
        \/ upsert_group(t) \/ create_invite_link(t) \/ activate_paywall(t)
        \/ update_group_price_usd_cents(t) \/ set_group_status(t)
        \/ cancel_pending_group_subscriptions(t) \/ leave_chat(t) \/ delete_group(t)

Setup ==
    /\ "wizard" \in Doing
    /\ \E a \in Admin : Only(Wizard(a)) \/ cb_final_confirm(a) \/ msg_passkey_confirm(a)

MiniApp ==
    \E r \in Request :
        \/ refresh_group_meta(r)
        \/ \E a \in Admin :
              \/ "create" \in Doing /\ api_groups_create(r, a)
              \/ "refresh" \in Doing /\ (api_group_detail(r, a) \/ api_my_groups(r, a))
              \/ "status" \in Doing /\ api_group_pause(r, a)
              \/ "price" \in Doing /\ api_group_update_price(r, a)
              \/ "delete" \in Doing /\ api_group_delete(r, a)

Menu ==
    \E a \in Admin :
        \/ "status" \in Doing /\ cb_pause(a)
        \/ \E c \in {"price", "delete"} \cap Doing : cb_menu(a, c)
        \/ cb_cancel_input(a) \/ cb_price_confirm(a) \/ msg_delete_confirm_name(a)

Members ==
    \/ /\ "members" \in Doing
       /\ (handle_join_request \/ create_subscription \/ activate_subscription)
    \/ "wallet" \in Doing /\ (create_pending_wallet_change \/ apply_wallet_change)

Operator ==
    /\ "operator" \in Doing
    /\ \/ sa_suspend
       \/ \E a \in Admin : ban_admin(a) \/ suspend_admin(a) \/ unban_admin(a)

Next == Chat \/ Statements \/ Setup \/ MiniApp \/ Menu \/ Members \/ Operator \/ Restart

Spec == Init /\ [][Next]_vars

----------------------------------------------------------------------------
(* Properties.                                                             *)

Groups == [status : {"absent", "active", "paused", "frozen", "suspended"},
           owner : Admin \cup {Nobody}, wallet : Wallet \cup {NoWallet},
           price : Price \cup {NoPrice}, link : BOOLEAN]

Grants == [by : Admin, perms : BOOLEAN]

\* Somebody makes the bot an admin; nobody need have thrown it out.
Updates == [by : Admin, perms : BOOLEAN, gone : {FALSE}]
           \cup [by : Admin \cup {Nobody}, perms : {FALSE}, gone : {TRUE}]

Wizards == [step : {"none", "instructions", "detect", "pick", "fee", "interval", "price",
                    "agree", "wallet", "final", "passkey", "confirm", "saved"},
            chat : BOOLEAN, price : Price \cup {NoPrice}, wallet : Wallet \cup {NoWallet},
            shown : (Price \cup {NoPrice}) \X (Wallet \cup {NoWallet})]

Tasks == [at : {"idle", "freeze", "upsert", "link", "activate", "price", "resolve",
                "status", "suspend", "cancel", "leave", "delete", "subscribe"},
          op : {"none", "added", "final", "create", "refresh", "menu", "delete"},
          by : Admin \cup {Nobody}, wallet : Wallet \cup {NoWallet},
          price : Price \cup {NoPrice}, link : BOOLEAN,
          status : {"active", "paused", "detail", "list"}]

TypeOK ==
    /\ group \in Groups /\ (Exists \/ group = Absent)
    /\ member \in {"none", "pending", "active", "cancelled"}
    /\ changes \in {"none", "pending", "past"} /\ passkey \in BOOLEAN
    /\ rights \in {"admin", "limited", "member", "out"}
    /\ updates \in Seq(Updates) /\ grants \in Seq(Grants) /\ Len(grants) <= MaxGrants
    /\ barred \subseteq Admin /\ shut \in BOOLEAN /\ faults \in 0 .. MaxFaults
    /\ wizard \in [Admin -> Wizards]
    /\ talk \in [Admin -> {"none", "price", "delete"}]
    /\ task \in [Thread -> Tasks]
    /\ \A t \in Thread : at(t, "status") => task[t].status \in {"active", "paused"}

\* A paywall belongs to somebody who made the bot an admin of the chat, with every
\* right it needs: neither the wizard, nor the mini app's form, nor an update that
\* comes late makes anybody else its owner.
OwnerMadeItAdmin ==
    Exists => \E i \in DOMAIN grants : grants[i].by = group.owner /\ grants[i].perms

\* What the wizard writes is what its last summary showed, however the admin went
\* back and forth, entered it anew or typed a price after it.
ShownIsActivated ==
    LET q == task["bot"] IN
    q.op = "final" => wizard[q.by].shown = <<q.price, q.wallet>>

\* A deletion takes everything that hangs on the group with it, whatever was on
\* its way: no member, passkey or wallet change of a group that is gone.
NothingLeftBehind ==
    ~Exists => member = "none" /\ changes = "none" /\ ~passkey
=============================================================================
