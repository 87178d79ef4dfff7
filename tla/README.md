# Renewise in TLA+

Renewise is a subscription paywall for Telegram groups, paid in TON.  A member
asks to join a paid group, gets a payment link to a contract that exists only
for that subscription, pays, and is let in; the contract splits the money
between the group's admin and the platform.  Developers can charge through the
same contracts over an HTTP API.  This directory holds TLA+ modules of the
parts of the program where money or access can go wrong, the TLC
configurations that check them on small instances, and proofs, checked by
TLAPS, that every component keeps its safety properties for every instance and
that some things which must happen do.

`PROJECT.json` relates every definition to its source lines, lists the runs, the
hazards they are aimed at, the theorems and the disagreements between code and
documentation that the runs exhibit.  Paths below are relative to `src/`;
`queries.py`, `schema.py` and `connection.py` are in `renewise/db/`;
`inprocess_watcher.py`, `tasks.py`, `scheduler.py`, `worker.py` and `bot_listener.py`
are in `renewise/watcher/`; everything else named without a directory is in `renewise/`.

- [The system](#the-system)
- [The modules](#the-modules)
- [The runs](#the-runs)
- [What the code does not keep](#what-the-code-does-not-keep)
- [The proofs](#the-proofs)
- [What is not modelled](#what-is-not-modelled)
- [Plan](#plan)

## The system

Two deployments share the code: one process in which the bots, the mini app's
HTTP server and a polling watcher run as coroutines of one event loop
(`run.py`), and several processes joined by Redis (`watcher/watcher.py`,
`worker.py`, `scheduler.py`, `tasks.py`, `bot_listener.py`).  The database is SQLite
or PostgreSQL behind one interface (`connection.py`): on PostgreSQL every function of
`queries.py` runs in one READ COMMITTED transaction, on SQLite each statement
commits by itself.  For SQLite, `_to_sqlite` rewrites placeholders and a few
idioms (`NOW()`, booleans), but neither an `INTERVAL` literal nor a placeholder that occurs twice; for PostgreSQL values are bound as
they come.  So some statements work on one of the two and raise on the other:

| | SQLite | PostgreSQL |
|---|---|---|
| expiry of old charges in the poll loop (`inprocess_watcher.py`, 614, called at 879) | raises (`INTERVAL`), from half an hour after each start in every pass, before the refund retry, the evictions and the polls | runs |
| vaults to watch, at the start and in the watcher's rounds (`queries.py`, 751 and 788) | raises (three placeholders, one argument): the start goes on without them, the rounds queue nothing | runs |
| creation of a charge (`api/platform.py`, 88; `miniapp/server.py`, 2754) | raises (`INTERVAL`): there are no charges | runs |
| request of a wallet change (`admin_menu.py`, 516; `miniapp/server.py`, 2169; `queries.py`, 1168) | runs | raises (a string for a TIMESTAMPTZ), the transaction takes the cancellation of its predecessor back |
| renewal reminder (`watcher/db.py`, 244, from `scheduler.py`, 75) | runs | raises (a datetime for a TEXT column) before anything is recorded or published |
| backfill of the migration (`watcher/db.py`, 124) | runs | raises and is swallowed |

So no database has everything.  Where it matters to a module, the constant `USE_POSTGRES` (the name
of `config.py`) says which database it is, and a property that one of them does not keep names it; `Charge` is
about PostgreSQL and `WalletChange` about SQLite, where there is something to say.

### Components

| Component | State it keeps | Operations | Talks to |
|---|---|---|---|
| In-process payment pipeline (`inprocess_watcher.py`, `services/payment.py`, `handlers/join_request.py`) | `subscriptions`, `vault_registry`, `processed_tx_hashes`, `overpayment_refunds`; in memory `_active_vaults`, the seen-set, `_insufficient` | join request, payment link, poll, "I've Paid" tap, operator's recheck, `_process_payment_inprocess`, cleanup, eviction, backfill at start | vaults (through TonCenter), database, bots |
| PaymentVault contract (`contracts/PaymentVault.tact`) | balance, `accumulated_paid`, `overage_held` | `Pay`, `Refund`, getters | payers, admin, platform, trigger wallet |
| Overpayment refunds (`handlers/refund.py`, `ton/refund_trigger.py`) | `overpayment_refunds`, the trigger wallet's seqno | submit a wallet, retry every 10 minutes, cancel, mark sent | vault, database, event loop |
| Wallet change delay (`handlers/admin_menu.py`, `miniapp/server.py`, `queries.py`) | `groups.payout_wallet_address`, `pending_wallet_changes` | request (bot, mini app), supersede, cancel, apply due rows every 15 minutes | database, poll loop |
| Passcode lockout (`queries.py`, `services/platform.py`) | hash, failed attempts, lock time, of a group or a platform | set, check, change the platform's wallet | bots, mini app, connection pool |
| Platform API and charges (`api/platform.py`, `services/platform.py`, `miniapp/server.py`) | `platform_charges`, `platforms`, keys and their cache | create, read (and expire), check out, recheck, complete; draw, rotate and revoke keys | pipeline, webhooks |
| Webhooks (`services/webhooks.py`) | `webhook_endpoints`; attempts in memory | deliver, retry, set and rotate the endpoint | the platform's server |
| Membership and grace (`scheduler.py`, `tasks.py`, `bot_listener.py`, `handlers/chat_member.py`) | `subscriptions`, `reminder_log`, the chat's members and bans | remind, expire and kick, renew, cancel on leaving, comp | Redis, Telegram, database |
| RQ payment worker (`watcher/webhook.py`, `watcher.py`, `tasks.py`, `worker.py`) | the queue, the poller's cursors, `processed_tx_hashes` | poll, push, recheck; process a transaction; tell the bot | Redis, database |
| Paywall wizard and group life (`handlers/create_paywall.py`, `admin_menu.py`, `chat_member.py`, `miniapp/server.py`) | `groups`, `recent_admin_grants`, conversations | set up, refresh, price, pause, freeze, delete | database, Telegram |
| Superadmin bot (`superadmin/`) | `platform_config`, bans, fees | kill switch, force-cancel, force-expire, recheck, suspend, ban, broadcast | database, pipeline |
| Main bot, mini app, keyboards (`bot.py`, `miniapp/`, `utils/keyboards.py`) | none of their own | views and forms over the queries | database |
| TonCenter client, exchange rate, monitor, keepalive (`watcher/toncenter.py`, `utils/coingecko.py`, `monitor.py`, `keepalive.py`) | key rotation, caches | HTTP requests | outside services |

### What is hard about it

*One process.*  The pipeline is a coroutine with some fifteen awaits.  Three callers run it:
the watcher's task for each new transaction, the member's tap, the operator's
recheck.  Each await is a place where another of them, the grace job, a kick, a
new join request or the cleanup can change the row it has already read.  The one
guard against crediting twice is the primary key of `processed_tx_hashes`.  The
amount a job judges by is that of the newest link, while a payer may use an
older one.  A restart forgets the watched vaults and the seen-set, and on SQLite
rewrites the idempotency records.  One loop cleans up, applies, expires, retries, evicts and polls, in
this order, so that a job that raises in every pass stops those after it.

*Several processes.*  One transaction is enqueued by the poller, by the watcher's rounds,
by pushes and by rechecks, and its jobs run in several workers at once.  What a worker
has decided reaches the bot by publish and subscribe, which keeps nothing for a listener that
is down.  A task in the queue acts on what the scheduler saw when it was enqueued.

*Money.*  The contract pays the costs of every message out of one gas reserve and sends with
"ignore errors": a payout it cannot afford vanishes.  Refunds are triggered by a
wallet two jobs share, and the only confirmation is its seqno moving.  A wallet
change is applied from rows fetched earlier, while the admin may cancel and the
operator suspend.

*The owner's side.*  The status of a group is one column that the owner, the wizard, the mini
app's refreshes, the operator and Telegram's updates all write.  The wizard keeps what it read
many messages ago.  The lockout's counter, a platform's keys, its endpoint and its number
are all read by one statement and written by another.

### What makes it correct

- *Pipeline, either deployment*: a transaction is credited at most once, whoever looks at it and
  whatever restarts; an ended subscription is not revived by a payment in flight;
  no billing cycle, and no admission to the chat, without a recorded payment; a full payment the
  watcher still looks for is credited in the end.
- *Contract*: each unit received has one destiny; held overage is untouched by a
  split; nobody's share is dropped.
- *Refunds*: money goes only to the member who overpaid; "sent" means that a
  trigger went out; the operator's cancellation of an unclaimed row wins; a claimed
  refund does not hang.
- *Wallet change*: no payout wallet before its delay has passed; one cancelled in
  time is never used; what is due gets settled.
- *Membership*: whoever is in the chat without a membership is being removed; nobody
  stays banned; an ended membership comes back only by a new request; what is
  overdue ends, what is due is reminded of, who left is cancelled.
- *Charges*: a completed charge has a payment that covers its link; what was claimed for it
  has completed it, except where a stale read is known to undo it; the platform is told, or the attempts run out.
- *Passkeys*: the number of guesses is bounded; requests wait for connections for good only if they
  hold all of them, which takes as many groups as there are connections.
- *Keys*: one that was taken back opens nothing once the cache's minute has passed.
- *Groups*: only who made the bot an admin owns the paywall; what is activated is what
  the summary showed; a deleted group leaves nothing behind.

## The modules

A family has a component module (state, one action per operation, properties), a module of
claims the program's texts make and the code does not keep and, where something is proved,
a module of proofs.

| Family | Component | Abstract | Instances | Claims | Proofs |
|---|---|---|---|---|---|
| Payment | `Payment` | `PaymentLedger` | `MCPayment` | `PaymentClaims` | `PaymentProofs` |
| RQ worker | `PaymentWorker` | `PaymentLedger` | `MCPaymentWorker` | `PaymentWorkerClaims` | `PaymentWorkerProofs` |
| Vault | `Vault` | | `Owner`, `MCOwner` | `VaultClaims` | `VaultProofs` |
| Refund | `Refund` | | `MCRefund`, `MCPayout` | `RefundClaims` | `RefundProofs` |
| Wallet change | `WalletChange` | | `MCPayout` | `WalletClaims` | `WalletProofs` |
| Membership | `Membership` | | in its `.cfg` files | `MembershipClaims` | `MembershipProofs` |
| Charge | `Charge` | | `MCCharge` | `ChargeClaims` | `ChargeProofs` |
| Passkeys | `Passcode` | | `Owner`, `MCOwner` | `PasscodeClaims` | `OwnerProofs` |
| Console | `Console` | | `Owner`, `MCOwner` | `ConsoleClaims` | `OwnerProofs` |
| Group | `Group` | | `Owner`, `MCOwner` | `GroupClaims` | `OwnerProofs` |

### Payment

`Payment.tla` is the in-process pipeline from a transaction on a vault to an active
row.  Its variables are the tables (`sub`, `registered`, `processed`, `refund`,
`paused`), the watcher's memory (`watched`, `seen`, `notified`), the coroutines
(`job`), the chain (`linked`, `chain`, `accumulated`, `accepted`), and two
histories (`faults`, `credit`).  `stalled` says that the poll loop raises in every pass.

`job` maps each coroutine slot to a record: where it is (`pc`) and what it has read
(`renewal`, `required`, `total`).  The actions of `Step` are the awaits of
`_process_payment_inprocess` in order:

| Action | Code (`inprocess_watcher.py`, from line 276) |
|---|---|
| `precheck` | `is_tx_processed` |
| `load` | vault to subscription, the snapshot of the row, the amount to reach, with the getter where the stored amount is absent or reached by this payment alone |
| `gate` | the kill switch; total against amount |
| `short`, `accumulate`, `grace`, `notify_insufficient_payment` | the shortfall branch: residual test, running total, eight seconds' sleep, second look, the message |
| `residual` | write the transaction off |
| `claim` | `mark_tx_processed`, go on only if this call inserted the row |
| `reset`, `activate` | running total to 0; the conditional UPDATE, whose result nobody looks at |
| `overpaid` | the refund row |
| `finish` | welcome, or renewal notice |

`poll_vaults_inprocess`, `cb_ive_paid` and `manual_recheck` start a job.
`create_subscription` and `generate_payment_request` are the user's side, `Pay` the
vault's.  `expire`, `cancel_subscription`, `comp_subscription`,
`set_payments_paused`, `delete_stale_pending_subscriptions` and `evict` are what
other components do to the same state; the constant `Outside` says which of them
an instance has.  `_expire_stale_charges_inprocess` is, on SQLite, the step that stalls the loop.  `restart` loses the memory, applies the migration's backfill and
watches again what `get_vaults_to_watch` returns (on SQLite nothing); `abort` ends one coroutine.

`PaymentLedger.tla` is the abstract specification: each payment is open, held by one
claimant, spent on one cycle, or void.  `LedgerSpec` in `Payment` is the
refinement mapping's instance.

### PaymentWorker

`PaymentWorker.tla` is the same promise in the other deployment.  The database's variables are
those of `Payment`; instead of the watcher's memory there are the webhook server's cursors (`polled`,
`passed`), the queue (`queue`, a number of copies for each transaction, since RQ's retries,
the rounds and the rechecks add copies), the worker processes (`worker`), the channel to the bot
(`channel`, `listening`) and the member at the door (`door`).

| Action | Code |
|---|---|
| `handle_webhook`, `poll_once`, `poll_vaults`, `recheck_by_subscription`, `recheck_by_tx_hash`, `handle_recheck` | who enqueues (`watcher/webhook.py`, `watcher/watcher.py`, `superadmin/`) |
| `take`, `precheck`, `load`, `short`, `residual`, `insufficient`, `gate`, `claim`, `activate`, `publish` | `process_payment` (`tasks.py`, from line 62), statement by statement; a renewal's job raises a NameError (lines 243 and 244) before it publishes |
| `_handle_approve_and_welcome`, `_handle_insufficient_payment` | the listener (`bot_listener.py`) |
| `create_app` | the webhook server starts again: migration, cursors from the registry |
| `half_hour_passes` | `updated_at` of a pending row leaves the window of `get_vaults_to_watch` (`queries.py`, 761 and 771) |
| `fail`, `stop_bot` | a job ends at any statement; the bot, and what is published meanwhile, is lost |

A row's `recent` says that it is in that window: set by the join request, and by nothing a payer does.  A
payment that comes later is in no round, and on SQLite none is; what TonCenter pushes, the poller's registered vaults and the
operator's recheck remain.  No job is retried: `worker.py` (line 81) starts its workers without the scheduler that RQ's
retries with an interval need.  `LedgerSpec` is its refinement of the same `PaymentLedger`.

### Membership

`Membership.tla` has the time after the first payment, in days (`now`): the scheduler's two
jobs enqueue what their queries find (`renewal_reminder_job`, `grace_enforcement_job`), workers run the two
tasks statement by statement (`has_reminder_been_sent`, `record_reminder_sent`,
`publish_reminder`; `read_status`, `set_expired`, `publish_kick`), the listener does two
Telegram calls for a kick (`ban_chat_member`, `unban_chat_member`), and the chat's updates come back to
handlers that read before they write (`handle_chat_member`, `cancel_left`).  The owner's
kick and comp, and the operator's force actions, write the same rows.  The payment itself is one step
(`activate_subscription`): `PaymentWorker` takes it apart.  `lost` remembers whom the program has
left behind for good: by a fault (a call that failed, a message lost, a task killed), by the operator's force actions, which end a row and remove
nobody, and by an approval that answers a request it was not meant for (`Premature`).  The
properties excuse those members and no others: they say that nobody else is left behind, not that
the fault is repaired.  On PostgreSQL `has_reminder_been_sent` raises and its task ends there.

### Vault

`Vault.tla` is the money of one contract in coarse units: `Accumulate` and `Split` are the two
branches of `receive(Pay)`, `Refund` is `receive(Refund)`.  Each message pays for gas, each send
takes what it needs or nothing (`Taken`).  Histories record what
the contract meant to pay (`owed`) and what left (`paid`), and whether the costs of
a cycle outgrew the reserve (`overdrawn`).  The two modules `Payment` and `Refund` use the
contract in the coarser form they need: the first its running total, the second its overage.

### Refund

`Refund.tla` has the rows of `overpayment_refunds`, the handler's and the retry run's
jobs, the trigger wallet and the vaults' overages.  A broadcast message carries the
wallet's current seqno, so `pool` is the set of messages that are still acceptable:
accepting one empties it and moves the seqno for every job that waits (`moved`).
`lookup` takes the vault the subscription names *now*.  `configured` tells what was set at the
start: the handler triggers with `TRIGGER_MNEMONIC` alone (`refund.py`, 188), the retry run also needs
`TRIGGER_WALLET` (`inprocess_watcher.py`, 646).  The run is called after the line that raises on SQLite, and
`stalled` says that it is not reached any more.

### WalletChange

`WalletChange.tla` has the rows of `pending_wallet_changes` of one group, the payout
wallet (named by the change that asked for it), the group's standing, the two front
ends and the run that applies what is due.  Every statement is a step, which is
SQLite's behaviour.  On PostgreSQL the request's INSERT raises and there are no changes to
apply.  A wallet given to the set-up wizard takes effect at once
(`activate_paywall`); the hold is about changes.

### Charge

`Charge.tla` is a platform's charge from its creation to the webhook.  A charge is made by the API
(`create_charge`, `insert_charge`, with a unique reference) or by the console's sandbox (an upsert that takes
whatever row has the reference), gets links (`store_link`; `api_public_checkout` makes the
watcher look again), and is paid on one of its vaults.  The
watcher's branch for charges is `precheck`, `load`, `partial`, `claim` and `complete`; each of the two recheck
endpoints has a copy of that code (`miniapp/server.py`, 367 and 1343), with the same statements in the same order: one
set of actions stands for the three, and `by` tells which, where they differ.  `get_charge` reads, `mark_expired` writes by id what the read
decided; `_expire_stale_charges_inprocess` does it for rows with a vault.  `watch` has
what the watcher knows of a vault: its network, and whether its time is up (`evict`).
`dispatch_webhook` reads the row again and `_deliver_once` posts it, at most `MAX_ATTEMPTS` times, in memory
only (`stop` loses them).

### Passcode

`Passcode.tla` is the row of a group or of a platform with its passkey.  Each request is one database
transaction in steps: `begin` reads the row and decides in Python (`Writes`), `update` takes
the row's lock, `audit` writes the audit line through a second connection (groups only), `commit` makes the
write visible.  Two requests may decide on the same counter, and all of them compete for the
connections of the pool (`Free`).

### Console

`Console.tla` is a developer's platform: the secret of each mode and the rows `authenticate_platform`
has cached for a minute (`lookup`, `cache_row`, `Minute`), the key operations with the entries they remove
after their transaction (`pop_stale`, `pop_all`), the endpoint's update in two statements
(`deactivate`, `insert_endpoint`), its secret, the payout wallet, and the owner's number of platforms.
`age` counts the minutes since a key was taken back.

### Group

`Group.tla` is one chat's paywall.  Telegram's side is what `promote` and `demote` do and the queue of
`my_chat_member` updates that `handle_my_chat_member` works off into grants and freezes.  The wizard is one
action per handler of its conversation; `wizard` keeps the step and what was entered, and
`shown` what the last summary said.  The mini app's requests and the last steps of the bot's are tasks of
several statements (`upsert_group`, `create_invite_link`, `activate_paywall`, `update_group_price_usd_cents`;
`set_group_status`, `cancel_pending_group_subscriptions`, `leave_chat`, `delete_group`) that keep what they have read.
The bot handles one update at a time; the mini app's requests and the operator's bot run beside it.

### Instances that share a module

`Owner.tla` puts `Vault`, `Passcode` and `Console` beside `Group` and names their properties, for the runs and the
theorems alike; `MCOwner.tla` gives them their bounds, `Group` three times; `MCPayout.tla` takes `WalletChange`
and `Refund`.  These components share no state, so a behaviour runs one of them, named by
`part`, and leaves the variables of the others alone.

### Names

Actions, operators and variables carry the names of the functions, columns and
variables they stand for.  A definition named after another with a suffix
(`claim_unchecked`, `Split_no_reset`) and marked "Mutant of" is not part of any
specification: it is a plausible bug, kept to show that a property would notice it.

## The runs

All passing runs are exhaustive within their bounds.  Deadlock is not checked: an
instance has finitely many transactions, rows, keys or days, and the system is at rest
when they are used up and nobody asks for more.  Where everyone may wait for everyone, the
pool's connections, `OnlyAFullPoolBlocks` says when: that deadlock is in reach of the instance.

| Run | Instance | What it shows |
|---|---|---|
| `races` | PostgreSQL; one row, one vault, 2 transactions of 1 or 3 against a price of 2, 2 coroutines; cancel, comp, cleanup, evict | `CreditOnce`, `EndedStaysEnded` when a watcher task and a tap race for the same or for different payments |
| `faults` | SQLite; one row, two vaults with prices 2 and 3, 2 transactions of 2, one coroutine, a getter that may fail, returning members, the backfill, the poll loop that stalls; one restart, aborted job or failed registration | `NoFreeCycle` and the refinement of `PaymentLedger`: what was claimed before the fault is not claimed after it, and an amount from one link judged against payments of the other still buys each cycle once |
| `live` | PostgreSQL; one row, one vault, 2 transactions of 1 or 2, 2 coroutines, pause and expiry, no fault, under `FairSpec` | `FullPaymentIsCredited` |
| `worker` | PostgreSQL; one row, one transaction of 3 or 4, a link of 3, a price of 2 or 4 by the rate of the moment, 2 workers, one copy in the queue, one action in the channel; rejoin, the half hour, expiry, pause, cleanup; one fault, under `FairSpec` | the several processes implement `PaymentLedger`; `AdmittedHasPaid`; `CoveredIsCredited`; `WelcomeArrives` |
| `membership` | PostgreSQL; one member, 2 workers, cycles of a day and a day of grace, three days; every operation of members and operators; one fault | `NoFreeRider`, `NobodyStaysBanned`, `EndedNeedsRequest` |
| `membership_live` | SQLite; one member, one worker, a reminder window of a day and no grace, two days, leaving and renewing, one fault, under `FairSpec` | `LapsedLeaves`, `DueIsReminded`, `LeaverIsCancelled` |
| `refund_members` | SQLite; two members with a subscription, a vault, a wallet each, two rows between them, mnemonic and wallet of the trigger set or not, the poll loop that stalls, one restart | `PaidToItsMember`, `SentWasTriggered`, `CancelledUnclaimedStays` |
| `payout` | two wallet changes from both front ends (SQLite), or one overpayment (PostgreSQL); one restart; fair | `HeldUntilDue`, `CancelWindow`, `DueIsSettled`; `PendingSendIsResolved` |
| `charge` | one charge, one vault that asks for 2, payments of 3 and of 1 or 2, one request, one recheck, two webhook attempts, deletion of the platform, one fault | `PaidByItsTx`, `ClaimedIsCompleted`, `UndoneByStaleRead` |
| `charge_live` | one charge with two links that ask for 2 and 3, a payment of 3, the sandbox, one fault, under `FairSpec` | `PaidIsCompleted`, `ToldOrGivenUp` |
| `owner` | the parts below, one per behaviour | `Accounted`, `RingFenced`, `PaidInFull`; `GuessesBounded`, `OnlyAFullPoolBlocks`; `RetiredIsForgotten`; `OwnerMadeItAdmin`, `ShownIsActivated`, `NothingLeftBehind` |

The parts of `owner`:

- *vault*: price 4, fees 25 % and 50 %, reserve 3, log 1, gas 0 to 2, payments of 1, 2, 5, 8, 11,
  in all at most 27.
- *passcode*: a group's or a platform's row, two requests, one code, two attempts before the
  lock, two requests on other groups, three connections: as many groups as connections, so that they can all
  wait for each other, and do.
- *keys* and *platform*: two requests, three API keys and two webhook secrets, two platforms an owner,
  three minutes; authentication with the key operations, then the key operations with endpoint,
  wallet and number of platforms.
- *owners*: two admins who may each make the bot an admin, take its rights and be barred; the mini app's
  set-up and refreshes.  *setup*: one admin, wizard and mini app at once, two prices, a restart.
  *life*: one owner, deletion with members, payments, prices and wallet changes coming in between.

Bounds, and why they are enough to be of use:

- Two transactions and two coroutines are the smallest instance with a race, with a
  partial payment completed by another, with an overpayment made of two, and with a
  payment that arrives in the next cycle.  Against a price of 2 a payment of 1 is
  partial, of 2 exact and of 3 more than the price; in `faults` a payment of 2 is exact on the
  cheaper link and partial on the dearer one, where two of them are more than the price.  `RefundThreshold` is one unit.
- `MaxFaults` bounds restarts, aborted jobs, failed calls and failed registrations.  One places the
  fault at every await; what several could add for safety is covered, for the families with
  proofs, by the proofs, which do not bound it.
- In `worker` one transaction is met by two workers and up to one more copy waits, so a
  job can start before, while and after another one has claimed; 4 covers every
  rate and 3 only some, so a payment can be short at the rate its job sees.  `MaxCopies` and
  `MaxMail` bound the queue and the channel.
- In `membership` a day is an hour of the scheduler as well, so that a task can be enqueued
  before and taken after a renewal.  `MaxTime` allows a second cycle and its end.
- `age` of a charge is 0 in time, 1 overdue, 2 past the maintenance job's five minutes.
- `Outside` and `Doing` divide the rest of the program over the runs, to keep each exhaustive;
  between them the runs fire every action.  The theorems have no such division.
- `MaxReceived` in `Vault` allows three cycles of the vault (the required
  amount is 8), with the partial payments and refunds between them.
- Two members are what `PaidToItsMember` needs to be violated by a mix-up, two
  changes what `CancelWindow` needs for one that supersedes another the run has fetched, two
  admins what `OwnerMadeItAdmin` needs.
- Symmetry is used in safety runs only: of transactions and coroutines in `races` and `faults`, of requests and
  admins in `owner`.  In `owner` the first test key is fixed, since keys are alike until one is drawn.

Fairness:

- `Payment`: weak fairness of each coroutine's steps (the event loop runs what is ready)
  and of handing out each transaction (the poll loop returns every few seconds to every
  watched vault).  That is what the loop does on PostgreSQL.  On SQLite it does so for half an hour after each
  start; then `stalled` is true, the action is disabled, and its fairness asks for nothing.  Nothing is assumed of
  members, operators or other jobs.
- `PaymentWorker`: weak fairness of each worker's steps, of the watcher's rounds for each transaction on a row the
  round's query returns (PostgreSQL, a pending row of the last half hour) and of the
  listener while it is up; strong fairness of taking each transaction's job, since the queue is first in,
  first out, while the model's workers choose.  Nothing is assumed of the poller, of pushes or rechecks, nor that
  the bot comes back.
- `Membership`: weak fairness of the two hourly jobs, of the workers' steps, of the listener and its
  start (the supervisor starts the bot again) and of the handlers; strong fairness of taking each member's
  task, as above.  Nothing is assumed of members or operators, nor that time passes.
- `Refund`: weak fairness of the handler's compare-and-swap, the retry run and the steps
  of both jobs; strong fairness of the retry run's message being sent, accepted while it
  waits, and seen to be: the network may fail any number of times, not for ever.  The
  retries are unbounded in the code (every row in `pending_send`, every ten minutes), where both
  settings are there and the loop has not stalled; else the run is disabled and nothing is asked of it.
- `WalletChange`: weak fairness of the applying run, which the poll loop starts every
  15 minutes (`inprocess_watcher.py`, lines 874 to 876), before the line that raises on SQLite.
- `Charge`: weak fairness of the clock, of the expiry job and the watcher's polls, of the tasks' steps and the deliveries, and of
  the start after a stop.  Nothing is assumed of buyers, platforms or rechecks.

What the liveness properties promise, and to whom they promise nothing:

| Property | Holds on | Excuses |
|---|---|---|
| `FullPaymentIsCredited` | PostgreSQL; on SQLite until the loop stalls | payments paused, a vault that is not watched, a row that has ended.  A transaction claimed before a fault is not its subject (`LedgerSpec`: it is void) |
| `CoveredIsCredited` | PostgreSQL | a job that failed after its claim, payments paused, a row outside the half hour or the registry |
| `WelcomeArrives` | both | any fault |
| `LapsedLeaves`, `LeaverIsCancelled` | both | members in `lost`; one who has renewed or been comped stays |
| `DueIsReminded` | SQLite | members in `lost`, a cycle that ends or is extended first |
| `PaidIsCompleted` | PostgreSQL | faults, a vault dropped from the watch, another outcome of the row |
| `ToldOrGivenUp` | PostgreSQL | nothing, but a delivery that a stop has lost counts as given up |
| `DueIsSettled` | SQLite | nothing: a restart between the statements included |
| `PendingSendIsResolved` | PostgreSQL; on SQLite until the loop stalls | a subscription without a vault, a trigger with one setting or none |

A hazard whose bad case is one of these excuses carries a note in `PROJECT.json` that says so; where a
text of the program promises more, the claims below state that and are refuted.

Some properties are stated in the modules and in no run, because another one says more or a
theorem says it for every instance: `OneClaimant`, `TypeOK` of `Payment`, `Refund` and `WalletChange`,
`CreditOnce` and `EndedStaysEnded` of `PaymentWorker`, `CompletesOnce`, `RemindersBounded`,
`WrongIsRemembered`, `EndpointIsKept`, `PendingEnds`.  All of them are proved.

## What the code does not keep

Each module of claims states sentences of the documentation, of comments and of messages
to the user that the code does not keep.  One is a run, `claim_suspension`: TLC finds a behaviour of `Group` in which
a group the operator has suspended becomes active again by its owner's resume button
(`miniapp/server.py`, 2077), or because the owner lists his groups, while the prompt that lifts a ban says that "Groups stay
suspended until manually unsuspended" (`superadmin/bot.py`, 2442).

The other claims are checked the same way by hand: put the claim in the place of the
property of the configuration named (as INVARIANT, or as PROPERTY where it has a `[]` of its own or a `~>`),
run the module of claims with it, with the change named, if any.

| Claim (`PaymentClaims`) | Configuration | The counterexample |
|---|---|---|
| `CreditIsBacked` | `Claim_backed` | one partial payment is added twice, by the watcher and by a tap, and activates the row |
| `TapIsSilent` | `Claim_backed` | the fresh set the tap passes never contains the hash, so the shortfall message goes out |
| `AcceptedIsNotShort` | `Claim_backed`, `Vault = {v1, v2}` | the payer of the older, cheaper link is told to be short |
| `ResidualIsNotAPayment` | `Claim_residual` | a renewal paid in two parts: neither part is added up for an active row, and the one on which the vault completes and splits the amount is written off |
| `ClaimedIsCredited` | `Claim_residual`, `Outside = {"cancel"}` | the row is cancelled between claim and activation: the payment is recorded and buys nothing |
| `NextCycleFromZero` | `Claim_residual` | a job that read the row earlier writes its running total after the reset |
| `NoShortfallForActive` | `Claim_residual` | the row becomes active between the second look and the message |
| `LoopGoesOn` | `Payment_faults` | SQLite: the expiry of old charges raises in every pass and the loop polls no more |

| Claim (`VaultClaims`, `RefundClaims`, `WalletClaims`) | Configuration | The counterexample |
|---|---|---|
| `AtomicSplit` | `Claim_atomic` | thirteen payments of 0.006 TON use up the reserve, the platform's share is dropped |
| `UnderpaymentBounces` | `Claim_atomic` | the contract keeps an underpayment |
| `RefundIsOverage` | `Claim_atomic` | a refund is 0.005 TON less than the overage |
| `SentWasPaid` | `Claim_sentpaid` | two jobs read one seqno, one message is accepted, both see the seqno move |
| `OneTriggerAtATime` | `Claim_sentpaid` | the retry run fetches the row the handler is waiting for |
| `CancelIsFinal` | `Claim_sentpaid` | `mark_refund_sent` does not look at the status |
| `MnemonicIsEnough` | `Claim_sentpaid`, `SPECIFICATION FairSpec` | with `TRIGGER_MNEMONIC` alone the handler claims the row and fails, and the retry run returns at once; on SQLite also because the loop stalls |
| `TriggerHitsItsVault` | `Claim_sentpaid`, with `s1` for `s2` and `u1` for `u2` everywhere, so that both vaults are one member's | a new link was made between overpayment and submission |
| `CancelledStays` | `Claim_cancelled` | cancelled after the run fetched it |
| `OnePending` | `Claim_cancelled`, two changes | bot and mini app both cancel, then both insert |
| `OnlyInGoodStanding` | `Claim_cancelled` | suspended after the fetch |
| `PasskeyIsAsked` | `Claim_cancelled` | set while the conversation is open |
| `AppliedTogether` | `Claim_cancelled`, `MaxFaults = 1` | SQLite: a restart after the wallet was replaced and before its row was marked |
| `LeftIsDeleted` | `Claim_cancelled` | the foreign key of its wallet changes refuses the deletion of a group the bot has left |

| Claim (`PaymentWorkerClaims`, `MembershipClaims`) | Configuration | The counterexample |
|---|---|---|
| `CoveredIsNotShort` | `PaymentWorker` | a link's amount is paid and judged by the price at a dearer rate |
| `ActivationIsIdempotent` | `PaymentWorker`, `SPECIFICATION Spec`, `Tx = {t1, t2}` | an activation of an active row moves its date on |
| `NewVaultIsPolled` | `PaymentWorker` | nothing calls `/register` |
| `WarmIsPolled` | `PaymentWorker` | half an hour after the join request the row is in no round, nor is any row on SQLite |
| `RenewalIsConfirmed` | `PaymentWorker`, `SPECIFICATION Spec`, `Tx = {t1, t2}` | the NameError ends the job before it publishes |
| `OnlyLapsedAreExpired` | `Claim_expired` | renewed between the hourly query and the task |
| `CompedIsKept` | `Claim_expired`, `Outside = {"comp"}` | a task that has read the status, and a later join request, overwrite it |
| `PaymentBuysCycle` | `Claim_expired` | the row was expired while the payment was on its way |
| `RemindedOnce` | `Claim_expired`, `Worker = {w1, w2}`, `Window = 1`, `MaxCopies = 2` | both find the log empty |
| `TaskReminds` | `Membership_live`, `USE_POSTGRES = TRUE` | the lookup in the log raises: the task ends without a reminder |
| `LeaverIsNotReminded` | `Claim_expired`, `Outside = {"leave"}`, `Window = 1` | the task does not look at the row |

| Claim (`ChargeClaims`) | Configuration | The counterexample |
|---|---|---|
| `ExpiredIsUnpaid` | `Claim_lapsed` | a payment completes the charge between the read of `get_charge` and its write |
| `HookSaysCompleted` | `Claim_lapsed` | the delivery reads the row again and tells that it has expired |
| `PaymentIsKept` | `Claim_lapsed`, `Tx = {t1, t2}` | two tasks find the charge unpaid, the second overwrites the hash of the first |
| `WatchedOnItsNetwork` | `Claim_lapsed`, `Mode <- MCTestMode` | the link's own wake names mainnet |
| `PartsAddUp` | `Claim_lapsed`, `Tx = {t1, t2}`, `Amount <- MCParts` | the vault adds up what the watcher looks at one by one |
| `PaidInTimeIsCompleted` | `Claim_lapsed`, `SPECIFICATION FairSpec` | the vault is dropped at the head of the round |

| Claim (`PasscodeClaims`, `ConsoleClaims`, `GroupClaims`) | Configuration | The counterexample |
|---|---|---|
| `PoolSuffices` | `Claim_pool` | five `set_group_passcode` on five groups hold the five connections and wait for a sixth: the case `OnlyAFullPoolBlocks` leaves, and no other |
| `LockedAfterMaxAttempts` | `Claim_pool`, two requests, `MAX_ATTEMPTS = 2`, `Elsewhere = 0` | two wrong guesses read one counter |
| `LockedRejectsAll` | same | a change decided before the lock commits after it |
| `ChangeNeedsCurrent` | same, two codes | of two first requests the second replaces the passkey of the first |
| `ChangeNeedsPasscode` | same, two wallets | two first wallets at once |
| `RotatedIsRefused`, `RevokedIsRefused` | `Claim_console` | the row read before enters the cache after |
| `FirstTimeOnly` | `Claim_console` | two requests at once both return live keys, and one pair is dead |
| `OneEndpoint` | `Claim_console` | two first requests leave two endpoints |
| `RotatedSecretSigns` | `Claim_console` | a secret is returned where there is no endpoint |
| `MaximumOfPlatforms` | `Claim_console` | two requests count before either inserts |
| `LivePaysOnMainnet` | `Claim_console` | the wallet was set before the live keys |
| `ActiveIsPriced` | `Claim_suspension` | the list of groups activates a row without a price |
| `FrozenNeedsTheWizard` | `Claim_suspension`, `Doing = {"create", "demote", "status"}` | the resume button does without |
| `LosingRightsFreezes` | `Claim_suspension`, `Doing = {"create", "demote"}`, `MaxGrants = 2` | an admin that keeps the title and loses a right counts as a new grant |
| `NothingStartsWhileDeleting` | `Claim_suspension`, `Doing = {"create", "delete", "members"}` | a join request and its payment between the suspension and the deletion |
| `SavedIsSaved` | `Claim_suspension`, `Doing = {"wizard", "create", "delete"}` | the answer of `set_group_passcode` is not looked at |
| `DeletionDeletes` | `Claim_suspension`, `Doing = {"create", "delete", "wallet"}` | the rows of its wallet changes refuse it |
| `WalletIsKept` | `Claim_suspension`, `Doing = {"create", "refresh", "wallet"}` | a refresh writes the wallet it has read before the change |

What the hazards of `PROJECT.json` and the models have in common with these tables and no run
shows: a transaction met while payments are paused stays in the seen-set and is not looked at again until the vault
is evicted or the member taps (`inprocess_watcher.py`, 404); after a restart only vaults of pending rows
are watched, so a renewal paid meanwhile waits for a tap (`queries.py`, 760); a partial payment's
running total is computed from a row read several awaits earlier (`inprocess_watcher.py`, 418);
`generate_payment_request` stores amount and address by two updates (`services/payment.py`, 192); a charge whose
link could not be made keeps its reference, and the next request for it is refused (`api/platform.py`, 79).

## The proofs

TLC looks at instances; the theorems hold for every value of the constants that
satisfies the assumption the component's module states, and for every choice of the rest of the program
(`Outside`, `Doing`).  Those assumptions say that the tables'
keys and NULL are distinct, that amounts are natural and prices positive, and that
transactions, rows and changes of a behaviour are finitely many.

| Component | Proved, beside type correctness |
|---|---|
| `Payment` | implements `PaymentLedger`; `CreditOnce`, `OneClaimant`, `EndedStaysEnded`, `NoFreeCycle` |
| `PaymentWorker` | implements `PaymentLedger`; `CreditOnce`, `EndedStaysEnded`, `AdmittedHasPaid`; `CoveredIsCredited` |
| `Vault` | `Accounted`, `RingFenced`, `PaidInFull` |
| `Refund` | `PaidToItsMember`, `SentWasTriggered`, `CancelledUnclaimedStays` |
| `WalletChange` | `HeldUntilDue`, `CancelWindow`; `DueIsSettled` |
| `Charge` | `PaidByItsTx`, `ClaimedIsCompleted`, `CompletesOnce`, `UndoneByStaleRead`; `PaidIsCompleted`, `ToldOrGivenUp`, `PendingEnds` |
| `Membership` | `NoFreeRider`, `NobodyStaysBanned`, `EndedNeedsRequest`, `RemindersBounded` |
| `Passcode` | `OnlyAFullPoolBlocks`, that it takes as many groups as connections, `GuessesBounded`, `WrongIsRemembered` |
| `Console` | `RetiredIsForgotten`, `EndpointIsKept` |
| `Group` | `OwnerMadeItAdmin`, `ShownIsActivated`, `NothingLeftBehind` |

**`PaymentProofs`** (any rows, vaults, transactions, coroutines, prices, faults).
`TypeOK` is inductive because of `Grounded`: jobs and records are about transactions on
a vault, and a job past the amount check has reached the amount, so that an
overpayment is never negative.  `CreditOnce` is not inductive, since an activation could
credit a transaction twice if two jobs held it: `OneClaimant` says that none do, and it
follows from a count of the claim, `processed`, which only the insertion changes from
"none".  Together they are `ClaimInv`, preserved by every step, the backfill included,
since it never turns a record back into none.  `NoRevival` follows from
the condition of the UPDATE; `NoFreeCycles` adds `BoughtKept`, which counts, per row,
the transactions that have bought a cycle since the row was reset: that set is contained
in the recorded ones, and each activation adds to it a transaction that was not in it.
`KeepsLedger` is the refinement.  The mapping reads a payment's state off the record, the holder
and the history of credits; for each action it is said what becomes of that: a claim is `Hold`, an activation
`Spend`, which needs that its transaction is held by the job that activates and by no other
(`OneClaimant`, `CreditOnce`), a residual `Void`; the migration and every read, message and restart stutter.

**`PaymentWorkerProofs`** (any rows, transactions, workers, copies, faults).  `TypeOK` with what is grounded in the
chain, then `ClaimInv`: one holder of a transaction, although any number of copies of its job run, since a worker goes on
only if its insertion made the record.  `KeepsLedger` uses it as above.  `AdmittedHasPaid` is
about the other end: a member is let in by an action that has passed through a channel which may
copy, delay and lose it.  So `PaidInv` carries "its payment reached the price at some rate and is recorded" from
the worker that checked it (`CheckedInv`) to each message in the channel (`WelcomeInv`) to the door.

**`VaultProofs`** (`V` of `Owner`; any price, fees, payments, gas).  `Accounted` is inductive.
`RingFenced` becomes inductive as `Covered`: unless overdrawn, the balance is at least
what is held and what waits less what was spent of it, and a split finds its
shares in what waits because the amount it has reached includes the reserve the costs are
bounded by.  `PaidInFull` follows, as no send then asks for more than the balance.

**`RefundProofs`** (any members, subscriptions, vaults, addresses, rows).  A row's address
is set once and by the member `get_pending_refund_for_user` found it for (`RowInv`), a
subscription only ever names vaults salted with its own id (`LinkInv`), a job carries the
address and a vault of its row (`JobInv`), a message what the job carried (`PoolInv`).  So
whatever message is accepted, the vault pays rows of one subscription to an address of its
member (`PaidToItsMember`), though it may be the wrong row (`TriggerHitsItsVault` of the claims).

**`ChargeProofs`** (any charges, vaults, transactions, jobs, requests).  A job past the check of the amount is about
a payment that covers its vault's link, and belongs to the charge the vault was made for (`Working`);
the record of a full payment belongs to one job on its way to complete it, which has not done so yet (`Claims`).
Then a row's payment is one for that row (`PaidByItsTx`), and a recorded payment has completed its
charge or a job is about to, or the fault is noted (`ClaimedIsCompleted`).  `OnlyStaleReadUndoes` follows action by
action: who writes "expired" without reading again is `get_charge` alone.

**`MembershipProofs`** (any members, workers, days, copies, faults).  That a row which has ended needs a request needs `PaidInTime`,
that a payment is one for a live row.  The property that takes the work is `NoFreeRider`:
its inductive form is `Door(m)`, one statement for each member that relates the row, the task in the queue or in a
worker, the message in the channel, the handler, and the updates Telegram has sent and the bot has not handled.
A member in the chat without a membership has a removal ahead of him, and no update of his is left that would end
a row without removing anybody; one that waits at the door has an update of his own that is handled after it.
Frame lemmas say what leaves the updates, the handlers and the row of a member as they are,
so that each action is argued for the one member it is about.  `RemindersBounded` counts: what was published for a cycle
and the workers that have found its log empty are together at most the workers (`Sent`), since nobody joins them once
the log has the cycle and nothing is published before; the theorem takes the workers to be finitely many.

**`OwnerProofs`** takes from `Owner` the definitions of `Group` as they are, and `Passcode` and `Console` as instances.
For `Group` (any admins, requests, prices), a task that is about to create or hand over the row is
one of an admin with a grant (`Sound`), the wizard of an admin past the choice of the chat has one too (`Legal`), and
while the last step writes, the wizard stands still, so that what it writes is what it has shown.
`Room` bounds grants and updates together, since a promotion is counted from its update on.
For `Passcode`, `Holding` says that whoever is at its audit line or commit holds the row.  `OnlyAFullPoolBlocks` has no
hypothesis about how many groups there are, as the code has none.  `Deadlocked` says that some request is under way and that none
of them, nor any on another group, can take its next step; it is reachable.  The theorem says what such a state looks
like: of this row only the holder of its lock holds a connection, it is at its audit line, and with the requests on other groups the
pool is used up.  A request that waits for the row's lock is no part of it: if the lock's holder is not at that line, it
commits; if it is, and no connection is free, the wait ends by the statement's timeout (`give_up`).
So each group stands for one connection, and
`FewGroupsNeverBlock` draws the conclusion: whoever waits for good is among as many groups as the pool has connections.
`GuessesBounded` is proved for every threshold and any two requests, by a potential: with a counter at `n`, a row not locked and
nobody under way, twice the guesses that may still be looked at are at most `Left(n)`, a
quadratic that falls by what each way of committing can cost; `Guessed` states it for none, one and two requests under way.
`WrongIsRemembered` needs neither a bound on the requests nor the row at rest (`Remembered`).
For `Console`, `Retired` follows a key from the day it is drawn: two modes never share one, a drawn key
that is not stored is new and one request's own, a key that was taken back opens no active platform (`Shut`), and
a minute later nobody has an active row in hand that was read for it, and what is cached for
it is a minute old (`Stale`).  `EndpointIsKept` holds of each action alone: whatever a request that sets an endpoint
up has deactivated, its insertion puts a row in.

**`WalletProofs`** (any number of changes).  What the applying run holds was due when fetched and
not cancelled early (`InHandInv`); a change cancelled early is no longer pending,
so it is never fetched (`EarlyInv`).  `HeldUntilDue` and `CancelWindow` follow.

### What happens in the end

Five liveness properties are proved, under the fairness the runs assume and one hypothesis more:
where an action's guard holds, the action is enabled.  The provers take ENABLED for an opaque formula, so
this is stated as a predicate of the proof module (`CanGoOn`, `DeliveryIsEnabled`, `PollIsEnabled`,
`JobIsEnabled`, `ClockIsEnabled`, `RunIsEnabled`) and assumed at every state.  TLC can evaluate it: a module that extends
the run's MC module and the proof module, with the predicates as invariants and the run's constants,
finds them true in every reachable state of `worker`, `charge_live` and `payout`; so are the invariants the
proofs add.  The hypotheses that stops, restarts and failures end (`StopsEnd`, `RestartsEnd`, `FailuresEnd`) hold of every
behaviour of the modules, which bound faults by `MaxFaults`; for an arbitrary bound that takes an
induction, so they are hypotheses, and TLC finds them true of the same instances.

| Theorem | Hypotheses, beside fairness | What brings it about |
|---|---|---|
| `CreditedInTheEnd` | `CanGoOn`, `FailuresEnd`, a worker | while the row is one the rounds look at, the next one queues a payment again, a free worker takes its job, and the job that claims it activates |
| `PaymentCompletes` | `PollIsEnabled`, `JobIsEnabled` | the poll starts the task, or finds it started; the task, or the recheck that has claimed first, completes |
| `WebhookEnds` | `DeliveryIsEnabled`, `MAX_ATTEMPTS <= 3` | the dispatch and three posts |
| `PendingIsOver` | `ClockIsEnabled`, `StopsEnd` | time passes, the process is up again, the job expires the row |
| `DueSettles` | `RunIsEnabled`, `RestartsEnd` | the steps of the applying run |

Each follows a stage from step to step: what a step of anybody else leaves of it (`QueueChange`,
`WorkerChange`, `JobChange`, `HooksLeftAlone`, `ClockChange`), and where the fair step takes it.  What is
left to do is counted where there is more than one way on (`Within`): 14 steps of the applying run
whatever front ends and operator do in between, four of a webhook.  The counts are literals, and so `MAX_ATTEMPTS` is
bounded by what `services/webhooks.py` sets it to (line 33), as an induction over a natural number is out of reach.
`CreditedInTheEnd` takes the most: copies of a job compete, a worker that finds the record made by another forgets
the job, and one that cannot publish waits for the listener.  So it is first shown that a worker
is free again and again (`FreedAgain`), which strong fairness of taking the job turns into a claim; `ClaimInv` says
that whoever claims is the only holder, who can then only activate or fail, and a failure is `Lost`, which the property
names.  In two theorems fairness is written `[]Fairness`: it says the same as `Fairness`, since its
conjuncts are WF and SF, which hold of all suffixes of a behaviour or of none.

Only model-checked:

- `FullPaymentIsCredited`: with the rows, vaults and faults of the run it holds; for other constants it would have
  to name more excuses than it does (two vaults of a row at different prices, a row that is restarted between
  rounds), and it would need strong fairness of the poll, whose tasks the model bounds;
- `WelcomeArrives`, `LapsedLeaves`, `LeaverIsCancelled`: a message or an update advances in a queue that is first in,
  first out, and how far it has come is an induction over the queue's length;
- `DueIsReminded`: a worker that publishes waits for room in a channel other workers fill, and with any number of
  them weak fairness of its step is not enough.  The run has one worker;
- `PendingSendIsResolved`: the retry run works through a list of rows of any length, an induction again.  The refinements
  proved are of `PaymentLedger`'s safety, which is all it states;
- `PartsTypeOK` as one formula: it is about the instances `MCOwner` puts side by side; the type correctness
  of each of them is proved (`VaultProofs`, `OwnerProofs`);
- the counterexamples, which are behaviours of small instances.

## What is not modelled

Within the modelled components:

- `Payment`: the scan of a vault's whole history when a tap
  finds no candidate (`cb_ive_paid`); the daily check of the recovery key; TonCenter
  failures, which only delay; a job whose row is deleted and
  recreated under a new id while it runs.  `generate_payment_request` writes amount and address in
  two updates with an await between them and is one step here.  A tap's start is one step; the
  seeding of the seen-set is left to the job's own precheck, which has the same effect.
- `PaymentWorker`: overpayments, which `process_payment` does not look for; the order of a vault's
  transactions within a cursor; Redis losing its data.
- `Payment`, on SQLite: the half hour itself; the loop may stall at any moment after a start.
- `Membership`: the hour of a reminder, messages that Telegram refuses for good, members who cannot be
  banned because they are admins.  A payment is one step.
- `Charge`: one platform; amounts in cents and exchange rates, which are vaults of different price here; lists and statistics.
- `Vault`: addresses, deployment, storage fees, the text of logs.
- `Refund`: overages below the refund fee (they are `Vault`'s), the operator's manual send,
  the retry run blocking the poll loop while it waits.
- `WalletChange`: whether a passkey is right (`Passcode`'s question), the notifications, PostgreSQL's transactions.
- `Passcode`, `Console`: hashing and signatures, which are functions of their inputs; the audit log's content.
- `Group`: titles, intervals, fees and invite links are not told apart; one chat.

Not modelled at all, and why:

- Main bot menus, keyboards, mini app views and statistics, configuration: formatting and layout over
  queries that change no state, or the same state-changing queries the bots call.
- The operator's fees, broadcasts, searches and exports: fees are parameters of links, the rest changes nothing
  the other components read.
- TonCenter's client with its key rotation, exchange rate, monitor, keepalive: I/O with outside services; their
  answers are nondeterministic in the models.
- The creation of tables and columns: the tables are the modules' variables, and commits their steps.
- The contract's tests and scripts: read as documentation.

## Plan

Done, in this order, by importance: the pipeline that turns money into access (`Payment`), the
money itself (`Vault`), its way back (`Refund`), where the admin's share goes
(`WalletChange`); then the other deployment (`PaymentWorker`), the life of a membership (`Membership`), the platform's
charges (`Charge`), passkeys and the pool (`Passcode`), keys and endpoints (`Console`), and the group itself (`Group`).

Every safety property of a passing run is proved but `PartsTypeOK`, whose parts are, and so is every one that is in no run;
of the liveness properties those that need no induction over data are.
What is left to prove:

1. The ENABLED predicates and the liveness of queues, with a prover that has ENABLED and induction.
2. `AppliedTogether` of `WalletChange` for PostgreSQL, once the code's requests work there and its transactions are
   in the model.

Models to refine, if the code moves there: the two updates of `generate_payment_request`; PostgreSQL's
transactions in `WalletChange`; the operator's manual send in `Refund`; the history scan of `cb_ive_paid`.
