------------------------------- MODULE Refund -------------------------------
(***************************************************************************)
(* The life of an overpayment refund: from the overage a vault holds to    *)
(* the row marked as sent.  Two jobs work on the rows: the main bot's      *)
(* handler, when a member submits a wallet address, and the retry run of   *)
(* the poll loop every ten minutes.  Both send a Refund message from one   *)
(* trigger wallet and wait until the wallet's seqno has moved.  Each await *)
(* is a step of its own; the operator and the rest of the program act in   *)
(* between.                                                                *)
(*                                                                         *)
(* A wallet accepts a message only with its current seqno, which accepting *)
(* moves: hence `pool` holds the messages that are still acceptable, and   *)
(* accepting one empties it.  Overages are above the refund fee.           *)
(***************************************************************************)
EXTENDS Integers, FiniteSets

CONSTANTS
    Row,        \* ids of overpayment_refunds, ascending in time
    Sub, User, Vault, Wallet,
    UserOf,     \* [Sub -> User]
    Owner,      \* [Vault -> Sub], the row whose id salts the address
    Submitter,  \* [Wallet -> User], who would submit this address
    NoWallet, NoVault,  \* SQL NULL
    USE_POSTGRES,       \* the database: PostgreSQL, or SQLite
    MaxFaults   \* bound on restarts

ASSUME RefundAssumption ==
    /\ Row \subseteq Nat \ {0} /\ IsFiniteSet(Row)
    /\ UserOf \in [Sub -> User] /\ Owner \in [Vault -> Sub]
    /\ Submitter \in [Wallet -> User]
    /\ NoWallet \notin Wallet /\ NoVault \notin Vault
    /\ USE_POSTGRES \in BOOLEAN /\ MaxFaults \in Nat

VARIABLES
    row,            \* overpayment_refunds: status and refund_wallet
    overpaidOn,     \* the vault on which a row's overpayment arrived
    vault_address,  \* subscriptions.vault_address
    configured,     \* read at start: TRIGGER_MNEMONIC, TRIGGER_WALLET with it, or not
    stalled,        \* every pass of the poll loop raises before the retry run
    job,            \* the two jobs: pc and what they carry
    todo,           \* rows the retry run has fetched and not yet tried
    moved,          \* jobs for which the seqno moved since they read it
    pool,           \* broadcast messages with the wallet's current seqno
    held,           \* rows whose overpayment is still in overage_held
    payee,          \* history: where a row's overpayment went
    triggered,      \* history: rows a trigger was broadcast for
    faults          \* restarts so far, at most MaxFaults

onchain == <<pool, held, payee>>
vars == <<row, overpaidOn, vault_address, configured, stalled, job, todo, moved, pool,
          held, payee, triggered, faults>>

-----------------------------------------------------------------------------
Job == {"handler", "retry"}
Config == {"none", "mnemonic", "both"}
Pcs == {"idle", "set", "lookup", "seqno", "send", "wait", "mark"}

RowIs(status, wallet) == [status |-> status, wallet |-> wallet]
Doing(pc, r, w, v) == [pc |-> pc, row |-> r, wallet |-> w, vault |-> v]
Idle == Doing("idle", 0, NoWallet, NoVault)

at(j, pc) == job[j].pc = pc
Goto(j, pc) == job' = [job EXCEPT ![j].pc = pc]
Finish(j) == job' = [job EXCEPT ![j] = Idle]

SubOf(r) == Owner[overpaidOn[r]]
MemberOf(r) == UserOf[SubOf(r)]
Exists(r) == row[r].status \notin {"none", "overpaid", "deleted"}

-----------------------------------------------------------------------------
(* Where rows come from and go.                                            *)

\* A split leaves an overage on a vault; the pipeline has yet to record it.
Overpay(r, v) ==
    /\ row[r].status = "none"
    /\ \A q \in Row : q < r => row[q].status # "none"
    /\ row' = [row EXCEPT ![r] = RowIs("overpaid", NoWallet)]
    /\ overpaidOn' = [overpaidOn EXCEPT ![r] = v]
    /\ held' = held \cup {r}
    /\ UNCHANGED <<vault_address, configured, stalled, job, todo, moved, pool, payee,
                   triggered, faults>>

create_overpayment_refund(r) ==
    /\ row[r].status = "overpaid"
    /\ row' = [row EXCEPT ![r] = RowIs("pending_wallet", NoWallet)]
    /\ UNCHANGED <<overpaidOn, vault_address, configured, stalled, job, todo, moved,
                   onchain, triggered, faults>>

\* A new link overwrites the address of the row; a new join request clears it.
SetVaultAddress(s, v) ==
    /\ vault_address' = [vault_address EXCEPT ![s] = v]
    /\ UNCHANGED <<row, overpaidOn, configured, stalled, job, todo, moved, onchain,
                   triggered, faults>>

generate_payment_request(v) == SetVaultAddress(Owner[v], v)
create_subscription(s) == SetVaultAddress(s, NoVault)

\* The hourly cleanup and the deletion of the group drop the rows of s.
delete_subscription(s) ==
    /\ row' = [r \in Row |-> IF row[r].status # "none" /\ SubOf(r) = s
                             THEN RowIs("deleted", row[r].wallet) ELSE row[r]]
    /\ vault_address' = [vault_address EXCEPT ![s] = NoVault]
    /\ UNCHANGED <<overpaidOn, configured, stalled, job, todo, moved, onchain, triggered, faults>>

\* The operator's button: the row must exist, whatever its status.
mark_refund_cancelled(r) ==
    /\ Exists(r)
    /\ row' = [row EXCEPT ![r] = RowIs("cancelled", row[r].wallet)]
    /\ UNCHANGED <<overpaidOn, vault_address, configured, stalled, job, todo, moved,
                   onchain, triggered, faults>>

-----------------------------------------------------------------------------
(* The member submits a wallet.                                            *)

get_pending_refund_for_user(u) ==
    {r \in Row : row[r].status = "pending_wallet" /\ MemberOf(r) = u}

\* The newest pending row of the member.
submit_wallet(w) ==
    LET pending == get_pending_refund_for_user(Submitter[w]) IN
    \E r \in pending :
        /\ at("handler", "idle")
        /\ \A q \in pending : q <= r
        /\ job' = [job EXCEPT !["handler"] = Doing("set", r, w, NoVault)]
        /\ UNCHANGED <<row, overpaidOn, vault_address, configured, stalled, todo, moved,
                       onchain, triggered, faults>>

\* Mutant of Claim: WHERE id = $2 is dropped.
Claim_all(r, w) ==
    row' = [q \in Row |-> IF row[q].status = "pending_wallet"
                          THEN RowIs("pending_send", w) ELSE row[q]]

\* Mutant of Claim: the status changes, the address is not stored.
Claim_blank(r, w) == row' = [row EXCEPT ![r] = RowIs("pending_send", NoWallet)]

Claim(r, w) == row' = [row EXCEPT ![r] = RowIs("pending_send", w)]

\* Mutant of Claimable: WHERE status = 'pending_wallet' is dropped.
Claimable_any(r) == Exists(r)

Claimable(r) == row[r].status = "pending_wallet"

\* The compare-and-swap; the loser stops, and so does the winner if there is
\* no mnemonic.  TRIGGER_WALLET is not asked for here.
set_refund_wallet ==
    LET r == job["handler"].row IN
    /\ at("handler", "set")
    /\ \/ Claimable(r) /\ Claim(r, job["handler"].wallet)
          /\ IF configured # "none" THEN Goto("handler", "lookup") ELSE Finish("handler")
       \/ ~Claimable(r) /\ row' = row /\ Finish("handler")
    /\ UNCHANGED <<overpaidOn, vault_address, configured, stalled, todo, moved, onchain,
                   triggered, faults>>

-----------------------------------------------------------------------------
(* The retry run.                                                          *)

\* Mutant of get_pending_sends: it fetches the rows that wait for a wallet.
get_pending_sends_early == {r \in Row : row[r].status = "pending_wallet"}

get_pending_sends == {r \in Row : row[r].status = "pending_send"}

\* The poll loop's retry run: it needs both settings, and a loop that gets so far.
retry_pending_sends ==
    /\ configured = "both" /\ ~stalled
    /\ at("retry", "idle") /\ todo = {}
    /\ get_pending_sends # {}
    /\ todo' = get_pending_sends
    /\ UNCHANGED <<row, overpaidOn, vault_address, configured, stalled, job, moved,
                   onchain, triggered, faults>>

\* The oldest fetched row, as fetched: its status is not looked at again.
\* The address of a row never changes once set, so the row stands for the copy.
retry_next ==
    \E r \in todo :
        /\ at("retry", "idle")
        /\ \A q \in todo : r <= q
        /\ todo' = todo \ {r}
        /\ IF row[r].wallet = NoWallet THEN job' = job
           ELSE job' = [job EXCEPT !["retry"] = Doing("lookup", r, row[r].wallet, NoVault)]
        /\ UNCHANGED <<row, overpaidOn, vault_address, configured, stalled, moved,
                       onchain, triggered, faults>>

\* 30 minutes after its start the poll loop expires old charges, just before the
\* retry run.  On SQLite the statement is a syntax error, in this pass and in every
\* later one; the loop is at that line only between two retry runs.
_expire_stale_charges_inprocess ==
    /\ ~USE_POSTGRES /\ ~stalled
    /\ at("retry", "idle") /\ todo = {}
    /\ stalled' = TRUE
    /\ UNCHANGED <<row, overpaidOn, vault_address, configured, job, todo, moved,
                   onchain, triggered, faults>>

-----------------------------------------------------------------------------
(* Both jobs: find the vault, send_refund_trigger, mark the row.           *)

\* The vault is the one the subscription names now.
lookup(j) ==
    LET r == job[j].row
        v == vault_address[SubOf(r)] IN
    /\ at(j, "lookup")
    /\ job' = [job EXCEPT ![j] = IF Exists(r) /\ v # NoVault
                                 THEN Doing("seqno", r, job[j].wallet, v) ELSE Idle]
    /\ UNCHANGED <<row, overpaidOn, vault_address, configured, stalled, todo, moved,
                   onchain, triggered, faults>>

read_seqno(j) ==
    /\ at(j, "seqno")
    /\ moved' = moved \ {j}
    /\ Goto(j, "send")
    /\ UNCHANGED <<row, overpaidOn, vault_address, configured, stalled, todo,
                   onchain, triggered, faults>>

\* wallet.transfer(...).  The message may be lost on its way to the network.
broadcast(j, arrives) ==
    LET message == [row |-> job[j].row, vault |-> job[j].vault, wallet |-> job[j].wallet] IN
    /\ at(j, "send")
    /\ pool' = IF arrives THEN pool \cup {message} ELSE pool
    /\ triggered' = triggered \cup {job[j].row}
    /\ Goto(j, "wait")
    /\ UNCHANGED <<row, overpaidOn, vault_address, configured, stalled, todo, moved,
                   held, payee, faults>>

confirm(j) ==
    /\ at(j, "wait") /\ j \in moved
    /\ Goto(j, "mark")
    /\ UNCHANGED <<row, overpaidOn, vault_address, configured, stalled, todo, moved,
                   onchain, triggered, faults>>

\* Mutant of trigger_fails: any result object counts as success.
trigger_fails_unseen(j) ==
    /\ at(j, "send") \/ at(j, "wait")
    /\ Goto(j, "mark")
    /\ UNCHANGED <<row, overpaidOn, vault_address, configured, stalled, todo, moved,
                   onchain, triggered, faults>>

\* An exception before the wait, or 90 s in which get_seqno never showed more.
trigger_fails(j) ==
    /\ at(j, "send") \/ at(j, "wait")
    /\ Finish(j)
    /\ UNCHANGED <<row, overpaidOn, vault_address, configured, stalled, todo, moved,
                   onchain, triggered, faults>>

\* WHERE id = $1 and nothing else: a row deleted meanwhile stays deleted.
mark_refund_sent(j) ==
    LET r == job[j].row IN
    /\ at(j, "mark")
    /\ row' = IF Exists(r) THEN [row EXCEPT ![r] = RowIs("sent", row[r].wallet)] ELSE row
    /\ Finish(j)
    /\ UNCHANGED <<overpaidOn, vault_address, configured, stalled, todo, moved, onchain,
                   triggered, faults>>

Trigger(j) ==
    \/ lookup(j) \/ read_seqno(j) \/ \E arrives \in BOOLEAN : broadcast(j, arrives)
    \/ confirm(j) \/ trigger_fails(j) \/ mark_refund_sent(j)

-----------------------------------------------------------------------------
(* The chain.                                                              *)

HeldOn(v) == {r \in held : overpaidOn[r] = v}

\* The wallet takes one message with its seqno; the vault pays all it holds to
\* the message's recipient, or bounces it when it holds nothing.
Accept(message) ==
    /\ message \in pool
    /\ pool' = {}
    /\ moved' = Job
    /\ held' = held \ HeldOn(message.vault)
    /\ payee' = [r \in Row |-> IF r \in HeldOn(message.vault) THEN message.wallet ELSE payee[r]]
    /\ UNCHANGED <<row, overpaidOn, vault_address, configured, stalled, job, todo, triggered, faults>>

\* The messages were valid for too short a time.
Lapse ==
    /\ pool # {} /\ pool' = {}
    /\ UNCHANGED <<row, overpaidOn, vault_address, configured, stalled, job, todo, moved,
                   held, payee, triggered, faults>>

\* A restart loses the jobs and reads the configuration again.
restart(conf) ==
    /\ faults < MaxFaults /\ faults' = faults + 1
    /\ configured' = conf /\ stalled' = FALSE
    /\ job' = [j \in Job |-> Idle] /\ todo' = {} /\ moved' = {}
    /\ UNCHANGED <<row, overpaidOn, vault_address, onchain, triggered>>

-----------------------------------------------------------------------------
\* The links of all vaults were shown before; a row names one of its own or none.
Init ==
    /\ row = [r \in Row |-> RowIs("none", NoWallet)]
    /\ overpaidOn = [r \in Row |-> NoVault]
    /\ vault_address \in [Sub -> Vault \cup {NoVault}]
    /\ \A s \in Sub : vault_address[s] # NoVault => Owner[vault_address[s]] = s
    /\ configured \in Config /\ stalled = FALSE
    /\ job = [j \in Job |-> Idle] /\ todo = {} /\ moved = {}
    /\ pool = {} /\ held = {}
    /\ payee = [r \in Row |-> NoWallet]
    /\ triggered = {}
    /\ faults = 0

Rows ==
    \E r \in Row :
        \/ create_overpayment_refund(r) \/ mark_refund_cancelled(r)
        \/ \E v \in Vault : Overpay(r, v)

Subscriptions ==
    \/ \E v \in Vault : generate_payment_request(v)
    \/ \E s \in Sub : create_subscription(s) \/ delete_subscription(s)

Next ==
    \/ Rows \/ Subscriptions
    \/ \E w \in Wallet : submit_wallet(w)
    \/ set_refund_wallet \/ retry_pending_sends \/ retry_next
    \/ _expire_stale_charges_inprocess
    \/ \E j \in Job : Trigger(j)
    \/ \E message \in pool : Accept(message)
    \/ Lapse \/ \E conf \in Config : restart(conf)

Spec == Init /\ [][Next]_vars

\* The event loop runs every coroutine that can go on; the poll loop starts the
\* retry run again and again while it has not stalled.  For the rest the network is
\* assumed not to fail for ever: if the retry run tries again and again, its message
\* is at some time sent, at some time accepted while it waits, and at some time the
\* new seqno is seen.
AcceptedInTime ==
    /\ at("retry", "wait")
    /\ \E message \in pool : message.row = job["retry"].row /\ Accept(message)

Fairness ==
    /\ WF_vars(set_refund_wallet) /\ WF_vars(retry_pending_sends) /\ WF_vars(retry_next)
    /\ \A j \in Job : WF_vars(Trigger(j))
    /\ SF_vars(broadcast("retry", TRUE))
    /\ SF_vars(AcceptedInTime)
    /\ SF_vars(confirm("retry"))

FairSpec == Spec /\ Fairness

-----------------------------------------------------------------------------
(* Properties.                                                             *)

Status == {"none", "overpaid", "pending_wallet", "pending_send", "sent",
           "cancelled", "deleted"}

\* Rows, jobs and messages have their shape; a row that was claimed or sent names
\* the address it goes to, and every message names a vault and an address.
TypeOK ==
    /\ row \in [Row -> [status : Status, wallet : Wallet \cup {NoWallet}]]
    /\ overpaidOn \in [Row -> Vault \cup {NoVault}]
    /\ vault_address \in [Sub -> Vault \cup {NoVault}]
    /\ configured \in Config
    /\ stalled \in BOOLEAN /\ (USE_POSTGRES => stalled = FALSE)
    /\ job \in [Job -> [pc : Pcs, row : Row \cup {0}, wallet : Wallet \cup {NoWallet},
                        vault : Vault \cup {NoVault}]]
    /\ todo \subseteq Row /\ moved \subseteq Job
    /\ pool \subseteq [row : Row, vault : Vault, wallet : Wallet]
    /\ held \subseteq Row
    /\ payee \in [Row -> Wallet \cup {NoWallet}]
    /\ triggered \subseteq Row /\ faults \in 0 .. MaxFaults
    /\ \A r \in Row : row[r].status \in {"pending_send", "sent"} => row[r].wallet # NoWallet

\* Whatever the vault the subscription names by now, whoever else submits an
\* address and whichever message gets through: an overpayment only ever goes to
\* an address submitted by the member who overpaid.
PaidToItsMember ==
    \A r \in Row : payee[r] # NoWallet => Submitter[payee[r]] = MemberOf(r)

\* The compare-and-swap of set_refund_wallet: a row the operator cancelled before
\* an address was stored stays cancelled, even while a submission is under way.
CancelledUnclaimedStays ==
    [][\A r \in Row : row[r].status = "cancelled" /\ row[r].wallet = NoWallet
                        => row'[r].status \in {"cancelled", "deleted"}]_vars

\* No row is marked as sent unless a Refund message for it went out.
SentWasTriggered == \A r \in Row : row[r].status = "sent" => r \in triggered

\* A claimed refund does not stay in pending_send: the retry run gets it sent
\* unless it is cancelled or deleted, the subscription loses its vault, the retry
\* run has not both settings (with the mnemonic alone the handler tries, once), or
\* the poll loop stalls, as it does on SQLite within half an hour of a start.
PendingSendIsResolved ==
    \A r \in Row :
        row[r].status = "pending_send"
            ~> \/ row[r].status # "pending_send"
               \/ vault_address[SubOf(r)] = NoVault
               \/ configured # "both" \/ stalled
=============================================================================
