------------------------------ MODULE Passcode ------------------------------
(***************************************************************************)
(* The passkey of a payout wallet.  A row of `groups` or of `platforms`    *)
(* keeps the hash of a four-digit passkey, a counter of failed attempts    *)
(* and the time until which it is locked.  Every request on it is one      *)
(* database transaction: it reads the row, decides in Python, and writes   *)
(* what it decided, so that two requests may decide on the same counter.   *)
(*                                                                         *)
(* A transaction holds a connection of the asyncpg pool while it runs.     *)
(* The requests on a group write their audit line through a second         *)
(* connection, while they still hold the first one and the row lock their  *)
(* UPDATE took; those on a platform use one connection.  Requests on other *)
(* groups are only counted: they compete for the pool.                     *)
(***************************************************************************)
EXTENDS Naturals, FiniteSets

CONSTANTS
    Request,        \* coroutines that serve requests on the row
    Code,           \* passkeys
    Wallet,         \* payout addresses
    NoCode, NoWallet, NoRequest,
    MAX_ATTEMPTS,   \* PASSCODE_MAX_ATTEMPTS
    Elsewhere,      \* bound: requests on other groups at a time
    PoolSize        \* max_size of the connection pool

\* What the constants are assumed to be: the modules that use this one assume it.
PasscodeAssumption ==
    /\ IsFiniteSet(Request) /\ NoRequest \notin Request
    /\ NoCode \notin Code /\ NoWallet \notin Wallet
    /\ MAX_ATTEMPTS \in Nat \ {0} /\ PoolSize \in Nat \ {0} /\ Elsewhere \in Nat

VARIABLES
    table,      \* which table the row is of: "group" or "platform"
    hash,       \* wallet_passcode_hash
    failed,     \* passcode_failed_attempts, MAX_ATTEMPTS for any larger number
    locked,     \* passcode_locked_until is in the future
    wallet,     \* wallet_address of a platform
    holder,     \* the transaction that holds the lock of the row
    request,    \* what each coroutine does
    others,     \* set_group_passcode on other groups, before their audit line
    guesses     \* history: wrong passkeys refused since the row was last clear

row  == <<hash, failed, locked, wallet>>
vars == <<table, row, holder, request, others, guesses>>

\* A coroutine with nothing to do.
Idle == [at |-> "idle", op |-> "none", given |-> NoCode, new |-> NoCode,
         to |-> NoWallet, failed |-> 0, writes |-> "nothing", audits |-> 0]

\* set_group_passcode and check_group_wallet_passcode, set_platform_passcode
\* and update_platform_wallet, by the table of their row.
Ops == IF table = "group" THEN {"set", "check"} ELSE {"set", "wallet"}

Init ==
    /\ table \in {"group", "platform"}
    /\ hash = NoCode /\ failed = 0 /\ locked = FALSE /\ wallet = NoWallet
    /\ holder = NoRequest
    /\ request = [r \in Request |-> Idle]
    /\ others = 0 /\ guesses = 0

at(r, p) == request[r].at = p

\* The coroutines inside a transaction.
Held == {r \in Request : request[r].at \in {"update", "audit", "commit"}}

\* Mutant of Free: a connection leaks.
Free_leak == PoolSize - 1 - Cardinality(Held) - others

\* Connections of the pool that nobody holds.
Free == PoolSize - Cardinality(Held) - others

----------------------------------------------------------------------------
\* A request arrives: op, the passkey typed, the one to set, the new wallet.
ask(r) ==
    /\ at(r, "idle")
    /\ \E op \in Ops, given \in Code \cup {NoCode} :
       \E new \in IF op = "set" THEN Code ELSE {NoCode} :
       \E to \in IF op = "wallet" THEN Wallet ELSE {NoWallet} :
          request' = [request EXCEPT ![r] =
              [Idle EXCEPT !.at = "waiting", !.op = op, !.given = given,
                           !.new = new, !.to = to]]
    /\ UNCHANGED <<table, row, holder, others, guesses>>

\* The requests for which the row asks for a passkey.
Protected(op) == hash # NoCode \/ (op = "wallet" /\ wallet # NoWallet)

\* Mutant of Locked: the lock is not looked at.
Locked_never(op) == FALSE

\* update_platform_wallet looks at the lock only when a passkey is asked for,
\* check_group_wallet_passcode lets a row without a passkey pass before that.
Locked(op) == locked /\ (op = "set" \/ Protected(op))

Wrong(q) == Protected(q.op) /\ (q.given = NoCode \/ q.given # hash)

\* Mutant of Capped: the counter wraps at the threshold.
Capped_wraps(n) == IF n >= MAX_ATTEMPTS THEN 0 ELSE n

\* The counter as far as it is looked at.
Capped(n) == IF n > MAX_ATTEMPTS THEN MAX_ATTEMPTS ELSE n

\* What the transaction writes: a wrong passkey is counted and locks the row at
\* the threshold, a right one clears what was counted.
Writes(q) ==
    IF Wrong(q) THEN IF failed + 1 >= MAX_ATTEMPTS THEN "lock" ELSE "count"
    ELSE IF q.op = "set" THEN "set"
    ELSE IF Protected(q.op) /\ (failed > 0 \/ locked) THEN "clear"
    ELSE "nothing"

\* Lines of admin_audit_log that go through a second connection.
Audits(q, writes) ==
    IF table = "platform" THEN 0
    ELSE (IF writes = "lock" THEN 1 ELSE 0) + (IF q.op = "set" THEN 1 ELSE 0)

\* A connection is free: the transaction begins and reads the row.  A locked
\* row, or a check that has nothing to write, ends it at once.
begin(r) ==
    LET q == request[r] IN
    /\ at(r, "waiting") /\ Free > 0
    /\ IF Locked(q.op) \/ (q.op = "check" /\ Writes(q) = "nothing")
          THEN request' = [request EXCEPT ![r] = Idle]
          ELSE request' = [request EXCEPT ![r] =
                   [q EXCEPT !.at = "update", !.failed = failed, !.writes = Writes(q),
                             !.audits = Audits(q, Writes(q))]]
    /\ UNCHANGED <<table, row, holder, others, guesses>>

\* The UPDATE takes the lock of the row; nobody sees it before the commit.
update(r) ==
    /\ at(r, "update") /\ holder = NoRequest
    /\ holder' = r
    /\ request' = [request EXCEPT ![r].at =
                      IF request[r].audits > 0 THEN "audit" ELSE "commit"]
    /\ UNCHANGED <<table, row, others, guesses>>

\* command_timeout: the UPDATE waits for a row lock whose holder waits for the
\* pool; it fails after half a minute, which rolls its transaction back.
give_up(r) ==
    /\ at(r, "update") /\ holder # NoRequest
    /\ at(holder, "audit") /\ Free = 0
    /\ request' = [request EXCEPT ![r] = Idle]
    /\ UNCHANGED <<table, row, holder, others, guesses>>

\* audit(): a transaction of its own, on a connection of its own.
audit(r) ==
    /\ at(r, "audit") /\ Free > 0
    /\ request' = [request EXCEPT
           ![r].audits = @ - 1,
           ![r].at = IF request[r].audits = 1 THEN "commit" ELSE "audit"]
    /\ UNCHANGED <<table, row, holder, others, guesses>>

\* The transaction commits: the columns its UPDATEs named change, the others
\* keep what somebody may have written since it read them.
commit(r) ==
    LET q == request[r]
        cleared == q.writes \in {"set", "clear"} IN
    /\ at(r, "commit")
    /\ hash' = IF q.writes = "set" THEN q.new ELSE hash
    /\ failed' = CASE q.writes \in {"count", "lock"} -> Capped(q.failed + 1)
                   [] cleared -> 0
                   [] OTHER -> failed
    /\ locked' = CASE q.writes = "lock" -> TRUE
                   [] cleared -> FALSE
                   [] OTHER -> locked
    /\ wallet' = IF q.op = "wallet" /\ q.writes \in {"clear", "nothing"} THEN q.to ELSE wallet
    /\ guesses' = IF cleared THEN 0
                  ELSE IF q.writes \in {"count", "lock"} THEN guesses + 1 ELSE guesses
    /\ holder' = NoRequest
    /\ request' = [request EXCEPT ![r] = Idle]
    /\ UNCHANGED <<table, others>>

\* set_group_passcode on another group takes a connection and a row lock of its
\* own, and a second connection to write its audit line.
begin_elsewhere ==
    /\ others < Elsewhere /\ Free > 0
    /\ others' = others + 1
    /\ UNCHANGED <<table, row, holder, request, guesses>>

audit_elsewhere ==
    /\ others > 0 /\ Free > 0
    /\ others' = others - 1
    /\ UNCHANGED <<table, row, holder, request, guesses>>

\* PASSCODE_LOCKOUT_MINUTES pass.  No transaction lasts as long: a statement
\* that takes half a minute is given up.
Cooldown ==
    /\ locked /\ Held = {}
    /\ locked' = FALSE
    /\ guesses' = 0
    /\ UNCHANGED <<table, hash, failed, wallet, holder, request, others>>

Next == \/ \E r \in Request : \/ ask(r) \/ begin(r) \/ update(r) \/ give_up(r)
                               \/ audit(r) \/ commit(r)
        \/ begin_elsewhere \/ audit_elsewhere
        \/ Cooldown

Spec == Init /\ [][Next]_vars

----------------------------------------------------------------------------
Requests ==
    [at : {"idle", "waiting", "update", "audit", "commit"},
     op : {"none", "set", "check", "wallet"},
     given : Code \cup {NoCode}, new : Code \cup {NoCode},
     to : Wallet \cup {NoWallet}, failed : 0 .. MAX_ATTEMPTS,
     writes : {"nothing", "count", "lock", "clear", "set"}, audits : 0 .. 2]

TypeOK ==
    /\ table \in {"group", "platform"}
    /\ hash \in Code \cup {NoCode}
    /\ failed \in 0 .. MAX_ATTEMPTS
    /\ locked \in BOOLEAN
    /\ wallet \in Wallet \cup {NoWallet}
    /\ holder \in Request \cup {NoRequest}
    /\ request \in [Request -> Requests]
    /\ others \in 0 .. Elsewhere
    /\ guesses \in Nat

\* The attempts that decide on one reading of the counter count once between
\* them, so more than MAX_ATTEMPTS are looked at before the row locks.  However
\* two requests at a time overlap, there are at most this many: one may decide on
\* every value of the counter while the other takes it up to the last.
GuessesBounded ==
    Cardinality(Request) <= 2 =>
        guesses <= (MAX_ATTEMPTS * (MAX_ATTEMPTS + 1)) \div 2 + 1

\* No attempt is forgotten: when no transaction runs, a row at which a wrong
\* passkey was tried since it was last clear has counted something.
WrongIsRemembered ==
    Held = {} /\ guesses > 0 => failed > 0

\* Transactions run and none of them can go on, not even by giving up.
Deadlocked ==
    /\ others > 0 \/ Held # {}
    /\ others > 0 => Free = 0
    /\ \A r \in Held :
          \/ at(r, "audit") /\ Free = 0
          \/ at(r, "update") /\ holder # NoRequest /\ (at(holder, "audit") => Free > 0)

\* Transactions wait for each other for good only when the whole pool is held by
\* requests on different groups, each at its audit line: one that waits for a row
\* lock is never part of it, nor are two requests on one row, and as long as one
\* connection is free, or one is held by anything else, somebody goes on.
OnlyAFullPoolBlocks ==
    Deadlocked => /\ Cardinality(Held) + others = PoolSize
                  /\ \A r \in Held : r = holder /\ at(r, "audit")
=============================================================================
