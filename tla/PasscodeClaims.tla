--------------------------- MODULE PasscodeClaims ---------------------------
(***************************************************************************)
(* What comments and docstrings say of the passkey and of the pool, and    *)
(* requests that overlap do not keep.                                      *)
(***************************************************************************)
EXTENDS Passcode

Committed(r, op, how) == /\ at(r, "commit") /\ at(r, "idle")'
                         /\ request[r].op = op /\ request[r].writes \in how

\* src/renewise/db/connection.py:224 "max_size=5, # Free tier doesn't need more
\* than 5 concurrent": with five, each on a group of its own, every
\* connection is held by a set_group_passcode that waits for another one to write
\* its audit line.
PoolSuffices == ~Deadlocked

\* src/renewise/db/queries.py:10 "after this many consecutive wrong passcode
\* attempts the wallet-change/passcode action is locked".
LockedAfterMaxAttempts == guesses <= MAX_ATTEMPTS

\* src/renewise/services/platform.py:303 "even a correct passcode is rejected
\* while locked".
LockedRejectsAll ==
    [][locked => \A r \in Request : ~Committed(r, "wallet", {"clear", "nothing"})]_vars

\* src/renewise/db/queries.py:171 "Changing: current_passcode must match the
\* stored bcrypt hash": of two first requests the second replaces the passkey of
\* the first without knowing it.
ChangeNeedsCurrent ==
    [][hash # NoCode /\ hash' # hash =>
          \E r \in Request : Committed(r, "set", {"set"}) /\ request[r].given = hash]_vars

\* src/renewise/services/platform.py:283 "If a wallet address is ALREADY set,
\* requires a valid passcode."
ChangeNeedsPasscode ==
    [][wallet # NoWallet /\ wallet' # wallet =>
          \E r \in Request : Committed(r, "wallet", {"clear", "nothing"})
                             /\ request[r].given # NoCode]_vars
=============================================================================
