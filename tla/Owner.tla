------------------------------- MODULE Owner -------------------------------
(***************************************************************************)
(* What an owner has: the paywalled group, taken as it is, and beside it   *)
(* the vault that splits its money, the passkey of its payout wallet and   *)
(* the console of a platform.  They are rows of different tables and, the  *)
(* vault, an account of the chain: no step of one changes another.         *)
(***************************************************************************)
EXTENDS Group

CONSTANTS
    price, buyer_fee_bps, admin_fee_bps, MIN_GAS_RESERVE, LOG_VALUE,   \* of Vault
    REFUND_GAS, TRIGGER_GAS, GasUse, Value, MaxReceived,
    Code, NoCode, NoRequest, MAX_ATTEMPTS, Elsewhere, PoolSize,        \* of Passcode
    Key, Secret, NoKey, MaxPlatforms, MaxAge                           \* of Console

VARIABLES
    balance, accumulated_paid, overage_held, received, owed, paid, spent, overdrawn,
    table, hash, failed, locked, wallet, holder, request, others, guesses,
    platform, secret, payout, cache, age, hooks, drawn, owned, doing

V == INSTANCE Vault
P == INSTANCE Passcode
C == INSTANCE Console

----------------------------------------------------------------------------
\* Every unit a vault received is waiting, held, or owed to exactly one recipient:
\* see Vault.
Accounted == V!Accounted

\* What a vault holds for a payer is really in its account: see Vault.
RingFenced == V!RingFenced

\* Nobody's share of a split is dropped: see Vault.
PaidInFull == V!PaidInFull

\* However two requests on one row overlap, the number of wrong passkeys that
\* are looked at before the row locks is bounded: see Passcode.
GuessesBounded == P!GuessesBounded

\* Requests on passkeys wait for connections for good only when as many groups as the
\* pool has connections are at it at once: see Passcode.
OnlyAFullPoolBlocks == P!OnlyAFullPoolBlocks

\* Two minutes after a key was taken back no cached row lets it in, whatever was
\* under way: see Console.
RetiredIsForgotten == C!RetiredIsForgotten
=============================================================================
