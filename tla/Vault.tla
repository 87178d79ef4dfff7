------------------------------- MODULE Vault -------------------------------
(***************************************************************************)
(* The money of one PaymentVault contract: what payers send, what waits    *)
(* for the rest of the amount, what is held for a refund, what the split   *)
(* owes to the admin and the platform and what really leaves.  A message   *)
(* to the contract is one step: the value arrives, gas is paid from the    *)
(* balance, and then the sends are made in the order of the code.  A send  *)
(* the balance cannot cover is dropped without an error (SendIgnoreErrors).*)
(* Amounts are nanoTON counted in coarse units.                            *)
(***************************************************************************)
EXTENDS Integers

CONSTANTS
    price, buyer_fee_bps, admin_fee_bps,  \* the init parameters of the vault
    MIN_GAS_RESERVE,  \* part of the required amount, kept for gas
    LOG_VALUE,        \* value attached to a PaymentLog message
    REFUND_GAS,       \* withheld from a refund
    TRIGGER_GAS,      \* value the trigger wallet attaches to Refund
    GasUse,           \* what computing a message may cost
    Value,            \* what a payer may send
    MaxReceived       \* bound on the value received in all

BasisPoints == 0 .. 10000

\* What the constants are assumed to be: the modules that use this one assume it.
VaultAssumption ==
    /\ price \in Nat /\ buyer_fee_bps \in BasisPoints /\ admin_fee_bps \in BasisPoints
    /\ MIN_GAS_RESERVE \in Nat \ {0} /\ LOG_VALUE \in Nat /\ REFUND_GAS \in Nat
    /\ TRIGGER_GAS \in Nat
    /\ GasUse \subseteq Nat /\ Value \subseteq Nat
    /\ MaxReceived \in Nat

VARIABLES
    balance,           \* the contract's account
    accumulated_paid,  \* received towards the required amount
    overage_held,      \* held for a refund
    received,          \* history: value of the payments so far
    owed,              \* history: what the contract meant to send or keep
    paid,              \* history: what left for each recipient
    spent,             \* history: gas and logs since the last split
    overdrawn          \* history: costs once exceeded what was there for them

vars == <<balance, accumulated_paid, overage_held, received, owed, paid,
          spent, overdrawn>>

-----------------------------------------------------------------------------
\* Basis points of the price, rounded down.
Share(bps) == (price * bps) \div 10000

buyer_fee == Share(buyer_fee_bps)

\* Mutant of required_payment: the gas reserve is left out, as it once was.
required_payment_bare == price + buyer_fee

required_payment == price + buyer_fee + MIN_GAS_RESERVE
admin_fee == Share(admin_fee_bps)

\* Mutant of admin_amount: the admin's fee is charged on top, not withheld.
admin_amount_gross == price

admin_amount == price - admin_fee
platform_amount == admin_fee + buyer_fee

\* Mutant of Taken: the balance is not looked at before a send.
Taken_blindly(b, v) == v

\* What a send of v takes out of a balance of b.
Taken(b, v) == IF v <= b THEN v ELSE 0

\* An internal message cannot buy more gas than the value it carries.
Affordable(gas, value) == gas <= value

Nothing == [admin |-> 0, platform |-> 0, refund |-> 0, kept |-> 0]
Plus(shares, admin, platform, refund, kept) ==
    [admin |-> shares.admin + admin, platform |-> shares.platform + platform,
     refund |-> shares.refund + refund, kept |-> shares.kept + kept]

\* receive(Pay) below the required amount: the funds stay, a log goes out.
Accumulate(value, gas) ==
    LET arrived == balance + value - gas
        log == Taken(arrived, LOG_VALUE) IN
    /\ received + value <= MaxReceived /\ Affordable(gas, value)
    /\ accumulated_paid + value < required_payment
    /\ accumulated_paid' = accumulated_paid + value
    /\ balance' = arrived - log
    /\ received' = received + value
    /\ spent' = spent + gas + log
    /\ overdrawn' = (overdrawn \/ accumulated_paid' < spent')
    /\ UNCHANGED <<overage_held, owed, paid>>

\* Mutant of Split: the running total is kept after the split.
Split_no_reset(value, gas) ==
    LET arrived == balance + value - gas
        overage == accumulated_paid + value - required_payment
        toAdmin == Taken(arrived, admin_amount)
        toPlatform == Taken(arrived - toAdmin, platform_amount)
        log == Taken(arrived - toAdmin - toPlatform, LOG_VALUE) IN
    /\ received + value <= MaxReceived /\ Affordable(gas, value)
    /\ accumulated_paid + value >= required_payment
    /\ accumulated_paid' = accumulated_paid
    /\ overage_held' = overage_held + overage
    /\ balance' = arrived - toAdmin - toPlatform - log
    /\ received' = received + value
    /\ owed' = Plus(owed, admin_amount, platform_amount, 0, MIN_GAS_RESERVE)
    /\ paid' = Plus(paid, toAdmin, toPlatform, 0, 0)
    /\ overdrawn' = (overdrawn \/ spent + gas + LOG_VALUE > MIN_GAS_RESERVE)
    /\ spent' = 0

\* receive(Pay) reaching it: admin, platform and log are sent in this order.
Split(value, gas) ==
    LET arrived == balance + value - gas
        overage == accumulated_paid + value - required_payment
        toAdmin == Taken(arrived, admin_amount)
        toPlatform == Taken(arrived - toAdmin, platform_amount)
        log == Taken(arrived - toAdmin - toPlatform, LOG_VALUE) IN
    /\ received + value <= MaxReceived /\ Affordable(gas, value)
    /\ accumulated_paid + value >= required_payment
    /\ accumulated_paid' = 0
    /\ overage_held' = overage_held + overage
    /\ balance' = arrived - toAdmin - toPlatform - log
    /\ received' = received + value
    /\ owed' = Plus(owed, admin_amount, platform_amount, 0, MIN_GAS_RESERVE)
    /\ paid' = Plus(paid, toAdmin, toPlatform, 0, 0)
    /\ overdrawn' = (overdrawn \/ spent + gas + LOG_VALUE > MIN_GAS_RESERVE)
    /\ spent' = 0

\* receive(Refund) from the trigger wallet: the overage goes out less a fee.  Two
\* requirements fail the message: nothing is held, or no more than the fee is.
Refund(gas) ==
    LET refund_amount == overage_held - REFUND_GAS
        arrived == balance + TRIGGER_GAS - gas
        sent == Taken(arrived, refund_amount) IN
    /\ Affordable(gas, TRIGGER_GAS)
    /\ refund_amount > 0
    /\ overage_held' = 0
    /\ balance' = arrived - sent
    /\ owed' = Plus(owed, 0, 0, refund_amount, REFUND_GAS)
    /\ paid' = Plus(paid, 0, 0, sent, 0)
    /\ UNCHANGED <<accumulated_paid, received, spent, overdrawn>>

Init ==
    /\ balance = 0 /\ accumulated_paid = 0 /\ overage_held = 0
    /\ received = 0 /\ owed = Nothing /\ paid = Nothing
    /\ spent = 0 /\ overdrawn = FALSE

Pay(value, gas) == Accumulate(value, gas) \/ Split(value, gas)

Next ==
    \E gas \in GasUse : Refund(gas) \/ \E value \in Value : Pay(value, gas)

Spec == Init /\ [][Next]_vars

-----------------------------------------------------------------------------
(* Properties.                                                             *)

Shares == [admin : Nat, platform : Nat, refund : Nat, kept : Nat]

\* Amounts are never negative: no send takes more than the vault has, and a split
\* never finds less than it needs in the running total.
TypeOK ==
    /\ balance \in Nat /\ accumulated_paid \in Nat /\ overage_held \in Nat
    /\ received \in Nat /\ spent \in Nat
    /\ owed \in Shares /\ paid \in Shares
    /\ overdrawn \in BOOLEAN
    /\ accumulated_paid < required_payment

\* Every unit a payer sent is accounted for once: it waits for the rest of the
\* amount, is held for the payer, or was owed to the admin, the platform, a
\* refund or the gas reserve.  The split never touches the overage.
Accounted ==
    received = accumulated_paid + overage_held
                 + owed.admin + owed.platform + owed.refund + owed.kept

\* The ring-fence: as long as the costs since the last split were covered, what
\* waits and what is held are really there.
RingFenced ==
    ~overdrawn => balance >= overage_held + accumulated_paid - spent

\* "Atomic split": unless the vault was overdrawn no payout was dropped, so the
\* admin, the platform and the refunded payers all got what they were owed.
PaidInFull ==
    ~overdrawn => /\ paid.admin = owed.admin
                  /\ paid.platform = owed.platform
                  /\ paid.refund = owed.refund
=============================================================================
