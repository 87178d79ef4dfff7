\* Two members, each with a subscription, a vault and an overpayment.
SPECIFICATION Spec
CONSTANTS
    s1 = s1
    s2 = s2
    u1 = u1
    u2 = u2
    v1 = v1
    v2 = v2
    w1 = w1
    w2 = w2
    NoWallet = NoWallet
    NoVault = NoVault
    Row = {1, 2}
    Sub = {s1, s2}
    User = {u1, u2}
    Vault = {v1, v2}
    Wallet = {w1, w2}
    UserOf <- MCUserOf
    Owner <- MCOwner
    Submitter <- MCSubmitter
    USE_POSTGRES = FALSE
    MaxFaults = 1
INVARIANTS PaidToItsMember SentWasTriggered
PROPERTY CancelledUnclaimedStays
CHECK_DEADLOCK FALSE
