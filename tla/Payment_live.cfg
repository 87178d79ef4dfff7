\* A single full payment under fairness.
SPECIFICATION FairSpec
CONSTANTS
    v1 = v1
    Sub = {s1}
    Vault = {v1}
    Tx = {t1, t2}
    Task = {j1, j2}
    NoTx = NoTx
    NoVault = NoVault
    Owner <- MCOwner
    RequiredPayment <- MCRequired
    Amount = {1, 2}
    RefundThreshold = 1
    GetterMayFail = FALSE
    USE_POSTGRES = TRUE
    Outside = {"pause", "expire"}
    MaxFaults = 0
PROPERTY FullPaymentIsCredited
CHECK_DEADLOCK FALSE
