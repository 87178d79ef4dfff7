\* One partial payment is looked at twice.
SPECIFICATION Spec
CONSTANTS
    v1 = v1
    Sub = {s1}
    Vault = {v2}
    Tx = {t1, t2}
    Task = {j1, j2}
    NoTx = NoTx
    NoVault = NoVault
    Owner <- MCOwner
    RequiredPayment <- MCRequired
    Amount = {2}
    RefundThreshold = 1
    GetterMayFail = FALSE
    USE_POSTGRES = TRUE
    Outside = {}
    MaxFaults = 0
SYMMETRY Symmetric
INVARIANT CreditIsBacked
CHECK_DEADLOCK FALSE
