\* A member renews in two parts.
SPECIFICATION Spec
CONSTANTS
    v1 = v1
    Sub = {s1}
    Vault = {v1}
    Tx = {t1, t2, t3}
    Task = {j1, j2}
    NoTx = NoTx
    NoVault = NoVault
    Owner <- MCOwner
    RequiredPayment <- MCRequired
    Amount = {1, 2}
    RefundThreshold = 1
    GetterMayFail = FALSE
    USE_POSTGRES = TRUE
    Outside = {}
    MaxFaults = 0
SYMMETRY Symmetric
INVARIANT ResidualIsNotAPayment
CHECK_DEADLOCK FALSE
