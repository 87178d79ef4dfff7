\* Two transactions on one link, two coroutines at a time, no faults.
SPECIFICATION Spec
CONSTANTS
    v1 = v1
    Sub = {s1}
    Vault = {v1}
    Tx = {t1, t2}
    Task = {j1, j2}
    NoTx = NoTx
    NoVault = NoVault
    Owner <- MCOwner
    RequiredPayment <- MCRequired
    Amount = {1, 3}
    RefundThreshold = 1
    GetterMayFail = FALSE
    USE_POSTGRES = TRUE
    Outside = {"cancel", "comp", "cleanup", "evict"}
    MaxFaults = 0
SYMMETRY Symmetric
INVARIANT CreditOnce
PROPERTY EndedStaysEnded
CHECK_DEADLOCK FALSE
