\* Two links at different rates, one fault at any point, the migration backfill.
SPECIFICATION Spec
CONSTANTS
    v1 = v1
    Sub = {s1}
    Vault = {v1, v2}
    Tx = {t1, t2}
    Task = {j1}
    NoTx = NoTx
    NoVault = NoVault
    Owner <- MCOwner
    RequiredPayment <- MCRequired
    Amount = {2}
    RefundThreshold = 1
    GetterMayFail = TRUE
    USE_POSTGRES = FALSE
    Outside = {"rejoin"}
    MaxFaults = 1
SYMMETRY Symmetric
INVARIANT NoFreeCycle
PROPERTY LedgerSpec
CHECK_DEADLOCK FALSE
