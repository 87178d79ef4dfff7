\* A payment completes while the platform asks for the overdue charge.
SPECIFICATION Spec
CONSTANTS
    c1 = c1
    v1 = v1
    v2 = v2
    t1 = t1
    Charge = {c1}
    Vault = {v1}
    Tx = {t1}
    Request = {r1}
    Rechecker = {}
    NoVault = NoVault
    NoTx = NoTx
    NoCharge = NoCharge
    Owner <- MCOwner
    Required <- MCRequired
    Amount <- MCAmount
    Mode <- MCMode
    Outside = {}
    MAX_ATTEMPTS = 3
    MaxFaults = 0
INVARIANT ExpiredIsUnpaid
CHECK_DEADLOCK FALSE
