\* Two payments of one link, one of them perhaps short, met by the watcher and a recheck.
SPECIFICATION Spec
CONSTANTS
    c1 = c1
    v1 = v1
    v2 = v2
    t1 = t1
    Charge = {c1}
    Vault = {v1}
    Tx = {t1, t2}
    Request = {r1}
    Rechecker = {k1}
    NoVault = NoVault
    NoTx = NoTx
    NoCharge = NoCharge
    Owner <- MCOwner
    Required <- MCRequired
    Amount <- MCAmount
    Mode <- MCMode
    Outside = {"delete"}
    MAX_ATTEMPTS = 2
    MaxFaults = 1
INVARIANTS TypeOK PaidByItsTx ClaimedIsCompleted
PROPERTIES UndoneByStaleRead
CHECK_DEADLOCK FALSE
