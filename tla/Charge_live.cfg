\* Two links of one charge, by the API and the sandbox, under fairness with one fault.
SPECIFICATION FairSpec
CONSTANTS
    c1 = c1
    v1 = v1
    v2 = v2
    t1 = t1
    Charge = {c1}
    Vault = {v1, v2}
    Tx = {t1}
    Request = {r1}
    Rechecker = {}
    NoVault = NoVault
    NoTx = NoTx
    NoCharge = NoCharge
    Owner <- MCOwner
    Required <- MCRequired
    Amount <- MCAmount
    Mode <- MCMode
    Outside = {"sandbox"}
    MAX_ATTEMPTS = 2
    MaxFaults = 1
PROPERTIES PaidIsCompleted ToldOrGivenUp
CHECK_DEADLOCK FALSE
