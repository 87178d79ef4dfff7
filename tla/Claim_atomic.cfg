\* Thirteen small payments, in units of 0.001 TON with the reserve of the code.
SPECIFICATION Spec
CONSTANTS
    price = 20
    buyer_fee_bps = 2500
    admin_fee_bps = 5000
    MIN_GAS_RESERVE = 50
    LOG_VALUE = 1
    REFUND_GAS = 5
    TRIGGER_GAS = 10
    GasUse = {5}
    Value = {6, 20}
    MaxReceived = 92
INVARIANT AtomicSplit
CHECK_DEADLOCK FALSE
