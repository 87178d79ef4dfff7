\* The owner's side: vaults, passkeys, the platform console and the life of a group.
\* Vaults: partial, exact and excess payments, refunds at any time, cheap and dear gas.
SPECIFICATION MCSpec
CONSTANTS
    price = 4
    buyer_fee_bps = 2500
    admin_fee_bps = 5000
    MIN_GAS_RESERVE = 3
    LOG_VALUE = 1
    REFUND_GAS = 1
    TRIGGER_GAS = 2
    GasUse = {0, 1, 2}
    Value = {1, 2, 5, 8, 11}
    MaxReceived = 27
    Request = {r1, r2}
    MAX_ATTEMPTS = 2
    Elsewhere = 2
    PoolSize = 3
    Code = {c1}
    Wallet = {w1}
    Key = {k1, k2, k3}
    FirstKey = k1
    Secret = {h1, h2}
    MaxPlatforms = 2
    MaxAge = 3
    Admin = {a1, a2}
    Price = {500}
    NoPrice = 0
    Doing = {"create", "demote", "refresh", "operator"}
    MaxGrants = 2
    MaxFaults = 0
    NoCode = NoCode
    NoWallet = NoWallet
    NoRequest = NoRequest
    NoKey = NoKey
    Nobody = Nobody
SYMMETRY Symmetry
INVARIANTS PartsTypeOK Accounted RingFenced PaidInFull GuessesBounded OnlyAFullPoolBlocks
INVARIANTS RetiredIsForgotten OwnerMadeItAdmin ShownIsActivated NothingLeftBehind
\* Every bound of an instance may be reached.
CHECK_DEADLOCK FALSE
