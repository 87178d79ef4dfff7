\* Five requests at once on five groups, and the five connections of the pool.
SPECIFICATION Spec
CONSTANTS
    Request = {r1}
    Code = {c1}
    Wallet = {w1}
    NoCode = NoCode
    NoWallet = NoWallet
    NoRequest = NoRequest
    MAX_ATTEMPTS = 5
    PoolSize = 5
    Elsewhere = 4
INVARIANT PoolSuffices
CHECK_DEADLOCK FALSE
