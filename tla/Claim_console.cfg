\* Two requests of one developer.
SPECIFICATION Spec
CONSTANTS
    Request = {r1, r2}
    Key = {k1, k2, k3}
    Secret = {s1, s2}
    NoKey = NoKey
    MaxPlatforms = 3
    MaxAge = 2
INVARIANT RotatedIsRefused
CHECK_DEADLOCK FALSE
