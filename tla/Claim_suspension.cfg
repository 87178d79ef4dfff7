\* One owner: the operator suspends what the mini app and the bot have set up.
SPECIFICATION Spec
CONSTANTS
    Admin = {a1}
    Request = {r1}
    Wallet = {w1}
    Price = {p1}
    NoWallet = NoWallet
    NoPrice = NoPrice
    Nobody = Nobody
    Doing = {"create", "operator", "status", "refresh"}
    MaxGrants = 1
    MaxFaults = 0
INVARIANT SuspensionHolds
CHECK_DEADLOCK FALSE
