\* Two workers, everything members and operators may do; no reminders.
SPECIFICATION Spec
CONSTANTS
    Member = {m1}
    Worker = {w1, w2}
    NoMember = NoMember
    Interval = 1
    Window = 0
    Grace = 1
    Outside = {"leave", "renew", "comp", "kick", "force"}
    USE_POSTGRES = TRUE
    MaxTime = 3
    MaxCopies = 1
    MaxMail = 2
    MaxFaults = 1
INVARIANTS TypeOK NoFreeRider NobodyStaysBanned
PROPERTIES EndedNeedsRequest
CHECK_DEADLOCK FALSE
