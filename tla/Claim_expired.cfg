\* A renewal between the hourly query and the task.
SPECIFICATION Spec
CONSTANTS
    Member = {m1}
    Worker = {w1}
    NoMember = NoMember
    Interval = 1
    Window = 0
    Grace = 1
    Outside = {"renew"}
    MaxTime = 3
    MaxCopies = 1
    MaxMail = 2
    MaxFaults = 0
    USE_POSTGRES = FALSE
PROPERTY OnlyLapsedAreExpired
CHECK_DEADLOCK FALSE
