\* Reminders and removals under fairness, with one fault.
SPECIFICATION FairSpec
CONSTANTS
    Member = {m1}
    Worker = {w1}
    NoMember = NoMember
    Interval = 1
    Window = 1
    Grace = 0
    Outside = {"renew", "leave"}
    USE_POSTGRES = FALSE
    MaxTime = 2
    MaxCopies = 1
    MaxMail = 1
    MaxFaults = 1
PROPERTIES LapsedLeaves DueIsReminded LeaverIsCancelled
CHECK_DEADLOCK FALSE
