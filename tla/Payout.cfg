\* Two wallet changes by both front ends, or one overpayment; one restart each.
SPECIFICATION MCSpec
CONSTANTS
    Change = {1, 2}
    NoChange = NoChange
    MaxFaults = 1
INVARIANTS HeldUntilDue CancelWindow
PROPERTIES DueIsSettled PendingSendIsResolved
CHECK_DEADLOCK FALSE
