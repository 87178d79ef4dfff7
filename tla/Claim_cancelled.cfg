\* The admin cancels while the run applies.
SPECIFICATION Spec
CONSTANTS
    Change = {1}
    NoChange = NoChange
    MaxFaults = 0
PROPERTY CancelledStays
CHECK_DEADLOCK FALSE
