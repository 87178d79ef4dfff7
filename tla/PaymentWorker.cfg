\* One payment, two workers that may both work on it, everything that may happen to the
\* row, and one fault, under fairness.
SPECIFICATION FairSpec
CONSTANTS
    Sub = {s1}
    Tx = {t1}
    Worker = {w1, w2}
    NoTx = NoTx
    Amount <- MCAmount
    Stored = 3
    Derived = {2, 4}
    Outside = {"rejoin", "expire", "pause", "cleanup"}
    USE_POSTGRES = TRUE
    MaxCopies = 1
    MaxMail = 1
    MaxFaults = 1
INVARIANTS TypeOK AdmittedHasPaid
PROPERTIES CoveredIsCredited WelcomeArrives LedgerSpec
CHECK_DEADLOCK FALSE
