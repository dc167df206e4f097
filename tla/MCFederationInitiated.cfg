CONSTANTS
    a = a
    b = b
    c = c
    d = d
    Jobs = {a, b, c, d}
    Locks <- Diamond
    Place <- Initiated
    MaxRuns <- Once
    Submit = Submit
    NoJob = NoJob
    Faults = {"work"}
SPECIFICATION FairSpec
INVARIANT CompletedMeansAll
PROPERTIES
    CompletedIsFinal
    Settles
CHECK_DEADLOCK FALSE
