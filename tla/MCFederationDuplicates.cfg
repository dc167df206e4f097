CONSTANTS
    a = a
    b = b
    c = c
    d = d
    Jobs = {a, b}
    Locks <- Chain
    Place <- AllClients
    MaxRuns <- TwiceFirst
    Submit = Submit
    NoJob = NoJob
    Faults = {"work"}
SPECIFICATION Spec
INVARIANT NoJobForgotten
CHECK_DEADLOCK FALSE
