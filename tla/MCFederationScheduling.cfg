CONSTANTS
    a = a
    b = b
    c = c
    d = d
    Jobs = {a, b, c}
    Locks <- Gather
    Place <- AllClients
    MaxRuns <- Once
    Submit = Submit
    NoJob = NoJob
    Faults = {}
SPECIFICATION Spec
PROPERTY ScheduledFromWaiting
CHECK_DEADLOCK FALSE
