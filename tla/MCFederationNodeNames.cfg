CONSTANTS
    a = a
    b = b
    c = c
    d = d
    Jobs = {a, b, c}
    Locks <- Fork
    Place <- WithNode
    MaxRuns <- Once
    Submit = Submit
    NoJob = NoJob
    Faults = {}
SPECIFICATION Spec
INVARIANT WorkerNamesItself
CHECK_DEADLOCK FALSE
