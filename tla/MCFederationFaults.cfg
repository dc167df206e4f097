CONSTANTS
    a = a
    b = b
    c = c
    d = d
    Jobs = {a, b, c}
    Locks <- Fork
    Place <- WithNode
    MaxRuns <- Once
    Submit = Submit
    NoJob = NoJob
    Faults = {"work", "remote", "timeout", "crash"}
SPECIFICATION Spec
INVARIANTS
    TypeOK InputsStored

PROPERTY ImplementsDependencyOrder
CHECK_DEADLOCK FALSE
