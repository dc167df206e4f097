CONSTANTS
    a = a
    b = b
    c = c
    d = d
    Jobs = {a, b, c}
    Locks <- Side
    Place <- ClientsFirst
    MaxRuns <- Once
    Submit = Submit
    NoJob = NoJob
    Faults = {"work"}
SPECIFICATION Spec
INVARIANT NoJobForgotten
CHECK_DEADLOCK FALSE
