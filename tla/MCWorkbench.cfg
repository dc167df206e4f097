CONSTANTS
    s = s
    c1 = c1
    c2 = c2
    n = n
    w1 = w1
    w2 = w2
    Jobs = {1, 2, 3, 4}
    Graphs <- MCGraphs
    Placements <- MCPlacements
    Self = s
    Nodes = {n}
    Downloads = {TRUE, FALSE}
    NoKey = NoKey
    Breaks = 1
    Contexts = {w1, w2}
    Identities <- MCIdentities
    MaxWait = 1
SPECIFICATION MCSpec
INVARIANTS
    TypeOK
    Outcome
    Confidential
    DoneIsStored
    LatestIsResult
    LoadsWhatIsClear
    ConnectedIsServed
PROPERTIES
    AllDelivered
    WaitEnds
CHECK_DEADLOCK FALSE
