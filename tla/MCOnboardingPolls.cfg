SPECIFICATION Spec
CONSTANTS
    Components = {"s", "c"}
    NodeMode = {"s"}
    First = "s"
    MaxKeys = 1
    NoRow = NoRow
    Data <- MCData
    Tokens = {"t", "u", "v"}
    TokensOf <- MCTokensOf
    Initial <- InitialAtFirst
    MaxIds = 2
    NoSession = NoSession
    NoRequest = NoRequest
    MaxFaults = 0
INVARIANT JoinedPolls
CHECK_DEADLOCK FALSE
