SPECIFICATION MCSpec
CONSTANTS
    Components = {"s", "c", "n"}
    NodeMode = {"s", "n"}
    First = "s"
    MaxKeys = 3
    NoRow = NoRow
    Data <- MCData
    Tokens = {"t", "u", "v"}
    TokensOf <- MCTokensOf
    Initial <- MCInitial
    MaxIds = 8
    NoSession = NoSession
    NoRequest = NoRequest
    MaxFaults = 3
INVARIANTS TypeOK JoinRecorded PollingIsCatalogued
PROPERTIES LinkedLoadable IdentityKept StartupEnds
CHECK_DEADLOCK FALSE
