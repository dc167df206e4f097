CONSTANTS
    Contents <- MCContents
    Preambles <- MCPreambles
    SEPARATOR <- MCSeparator
    CHUNK_SIZES = {1, 2, 3}
    Algorithms = {"HYBRID", "NO_ENCRYPTION"}
    Losses = {"break", "cut"}
SPECIFICATION Spec
INVARIANTS
    TypeOK
    KeepsUp
    ChecksumTells
PROPERTIES
    ImplementsDelivery
    Ends
CHECK_DEADLOCK FALSE
