CONSTANTS
    Addrs = {a1, a2, a3}
    NoAddr = NoAddr
    NoPlace = NoPlace
    Ports = 2
    NodeCount <- Nodes
    Places <- BusPlaces
    SerialAt <- BusSerials
    Serials = {0, 9}
    ReadsMayFail = TRUE
SPECIFICATION SearchSpec
INVARIANTS SearchTypeOK FoundIsFirstUnused NullMeansNoneUnused OnePhantomPerDevice NothingStaysOpen
PROPERTY SearchEnds
\* With every address of the model in use nobody can search.
CHECK_DEADLOCK FALSE
