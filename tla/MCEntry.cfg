SPECIFICATION EntrySpec
CONSTANTS
    Parts = {"contention", "fallback", "operators"}
    Upsets <- SomeUpsets
    Runs = {r1, r2}
    LastRank = 1
    FallbackOn <- AllReasons
    MaxUpsets = 4
SYMMETRY Symmetry
INVARIANTS
    AtMostOneAccount
    OneOwnerPerSymbol
    DrainedIsDrained
    NoDoubleSend
    RowsTellTheVenue
PROPERTIES
    SettledStaysSettled
CHECK_DEADLOCK FALSE
