CONSTANTS
    Runs = {r1, r2}
    LastRank = 1
    FallbackOn = {"SYMBOL_UNAVAILABLE", "SYMBOL_ALREADY_OWNED"}
    MaxUpsets = 0
SPECIFICATION Spec
PROPERTY OnlyUnavailableAdvances
CHECK_DEADLOCK FALSE
