INIT InitRetention
NEXT RetentionNext
CONSTANTS
    Signals = 2
    Batch = 2
    MaxBatches = 1
    MaxLoose = 0
INVARIANT PruningNeverFails
CHECK_DEADLOCK FALSE
