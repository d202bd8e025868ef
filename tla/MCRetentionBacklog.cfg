INIT InitRetention
NEXT RetentionNext
CONSTANTS
    Signals = 3
    Batch = 2
    MaxBatches = 1
    MaxLoose = 0
CONSTRAINT WithoutEvents
INVARIANT BacklogIsReported
CHECK_DEADLOCK FALSE
