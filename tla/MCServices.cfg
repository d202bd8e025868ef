SPECIFICATION ServicesSpec
CONSTANTS
    Parts = {"maintenance", "jobs", "sessions", "delivery", "outbox", "scheduler"}
    MaxHandles = 2
    MaxLeases = 1
    MaxDeaths = 1
    Job = {"j1", "j2"}
    Restarting = {"j1"}
    MaxRecords = 1
    MaxActive = 1
    MaxJobFaults = 2
    MaxAccepts = 3
    MaxLives = 2
    Session = {"s1", "s2"}
    Event = {"e1"}
    AUTH_MAXIMUM_FAILURES = 1
    MaxAdmin = 2
    MaxSessionFaults = 1
    Task = {"t1", "t2"}
    Members <- AnAlbumAndAMessage
    maxAttempts = 2
    maxCachedOutcomes = 1
    MaxFaults = 1
    OutboxRows = {"t1"}
    Slots = {e1}
    Starts = {s1}
    NoTask = NoTask
    MaxRetries = 0
    DbMayFail = FALSE
    Ids = {1, 2}
    Executions = {x1}
    Idle = Idle
    MaxPending = 1
    BatchSize = 2
    ListMayFail = FALSE
INVARIANTS
    MaintenanceIsExclusive
    CommandsAreAccountable
    ConfirmationsAreTrue
PROPERTIES
    WorkIsNeverStranded
CHECK_DEADLOCK FALSE
