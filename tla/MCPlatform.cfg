SPECIFICATION PlatformSpec
CONSTANTS
    Parts = {"schema", "lifecycle", "audit", "backup", "restore", "settings", "retention",
             "dashboard", "agents"}
    Starts = {0, 14, 24, 39, 47}
    MaxOpens = 2
    Instance = {a, b}
    MaximumCrashes = 2
    MaxDeaths = 2
    MaxJobs = 1
    MaxRecords = 3
    MaxDiskFaults = 1
    MaxTrailDeaths = 1
    MaxTimeouts = 2
    MaxResets = 1
    Writers = {w1, w2}
    MaxVersions = 2
    MaxNames = 2
    Retain = 1
    MaxStores = 2
    MaxMishaps = 1
    MaxFailures = 2
    Updates = {{"k", "h"}, {"t"}, {"e"}}
    Immutable = {"e"}
    Removable = {"t"}
    MayBeOutside = {"t"}
    Required <- MCRequired
    Patches <- MCPatches
    MaxUpdates = 3
    MaxSettingsMishaps = 1
    MaxStarts = 2
    Signals = 2
    Batch = 2
    MaxBatches = 2
    MaxLoose = 1
    Slots = 2
    MaxRequests = 2
    MaxOutside = 1
    MaxPreviews = 1
    Item = {"i1", "i2"}
    Calls = {"contracts.create", "risk.update", "schemas.create"}
    Permissions = {"contracts.write", "risk.write"}
    MaxAdmin = 2
    MaxWorkFailures = 1
    MaxWorkDeaths = 1
INVARIANTS
    ProcessHoldsAuthority
    AuditIsAChain
    RecoveryIsWhole
    PruningIsSafe
    AgentsActAsAllowed
PROPERTIES
    UpgradesAreSafe
    ChangesAreAccountable
CHECK_DEADLOCK FALSE
