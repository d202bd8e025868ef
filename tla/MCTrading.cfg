SPECIFICATION TradingSpec
CONSTANTS
    Parts = {"parser", "graph", "revisions", "legacy", "runtime", "catalogue",
             "accounts"}
    Jobs = {"j1", "j2"}
    Texts <- MCTexts
    Answers <- MCAnswers
    Definitions <- MCDefinitions
    Plan <- OneCallEach
    Allowance = 2
    DailyRequestLimit = 2
    DailyTokenLimit = 3
    Usages <- MCUsages
    MaxDays = 2
    MaxUpsets = 1
    Asked <- EveryRequest
    MaxRequests = 2
    Node <- MCNode
    Kind <- MCKind
    Mode <- MCMode
    Revisable = {"a1"}
    Placeable = {"a3"}
    Drawn <- MCDrawn
    Joints <- MCJoints
    MaxEdges = 9
    MaxReadinessChanges = 1
    Family = {"f", "g"}
    MaxVersions = 1
    Tab = {"x", "y"}
    HistoryLimit = 1
    MaxRevisions = 3
    MaxDrafts = 2
    MaxSpent = 3
    Route <- TwoLegacyRoutes
    Setting = {"x", "y"}
    MaxInterruptions = 1
    MaxRouteChanges = 4
    Client = {"w", "g"}
    Versions = {1, 2}
    Schema = {"s1"}
    Strategy = {"t1"}
    TradedAccount = {"x1"}
    Definition = {"d1", "d2"}
    MaxChanges = 6
    Key = {"k1", "k2", "k3"}
    OwnerOf <- TwoKeysAndAStranger
    Granted = {"k1", "k3"}
    MaxAccountRequests = 5
    MaxFailures = 1
    MaxDeaths = 1
INVARIANTS
    SignalsAreMeant
    CatalogueHolds
PROPERTIES
    WorkflowsAreAsActivated
    AuthorityHolds
CHECK_DEADLOCK FALSE
