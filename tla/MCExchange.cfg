SPECIFICATION ExchangeSpec
CONSTANTS
    Parts = {"order", "protection", "plan", "targets", "adaptive",
             "budget", "paper", "accounting", "stream", "history", "release"}
    Quantity = 3
    Scale = 10
    Strategies <- MCStrategies
    Signals <- MCSignals
    Markets <- MCMarkets
    Snapshots <- MCSnapshots
    Adaptive = {0, 40}
    RiskAccount = {"a", "b"}
    Traded = {"a"}
    Tiers = 2
    WeakWeeks = 2
    Configurations <- MCConfigurations
    Result = {"loss", "profit", "unproved"}
    MaxWeeks = 2
    MaxPolicies = 2
    MaxSourceChanges = 1
    Trade = {"t1", "t2"}
    Price = 4
    StopPrices = {2, 4}
    Marks = {2, 4, 5}
    Budget = 4
    MaxFees = 1
    MaxRiskMoves = 2
    MaxEpochs = 2
    MaxRiskDays = 1
    EntryQuantity = 2
    Percents <- TwoTargets
    MaxStops = 2
    MaxTargets = 1
    MaxFlattens = 1
    MaxCancelAttempts = 2
    MaxUpsets = 1
    Request <- PaperRequests
    Symbol = {"A", "B"}
    Prices = {2, 3, 4}
    Equity = 8
    maximumFillQuantity = 1
    Retain = FALSE
    MaxMoves = 2
    Fills <- MCFills
    Reports <- MCReports
    AccountOf <- MCAccountOf
    OrderQuantity <- MCOrderQuantity
    Funding <- MCFunding
    Currency = {"U"}
    Rates = {1, 2}
    Channel = {"tickers"}
    StateChanging = {1, 3}
    MaxBuffered = 2
    MaxPerPoll = 1
    MaxAttempts = 2
    MaxEvents = 3
    MaxUpheavals = 1
    MaxLosses = 2
    Profile = {"hyperliquid", "krakenfutures"}
    LIMIT = 2
    RETENTION = 3
    Width = 2
    OVERLAP = 1
    MaxTime = 2
    MaxFills = 4
INVARIANTS
    EvidenceIsHonest
    PositionsStayProtected
    PlansStayWithinLimits
    NothingIsMissed
PROPERTIES
    RiskStaysBounded
    SettledOrdersStay
    MoneyAddsUp
CHECK_DEADLOCK FALSE
