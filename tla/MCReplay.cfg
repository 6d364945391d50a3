CONSTANTS
    Instruments = {1, 2}
    Fractional = {2}
    Requests = {}
    Bars = {}
    Instants = {}
    Seeds = {}
    InitialCash = 100
    Share = 2
    BasisPoints = 10
    FeeRate = 1
    SlippageRate = 1
    BufferRate = 1
    ParticipationRate = 5
    MaxStrategyNotional = 100
    MaxGrossExposure = 100
    MaxInstrumentExposure = 80
    GtcHorizon = 3
    MaxOrderHorizon = 9
    MaxSeeds = 0
    MaxOrders = 0
    MaxBars = 0
    DayTicks = 5
    WeekDays = 2
    MonthDays = 1
    MaxRowsPerPart = 2
    PercentScale = 10
    Sessions <- MCSessions
    CoveredDays = {0, 1, 2}
    Flows <- MCFlows
    RequiredFeatures <- MCFeatures
    ExecutionGate = TRUE
    EvaluationFrom = 2
    EvaluationThrough = 15
    PublicationLag = 0
    LiveSeriesBars = 3
    Quote <- MCQuote
    Volume <- MCVolume
    StrayRows <- MCStrayRows
    MaxMissing = 1
    MaxSignals = 2
    MaxErrors = 1
SPECIFICATION ReplaySpec
CHECK_DEADLOCK FALSE
INVARIANTS
    EvidenceAccepted
    EvidenceExplainsAccount
    FillsFollowDecisions
    PositionHistoryExact
