CONSTANTS
    Instruments = {1, 2}
    Fractional = {2}
    Requests = {}
    Bars = {}
    Instants = {}
    Seeds = {}
    InitialCash = 100
    Share = 2
    BasisPoints = 10
    FeeRate = 1
    SlippageRate = 1
    BufferRate = 1
    ParticipationRate = 5
    MaxStrategyNotional = 100
    MaxGrossExposure = 100
    MaxInstrumentExposure = 80
    GtcHorizon = 3
    MaxOrderHorizon = 9
    MaxSeeds = 0
    MaxOrders = 0
    MaxBars = 0
    DayTicks = 5
    WeekDays = 2
    MonthDays = 1
    MaxRowsPerPart = 2
    PercentScale = 10
    Sessions <- MCTwoSessions
    CoveredDays = {0, 1}
    Flows <- MCOnceFlows
    RequiredFeatures = {}
    ExecutionGate = TRUE
    EvaluationFrom = 2
    EvaluationThrough = 10
    PublicationLag = 0
    LiveSeriesBars = 3
    Quote <- MCQuote
    Volume <- MCVolume
    StrayRows = {}
    MaxMissing = 0
    MaxSignals = 3
    MaxErrors = 0
SPECIFICATION ReplaySpec
CHECK_DEADLOCK FALSE
INVARIANTS
    OncePerPosition
