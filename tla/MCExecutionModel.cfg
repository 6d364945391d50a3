CONSTANTS
    Instruments = {"A", "B"}
    Fractional = {"A"}
    Requests <- MCAllRequests
    Bars <- MCBars
    Instants = {3}
    Seeds <- MCSeeds
    InitialCash = 140
    Share = 2
    BasisPoints = 10
    FeeRate = 2
    SlippageRate = 1
    BufferRate = 1
    ParticipationRate = 5
    MaxStrategyNotional = 120
    MaxGrossExposure = 110
    MaxInstrumentExposure = 100
    GtcHorizon = 3
    MaxOrderHorizon = 4
    MaxSeeds = 2
    MaxOrders = 2
    MaxBars = 3
SPECIFICATION Spec
CHECK_DEADLOCK FALSE
INVARIANTS
    LedgerExplainsAccount
    CommitmentsCovered
    OrdersAddUp
    FillsRespectOrders
PROPERTY
    CapacityShared
