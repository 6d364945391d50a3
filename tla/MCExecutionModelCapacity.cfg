CONSTANTS
    Instruments = {"A", "B"}
    Fractional = {"A"}
    Requests <- MCRising
    Bars <- MCRisingBars
    Instants = {1, 3}
    Seeds <- MCSeeds
    InitialCash = 145
    Share = 2
    BasisPoints = 10
    FeeRate = 2
    SlippageRate = 1
    BufferRate = 1
    ParticipationRate = 5
    MaxStrategyNotional = 200
    MaxGrossExposure = 200
    MaxInstrumentExposure = 200
    GtcHorizon = 3
    MaxOrderHorizon = 4
    MaxSeeds = 2
    MaxOrders = 3
    MaxBars = 2
SPECIFICATION Spec
CHECK_DEADLOCK FALSE
PROPERTIES
    FillsFitBuyingPower
