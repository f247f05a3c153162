SPECIFICATION Spec
CONSTANTS
    Notionals = {1, 3, 4}
    FxNum = 4
    FxDen = 5
    Leverage = 2
    MaxLeverage = 2
    MaxNotional = 3
    MaxContracts = 5
    Budget = 10
    LossNum = 1
    LossDen = 5
    Markets <- MixedMarkets
    Portfolios <- MixedPortfolios
    Trends <- Breakouts
    Outages = TRUE
    None = None
    MaxQueue = 2
    MaxFeed = 2
INVARIANTS TypeOK ExposureBounded
PROPERTY ExitOnlyReduces
CHECK_DEADLOCK FALSE
