SPECIFICATION FairSpec
CONSTANTS
    Notionals = {3}
    FxNum = 4
    FxDen = 5
    Leverage = 2
    MaxLeverage = 2
    MaxNotional = 3
    MaxContracts = 5
    Budget = 10
    LossNum = 1
    LossDen = 5
    Markets <- OnlyGood
    Portfolios <- NoLoss
    Trends <- AllTrends
    Outages = FALSE
    None = None
    MaxQueue = 2
    MaxFeed = 1
PROPERTY ExitsHonoured
CHECK_DEADLOCK FALSE
