SPECIFICATION FairSpec
CONSTANTS
    Instruments = {x1}
    Perp = x1
    Deltas <- MCRound
    Levels <- MCLevels
    Capital = 10
    Budget = 1
    HardThreshold = 4
    None = None
    MaxOrders = 2
    MaxResolves = 0
    MaxFailures = 0
PROPERTY BudgetEnforced
