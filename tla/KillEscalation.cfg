SPECIFICATION FairSpec
CONSTANTS
    Instruments = {x1}
    Perp = x1
    Deltas <- MCShort
    Levels <- MCLevels
    Capital = 10
    Budget = 0
    HardThreshold = 2
    None = None
    MaxOrders = 1
    MaxResolves = 0
    MaxFailures = 0
PROPERTIES Escalates PanicCloses
