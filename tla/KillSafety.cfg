SPECIFICATION Spec
CONSTANTS
    Instruments = {x1}
    Perp = x1
    Deltas <- MCLong
    Levels <- MCLevels
    Capital = 10
    Budget = 0
    HardThreshold = 2
    None = None
    MaxOrders = 2
    MaxResolves = 1
    MaxFailures = 1
INVARIANTS TypeOK OneLateOrder OnePanicPerEvaluator PanicResidual
