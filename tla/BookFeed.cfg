SPECIFICATION FairSpec
CONSTANTS
    Prices = {1, 2, 3}
    None = None
    MaxSeq = 4
    MaxFaults = 3
    FaultKinds = {"lostDelta", "disconnect", "glitch"}
INVARIANTS TypeOK SyncedIsExact
PROPERTY Resynchronises
CHECK_DEADLOCK FALSE
