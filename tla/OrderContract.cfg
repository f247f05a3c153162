SPECIFICATION Spec
CONSTANTS
    Signals = {s1, s2}
    NoExpiry = {}
    Bids = {b1, b2}
    None = None
    Qty = 1
    MaxExternal = 0
    MaxFaults = 1
    FaultKinds = {"crash", "processor", "reconciler"}
    AckStatus = {"acknowledged", "filled"}
    DedupScope = "all"
INVARIANTS TypeOK ProcessedIsPlaced OrderHasRow NoFillSwallowed FillAppliedOnce
PROPERTY ImplementsContract
SYMMETRY SignalAndBidSymmetry
CHECK_DEADLOCK FALSE
