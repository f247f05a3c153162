SPECIFICATION Spec
CONSTANTS
    Signals = {s1}
    NoExpiry = {}
    Bids = {b1, b2, b3}
    None = None
    Qty = 2
    MaxExternal = 1
    MaxFaults = 1
    FaultKinds = {"orphan"}
    AckStatus = {"acknowledged", "filled", "cancelled"}
    DedupScope = "none"
INVARIANT NeverTwoOpenOrders
SYMMETRY BidSymmetry
CHECK_DEADLOCK FALSE
