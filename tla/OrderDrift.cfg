SPECIFICATION DriftSpec
CONSTANTS
    Signals = {s1}
    NoExpiry = {}
    Bids = {b1}
    None = None
    Qty = 1
    MaxExternal = 0
    MaxFaults = 1
    FaultKinds = {"crash", "processor", "reconciler", "orphan", "monitor"}
    AckStatus = {"acknowledged"}
    DedupScope = "all"
PROPERTIES EverySignalSettles EveryFillRecorded DriftReported
CHECK_DEADLOCK FALSE
