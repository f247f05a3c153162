\* Small ring and snapshot, every kind of fault.
CONSTANTS
    MaxFills = 4
    Capacity = 2
    SnapshotSize = 3
    Foreign = {2}
    MaxFaults = 3
    FaultKinds = {"disconnect", "challenge", "drop", "duplicate", "crash", "db"}
SPECIFICATION FairSpec
INVARIANTS TypeOK RingInOrder AppliedAtMostOnce NoFillSkipped
PROPERTY EveryFillApplied
CHECK_DEADLOCK FALSE
