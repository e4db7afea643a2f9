SPECIFICATION Spec
CONSTANTS
    a = a
    b = b
    x = x
    Namespaces = {a, b, x}
    Excluded = {x}
    NumPods = 2
    InitUp = {1, 2}
    Configured = 2
    Bucket <- MCBucket
    MayLoseLease = TRUE
    MaxDisturbances = 3
    NoMap = NoMap
    None = None
INVARIANTS PlanIsPartition
PROPERTIES EventuallyCovered
CHECK_DEADLOCK FALSE
