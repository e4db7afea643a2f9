SPECIFICATION Spec
CONSTANTS
    Faults <- MCFaults
    EnabledRules <- AllRules
    MaxWindow = 5
    MinPodFailures = 2
    DeployMinPods = 2
    StormThreshold = 2
    PVCAnnotated = TRUE
INVARIANTS WindowIsPartitioned NothingLeftToCorrelate NodeFailureKeepsItsPods
