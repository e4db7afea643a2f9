SPECIFICATION BridgeSpec
CONSTANTS
    CrashThreshold = 2
    IgnoreExitCodes = {0}
    PendingThreshold = 1
    Keys <- MCKeys
    Checkers = {0, 1, 2}
    Cooldown = 1
    ExcludeNamespaces = {}
    ExcludeNamespaceSelector = {}
    Scenes <- MCScenes
    MaxWirings = 2
    MaxObjectAge = 1
PROPERTIES FiresAreSpaced FaultIsReported ExcludedPodIsSilent
CHECK_DEADLOCK FALSE
