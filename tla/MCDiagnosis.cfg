SPECIFICATION DiagnosisSpec
CONSTANTS
    MaxDepth = 3
    CustomGatherers <- MCCustomGatherers
    JSONPaths <- MCJSONPaths
    MaxMatches = 2
    MaxAffected = 1
    MaxChanges = 1
    MaxCalls = 3
    Events <- MCEvents
    Clusters <- MCClusters
    GathererLists <- MCGathererLists
INVARIANTS FailureIsContained BlameIsObserved DeadNodeIsBlamed DetectionIsNotForgotten
CHECK_DEADLOCK FALSE
