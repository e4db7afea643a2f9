SPECIFICATION LimiterSpec
CONSTANTS
    Callers = {w1, w2, w3}
    Threshold = 2
    OpenDuration = 2
    MaxFailures = 3
    DailyTokenBudget = 3
    HourlyTokenBudget = 2
    HoursPerDay = 2
    MaxTokens = 2
INVARIANTS TripsAtThreshold OvershootIsBounded
PROPERTIES RestIsRespected RecoversWithBackend
