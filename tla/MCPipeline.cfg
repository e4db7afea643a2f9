SPECIFICATION Spec
CONSTANTS
    Events = {e1, e2}
    GatherWorkers = {g1, g2}
    AnalysisWorkers = {a1}
    SinkWorkers = {s1}
    SinkList <- MCSinkList
    LocalSinks = {"log"}
    SinksMayFail = TRUE
INVARIANTS EveryEventInOnePlace EverySinkIsOffered LossesAreExplained
PROPERTIES ImplementsEventDelivery ShutdownCompletes AcceptedIsSettled
CHECK_DEADLOCK FALSE
