------------------------------ MODULE Pipeline ------------------------------
(* internal/pipeline/pipeline.go: correlate -> gather -> analyze -> sink,    *)
(* with the correlator loop of internal/pipeline/correlator/correlator.go    *)
(* and the shutdown sequence the controller drives.                          *)
(*                                                                           *)
(* A work item is the non-empty set of fault events it stands for: a single  *)
(* event, or the members of a super-event.  Which events are grouped is      *)
(* decided by the correlation rules (module Correlator); here any partition  *)
(* of the window is possible.  A queue is the set of its waiting items: the  *)
(* items are distinct, and no property below depends on the order inside a   *)
(* queue (module PriorityQueue is about that order).                         *)
EXTENDS Integers, Sequences, FiniteSets

CONSTANTS
    Events,              \* fault events detectors may submit, each once, that
                         \* pass the filter (the others end in SubmitFaultEvent)
    GatherWorkers, AnalysisWorkers, SinkWorkers,
    SinkList,            \* p.sinks, in order
    LocalSinks,          \* sinks whose Deliver ignores the context (log)
    SinksMayFail         \* TRUE when a remote sink may fail by itself

Workers == GatherWorkers \cup AnalysisWorkers \cup SinkWorkers
Sinks == {SinkList[k] : k \in 1..Len(SinkList)}
Stages == {"gathering", "analysis", "sink"}

ASSUME StageWorkersAssumption ==
    /\ GatherWorkers # {} /\ AnalysisWorkers # {} /\ SinkWorkers # {}
    /\ GatherWorkers \cap AnalysisWorkers = {}
    /\ GatherWorkers \cap SinkWorkers = {}
    /\ AnalysisWorkers \cap SinkWorkers = {}
(* Every sink is in the list once: sink names are registered once.           *)
ASSUME SinkListAssumption ==
    /\ SinkList \in Seq(Sinks)
    /\ \A j, k \in 1..Len(SinkList) : SinkList[j] = SinkList[k] => j = k
ASSUME SwitchAssumption == SinksMayFail \in BOOLEAN

VARIABLES
    correlating, \* cfg.Correlation.Enabled, fixed at the start
    accepted,    \* history: events past the filter, handed to the correlator
    buffer,      \* Correlator.buffer
    window,      \* results of an evaluation, not yet handed to the handler
    loop,        \* the Correlator.Run goroutine
    ctxDone,     \* the pipeline context is cancelled
    stopCh,      \* Correlator.stopCh is closed
    gatherQ, analysisQ, sinkQ,
    gathering,   \* gathering[w]: the item a gathering worker processes
    analyzing,   \* analyzing[w]: the item an analysis worker processes
    reported,    \* analysis workers past Sink.Add, before Analysis.Done
    delivering,  \* delivering[w]: the report a sink worker delivers
    nextSink,    \* nextSink[w]: position in SinkList of its next delivery
    exited,      \* workers that returned
    down,        \* queues that were shut down
    main,        \* the goroutine that runs Controller.shutdown
    timedOut,    \* history: drain phases that ended by timeout
    offered,     \* history: offered[s], events whose report sink s was given
    delivered,   \* history: delivered[s], events sink s confirmed
    settled,     \* history: events whose report went past every sink
    dropped,     \* history: events whose item met a queue that was shut down
    strayed      \* history: events in a gathering worker's hands, or not yet
                 \* accepted, when the gathering drain was declared complete

history == <<timedOut, offered, delivered, settled, dropped, strayed>>
queuesVars == <<gatherQ, analysisQ, sinkQ, down>>
workerVars == <<gathering, analyzing, reported, delivering, nextSink, exited>>
corrVars == <<buffer, window, loop, stopCh>>
intake == <<correlating, accepted>>

vars == <<intake, corrVars, ctxDone, queuesVars, workerVars, main, history>>

NoWork == {}

Init ==
    /\ correlating \in BOOLEAN
    /\ accepted = {}
    /\ buffer = {} /\ window = {} /\ loop = "running" /\ stopCh = FALSE
    /\ ctxDone = FALSE
    /\ gatherQ = {} /\ analysisQ = {} /\ sinkQ = {} /\ down = {}
    /\ gathering = [w \in GatherWorkers |-> NoWork]
    /\ analyzing = [w \in AnalysisWorkers |-> NoWork]
    /\ reported = {}
    /\ delivering = [w \in SinkWorkers |-> NoWork]
    /\ nextSink = [w \in SinkWorkers |-> 1]
    /\ exited = {}
    /\ main = "serving"
    /\ timedOut = {}
    /\ offered = [s \in Sinks |-> {}]
    /\ delivered = [s \in Sinks |-> {}]
    /\ settled = {} /\ dropped = {} /\ strayed = {}

-----------------------------------------------------------------------------
(* Intake *)

(* workqueue.Add: a queue that is shutting down drops the item.              *)
AddGathering(item) ==
    IF "gathering" \in down
    THEN dropped' = dropped \cup item /\ UNCHANGED gatherQ
    ELSE gatherQ' = gatherQ \cup {item} /\ UNCHANGED dropped

(* Nothing here looks at the context or at stopCh.                           *)
SubmitFaultEvent(e) ==
    /\ e \in Events \ accepted
    /\ accepted' = accepted \cup {e}
    /\ IF correlating
       THEN buffer' = buffer \cup {e} /\ UNCHANGED <<gatherQ, dropped>>
       ELSE AddGathering({e}) /\ UNCHANGED buffer
    /\ UNCHANGED <<correlating, window, loop, stopCh, ctxDone, analysisQ,
                   sinkQ, down, workerVars, main, timedOut, offered, delivered,
                   settled, strayed>>

-----------------------------------------------------------------------------
(* The correlator goroutine *)

Partitions(S) ==
    {P \in SUBSET (SUBSET S \ {{}}) :
        /\ UNION P = S
        /\ \A A, B \in P : A = B \/ A \cap B = {}}

(* Mutant of TakeWindow: the buffer is read but not replaced.                *)
TakeWindowCopy ==
    /\ window' \in Partitions(buffer)
    /\ UNCHANGED buffer

(* evaluateAndEmit swaps the buffer under the mutex; the results are handed  *)
(* to handleCorrelationResult one Gathering.Add at a time.                   *)
TakeWindow ==
    /\ window' \in Partitions(buffer)
    /\ buffer' = {}

CorrelatorTick ==
    /\ correlating
    /\ loop = "running"
    /\ window = {}
    /\ buffer # {}
    /\ TakeWindow
    /\ UNCHANGED <<intake, loop, stopCh, ctxDone, queuesVars, workerVars, main, history>>

(* ctx.Done or stopCh: one last evaluation, then the loop returns.           *)
CorrelatorFlush ==
    /\ correlating
    /\ loop = "running"
    /\ window = {}
    /\ ctxDone \/ stopCh
    /\ loop' = "flushing"
    /\ TakeWindow
    /\ UNCHANGED <<intake, stopCh, ctxDone, queuesVars, workerVars, main, history>>

(* A disabled correlator only waits for the context.                         *)
CorrelatorIdleStop ==
    /\ ~correlating
    /\ loop = "running"
    /\ ctxDone
    /\ loop' = "flushing"
    /\ UNCHANGED <<intake, buffer, window, stopCh, ctxDone, queuesVars, workerVars,
                   main, history>>

handleCorrelationResult ==
    /\ \E item \in window :
        /\ AddGathering(item)
        /\ window' = window \ {item}
    /\ UNCHANGED <<intake, buffer, loop, stopCh, ctxDone, analysisQ, sinkQ, down,
                   workerVars, main, timedOut, offered, delivered, settled, strayed>>

CorrelatorReturn ==
    /\ loop = "flushing"
    /\ window = {}
    /\ loop' = "stopped"
    /\ UNCHANGED <<intake, buffer, window, stopCh, ctxDone, queuesVars, workerVars,
                   main, history>>

-----------------------------------------------------------------------------
(* Gathering workers *)

GatherGet(w) ==
    /\ w \notin exited
    /\ gathering[w] = NoWork
    /\ \E item \in gatherQ :
        /\ gathering' = [gathering EXCEPT ![w] = item]
        /\ gatherQ' = gatherQ \ {item}
    /\ UNCHANGED <<intake, corrVars, ctxDone, analysisQ, sinkQ, down, analyzing,
                   reported, delivering, nextSink, exited, main, history>>

(* Mutant of processGatherItem: a gatherer failure gives the event up.       *)
processGatherItemGivesUp(w) ==
    /\ gathering[w] # NoWork
    /\ gathering' = [gathering EXCEPT ![w] = NoWork]
    /\ dropped' = dropped \cup gathering[w]
    /\ UNCHANGED <<intake, corrVars, ctxDone, queuesVars, analyzing, reported,
                   delivering, nextSink, exited, main, timedOut, offered,
                   delivered, settled, strayed>>

(* processGatherItem, then Gathering.Done.  Gatherer failures become error   *)
(* sections of the bundle, so the bundle always reaches Analysis.Add.        *)
processGatherItem(w) ==
    /\ gathering[w] # NoWork
    /\ gathering' = [gathering EXCEPT ![w] = NoWork]
    /\ IF "analysis" \in down
       THEN dropped' = dropped \cup gathering[w] /\ UNCHANGED analysisQ
       ELSE analysisQ' = analysisQ \cup {gathering[w]} /\ UNCHANGED dropped
    /\ UNCHANGED <<intake, corrVars, ctxDone, gatherQ, sinkQ, down, analyzing,
                   reported, delivering, nextSink, exited, main, timedOut,
                   offered, delivered, settled, strayed>>

GatherExit(w) ==
    /\ w \notin exited
    /\ gathering[w] = NoWork
    /\ gatherQ = {}
    /\ "gathering" \in down
    /\ exited' = exited \cup {w}
    /\ UNCHANGED <<intake, corrVars, ctxDone, queuesVars, gathering, analyzing,
                   reported, delivering, nextSink, main, history>>

-----------------------------------------------------------------------------
(* Analysis workers *)

AnalysisGet(w) ==
    /\ w \notin exited
    /\ analyzing[w] = NoWork
    /\ \E item \in analysisQ :
        /\ analyzing' = [analyzing EXCEPT ![w] = item]
        /\ analysisQ' = analysisQ \ {item}
    /\ UNCHANGED <<intake, corrVars, ctxDone, gatherQ, sinkQ, down, gathering,
                   reported, delivering, nextSink, exited, main, history>>

AddSink(item) ==
    IF "sink" \in down
    THEN dropped' = dropped \cup item /\ UNCHANGED sinkQ
    ELSE sinkQ' = sinkQ \cup {item} /\ UNCHANGED dropped

(* Mutant of processAnalysisItem: the error branch returns without the       *)
(* fallback report.                                                          *)
processAnalysisItemNoFallback(w) ==
    /\ analyzing[w] # NoWork
    /\ w \notin reported
    /\ AddSink(analyzing[w]) \/ UNCHANGED <<sinkQ, dropped>>
    /\ reported' = reported \cup {w}
    /\ UNCHANGED <<intake, corrVars, ctxDone, gatherQ, analysisQ, down, gathering,
                   analyzing, delivering, nextSink, exited, main, timedOut,
                   offered, delivered, settled, strayed>>

(* processAnalysisItem up to Sink.Add: the analyzer's report, or the         *)
(* fallback report built when the analyzer returns an error, is queued; both *)
(* paths end in the same Sink.Add.                                           *)
processAnalysisItem(w) ==
    /\ analyzing[w] # NoWork
    /\ w \notin reported
    /\ AddSink(analyzing[w])
    /\ reported' = reported \cup {w}
    /\ UNCHANGED <<intake, corrVars, ctxDone, gatherQ, analysisQ, down, gathering,
                   analyzing, delivering, nextSink, exited, main, timedOut,
                   offered, delivered, settled, strayed>>

AnalysisDone(w) ==
    /\ w \in reported
    /\ analyzing' = [analyzing EXCEPT ![w] = NoWork]
    /\ reported' = reported \ {w}
    /\ UNCHANGED <<intake, corrVars, ctxDone, queuesVars, gathering, delivering,
                   nextSink, exited, main, history>>

AnalysisExit(w) ==
    /\ w \notin exited
    /\ analyzing[w] = NoWork
    /\ analysisQ = {}
    /\ "analysis" \in down
    /\ exited' = exited \cup {w}
    /\ UNCHANGED <<intake, corrVars, ctxDone, queuesVars, gathering, analyzing,
                   reported, delivering, nextSink, main, history>>

-----------------------------------------------------------------------------
(* Sink workers *)

SinkGet(w) ==
    /\ w \notin exited
    /\ delivering[w] = NoWork
    /\ \E item \in sinkQ :
        /\ delivering' = [delivering EXCEPT ![w] = item]
        /\ sinkQ' = sinkQ \ {item}
    /\ nextSink' = [nextSink EXCEPT ![w] = 1]
    /\ UNCHANGED <<intake, corrVars, ctxDone, gatherQ, analysisQ, down, gathering,
                   analyzing, reported, exited, main, history>>

(* The results a sink's Deliver can have: a remote sink goes through         *)
(* deliverWithRetry, which gives up before the first attempt once the        *)
(* context is cancelled.                                                     *)
DeliverResults(s) ==
    IF s \in LocalSinks THEN {TRUE}
    ELSE IF ctxDone THEN {FALSE}
    ELSE IF SinksMayFail THEN {TRUE, FALSE}
    ELSE {TRUE}

(* Mutant of Deliver: the loop ends at the first failure.                    *)
DeliverUntilFailure(w) ==
    /\ delivering[w] # NoWork
    /\ nextSink[w] <= Len(SinkList)
    /\ LET s == SinkList[nextSink[w]] IN
        /\ offered' = [offered EXCEPT ![s] = @ \cup delivering[w]]
        /\ \E ok \in DeliverResults(s) :
            /\ delivered' = IF ok THEN [delivered EXCEPT ![s] = @ \cup delivering[w]]
                                  ELSE delivered
            /\ nextSink' = [nextSink EXCEPT ![w] = IF ok THEN @ + 1
                                                   ELSE Len(SinkList) + 1]
    /\ UNCHANGED <<intake, corrVars, ctxDone, queuesVars, gathering, analyzing,
                   reported, delivering, exited, main, timedOut, settled, dropped,
                   strayed>>

(* One turn of the loop in processSinkItem: a failure is logged and the loop *)
(* goes on with the next sink.                                               *)
Deliver(w) ==
    /\ delivering[w] # NoWork
    /\ nextSink[w] <= Len(SinkList)
    /\ LET s == SinkList[nextSink[w]] IN
        /\ offered' = [offered EXCEPT ![s] = @ \cup delivering[w]]
        /\ \E ok \in DeliverResults(s) :
            delivered' = IF ok THEN [delivered EXCEPT ![s] = @ \cup delivering[w]]
                               ELSE delivered
    /\ nextSink' = [nextSink EXCEPT ![w] = @ + 1]
    /\ UNCHANGED <<intake, corrVars, ctxDone, queuesVars, gathering, analyzing,
                   reported, delivering, exited, main, timedOut, settled, dropped,
                   strayed>>

(* The loop over p.sinks is over: Sink.Done.                                 *)
SinkDone(w) ==
    /\ delivering[w] # NoWork
    /\ nextSink[w] > Len(SinkList)
    /\ settled' = settled \cup delivering[w]
    /\ delivering' = [delivering EXCEPT ![w] = NoWork]
    /\ UNCHANGED <<intake, corrVars, ctxDone, queuesVars, gathering, analyzing,
                   reported, nextSink, exited, main, timedOut, offered, delivered,
                   dropped, strayed>>

SinkExit(w) ==
    /\ w \notin exited
    /\ delivering[w] = NoWork
    /\ sinkQ = {}
    /\ "sink" \in down
    /\ exited' = exited \cup {w}
    /\ UNCHANGED <<intake, corrVars, ctxDone, queuesVars, gathering, analyzing,
                   reported, delivering, nextSink, main, history>>

-----------------------------------------------------------------------------
(* Shutdown: Controller.Run's ctx.Done, StopAccepting, DrainAndShutdown *)

Goto(from, to) == main = from /\ main' = to

(* The process context is cancelled: the pipeline's context is its child.    *)
ProcessSignal ==
    /\ Goto("serving", "stopAccepting")
    /\ ctxDone' = TRUE
    /\ UNCHANGED <<intake, corrVars, queuesVars, workerVars, history>>

StopAccepting ==
    /\ Goto("stopAccepting", "flush")
    /\ ctxDone' = TRUE
    /\ UNCHANGED <<intake, corrVars, queuesVars, workerVars, history>>

FlushCloses ==
    /\ Goto("flush", "awaitFlush")
    /\ stopCh' = TRUE
    /\ UNCHANGED <<intake, buffer, window, loop, ctxDone, queuesVars, workerVars, history>>

FlushReturns ==
    /\ Goto("awaitFlush", "drainGathering")
    /\ loop = "stopped"
    /\ UNCHANGED <<intake, corrVars, ctxDone, queuesVars, workerVars, history>>

InGathering == UNION {gathering[w] : w \in GatherWorkers}

(* drainStageWithTimeout polls Len() only.                                   *)
GatheringDrained == gatherQ = {}

drainGathering ==
    /\ Goto("drainGathering", "drainAnalysis")
    /\ \/ GatheringDrained /\ UNCHANGED timedOut
       \/ timedOut' = timedOut \cup {"gathering"}
    /\ strayed' = InGathering \cup (Events \ accepted) \cup buffer
    /\ UNCHANGED <<intake, corrVars, ctxDone, queuesVars, workerVars, offered,
                   delivered, settled, dropped>>

(* Mutant of AnalysisDrained: polling Len() as for the other stages.         *)
AnalysisDrainedQueueOnly == analysisQ = {}

(* WaitForDrain looks at the pending and the in-flight items.                *)
AnalysisDrained == analysisQ = {} /\ \A w \in AnalysisWorkers : analyzing[w] = NoWork

drainAnalysis ==
    /\ Goto("drainAnalysis", "drainSink")
    /\ \/ AnalysisDrained /\ UNCHANGED timedOut
       \/ timedOut' = timedOut \cup {"analysis"}
    /\ UNCHANGED <<intake, corrVars, ctxDone, queuesVars, workerVars, offered,
                   delivered, settled, dropped, strayed>>

SinkDrained == sinkQ = {}

drainSink ==
    /\ Goto("drainSink", "shutGathering")
    /\ \/ SinkDrained /\ UNCHANGED timedOut
       \/ timedOut' = timedOut \cup {"sink"}
    /\ UNCHANGED <<intake, corrVars, ctxDone, queuesVars, workerVars, offered,
                   delivered, settled, dropped, strayed>>

(* Queues.ShutDown closes the queues one after the other.                    *)
ShutDownStage(from, stage, to) ==
    /\ Goto(from, to)
    /\ down' = down \cup {stage}
    /\ UNCHANGED <<intake, corrVars, ctxDone, gatherQ, analysisQ, sinkQ, workerVars,
                   history>>

(* Mutant of ShutDownQueues: the sink queue is forgotten.                    *)
ShutDownQueuesNotSink ==
    \/ ShutDownStage("shutGathering", "gathering", "shutAnalysis")
    \/ ShutDownStage("shutAnalysis", "analysis", "wait")

ShutDownQueues ==
    \/ ShutDownStage("shutGathering", "gathering", "shutAnalysis")
    \/ ShutDownStage("shutAnalysis", "analysis", "shutSink")
    \/ ShutDownStage("shutSink", "sink", "wait")

(* p.wg.Wait(): the correlator and every worker have returned.               *)
WorkersGone ==
    /\ Goto("wait", "done")
    /\ exited = Workers
    /\ loop = "stopped"
    /\ UNCHANGED <<intake, corrVars, ctxDone, queuesVars, workerVars, history>>

-----------------------------------------------------------------------------
CorrelatorStep ==
    CorrelatorFlush \/ CorrelatorIdleStop \/ handleCorrelationResult \/ CorrelatorReturn

GatherStep(w) == GatherGet(w) \/ processGatherItem(w) \/ GatherExit(w)

AnalysisStep(w) ==
    AnalysisGet(w) \/ processAnalysisItem(w) \/ AnalysisDone(w) \/ AnalysisExit(w)

SinkStep(w) == SinkGet(w) \/ Deliver(w) \/ SinkDone(w) \/ SinkExit(w)

ShutdownStep ==
    \/ StopAccepting \/ FlushCloses \/ FlushReturns
    \/ drainGathering \/ drainAnalysis \/ drainSink
    \/ ShutDownQueues \/ WorkersGone

Next ==
    \/ \E e \in Events : SubmitFaultEvent(e)
    \/ CorrelatorTick \/ CorrelatorStep
    \/ \E w \in GatherWorkers : GatherStep(w)
    \/ \E w \in AnalysisWorkers : AnalysisStep(w)
    \/ \E w \in SinkWorkers : SinkStep(w)
    \/ ProcessSignal \/ ShutdownStep

SafeSpec == Init /\ [][Next]_vars

(* The window ticker fires; goroutines run; gatherers, analyzers and sinks   *)
(* return (each call has a timeout); the drain phases end by their timers.   *)
(* Nothing makes detectors submit or the process stop.                       *)
Fairness ==
    /\ WF_vars(CorrelatorTick)
    /\ WF_vars(CorrelatorStep)
    /\ \A w \in GatherWorkers : WF_vars(GatherStep(w))
    /\ \A w \in AnalysisWorkers : WF_vars(AnalysisStep(w))
    /\ \A w \in SinkWorkers : WF_vars(SinkStep(w))
    /\ WF_vars(ShutdownStep)

Spec == SafeSpec /\ Fairness

-----------------------------------------------------------------------------
(* Correctness *)

WorkItems == SUBSET Events

(* Every variable keeps its type.                                            *)
TypeOK ==
    /\ correlating \in BOOLEAN
    /\ accepted \subseteq Events /\ buffer \subseteq Events /\ window \subseteq WorkItems
    /\ loop \in {"running", "flushing", "stopped"}
    /\ ctxDone \in BOOLEAN /\ stopCh \in BOOLEAN
    /\ gatherQ \subseteq WorkItems /\ analysisQ \subseteq WorkItems
    /\ sinkQ \subseteq WorkItems
    /\ down \subseteq Stages /\ timedOut \subseteq Stages
    /\ gathering \in [GatherWorkers -> WorkItems]
    /\ analyzing \in [AnalysisWorkers -> WorkItems]
    /\ delivering \in [SinkWorkers -> WorkItems]
    /\ nextSink \in [SinkWorkers -> 1..(Len(SinkList) + 1)]
    /\ reported \subseteq AnalysisWorkers
    /\ exited \subseteq Workers
    /\ main \in {"serving", "stopAccepting", "flush", "awaitFlush",
                 "drainGathering", "drainAnalysis", "drainSink",
                 "shutGathering", "shutAnalysis", "shutSink", "wait", "done"}
    /\ offered \in [Sinks -> SUBSET Events]
    /\ delivered \in [Sinks -> SUBSET Events]
    /\ settled \subseteq Events /\ dropped \subseteq Events
    /\ strayed \subseteq Events

(* The places an accepted event can be, as a bag of sets.                    *)
Places ==
    {<<"buffer", buffer>>, <<"settled", settled>>, <<"dropped", dropped>>}
        \cup {<<"window", x>> : x \in window}
        \cup {<<"gatherQ", x>> : x \in gatherQ}
        \cup {<<"analysisQ", x>> : x \in analysisQ}
        \cup {<<"sinkQ", x>> : x \in sinkQ}
        \cup {<<w, gathering[w]>> : w \in GatherWorkers}
        \cup {<<w, analyzing[w]>> : w \in AnalysisWorkers \ reported}
        \cup {<<w, delivering[w]>> : w \in SinkWorkers}

(* No event is duplicated and none vanishes: every accepted event is in      *)
(* exactly one place, and nothing else is anywhere.                          *)
EveryEventInOnePlace ==
    /\ TypeOK
    /\ accepted = UNION {p[2] : p \in Places}
    /\ \A p, q \in Places : p = q \/ p[2] \cap q[2] = {}

(* A sink that fails does not keep the report from the sinks after it: when  *)
(* a report is settled, every configured sink has been given it, and no sink *)
(* was given a report that the sinks before it were not.                     *)
EverySinkIsOffered ==
    /\ \A s \in Sinks : settled \subseteq offered[s] /\ delivered[s] \subseteq offered[s]
    /\ \A j, k \in 1..Len(SinkList) :
        j < k => offered[SinkList[k]] \subseteq offered[SinkList[j]]

(* When no drain phase times out, the only accepted events that can be lost  *)
(* are those a gathering worker held when the gathering drain looked at the  *)
(* queue, or that were submitted after that: the flush, the analysis drain   *)
(* with its in-flight count and the order in which the queues are shut down  *)
(* protect all the others.                                                   *)
LossesAreExplained == timedOut = {} => dropped \subseteq strayed

(* Shutdown comes to an end, whatever the workers are doing, and then no     *)
(* queue holds an item any more.                                             *)
ShutdownCompletes ==
    main = "stopAccepting" ~>
        /\ main = "done"
        /\ gatherQ = {} /\ analysisQ = {} /\ sinkQ = {} /\ window = {}
        /\ accepted = settled \cup dropped \cup buffer

Promise == INSTANCE EventDelivery WITH
    lost <- dropped,
    stopping <- ctxDone

(* The pipeline implements EventDelivery: before shutdown nothing is lost.   *)
ImplementsEventDelivery == Promise!SafeSpec

(* While it is not asked to stop, the pipeline puts every accepted event     *)
(* before every sink.                                                        *)
AcceptedIsSettled == Promise!ServesWhileRunning
=============================================================================
