--------------------------- MODULE PipelineProofs ---------------------------
(* Proofs about Pipeline, for any events, any numbers of workers and any     *)
(* list of sinks.                                                            *)
EXTENDS Pipeline, TLAPS

(* The pipeline starts well typed.                                           *)
LEMMA TypeInit == Init => TypeOK
<1> SUFFICES ASSUME Init PROVE TypeOK
  OBVIOUS
<1>1. 1 \in 1..(Len(SinkList) + 1)
  BY SinkListAssumption
<1>2. nextSink \in [SinkWorkers -> 1..(Len(SinkList) + 1)]
  BY <1>1 DEF Init
<1> QED BY <1>2 DEF Init, TypeOK, WorkItems, Stages, NoWork

(* Every step keeps every variable in its type.                              *)
LEMMA TypeStep == TypeOK /\ [Next]_vars => TypeOK'
<1> SUFFICES ASSUME TypeOK, [Next]_vars PROVE TypeOK'
  OBVIOUS
<1> USE DEF TypeOK, WorkItems, Stages, NoWork, history, queuesVars, workerVars,
            corrVars, intake
<1>1. ASSUME NEW e \in Events, SubmitFaultEvent(e) PROVE TypeOK'
  BY <1>1 DEF SubmitFaultEvent, AddGathering
<1>2. ASSUME CorrelatorTick \/ CorrelatorFlush PROVE TypeOK'
  <2>1. window' \subseteq SUBSET buffer /\ buffer' = {}
    BY <1>2 DEF CorrelatorTick, CorrelatorFlush, TakeWindow, Partitions
  <2> QED BY <1>2, <2>1 DEF CorrelatorTick, CorrelatorFlush
<1>3. ASSUME CorrelatorIdleStop \/ CorrelatorReturn PROVE TypeOK'
  BY <1>3 DEF CorrelatorIdleStop, CorrelatorReturn
<1>4. ASSUME handleCorrelationResult PROVE TypeOK'
  BY <1>4 DEF handleCorrelationResult, AddGathering
<1>5. ASSUME NEW w \in GatherWorkers, GatherStep(w) PROVE TypeOK'
  <2>1. CASE GatherGet(w)
    BY <2>1 DEF GatherGet
  <2>2. CASE processGatherItem(w)
    BY <2>2 DEF processGatherItem
  <2>3. CASE GatherExit(w)
    BY <2>3 DEF GatherExit, Workers
  <2> QED BY <1>5, <2>1, <2>2, <2>3 DEF GatherStep
<1>6. ASSUME NEW w \in AnalysisWorkers, AnalysisStep(w) PROVE TypeOK'
  <2>1. CASE AnalysisGet(w)
    BY <2>1 DEF AnalysisGet
  <2>2. CASE processAnalysisItem(w)
    BY <2>2 DEF processAnalysisItem, AddSink
  <2>3. CASE AnalysisDone(w)
    BY <2>3 DEF AnalysisDone
  <2>4. CASE AnalysisExit(w)
    BY <2>4 DEF AnalysisExit, Workers
  <2> QED BY <1>6, <2>1, <2>2, <2>3, <2>4 DEF AnalysisStep
<1>7. ASSUME NEW w \in SinkWorkers, SinkStep(w) PROVE TypeOK'
  <2>0. Len(SinkList) \in Nat
    BY SinkListAssumption
  <2>1. CASE SinkGet(w)
    BY <2>0, <2>1 DEF SinkGet
  <2>2. CASE Deliver(w)
    <3>1. nextSink[w] + 1 \in 1..(Len(SinkList) + 1)
      BY <2>0, <2>2 DEF Deliver
    <3>2. nextSink' \in [SinkWorkers -> 1..(Len(SinkList) + 1)]
      BY <2>2, <3>1 DEF Deliver
    <3>3. /\ offered' \in [Sinks -> SUBSET Events]
          /\ delivered' \in [Sinks -> SUBSET Events]
      <4> DEFINE s == SinkList[nextSink[w]]
      <4>1. PICK ok \in DeliverResults(s) :
               /\ offered' = [offered EXCEPT ![s] = @ \cup delivering[w]]
               /\ delivered' = IF ok THEN [delivered EXCEPT ![s] = @ \cup delivering[w]]
                                     ELSE delivered
        BY <2>2 DEF Deliver
      <4> HIDE DEF s
      <4> QED BY <4>1
    <3> QED BY <2>2, <3>2, <3>3 DEF Deliver
  <2>3. CASE SinkDone(w)
    BY <2>3 DEF SinkDone
  <2>4. CASE SinkExit(w)
    BY <2>4 DEF SinkExit, Workers
  <2> QED BY <1>7, <2>1, <2>2, <2>3, <2>4 DEF SinkStep
<1>8. CASE ProcessSignal
  BY <1>8 DEF ProcessSignal, Goto
<1>9. CASE ShutdownStep
  <2>1. CASE StopAccepting \/ FlushCloses \/ FlushReturns \/ WorkersGone
    BY <2>1 DEF StopAccepting, FlushCloses, FlushReturns, WorkersGone, Goto
  <2>2. CASE drainGathering
    <3>1. InGathering \subseteq Events
      BY DEF InGathering
    <3> QED BY <2>2, <3>1 DEF drainGathering, Goto
  <2>3. CASE drainAnalysis \/ drainSink
    BY <2>3 DEF drainAnalysis, drainSink, Goto
  <2>4. CASE ShutDownQueues
    BY <2>4 DEF ShutDownQueues, ShutDownStage, Goto
  <2> QED BY <1>9, <2>1, <2>2, <2>3, <2>4 DEF ShutdownStep
<1>10. CASE UNCHANGED vars
  BY <1>10 DEF vars
<1> QED
  BY <1>1, <1>2, <1>3, <1>4, <1>5, <1>6, <1>7, <1>8, <1>9, <1>10
  DEF Next, CorrelatorStep

(* The pipeline's state keeps its type.                                      *)
THEOREM TypeCorrect == SafeSpec => []TypeOK
BY TypeInit, TypeStep, PTL DEF SafeSpec

-----------------------------------------------------------------------------
(* What the sinks are given *)

(* EverySinkIsOffered with its reason: the loop over p.sinks has given the   *)
(* report to every sink it has passed.                                       *)
OfferInv ==
    /\ EverySinkIsOffered
    /\ \A w \in SinkWorkers : \A k \in 1..Len(SinkList) :
        k < nextSink[w] => delivering[w] \subseteq offered[SinkList[k]]

(* A report is settled only when its worker has passed the whole list.       *)
LEMMA OfferStep == TypeOK /\ OfferInv /\ [Next]_vars => OfferInv'
<1> SUFFICES ASSUME TypeOK, OfferInv, [Next]_vars PROVE OfferInv'
  OBVIOUS
<1> USE DEF NoWork, history, queuesVars, workerVars, corrVars, intake
<1>1. CASE UNCHANGED <<delivering, nextSink, offered, delivered, settled>>
  BY <1>1 DEF OfferInv, EverySinkIsOffered
<1>2. ASSUME NEW w \in SinkWorkers, SinkGet(w) PROVE OfferInv'
  <2>1. nextSink'[w] = 1 /\ \A v \in SinkWorkers \ {w} :
            nextSink'[v] = nextSink[v] /\ delivering'[v] = delivering[v]
    BY <1>2 DEF SinkGet, TypeOK
  <2>2. UNCHANGED <<offered, delivered, settled>>
    BY <1>2 DEF SinkGet
  <2>3. ASSUME NEW v \in SinkWorkers, NEW k \in 1..Len(SinkList), k < nextSink'[v]
        PROVE  delivering'[v] \subseteq offered'[SinkList[k]]
    <3>1. v # w
      BY <2>1, <2>3, SinkListAssumption
    <3> QED BY <2>1, <2>2, <2>3, <3>1 DEF OfferInv
  <2> QED BY <2>2, <2>3 DEF OfferInv, EverySinkIsOffered
<1>3. ASSUME NEW w \in SinkWorkers, Deliver(w) PROVE OfferInv'
  <2> DEFINE m == nextSink[w]
             D == delivering[w]
  <2>1. /\ m \in 1..Len(SinkList) /\ D \subseteq Events
        /\ \A k \in 1..Len(SinkList) : SinkList[k] \in Sinks
    BY <1>3 DEF Deliver, TypeOK, WorkItems, Sinks
  <2>2. PICK ok \in DeliverResults(SinkList[m]) :
           /\ offered' = [offered EXCEPT ![SinkList[m]] = @ \cup D]
           /\ delivered' = IF ok THEN [delivered EXCEPT ![SinkList[m]] = @ \cup D]
                                 ELSE delivered
    BY <1>3 DEF Deliver
  <2>3. UNCHANGED <<delivering, settled>> /\ nextSink' = [nextSink EXCEPT ![w] = m + 1]
    BY <1>3 DEF Deliver
  <2>4. /\ offered \in [Sinks -> SUBSET Events] /\ delivered \in [Sinks -> SUBSET Events]
        /\ nextSink \in [SinkWorkers -> 1..(Len(SinkList) + 1)]
    BY DEF TypeOK
  <2>5. \A k \in 1..Len(SinkList) : k < m => D \subseteq offered[SinkList[k]]
    BY DEF OfferInv
  <2>6. Len(SinkList) \in Nat
    BY SinkListAssumption
  <2> HIDE DEF m, D
  <2>7. /\ \A s \in Sinks : offered[s] \subseteq offered'[s]
        /\ \A s \in Sinks : offered'[s] \subseteq offered[s] \cup D
        /\ \A s \in Sinks \ {SinkList[m]} : offered'[s] = offered[s]
        /\ D \subseteq offered'[SinkList[m]]
    BY <2>1, <2>2, <2>4
  <2>8. \A s \in Sinks : settled' \subseteq offered'[s] /\ delivered'[s] \subseteq offered'[s]
    <3> SUFFICES ASSUME NEW s \in Sinks
                 PROVE  settled' \subseteq offered'[s] /\ delivered'[s] \subseteq offered'[s]
      OBVIOUS
    <3>1. settled \subseteq offered[s] /\ delivered[s] \subseteq offered[s]
      BY DEF OfferInv, EverySinkIsOffered
    <3>2. CASE s = SinkList[m]
      <4>1. delivered'[s] \subseteq delivered[s] \cup D
        BY <2>2, <2>4
      <4> QED BY <2>3, <2>7, <3>1, <3>2, <4>1
    <3>3. CASE s # SinkList[m]
      <4>1. delivered'[s] = delivered[s]
        BY <2>2, <2>4, <3>3
      <4> QED BY <2>3, <2>7, <3>1, <4>1
    <3> QED BY <3>2, <3>3
  <2>9. ASSUME NEW j \in 1..Len(SinkList), NEW k \in 1..Len(SinkList), j < k
        PROVE  offered'[SinkList[k]] \subseteq offered'[SinkList[j]]
    <3>1. offered[SinkList[k]] \subseteq offered[SinkList[j]]
      BY <2>9 DEF OfferInv, EverySinkIsOffered
    <3>2. CASE k = m
      <4>1. D \subseteq offered[SinkList[j]]
        BY <2>5, <2>9, <3>2
      <4> QED BY <2>1, <2>7, <3>1, <4>1
    <3>3. CASE k # m
      <4>1. SinkList[k] # SinkList[m]
        BY <2>1, <3>3, SinkListAssumption
      <4> QED BY <2>1, <2>7, <3>1, <4>1
    <3> QED BY <3>2, <3>3
  <2>10. ASSUME NEW v \in SinkWorkers, NEW k \in 1..Len(SinkList), k < nextSink'[v]
         PROVE  delivering'[v] \subseteq offered'[SinkList[k]]
    <3>1. CASE v = w
      <4>1. k <= m
        BY <2>1, <2>3, <2>4, <2>6, <2>10, <3>1
      <4>2. delivering'[v] = D
        BY <2>3, <3>1 DEF D
      <4>3. CASE k = m
        BY <2>7, <4>2, <4>3
      <4>4. CASE k < m
        BY <2>1, <2>5, <2>7, <4>2, <4>4
      <4> QED BY <2>1, <4>1, <4>3, <4>4
    <3>2. CASE v # w
      <4>1. k < nextSink[v] /\ delivering'[v] = delivering[v]
        BY <2>3, <2>4, <2>10, <3>2
      <4>2. delivering[v] \subseteq offered[SinkList[k]]
        BY <4>1 DEF OfferInv
      <4> QED BY <2>1, <2>7, <4>1, <4>2
    <3> QED BY <3>1, <3>2
  <2> QED BY <2>8, <2>9, <2>10 DEF OfferInv, EverySinkIsOffered
<1>4. ASSUME NEW w \in SinkWorkers, SinkDone(w) PROVE OfferInv'
  <2>1. \A k \in 1..Len(SinkList) : k < nextSink[w]
    BY <1>4, SinkListAssumption DEF SinkDone, TypeOK
  <2>2. \A s \in Sinks : delivering[w] \subseteq offered[s]
    BY <2>1 DEF OfferInv, Sinks
  <2>3. /\ settled' = settled \cup delivering[w]
        /\ UNCHANGED <<nextSink, offered, delivered>>
        /\ \A v \in SinkWorkers : delivering'[v] \subseteq delivering[v]
    BY <1>4 DEF SinkDone, TypeOK
  <2> QED BY <2>2, <2>3 DEF OfferInv, EverySinkIsOffered
<1> QED
  BY <1>1, <1>2, <1>3, <1>4
  DEF Next, CorrelatorStep, GatherStep, AnalysisStep, SinkStep, ShutdownStep,
      SubmitFaultEvent, CorrelatorTick, CorrelatorFlush, CorrelatorIdleStop,
      handleCorrelationResult, CorrelatorReturn, GatherGet, processGatherItem,
      GatherExit, AnalysisGet, processAnalysisItem, AnalysisDone, AnalysisExit,
      SinkExit, ProcessSignal, StopAccepting, FlushCloses, FlushReturns,
      drainGathering, drainAnalysis, drainSink, ShutDownQueues, ShutDownStage,
      WorkersGone, vars

(* For any list of sinks and any number of sink workers, a failing sink      *)
(* keeps no report from the sinks after it.                                  *)
THEOREM EverySinkIsOfferedCorrect == SafeSpec => []EverySinkIsOffered
<1>1. Init => OfferInv
  <2> SUFFICES ASSUME Init PROVE OfferInv
    OBVIOUS
  <2>1. \A k \in 1..Len(SinkList) : SinkList[k] \in Sinks
    BY DEF Sinks
  <2> QED BY <2>1 DEF Init, OfferInv, EverySinkIsOffered, NoWork
<1>2. OfferInv => EverySinkIsOffered
  BY DEF OfferInv
<1> QED BY <1>1, <1>2, OfferStep, TypeCorrect, PTL DEF SafeSpec

-----------------------------------------------------------------------------
(* What shutdown may lose *)

(* Past the end of Flush, of the gathering drain, of the analysis drain.     *)
Drained == {"drainSink", "shutGathering", "shutAnalysis", "shutSink", "wait", "done"}
Flushed == Drained \cup {"drainGathering", "drainAnalysis"}
PastGathering == Drained \cup {"drainAnalysis"}

Analyzing(w) == IF w \in reported THEN NoWork ELSE analyzing[w]

(* LossesAreExplained with its reasons: no queue refuses an item before the  *)
(* shutdown sequence has reached Queues.ShutDown, the correlator has         *)
(* returned by then, and what is still upstream of a finished drain is       *)
(* strayed.                                                                  *)
LossInv ==
    /\ main # "serving" => ctxDone
    /\ down # {} => main \in {"shutAnalysis", "shutSink", "wait", "done"}
    /\ down = {} => dropped = {}
    /\ loop = "stopped" => window = {}
    /\ main \in Flushed => loop = "stopped"
    /\ main \in PastGathering /\ timedOut = {} =>
        /\ Events \ accepted \subseteq strayed
        /\ buffer \subseteq strayed
        /\ UNION gatherQ \subseteq strayed
        /\ InGathering \subseteq strayed
    /\ main \in Drained /\ timedOut = {} =>
        /\ UNION analysisQ \subseteq strayed
        /\ \A w \in AnalysisWorkers : Analyzing(w) \subseteq strayed
    /\ LossesAreExplained

(* Queues as sets of items, by the events in them.                           *)
LEMMA QueueUnion ==
    ASSUME NEW Q, NEW x
    PROVE  /\ UNION (Q \cup {x}) = (UNION Q) \cup x
           /\ UNION (Q \ {x}) \subseteq UNION Q
           /\ x \in Q => x \subseteq UNION Q
OBVIOUS

(* Each drain and each handler keeps what is upstream of it strayed.         *)
LEMMA LossStep == TypeOK /\ LossInv /\ [Next]_vars => LossInv'
<1> SUFFICES ASSUME TypeOK, LossInv, [Next]_vars PROVE LossInv'
  OBVIOUS
<1> USE DEF NoWork, history, queuesVars, workerVars, corrVars, intake
<1> DEFINE Late == {"shutAnalysis", "shutSink", "wait", "done"}
<1>0. /\ Late \subseteq Drained /\ Drained \subseteq PastGathering
      /\ PastGathering \subseteq Flushed
      /\ "drainAnalysis" \notin Drained /\ "drainGathering" \notin PastGathering
      /\ "awaitFlush" \notin Flushed /\ "serving" \notin Flushed
  BY DEF Drained, PastGathering, Flushed
<1>1. ASSUME NEW e \in Events, SubmitFaultEvent(e) PROVE LossInv'
  <2>1. /\ e \notin accepted /\ accepted' = accepted \cup {e}
        /\ UNCHANGED <<main, ctxDone, loop, window, down, analysisQ, gathering, analyzing,
                       reported, timedOut, strayed>>
    BY <1>1 DEF SubmitFaultEvent
  <2>2. /\ buffer' \subseteq buffer \cup {e}
        /\ UNION gatherQ' \subseteq (UNION gatherQ) \cup {e}
        /\ dropped' \subseteq dropped \cup {e}
        /\ down = {} => dropped' = dropped
    BY <1>1, QueueUnion DEF SubmitFaultEvent, AddGathering
  <2>3. InGathering' = InGathering /\ \A w \in AnalysisWorkers : Analyzing(w)' = Analyzing(w)
    BY <2>1 DEF InGathering, Analyzing
  <2>4. main \in PastGathering /\ timedOut = {} => e \in strayed
    BY <2>1 DEF LossInv
  <2> QED BY <1>0, <2>1, <2>2, <2>3, <2>4 DEF LossInv, LossesAreExplained
<1>2. ASSUME CorrelatorTick \/ CorrelatorFlush PROVE LossInv'
  <2>1. /\ loop = "running" /\ loop' # "stopped" /\ buffer' = {}
        /\ UNCHANGED <<main, ctxDone, accepted, down, gatherQ, analysisQ, gathering,
                       analyzing, reported, timedOut, strayed, dropped>>
    BY <1>2 DEF CorrelatorTick, CorrelatorFlush, TakeWindow
  <2>2. InGathering' = InGathering /\ \A w \in AnalysisWorkers : Analyzing(w)' = Analyzing(w)
    BY <2>1 DEF InGathering, Analyzing
  <2> QED BY <1>0, <2>1, <2>2 DEF LossInv, LossesAreExplained
<1>3. ASSUME CorrelatorIdleStop \/ CorrelatorReturn PROVE LossInv'
  <2>1. /\ loop # "stopped" /\ (loop' = "stopped" => window = {})
        /\ UNCHANGED <<main, ctxDone, accepted, buffer, window, down, gatherQ, analysisQ,
                       gathering, analyzing, reported, timedOut, strayed, dropped>>
    BY <1>3 DEF CorrelatorIdleStop, CorrelatorReturn
  <2>2. InGathering' = InGathering /\ \A w \in AnalysisWorkers : Analyzing(w)' = Analyzing(w)
    BY <2>1 DEF InGathering, Analyzing
  <2> QED BY <1>0, <2>1, <2>2 DEF LossInv, LossesAreExplained
<1>4. CASE handleCorrelationResult
  <2>1. /\ loop # "stopped"
        /\ UNCHANGED <<main, ctxDone, accepted, buffer, loop, down, analysisQ,
                       gathering, analyzing, reported, timedOut, strayed>>
    BY <1>4 DEF handleCorrelationResult, LossInv
  <2>2. main \notin Flushed /\ down = {}
    BY <1>0, <2>1 DEF LossInv
  <2>3. dropped' = dropped
    BY <1>4, <2>2 DEF handleCorrelationResult, AddGathering
  <2> QED BY <1>0, <2>1, <2>2, <2>3 DEF LossInv, LossesAreExplained
<1>5. ASSUME NEW w \in GatherWorkers, GatherGet(w) PROVE LossInv'
  <2>1. PICK item \in gatherQ :
           /\ gathering' = [gathering EXCEPT ![w] = item]
           /\ gatherQ' = gatherQ \ {item}
    BY <1>5 DEF GatherGet
  <2>2. UNCHANGED <<main, ctxDone, accepted, buffer, window, loop, down, analysisQ,
                    analyzing, reported, timedOut, strayed, dropped>>
    BY <1>5 DEF GatherGet
  <2>3. InGathering' \subseteq InGathering \cup UNION gatherQ
    <3>1. \A v \in GatherWorkers : gathering'[v] = gathering[v] \/ gathering'[v] = item
      BY <2>1 DEF TypeOK
    <3>2. InGathering' = UNION {gathering'[v] : v \in GatherWorkers}
      BY DEF InGathering
    <3> QED BY <2>1, <3>1, <3>2 DEF InGathering
  <2>4. UNION gatherQ' \subseteq UNION gatherQ
    BY <2>1, QueueUnion
  <2>5. \A v \in AnalysisWorkers : Analyzing(v)' = Analyzing(v)
    BY <2>2 DEF Analyzing
  <2> QED BY <1>0, <2>2, <2>3, <2>4, <2>5 DEF LossInv, LossesAreExplained
<1>6. ASSUME NEW w \in GatherWorkers, processGatherItem(w) PROVE LossInv'
  <2>1. /\ UNCHANGED <<main, ctxDone, accepted, buffer, window, loop, down, gatherQ,
                       analyzing, reported, timedOut, strayed>>
        /\ gathering' = [gathering EXCEPT ![w] = {}]
    BY <1>6 DEF processGatherItem
  <2>2. gathering[w] \subseteq InGathering
    BY DEF InGathering
  <2>3. InGathering' \subseteq InGathering
    <3>1. \A v \in GatherWorkers : gathering'[v] = gathering[v] \/ gathering'[v] = {}
      BY <2>1 DEF TypeOK
    <3>2. InGathering' = UNION {gathering'[v] : v \in GatherWorkers}
      BY DEF InGathering
    <3> QED BY <3>1, <3>2 DEF InGathering
  <2>4. \A v \in AnalysisWorkers : Analyzing(v)' = Analyzing(v)
    BY <2>1 DEF Analyzing
  <2>5. /\ UNION analysisQ' \subseteq (UNION analysisQ) \cup gathering[w]
        /\ dropped' \subseteq dropped \cup gathering[w]
        /\ down = {} => dropped' = dropped
    BY <1>6, QueueUnion DEF processGatherItem
  <2>6. main \in PastGathering /\ timedOut = {} => gathering[w] \subseteq strayed
    BY <2>2 DEF LossInv
  <2> QED BY <1>0, <2>1, <2>3, <2>4, <2>5, <2>6 DEF LossInv, LossesAreExplained
<1>7. ASSUME NEW w \in AnalysisWorkers, AnalysisGet(w) PROVE LossInv'
  <2>1. PICK item \in analysisQ :
           /\ analyzing' = [analyzing EXCEPT ![w] = item]
           /\ analysisQ' = analysisQ \ {item}
    BY <1>7 DEF AnalysisGet
  <2>2. UNCHANGED <<main, ctxDone, accepted, buffer, window, loop, down, gatherQ,
                    gathering, reported, timedOut, strayed, dropped>>
    BY <1>7 DEF AnalysisGet
  <2>3. \A v \in AnalysisWorkers : Analyzing(v)' \subseteq Analyzing(v) \cup UNION analysisQ
    <3>1. \A v \in AnalysisWorkers : analyzing'[v] = analyzing[v] \/ analyzing'[v] = item
      BY <2>1 DEF TypeOK
    <3> QED BY <2>1, <2>2, <3>1 DEF Analyzing
  <2>4. UNION analysisQ' \subseteq UNION analysisQ
    BY <2>1, QueueUnion
  <2>5. InGathering' = InGathering
    BY <2>2 DEF InGathering
  <2> QED BY <1>0, <2>2, <2>3, <2>4, <2>5 DEF LossInv, LossesAreExplained
<1>8. ASSUME NEW w \in AnalysisWorkers, processAnalysisItem(w) PROVE LossInv'
  <2>1. /\ UNCHANGED <<main, ctxDone, accepted, buffer, window, loop, down, gatherQ,
                       analysisQ, gathering, analyzing, timedOut, strayed>>
        /\ reported' = reported \cup {w} /\ w \notin reported
    BY <1>8 DEF processAnalysisItem
  <2>2. \A v \in AnalysisWorkers : Analyzing(v)' \subseteq Analyzing(v)
    BY <2>1 DEF Analyzing
  <2>3. /\ dropped' \subseteq dropped \cup Analyzing(w)
        /\ down = {} => dropped' = dropped
    BY <1>8 DEF processAnalysisItem, AddSink, Analyzing
  <2>4. InGathering' = InGathering
    BY <2>1 DEF InGathering
  <2> QED BY <1>0, <2>1, <2>2, <2>3, <2>4 DEF LossInv, LossesAreExplained
<1>9. ASSUME NEW w \in AnalysisWorkers, AnalysisDone(w) PROVE LossInv'
  <2>1. /\ UNCHANGED <<main, ctxDone, accepted, buffer, window, loop, down, gatherQ,
                       analysisQ, gathering, timedOut, strayed, dropped>>
        /\ reported' = reported \ {w}
        /\ analyzing' = [analyzing EXCEPT ![w] = {}]
    BY <1>9 DEF AnalysisDone
  <2>2. \A v \in AnalysisWorkers : Analyzing(v)' \subseteq Analyzing(v)
    BY <2>1 DEF Analyzing, TypeOK
  <2>3. InGathering' = InGathering
    BY <2>1 DEF InGathering
  <2> QED BY <1>0, <2>1, <2>2, <2>3 DEF LossInv, LossesAreExplained
<1>10. ASSUME UNCHANGED <<main, ctxDone, accepted, buffer, window, loop, down, gatherQ,
                          analysisQ, gathering, analyzing, reported, timedOut,
                          strayed, dropped>>
       PROVE  LossInv'
  BY <1>10 DEF LossInv, LossesAreExplained, InGathering, Analyzing
<1>11. CASE ProcessSignal \/ StopAccepting \/ FlushCloses \/ FlushReturns \/ WorkersGone
  <2>1. /\ UNCHANGED <<accepted, buffer, window, loop, down, gatherQ, analysisQ, gathering,
                       analyzing, reported, timedOut, strayed, dropped>>
        /\ ctxDone' = ctxDone \/ ctxDone' = TRUE
    BY <1>11 DEF ProcessSignal, StopAccepting, FlushCloses, FlushReturns, WorkersGone
  <2>2. InGathering' = InGathering /\ \A w \in AnalysisWorkers : Analyzing(w)' = Analyzing(w)
    BY <2>1 DEF InGathering, Analyzing
  <2>3. /\ main' # "serving" /\ (main = "serving" => ctxDone')
        /\ main' \in PastGathering => main \in Drained /\ main' \in Drained
        /\ main' \in Flushed => loop = "stopped"
        /\ main \in Late => main' \in Late
    BY <1>11 DEF ProcessSignal, StopAccepting, FlushCloses, FlushReturns, WorkersGone, Goto,
       Drained, Flushed, PastGathering, LossInv
  <2> QED BY <1>0, <2>1, <2>2, <2>3 DEF LossInv, LossesAreExplained
<1>12. CASE drainGathering
  <2>1. /\ UNCHANGED <<ctxDone, accepted, buffer, window, loop, down, gatherQ, analysisQ,
                       gathering, analyzing, reported, dropped>>
        /\ main = "drainGathering" /\ main' = "drainAnalysis"
        /\ strayed' = InGathering \cup (Events \ accepted) \cup buffer
        /\ timedOut' = {} => gatherQ = {}
    BY <1>12 DEF drainGathering, Goto, GatheringDrained
  <2>2. InGathering' = InGathering
    BY <2>1 DEF InGathering
  <2>3. down = {} /\ dropped = {} /\ loop = "stopped" /\ ctxDone /\ window = {}
    BY <2>1 DEF LossInv, Flushed
  <2> QED BY <1>0, <2>1, <2>2, <2>3 DEF LossInv, LossesAreExplained
<1>13. CASE drainAnalysis
  <2>1. /\ UNCHANGED <<ctxDone, accepted, buffer, window, loop, down, gatherQ, analysisQ,
                       gathering, analyzing, reported, dropped, strayed>>
        /\ main = "drainAnalysis" /\ main' = "drainSink"
        /\ timedOut' = {} =>
             timedOut = {} /\ analysisQ = {} /\ \A w \in AnalysisWorkers : analyzing[w] = {}
    BY <1>13 DEF drainAnalysis, Goto, AnalysisDrained
  <2>2. /\ InGathering' = InGathering
        /\ timedOut' = {} => \A w \in AnalysisWorkers : Analyzing(w)' = {}
    BY <2>1 DEF InGathering, Analyzing
  <2>3. main \in PastGathering /\ main \in Flushed /\ main # "serving" /\ main \notin Late
    BY <2>1 DEF PastGathering, Flushed
  <2> QED BY <1>0, <2>1, <2>2, <2>3 DEF LossInv, LossesAreExplained
<1>14. CASE drainSink
  <2>1. /\ UNCHANGED <<ctxDone, accepted, buffer, window, loop, down, gatherQ, analysisQ,
                       gathering, analyzing, reported, dropped, strayed>>
        /\ main = "drainSink" /\ main' = "shutGathering"
        /\ timedOut' = {} => timedOut = {}
    BY <1>14 DEF drainSink, Goto
  <2>2. InGathering' = InGathering /\ \A w \in AnalysisWorkers : Analyzing(w)' = Analyzing(w)
    BY <2>1 DEF InGathering, Analyzing
  <2>3. main \in Drained /\ main # "serving" /\ main \notin Late
    BY <2>1 DEF Drained
  <2> QED BY <1>0, <2>1, <2>2, <2>3 DEF LossInv, LossesAreExplained
<1>15. CASE ShutDownQueues
  <2>1. /\ UNCHANGED <<ctxDone, accepted, buffer, window, loop, gatherQ, analysisQ,
                       gathering, analyzing, reported, dropped, strayed, timedOut>>
        /\ main \in Drained /\ main # "serving" /\ main' \in Late /\ down' # {}
    BY <1>15 DEF ShutDownQueues, ShutDownStage, Goto, Drained
  <2>2. InGathering' = InGathering /\ \A w \in AnalysisWorkers : Analyzing(w)' = Analyzing(w)
    BY <2>1 DEF InGathering, Analyzing
  <2> QED BY <1>0, <2>1, <2>2 DEF LossInv, LossesAreExplained
<1> QED
  BY <1>1, <1>2, <1>3, <1>4, <1>5, <1>6, <1>7, <1>8, <1>9, <1>10, <1>11, <1>12, <1>13,
     <1>14, <1>15
  DEF Next, CorrelatorStep, GatherStep, AnalysisStep, SinkStep, ShutdownStep,
      GatherExit, AnalysisExit, SinkGet, Deliver, SinkDone, SinkExit, vars

(* Initially nothing is dropped and no queue is shut down.                   *)
LEMMA LossInit == Init => LossInv
BY DEF Init, LossInv, LossesAreExplained, Drained, Flushed, PastGathering

(* For any events, workers and sinks: as long as no drain phase times out,   *)
(* shutdown loses only what a gathering worker held when the gathering drain *)
(* looked, or what was submitted, or still buffered, after that.             *)
THEOREM LossesAreExplainedCorrect == SafeSpec => []LossesAreExplained
<1>1. LossInv => LossesAreExplained
  BY DEF LossInv
<1> QED BY <1>1, LossInit, LossStep, TypeCorrect, PTL DEF SafeSpec

-----------------------------------------------------------------------------
(* Where an event is *)

StageNames == {"outside", "buffer", "window", "gatherQ", "gathering", "analysisQ",
               "analyzing", "sinkQ", "delivering", "settled", "dropped"}

Analyzed == [w \in AnalysisWorkers |-> Analyzing(w)]

Hands(f, W) == UNION {f[w] : w \in W}

(* The events at each stage.  A report that is already in the sink queue is  *)
(* no longer counted with the worker that still has to call Analysis.Done.   *)
At == [outside    |-> Events \ accepted,
       buffer     |-> buffer,
       window     |-> UNION window,
       gatherQ    |-> UNION gatherQ,
       gathering  |-> Hands(gathering, GatherWorkers),
       analysisQ  |-> UNION analysisQ,
       analyzing  |-> Hands(Analyzed, AnalysisWorkers),
       sinkQ      |-> UNION sinkQ,
       delivering |-> Hands(delivering, SinkWorkers),
       settled    |-> settled,
       dropped    |-> dropped]

Partition(A) ==
    /\ \A s, t \in StageNames : s # t => A[s] \cap A[t] = {}
    /\ \A e \in Events : \E s \in StageNames : e \in A[s]

DisjointSets(Q) == \A x, y \in Q : x = y \/ x \cap y = {}
DisjointHands(f, W) == \A v, w \in W : v = w \/ f[v] \cap f[w] = {}

(* EveryEventInOnePlace in two levels: the stages partition the events, and  *)
(* no two items of one stage share an event.                                 *)
PlaceInv ==
    /\ Partition(At)
    /\ DisjointSets(window) /\ DisjointSets(gatherQ)
    /\ DisjointSets(analysisQ) /\ DisjointSets(sinkQ)
    /\ DisjointHands(gathering, GatherWorkers)
    /\ DisjointHands(Analyzed, AnalysisWorkers)
    /\ DisjointHands(delivering, SinkWorkers)
    /\ \A w \in reported : analyzing[w] # NoWork

(* Events that move from one stage to another leave the partition intact.    *)
LEMMA MoveKeepsPartition ==
    ASSUME NEW A, NEW B, NEW f \in StageNames, NEW t \in StageNames, f # t, NEW I,
           Partition(A), I \subseteq A[f],
           B[f] = A[f] \ I, B[t] = A[t] \cup I,
           \A s \in StageNames \ {f, t} : B[s] = A[s]
    PROVE  Partition(B)
<1>1. ASSUME NEW s \in StageNames, NEW u \in StageNames, NEW e, e \in B[s], e \in B[u]
      PROVE  s = u
  <2>1. /\ e \in B[s] => (e \in A[s] /\ ~(s = f /\ e \in I)) \/ (s = t /\ e \in I)
        /\ e \in B[u] => (e \in A[u] /\ ~(u = f /\ e \in I)) \/ (u = t /\ e \in I)
    OBVIOUS
  <2>2. \A p, q \in StageNames : e \in A[p] /\ e \in A[q] => p = q
    BY DEF Partition
  <2>3. e \in I => e \in A[f]
    OBVIOUS
  <2> QED BY <1>1, <2>1, <2>2, <2>3
<1>2. ASSUME NEW e \in Events PROVE \E s \in StageNames : e \in B[s]
  <2>1. PICK s \in StageNames : e \in A[s]
    BY DEF Partition
  <2>2. CASE e \in I
    BY <2>2
  <2>3. CASE e \notin I
    <3>1. e \in B[s]
      BY <2>1, <2>3
    <3> QED BY <3>1
  <2> QED BY <2>2, <2>3
<1> QED BY <1>1, <1>2 DEF Partition

(* Taking an item out of a queue.                                            *)
LEMMA TakeFromSet ==
    ASSUME NEW Q, NEW x \in Q, DisjointSets(Q)
    PROVE  /\ UNION (Q \ {x}) = (UNION Q) \ x
           /\ DisjointSets(Q \ {x})
           /\ x \subseteq UNION Q
BY DEF DisjointSets

(* Putting a new item into a queue.                                          *)
LEMMA PutIntoSet ==
    ASSUME NEW Q, NEW x, DisjointSets(Q), x \cap UNION Q = {}
    PROVE  /\ UNION (Q \cup {x}) = (UNION Q) \cup x
           /\ DisjointSets(Q \cup {x})
<1>1. \A y \in Q : x \cap y = {} /\ y \cap x = {}
  OBVIOUS
<1>2. DisjointSets(Q \cup {x})
  BY <1>1 DEF DisjointSets
<1> QED BY <1>2

(* A worker with empty hands takes an item.                                  *)
LEMMA TakeInHand ==
    ASSUME NEW W, NEW f, NEW g, NEW w \in W, NEW x, DisjointHands(f, W),
           f[w] = {}, x \cap Hands(f, W) = {},
           g[w] = x, \A v \in W \ {w} : g[v] = f[v]
    PROVE  /\ Hands(g, W) = Hands(f, W) \cup x
           /\ DisjointHands(g, W)
<1>1. \A v \in W : f[v] \subseteq Hands(f, W)
  BY DEF Hands
<1>2. DisjointHands(g, W)
  <2> SUFFICES ASSUME NEW u \in W, NEW v \in W, u # v PROVE g[u] \cap g[v] = {}
    BY DEF DisjointHands
  <2>1. CASE u = w
    BY <1>1, <2>1
  <2>2. CASE v = w
    BY <1>1, <2>2
  <2>3. CASE u # w /\ v # w
    BY <2>3 DEF DisjointHands
  <2> QED BY <2>1, <2>2, <2>3
<1>3. \A e : e \in Hands(g, W) <=> e \in Hands(f, W) \cup x
  <2>1. \A e : (e \in Hands(g, W) <=> \E v \in W : e \in g[v])
            /\ (e \in Hands(f, W) <=> \E v \in W : e \in f[v])
    BY DEF Hands
  <2> QED BY <2>1
<1> QED BY <1>2, <1>3

(* A worker gives its item away.                                             *)
LEMMA Release ==
    ASSUME NEW W, NEW f, NEW g, NEW w \in W, DisjointHands(f, W),
           g[w] = {}, \A v \in W \ {w} : g[v] = f[v]
    PROVE  /\ Hands(g, W) = Hands(f, W) \ f[w]
           /\ DisjointHands(g, W)
           /\ f[w] \subseteq Hands(f, W)
<1>1. DisjointHands(g, W)
  <2> SUFFICES ASSUME NEW u \in W, NEW v \in W, u # v PROVE g[u] \cap g[v] = {}
    BY DEF DisjointHands
  <2>1. CASE u = w \/ v = w
    BY <2>1
  <2>2. CASE u # w /\ v # w
    BY <2>2 DEF DisjointHands
  <2> QED BY <2>1, <2>2
<1>2. \A e : (e \in Hands(g, W) <=> \E v \in W : e \in g[v])
          /\ (e \in Hands(f, W) <=> \E v \in W : e \in f[v])
  BY DEF Hands
<1>3. \A v \in W : v # w => f[v] \cap f[w] = {}
  BY DEF DisjointHands
<1>4. \A e : e \in Hands(g, W) <=> e \in Hands(f, W) \ f[w]
  BY <1>2, <1>3
<1> QED BY <1>1, <1>2, <1>4

(* A step that changes the stages f and t only.                              *)
Frame(f, t) ==
    /\ "outside" \in {f, t} \/ UNCHANGED accepted
    /\ "buffer" \in {f, t} \/ UNCHANGED buffer
    /\ "window" \in {f, t} \/ UNCHANGED window
    /\ "gatherQ" \in {f, t} \/ UNCHANGED gatherQ
    /\ "gathering" \in {f, t} \/ UNCHANGED gathering
    /\ "analysisQ" \in {f, t} \/ UNCHANGED analysisQ
    /\ "analyzing" \in {f, t} \/ UNCHANGED Analyzed
    /\ "sinkQ" \in {f, t} \/ UNCHANGED sinkQ
    /\ "delivering" \in {f, t} \/ UNCHANGED delivering
    /\ "settled" \in {f, t} \/ UNCHANGED settled
    /\ "dropped" \in {f, t} \/ UNCHANGED dropped

Moved(f, t, I) ==
    /\ Frame(f, t)
    /\ I \subseteq At[f]
    /\ At'[f] = At[f] \ I
    /\ At'[t] = At[t] \cup I

(* A step that moves events between stages keeps the partition.              *)
LEMMA MovedKeepsPartition ==
    ASSUME NEW f \in StageNames, NEW t \in StageNames, f # t, NEW I,
           Partition(At), Moved(f, t, I)
    PROVE  Partition(At)'
<1>1. /\ "outside" \in {f, t} \/ At'["outside"] = At["outside"]
      /\ "buffer" \in {f, t} \/ At'["buffer"] = At["buffer"]
      /\ "window" \in {f, t} \/ At'["window"] = At["window"]
      /\ "gatherQ" \in {f, t} \/ At'["gatherQ"] = At["gatherQ"]
      /\ "gathering" \in {f, t} \/ At'["gathering"] = At["gathering"]
      /\ "analysisQ" \in {f, t} \/ At'["analysisQ"] = At["analysisQ"]
      /\ "analyzing" \in {f, t} \/ At'["analyzing"] = At["analyzing"]
      /\ "sinkQ" \in {f, t} \/ At'["sinkQ"] = At["sinkQ"]
      /\ "delivering" \in {f, t} \/ At'["delivering"] = At["delivering"]
      /\ "settled" \in {f, t} \/ At'["settled"] = At["settled"]
      /\ "dropped" \in {f, t} \/ At'["dropped"] = At["dropped"]
  BY DEF Moved, Frame, At, Hands
<1>2. \A s \in StageNames \ {f, t} : At'[s] = At[s]
  BY <1>1 DEF StageNames
<1>3. Partition(At')
  BY <1>2, MoveKeepsPartition DEF Moved
<1> QED BY <1>3 DEF Partition

(* The variables the stages are read from.                                   *)
LEMMA SameStages ==
    ASSUME UNCHANGED <<accepted, buffer, window, gatherQ, gathering, analysisQ, analyzing,
                       reported, sinkQ, delivering, settled, dropped>>
    PROVE  /\ UNCHANGED At
           /\ UNCHANGED Analyzed
           /\ PlaceInv => PlaceInv'
<1>1. UNCHANGED Analyzed
  BY DEF Analyzed, Analyzing
<1>2. UNCHANGED At
  BY <1>1 DEF At, Hands
<1>3. Partition(At) => Partition(At)'
  BY <1>2 DEF Partition
<1> QED BY <1>1, <1>2, <1>3 DEF PlaceInv, DisjointSets, DisjointHands

(* A window is cut out of the buffer without losing or repeating an event.   *)
LEMMA WindowTaken ==
    ASSUME TakeWindow, window = {}
    PROVE  UNION window' = buffer /\ DisjointSets(window') /\ buffer' = {}
BY DEF TakeWindow, Partitions, DisjointSets

(* Every step moves one item, or a window, from one stage to another, or     *)
(* moves nothing.                                                            *)
LEMMA PlaceStep == TypeOK /\ PlaceInv /\ [Next]_vars => PlaceInv'
<1> SUFFICES ASSUME TypeOK, PlaceInv, [Next]_vars PROVE PlaceInv'
  OBVIOUS
<1> USE DEF NoWork, history, queuesVars, workerVars, corrVars, intake
<1>disjoint. \A s, t \in StageNames : s # t => At[s] \cap At[t] = {}
  BY DEF PlaceInv, Partition
<1>now. /\ At["outside"] = Events \ accepted /\ At["buffer"] = buffer
        /\ At["window"] = UNION window /\ At["gatherQ"] = UNION gatherQ
        /\ At["gathering"] = Hands(gathering, GatherWorkers)
        /\ At["analysisQ"] = UNION analysisQ
        /\ At["analyzing"] = Hands(Analyzed, AnalysisWorkers)
        /\ At["sinkQ"] = UNION sinkQ
        /\ At["delivering"] = Hands(delivering, SinkWorkers)
        /\ At["settled"] = settled /\ At["dropped"] = dropped
  BY DEF At
<1>next. /\ At'["outside"] = Events \ accepted' /\ At'["buffer"] = buffer'
         /\ At'["window"] = UNION window' /\ At'["gatherQ"] = UNION gatherQ'
         /\ At'["gathering"] = Hands(gathering', GatherWorkers)
         /\ At'["analysisQ"] = UNION analysisQ'
         /\ At'["analyzing"] = Hands(Analyzed', AnalysisWorkers)
         /\ At'["sinkQ"] = UNION sinkQ'
         /\ At'["delivering"] = Hands(delivering', SinkWorkers)
         /\ At'["settled"] = settled' /\ At'["dropped"] = dropped'
  BY DEF At, Hands
<1>same. UNCHANGED <<analyzing, reported>> => UNCHANGED Analyzed
  BY DEF Analyzed, Analyzing
<1>1. ASSUME NEW e \in Events, SubmitFaultEvent(e) PROVE PlaceInv'
  <2>1. /\ e \notin accepted /\ accepted' = accepted \cup {e} /\ {e} \subseteq At["outside"]
        /\ At'["outside"] = At["outside"] \ {e}
        /\ UNCHANGED <<window, analysisQ, sinkQ, gathering, analyzing, reported, delivering,
                       settled>>
    BY <1>now, <1>next, <1>1 DEF SubmitFaultEvent
  <2>2. CASE buffer' = buffer \cup {e} /\ UNCHANGED <<gatherQ, dropped>>
    <3>1. Moved("outside", "buffer", {e})
      BY <1>now, <1>next, <1>same, <2>1, <2>2 DEF Moved, Frame
    <3>2. Partition(At)'
      BY <3>1, MovedKeepsPartition DEF PlaceInv, StageNames
    <3> QED BY <1>same, <2>1, <2>2, <3>2 DEF PlaceInv, DisjointSets, DisjointHands
  <2>3. CASE dropped' = dropped \cup {e} /\ UNCHANGED <<gatherQ, buffer>>
    <3>1. Moved("outside", "dropped", {e})
      BY <1>now, <1>next, <1>same, <2>1, <2>3 DEF Moved, Frame
    <3>2. Partition(At)'
      BY <3>1, MovedKeepsPartition DEF PlaceInv, StageNames
    <3> QED BY <1>same, <2>1, <2>3, <3>2 DEF PlaceInv, DisjointSets, DisjointHands
  <2>4. CASE gatherQ' = gatherQ \cup {{e}} /\ UNCHANGED <<dropped, buffer>>
    <3>1. {e} \cap UNION gatherQ = {}
      <4>1. At["outside"] \cap At["gatherQ"] = {}
        BY <1>disjoint DEF StageNames
      <4> QED BY <1>now, <2>1, <4>1
    <3>2. UNION gatherQ' = (UNION gatherQ) \cup {e} /\ DisjointSets(gatherQ')
      BY <2>4, <3>1, PutIntoSet DEF PlaceInv
    <3>3. Moved("outside", "gatherQ", {e})
      BY <1>now, <1>next, <1>same, <2>1, <2>4, <3>2 DEF Moved, Frame
    <3>4. Partition(At)'
      BY <3>3, MovedKeepsPartition DEF PlaceInv, StageNames
    <3> QED BY <1>same, <2>1, <2>4, <3>2, <3>4 DEF PlaceInv, DisjointSets, DisjointHands
  <2> QED BY <1>1, <2>2, <2>3, <2>4 DEF SubmitFaultEvent, AddGathering
<1>2. ASSUME CorrelatorTick \/ CorrelatorFlush PROVE PlaceInv'
  <2>1. /\ TakeWindow /\ window = {}
        /\ UNCHANGED <<accepted, gatherQ, gathering, analysisQ, analyzing, reported, sinkQ,
                       delivering, settled, dropped>>
    BY <1>2 DEF CorrelatorTick, CorrelatorFlush
  <2>2. UNION window' = buffer /\ DisjointSets(window') /\ buffer' = {} /\ UNION window = {}
    BY <2>1, WindowTaken
  <2>3. Moved("buffer", "window", buffer)
    BY <1>now, <1>next, <1>same, <2>1, <2>2 DEF Moved, Frame
  <2>4. Partition(At)'
    BY <2>3, MovedKeepsPartition DEF PlaceInv, StageNames
  <2> QED BY <1>same, <2>1, <2>2, <2>4 DEF PlaceInv, DisjointSets, DisjointHands
<1>3. CASE handleCorrelationResult
  <2>1. PICK item \in window : AddGathering(item) /\ window' = window \ {item}
    BY <1>3 DEF handleCorrelationResult
  <2>2. UNCHANGED <<accepted, buffer, gathering, analysisQ, analyzing, reported, sinkQ,
                    delivering, settled>>
    BY <1>3 DEF handleCorrelationResult
  <2>3. UNION window' = (UNION window) \ item /\ DisjointSets(window')
        /\ item \subseteq UNION window
    BY <2>1, TakeFromSet DEF PlaceInv
  <2>4. CASE dropped' = dropped \cup item /\ UNCHANGED gatherQ
    <3>1. Moved("window", "dropped", item)
      BY <1>now, <1>next, <1>same, <2>2, <2>3, <2>4 DEF Moved, Frame
    <3>2. Partition(At)'
      BY <3>1, MovedKeepsPartition DEF PlaceInv, StageNames
    <3> QED BY <1>same, <2>2, <2>3, <2>4, <3>2 DEF PlaceInv, DisjointSets, DisjointHands
  <2>5. CASE gatherQ' = gatherQ \cup {item} /\ UNCHANGED dropped
    <3>1. item \cap UNION gatherQ = {}
      <4>1. At["window"] \cap At["gatherQ"] = {}
        BY <1>disjoint DEF StageNames
      <4> QED BY <1>now, <2>3, <4>1
    <3>2. UNION gatherQ' = (UNION gatherQ) \cup item /\ DisjointSets(gatherQ')
      BY <2>5, <3>1, PutIntoSet DEF PlaceInv
    <3>3. Moved("window", "gatherQ", item)
      BY <1>now, <1>next, <1>same, <2>2, <2>3, <2>5, <3>2 DEF Moved, Frame
    <3>4. Partition(At)'
      BY <3>3, MovedKeepsPartition DEF PlaceInv, StageNames
    <3> QED BY <1>same, <2>2, <2>3, <2>5, <3>2, <3>4 DEF PlaceInv, DisjointSets, DisjointHands
  <2> QED BY <2>1, <2>4, <2>5 DEF AddGathering
<1>4. ASSUME NEW w \in GatherWorkers, GatherGet(w) PROVE PlaceInv'
  <2>1. PICK item \in gatherQ :
           gathering' = [gathering EXCEPT ![w] = item] /\ gatherQ' = gatherQ \ {item}
    BY <1>4 DEF GatherGet
  <2>2. /\ UNCHANGED <<accepted, buffer, window, analysisQ, analyzing, reported, sinkQ,
                       delivering, settled, dropped>>
        /\ gathering[w] = {}
    BY <1>4 DEF GatherGet
  <2>3. UNION gatherQ' = (UNION gatherQ) \ item /\ DisjointSets(gatherQ')
        /\ item \subseteq UNION gatherQ
    BY <2>1, TakeFromSet DEF PlaceInv
  <2>4. At["gatherQ"] \cap At["gathering"] = {}
    BY <1>disjoint DEF StageNames
  <2>5. item \cap Hands(gathering, GatherWorkers) = {}
    BY <1>now, <2>3, <2>4
  <2>6. gathering'[w] = item /\ \A v \in GatherWorkers \ {w} : gathering'[v] = gathering[v]
    BY <2>1 DEF TypeOK
  <2>7. /\ Hands(gathering', GatherWorkers) = Hands(gathering, GatherWorkers) \cup item
        /\ DisjointHands(gathering', GatherWorkers)
    BY <2>2, <2>5, <2>6, TakeInHand DEF PlaceInv
  <2>8. Moved("gatherQ", "gathering", item)
    BY <1>now, <1>next, <1>same, <2>2, <2>3, <2>7 DEF Moved, Frame
  <2>9. Partition(At)'
    BY <2>8, MovedKeepsPartition DEF PlaceInv, StageNames
  <2> QED BY <1>same, <2>2, <2>3, <2>7, <2>9 DEF PlaceInv, DisjointSets, DisjointHands
<1>5. ASSUME NEW w \in GatherWorkers, processGatherItem(w) PROVE PlaceInv'
  <2> DEFINE item == gathering[w]
  <2>1. /\ UNCHANGED <<accepted, buffer, window, gatherQ, analyzing, reported, sinkQ,
                       delivering, settled>>
        /\ gathering'[w] = {} /\ \A v \in GatherWorkers \ {w} : gathering'[v] = gathering[v]
    BY <1>5 DEF processGatherItem, TypeOK
  <2>2. /\ Hands(gathering', GatherWorkers) = Hands(gathering, GatherWorkers) \ item
        /\ DisjointHands(gathering', GatherWorkers)
        /\ item \subseteq Hands(gathering, GatherWorkers)
    BY <2>1, Release DEF PlaceInv
  <2>3. \/ dropped' = dropped \cup item /\ UNCHANGED analysisQ
        \/ analysisQ' = analysisQ \cup {item} /\ UNCHANGED dropped
    BY <1>5 DEF processGatherItem
  <2> HIDE DEF item
  <2>4. CASE dropped' = dropped \cup item /\ UNCHANGED analysisQ
    <3>1. Moved("gathering", "dropped", item)
      BY <1>now, <1>next, <1>same, <2>1, <2>2, <2>4 DEF Moved, Frame
    <3>2. Partition(At)'
      BY <3>1, MovedKeepsPartition DEF PlaceInv, StageNames
    <3> QED BY <1>same, <2>1, <2>2, <2>4, <3>2 DEF PlaceInv, DisjointSets, DisjointHands
  <2>5. CASE analysisQ' = analysisQ \cup {item} /\ UNCHANGED dropped
    <3>1. item \cap UNION analysisQ = {}
      <4>1. At["gathering"] \cap At["analysisQ"] = {}
        BY <1>disjoint DEF StageNames
      <4> QED BY <1>now, <2>2, <4>1
    <3>2. UNION analysisQ' = (UNION analysisQ) \cup item /\ DisjointSets(analysisQ')
      BY <2>5, <3>1, PutIntoSet DEF PlaceInv
    <3>3. Moved("gathering", "analysisQ", item)
      BY <1>now, <1>next, <1>same, <2>1, <2>2, <2>5, <3>2 DEF Moved, Frame
    <3>4. Partition(At)'
      BY <3>3, MovedKeepsPartition DEF PlaceInv, StageNames
    <3> QED BY <1>same, <2>1, <2>2, <2>5, <3>2, <3>4 DEF PlaceInv, DisjointSets, DisjointHands
  <2> QED BY <2>3, <2>4, <2>5
<1>6. ASSUME NEW w \in AnalysisWorkers, AnalysisGet(w) PROVE PlaceInv'
  <2>1. PICK item \in analysisQ :
           analyzing' = [analyzing EXCEPT ![w] = item] /\ analysisQ' = analysisQ \ {item}
    BY <1>6 DEF AnalysisGet
  <2>2. /\ UNCHANGED <<accepted, buffer, window, gatherQ, gathering, reported, sinkQ,
                       delivering, settled, dropped>>
        /\ analyzing[w] = {} /\ w \notin reported
    BY <1>6 DEF AnalysisGet, PlaceInv
  <2>3. UNION analysisQ' = (UNION analysisQ) \ item /\ DisjointSets(analysisQ')
        /\ item \subseteq UNION analysisQ
    BY <2>1, TakeFromSet DEF PlaceInv
  <2>4. At["analysisQ"] \cap At["analyzing"] = {}
    BY <1>disjoint DEF StageNames
  <2>5. item \cap Hands(Analyzed, AnalysisWorkers) = {}
    BY <1>now, <2>3, <2>4
  <2>6. /\ Analyzed[w] = {} /\ Analyzed'[w] = item
        /\ \A v \in AnalysisWorkers \ {w} : Analyzed'[v] = Analyzed[v]
    BY <2>1, <2>2 DEF TypeOK, Analyzed, Analyzing
  <2>7. /\ Hands(Analyzed', AnalysisWorkers) = Hands(Analyzed, AnalysisWorkers) \cup item
        /\ DisjointHands(Analyzed', AnalysisWorkers)
    <3>1. DisjointHands(Analyzed, AnalysisWorkers)
      BY DEF PlaceInv
    <3> DEFINE f == Analyzed
               g == Analyzed'
    <3>2. /\ DisjointHands(f, AnalysisWorkers) /\ item \cap Hands(f, AnalysisWorkers) = {}
          /\ f[w] = {} /\ g[w] = item /\ \A v \in AnalysisWorkers \ {w} : g[v] = f[v]
      BY <2>5, <2>6, <3>1
    <3> HIDE DEF f, g
    <3>3. /\ Hands(g, AnalysisWorkers) = Hands(f, AnalysisWorkers) \cup item
          /\ DisjointHands(g, AnalysisWorkers)
      BY <3>2, TakeInHand
    <3> QED BY <3>3 DEF f, g
  <2>8. Moved("analysisQ", "analyzing", item)
    BY <1>now, <1>next, <2>2, <2>3, <2>7 DEF Moved, Frame
  <2>9. Partition(At)'
    BY <2>8, MovedKeepsPartition DEF PlaceInv, StageNames
  <2>10. \A v \in reported' : analyzing'[v] # {}
    BY <2>1, <2>2 DEF PlaceInv, TypeOK
  <2> QED BY <2>2, <2>3, <2>7, <2>9, <2>10 DEF PlaceInv, DisjointSets, DisjointHands
<1>7. ASSUME NEW w \in AnalysisWorkers, processAnalysisItem(w) PROVE PlaceInv'
  <2> DEFINE item == analyzing[w]
  <2>1. /\ UNCHANGED <<accepted, buffer, window, gatherQ, gathering, analysisQ, analyzing,
                       delivering, settled>>
        /\ w \notin reported /\ reported' = reported \cup {w} /\ item # {}
    BY <1>7 DEF processAnalysisItem
  <2>2. /\ Analyzed[w] = item /\ Analyzed'[w] = {}
        /\ \A v \in AnalysisWorkers \ {w} : Analyzed'[v] = Analyzed[v]
    BY <2>1 DEF Analyzed, Analyzing
  <2>3. \A v \in reported' : analyzing'[v] # {}
    BY <2>1 DEF PlaceInv
  <2>4. \/ dropped' = dropped \cup item /\ UNCHANGED sinkQ
        \/ sinkQ' = sinkQ \cup {item} /\ UNCHANGED dropped
    BY <1>7 DEF processAnalysisItem, AddSink
  <2> HIDE DEF item
  <2>5. /\ Hands(Analyzed', AnalysisWorkers) = Hands(Analyzed, AnalysisWorkers) \ item
        /\ DisjointHands(Analyzed', AnalysisWorkers)
        /\ item \subseteq Hands(Analyzed, AnalysisWorkers)
    BY <2>2, Release DEF PlaceInv
  <2>6. CASE dropped' = dropped \cup item /\ UNCHANGED sinkQ
    <3>1. Moved("analyzing", "dropped", item)
      BY <1>now, <1>next, <2>1, <2>5, <2>6 DEF Moved, Frame
    <3>2. Partition(At)'
      BY <3>1, MovedKeepsPartition DEF PlaceInv, StageNames
    <3> QED BY <2>1, <2>3, <2>5, <2>6, <3>2 DEF PlaceInv, DisjointSets, DisjointHands
  <2>7. CASE sinkQ' = sinkQ \cup {item} /\ UNCHANGED dropped
    <3>1. item \cap UNION sinkQ = {}
      <4>1. At["analyzing"] \cap At["sinkQ"] = {}
        BY <1>disjoint DEF StageNames
      <4> QED BY <1>now, <2>5, <4>1
    <3>2. UNION sinkQ' = (UNION sinkQ) \cup item /\ DisjointSets(sinkQ')
      BY <2>7, <3>1, PutIntoSet DEF PlaceInv
    <3>3. Moved("analyzing", "sinkQ", item)
      BY <1>now, <1>next, <2>1, <2>5, <2>7, <3>2 DEF Moved, Frame
    <3>4. Partition(At)'
      BY <3>3, MovedKeepsPartition DEF PlaceInv, StageNames
    <3> QED BY <2>1, <2>3, <2>5, <2>7, <3>2, <3>4 DEF PlaceInv, DisjointSets, DisjointHands
  <2> QED BY <2>4, <2>6, <2>7
<1>8. ASSUME NEW w \in AnalysisWorkers, AnalysisDone(w) PROVE PlaceInv'
  <2>1. /\ UNCHANGED <<accepted, buffer, window, gatherQ, gathering, analysisQ, sinkQ,
                       delivering, settled, dropped>>
        /\ w \in reported /\ reported' = reported \ {w}
        /\ analyzing' = [analyzing EXCEPT ![w] = {}]
    BY <1>8 DEF AnalysisDone
  <2>2. \A v \in AnalysisWorkers : Analyzing(v)' = Analyzing(v)
    BY <2>1 DEF TypeOK, Analyzing
  <2>3. UNCHANGED Analyzed
    BY <2>2 DEF Analyzed
  <2>4. UNCHANGED At
    BY <2>1, <2>3 DEF At, Hands
  <2>5. Partition(At)'
    BY <2>4 DEF PlaceInv, Partition
  <2>6. \A v \in reported' : analyzing'[v] # {}
    BY <2>1 DEF PlaceInv, TypeOK
  <2> QED BY <2>1, <2>3, <2>5, <2>6 DEF PlaceInv, DisjointSets, DisjointHands
<1>9. ASSUME NEW w \in SinkWorkers, SinkGet(w) PROVE PlaceInv'
  <2>1. PICK item \in sinkQ :
           delivering' = [delivering EXCEPT ![w] = item] /\ sinkQ' = sinkQ \ {item}
    BY <1>9 DEF SinkGet
  <2>2. /\ UNCHANGED <<accepted, buffer, window, gatherQ, gathering, analysisQ, analyzing,
                       reported, settled, dropped>>
        /\ delivering[w] = {}
    BY <1>9 DEF SinkGet
  <2>3. UNION sinkQ' = (UNION sinkQ) \ item /\ DisjointSets(sinkQ')
        /\ item \subseteq UNION sinkQ
    BY <2>1, TakeFromSet DEF PlaceInv
  <2>4. At["sinkQ"] \cap At["delivering"] = {}
    BY <1>disjoint DEF StageNames
  <2>5. item \cap Hands(delivering, SinkWorkers) = {}
    BY <1>now, <2>3, <2>4
  <2>6. delivering'[w] = item /\ \A v \in SinkWorkers \ {w} : delivering'[v] = delivering[v]
    BY <2>1 DEF TypeOK
  <2>7. /\ Hands(delivering', SinkWorkers) = Hands(delivering, SinkWorkers) \cup item
        /\ DisjointHands(delivering', SinkWorkers)
    BY <2>2, <2>5, <2>6, TakeInHand DEF PlaceInv
  <2>8. Moved("sinkQ", "delivering", item)
    BY <1>now, <1>next, <1>same, <2>2, <2>3, <2>7 DEF Moved, Frame
  <2>9. Partition(At)'
    BY <2>8, MovedKeepsPartition DEF PlaceInv, StageNames
  <2> QED BY <1>same, <2>2, <2>3, <2>7, <2>9 DEF PlaceInv, DisjointSets, DisjointHands
<1>10. ASSUME NEW w \in SinkWorkers, SinkDone(w) PROVE PlaceInv'
  <2> DEFINE item == delivering[w]
  <2>1. /\ UNCHANGED <<accepted, buffer, window, gatherQ, gathering, analysisQ, analyzing,
                       reported, sinkQ, dropped>>
        /\ settled' = settled \cup item
        /\ delivering'[w] = {} /\ \A v \in SinkWorkers \ {w} : delivering'[v] = delivering[v]
    BY <1>10 DEF SinkDone, TypeOK
  <2>2. /\ Hands(delivering', SinkWorkers) = Hands(delivering, SinkWorkers) \ item
        /\ DisjointHands(delivering', SinkWorkers)
        /\ item \subseteq Hands(delivering, SinkWorkers)
    BY <2>1, Release DEF PlaceInv
  <2> HIDE DEF item
  <2>3. Moved("delivering", "settled", item)
    BY <1>now, <1>next, <1>same, <2>1, <2>2 DEF Moved, Frame
  <2>4. Partition(At)'
    BY <2>3, MovedKeepsPartition DEF PlaceInv, StageNames
  <2> QED BY <1>same, <2>1, <2>2, <2>4 DEF PlaceInv, DisjointSets, DisjointHands
<1>11. ASSUME UNCHANGED <<accepted, buffer, window, gatherQ, gathering, analysisQ, analyzing,
                          reported, sinkQ, delivering, settled, dropped>>
       PROVE  PlaceInv'
  BY <1>11, SameStages
<1> QED
  BY <1>1, <1>2, <1>3, <1>4, <1>5, <1>6, <1>7, <1>8, <1>9, <1>10, <1>11
  DEF Next, CorrelatorStep, GatherStep, AnalysisStep, SinkStep, ShutdownStep,
      CorrelatorIdleStop, CorrelatorReturn, GatherExit, AnalysisExit, Deliver, SinkExit,
      ProcessSignal, StopAccepting, FlushCloses, FlushReturns, drainGathering,
      drainAnalysis, drainSink, ShutDownQueues, ShutDownStage, WorkersGone, vars

(* Initially every event is outside.                                         *)
LEMMA PlaceInit == Init => PlaceInv
<1> SUFFICES ASSUME Init PROVE PlaceInv
  OBVIOUS
<1>1. Hands(gathering, GatherWorkers) = {} /\ Hands(delivering, SinkWorkers) = {}
  BY DEF Init, Hands, NoWork
<1>2. Hands(Analyzed, AnalysisWorkers) = {}
  BY DEF Init, Hands, Analyzed, Analyzing, NoWork
<1>3. At["outside"] = Events /\ \A s \in StageNames \ {"outside"} : At[s] = {}
  BY <1>1, <1>2 DEF Init, At, StageNames
<1>4. Partition(At)
  BY <1>3 DEF Partition, StageNames
<1> QED BY <1>4 DEF Init, PlaceInv, DisjointSets, DisjointHands, Analyzed, Analyzing, NoWork

(* The places of one stage.                                                  *)
PlacesAt ==
    [outside    |-> {},
     buffer     |-> {<<"buffer", buffer>>},
     window     |-> {<<"window", x>> : x \in window},
     gatherQ    |-> {<<"gatherQ", x>> : x \in gatherQ},
     gathering  |-> {<<w, gathering[w]>> : w \in GatherWorkers},
     analysisQ  |-> {<<"analysisQ", x>> : x \in analysisQ},
     analyzing  |-> {<<w, analyzing[w]>> : w \in AnalysisWorkers \ reported},
     sinkQ      |-> {<<"sinkQ", x>> : x \in sinkQ},
     delivering |-> {<<w, delivering[w]>> : w \in SinkWorkers},
     settled    |-> {<<"settled", settled>>},
     dropped    |-> {<<"dropped", dropped>>}]

(* Every place belongs to a stage.                                           *)
LEMMA PlacesByStage ==
    /\ \A p \in Places : \E s \in StageNames : p \in PlacesAt[s]
    /\ \A s \in StageNames : PlacesAt[s] \subseteq Places
<1>1. \A p \in Places : \E s \in StageNames : p \in PlacesAt[s]
  <2> SUFFICES ASSUME NEW p \in Places PROVE \E s \in StageNames : p \in PlacesAt[s]
    OBVIOUS
  <2>1. \/ p \in PlacesAt["buffer"] \/ p \in PlacesAt["settled"] \/ p \in PlacesAt["dropped"]
        \/ p \in PlacesAt["window"] \/ p \in PlacesAt["gatherQ"] \/ p \in PlacesAt["analysisQ"]
        \/ p \in PlacesAt["sinkQ"] \/ p \in PlacesAt["gathering"]
        \/ p \in PlacesAt["analyzing"] \/ p \in PlacesAt["delivering"]
    BY DEF Places, PlacesAt
  <2> QED BY <2>1 DEF StageNames
<1>2. ASSUME NEW s \in StageNames PROVE PlacesAt[s] \subseteq Places
  BY DEF StageNames, PlacesAt, Places
<1> QED BY <1>1, <1>2

(* The places P share out the events S: they are in it, cover it, and no two *)
(* have an event in common.                                                  *)
Shares(P, S) ==
    /\ \A p \in P : p[2] \subseteq S
    /\ \A e \in S : \E p \in P : e \in p[2]
    /\ \A p, q \in P : p = q \/ p[2] \cap q[2] = {}

(* The items of a queue share out its events.                                *)
LEMMA QueueShares ==
    ASSUME NEW c, NEW Q, DisjointSets(Q)
    PROVE  Shares({<<c, x>> : x \in Q}, UNION Q)
<1> DEFINE P == {<<c, x>> : x \in Q}
<1>1. \A p \in P : \E x \in Q : p = <<c, x>> /\ p[2] = x
  OBVIOUS
<1>2. \A x \in Q : \E p \in P : p[2] = x
  <2> TAKE x \in Q
  <2>1. <<c, x>> \in P /\ <<c, x>>[2] = x
    OBVIOUS
  <2> QED BY <2>1
<1> HIDE DEF P
<1>3. Shares(P, UNION Q)
  BY <1>1, <1>2 DEF Shares, DisjointSets
<1> QED BY <1>3 DEF P

(* The items in the workers' hands share out what the workers hold.          *)
LEMMA HandsShare ==
    ASSUME NEW W, NEW f, DisjointHands(f, W)
    PROVE  Shares({<<w, f[w]>> : w \in W}, Hands(f, W))
<1> DEFINE P == {<<w, f[w]>> : w \in W}
<1>1. \A p \in P : \E w \in W : p = <<w, f[w]>> /\ p[2] = f[w]
  OBVIOUS
<1>2. \A w \in W : \E p \in P : p[2] = f[w]
  <2> TAKE w \in W
  <2>1. <<w, f[w]>> \in P /\ <<w, f[w]>>[2] = f[w]
    OBVIOUS
  <2> QED BY <2>1
<1> HIDE DEF P
<1>3. Shares(P, Hands(f, W))
  <2>1. \A e : e \in Hands(f, W) <=> \E w \in W : e \in f[w]
    BY DEF Hands
  <2>2. \A p \in P : p[2] \subseteq Hands(f, W)
    BY <1>1, <2>1
  <2>3. \A e \in Hands(f, W) : \E p \in P : e \in p[2]
    BY <1>2, <2>1
  <2>4. \A p, q \in P : p = q \/ p[2] \cap q[2] = {}
    BY <1>1 DEF DisjointHands
  <2> QED BY <2>2, <2>3, <2>4 DEF Shares
<1> QED BY <1>3 DEF P

(* The places of a stage share out its events.                               *)
LEMMA StageShared ==
    ASSUME PlaceInv, NEW s \in StageNames, s # "outside"
    PROVE  Shares(PlacesAt[s], At[s])
<1>1. CASE s \in {"buffer", "settled", "dropped"}
  <2>1. PlacesAt[s] = {<<s, At[s]>>}
    BY <1>1 DEF PlacesAt, At
  <2>2. <<s, At[s]>>[2] = At[s]
    OBVIOUS
  <2> QED BY <2>1, <2>2 DEF Shares
<1>2. CASE s = "window"
  BY <1>2, QueueShares DEF PlaceInv, PlacesAt, At
<1>3. CASE s = "gatherQ"
  BY <1>3, QueueShares DEF PlaceInv, PlacesAt, At
<1>4. CASE s = "analysisQ"
  BY <1>4, QueueShares DEF PlaceInv, PlacesAt, At
<1>5. CASE s = "sinkQ"
  BY <1>5, QueueShares DEF PlaceInv, PlacesAt, At
<1>6. CASE s = "gathering"
  BY <1>6, HandsShare DEF PlaceInv, PlacesAt, At
<1>7. CASE s = "delivering"
  BY <1>7, HandsShare DEF PlaceInv, PlacesAt, At
<1>8. CASE s = "analyzing"
  <2> DEFINE W == AnalysisWorkers \ reported
  <2>1. /\ \A w \in W : Analyzed[w] = analyzing[w]
        /\ \A w \in AnalysisWorkers \cap reported : Analyzed[w] = {}
    BY DEF Analyzed, Analyzing, NoWork
  <2>2. PlacesAt[s] = {<<w, Analyzed[w]>> : w \in W}
    BY <1>8, <2>1 DEF PlacesAt
  <2>3. At[s] = Hands(Analyzed, W)
    <3>1. At[s] = Hands(Analyzed, AnalysisWorkers)
      BY <1>8 DEF At
    <3> QED BY <2>1, <3>1 DEF Hands
  <2>4. DisjointHands(Analyzed, W)
    BY DEF PlaceInv, DisjointHands
  <2> HIDE DEF W
  <2>5. Shares({<<w, Analyzed[w]>> : w \in W}, Hands(Analyzed, W))
    BY <2>4, HandsShare
  <2> QED BY <2>2, <2>3, <2>5
<1> QED
  BY <1>1, <1>2, <1>3, <1>4, <1>5, <1>6, <1>7, <1>8 DEF StageNames

(* Every stage holds events only.                                            *)
LEMMA StagesHoldEvents == ASSUME TypeOK, NEW s \in StageNames PROVE At[s] \subseteq Events
<1>1. /\ Hands(gathering, GatherWorkers) \subseteq Events
      /\ Hands(delivering, SinkWorkers) \subseteq Events
      /\ Hands(Analyzed, AnalysisWorkers) \subseteq Events
  BY DEF TypeOK, WorkItems, Hands, Analyzed, Analyzing, NoWork
<1>2. /\ UNION window \subseteq Events /\ UNION gatherQ \subseteq Events
      /\ UNION analysisQ \subseteq Events /\ UNION sinkQ \subseteq Events
  BY DEF TypeOK, WorkItems
<1> QED BY <1>1, <1>2 DEF StageNames, At, TypeOK

(* The two-level invariant says what EveryEventInOnePlace says.              *)
LEMMA PlaceImplies == TypeOK /\ PlaceInv => EveryEventInOnePlace
<1> SUFFICES ASSUME TypeOK, PlaceInv PROVE EveryEventInOnePlace
  OBVIOUS
<1>0. /\ \A s, t \in StageNames : s # t => At[s] \cap At[t] = {}
      /\ \A e \in Events : \E s \in StageNames : e \in At[s]
  BY DEF PlaceInv, Partition
<1>1. At["outside"] = Events \ accepted /\ PlacesAt["outside"] = {} /\ "outside" \in StageNames
  BY DEF At, PlacesAt, StageNames
<1>2. ASSUME NEW p \in Places, NEW q \in Places, NEW e, e \in p[2], e \in q[2]
      PROVE  p = q
  <2>1. PICK s \in StageNames : p \in PlacesAt[s]
    BY PlacesByStage
  <2>2. PICK t \in StageNames : q \in PlacesAt[t]
    BY PlacesByStage
  <2>3. s # "outside" /\ t # "outside"
    BY <1>1, <2>1, <2>2
  <2>4. Shares(PlacesAt[s], At[s]) /\ Shares(PlacesAt[t], At[t])
    BY <2>3, StageShared
  <2>5. e \in At[s] /\ e \in At[t]
    BY <1>2, <2>1, <2>2, <2>4 DEF Shares
  <2>6. s = t
    BY <1>0, <2>5
  <2> QED BY <1>2, <2>1, <2>2, <2>4, <2>6 DEF Shares
<1>3. ASSUME NEW e \in accepted PROVE \E p \in Places : e \in p[2]
  <2>1. e \in Events
    BY DEF TypeOK
  <2>2. PICK s \in StageNames : e \in At[s]
    BY <1>0, <2>1
  <2>3. s # "outside"
    BY <1>1, <2>2
  <2>4. PICK p \in PlacesAt[s] : e \in p[2]
    BY <2>2, <2>3, StageShared DEF Shares
  <2> QED BY <2>4, PlacesByStage
<1>4. ASSUME NEW p \in Places, NEW e \in p[2] PROVE e \in accepted
  <2>1. PICK s \in StageNames : p \in PlacesAt[s]
    BY PlacesByStage
  <2>2. s # "outside"
    BY <1>1, <2>1
  <2>3. e \in At[s]
    BY <2>1, <2>2, StageShared DEF Shares
  <2>4. e \notin At["outside"] /\ e \in Events
    BY <1>0, <1>1, <2>2, <2>3, StagesHoldEvents
  <2> QED BY <1>1, <2>4
<1>5. accepted = UNION {p[2] : p \in Places}
  BY <1>3, <1>4
<1> QED BY <1>2, <1>5 DEF EveryEventInOnePlace

(* The two-level invariant holds in every reachable state.                   *)
LEMMA PlaceCorrect == SafeSpec => []PlaceInv
BY PlaceInit, PlaceStep, TypeCorrect, PTL DEF SafeSpec

(* For any events and any numbers of workers, no event is duplicated and     *)
(* none vanishes on its way from SubmitFaultEvent to the sinks, shutdown     *)
(* included.                                                                 *)
THEOREM EveryEventInOnePlaceCorrect == SafeSpec => []EveryEventInOnePlace
BY PlaceCorrect, PlaceImplies, TypeCorrect, PTL

-----------------------------------------------------------------------------
(* The promise to the detectors *)

(* Dropping what is at an earlier stage, during shutdown, is Lose.           *)
LEMMA DropIsLose ==
    ASSUME TypeOK, PlaceInv, LossInv, down # {},
           NEW s \in StageNames \ {"settled", "dropped"}, NEW I, I \subseteq At[s],
           dropped' = dropped \cup I, accepted' = accepted \cup I,
           UNCHANGED <<settled, ctxDone>>
    PROVE  [Promise!Next]_(Promise!vars)
<1>1. ctxDone
  BY DEF LossInv
<1>2. At["settled"] = settled /\ At["dropped"] = dropped
  BY DEF At
<1>3. I \cap (settled \cup dropped) = {}
  <2>1. At[s] \cap At["settled"] = {} /\ At[s] \cap At["dropped"] = {}
    BY DEF PlaceInv, Partition, StageNames
  <2> QED BY <1>2, <2>1
<1>4. I \in SUBSET Events
  BY StagesHoldEvents
<1>5. CASE I = {}
  BY <1>5 DEF Promise!vars
<1>6. CASE I # {}
  <2>1. Promise!Lose
    BY <1>1, <1>3, <1>4, <1>6 DEF Promise!Lose
  <2> QED BY <2>1 DEF Promise!Next
<1> QED BY <1>5, <1>6

(* Events at a stage other than outside are accepted.                        *)
LEMMA StageAccepted ==
    ASSUME TypeOK, PlaceInv, NEW s \in StageNames, s # "outside"
    PROVE  At[s] \subseteq accepted
<1>1. At[s] \cap At["outside"] = {} /\ At["outside"] = Events \ accepted
  BY DEF PlaceInv, Partition, StageNames, At
<1> QED BY <1>1, StagesHoldEvents

(* Every step of the pipeline is a step of its promise, or invisible to it.  *)
LEMMA PromiseStep ==
    ASSUME TypeOK, PlaceInv, LossInv, [Next]_vars
    PROVE  [Promise!Next]_(Promise!vars)
<1> USE DEF NoWork, history, queuesVars, workerVars, corrVars, intake
<1>1. ASSUME NEW e \in Events, SubmitFaultEvent(e) PROVE [Promise!Next]_(Promise!vars)
  <2>1. e \notin accepted /\ accepted' = accepted \cup {e} /\ UNCHANGED <<settled, ctxDone>>
    BY <1>1 DEF SubmitFaultEvent
  <2>2. CASE dropped' = dropped
    <3>1. Promise!Accept(e)
      BY <2>1, <2>2 DEF Promise!Accept
    <3> QED BY <3>1 DEF Promise!Next
  <2>3. CASE dropped' # dropped
    <3>1. dropped' = dropped \cup {e} /\ down # {}
      BY <1>1, <2>3 DEF SubmitFaultEvent, AddGathering
    <3>2. {e} \subseteq At["outside"] /\ "outside" \in StageNames \ {"settled", "dropped"}
      BY <2>1 DEF At, StageNames
    <3> QED BY <2>1, <3>1, <3>2, DropIsLose
  <2> QED BY <2>2, <2>3
<1>2. CASE handleCorrelationResult
  <2>1. PICK item \in window : AddGathering(item)
    BY <1>2 DEF handleCorrelationResult
  <2>2. UNCHANGED <<accepted, settled, ctxDone>>
    BY <1>2 DEF handleCorrelationResult
  <2>3. CASE dropped' = dropped
    BY <2>2, <2>3 DEF Promise!vars
  <2>4. CASE dropped' # dropped
    <3>1. dropped' = dropped \cup item /\ down # {}
      BY <2>1, <2>4 DEF AddGathering
    <3>2. /\ item \subseteq At["window"]
          /\ "window" \in StageNames \ {"settled", "dropped"} /\ "window" # "outside"
      BY DEF At, StageNames
    <3>3. accepted' = accepted \cup item
      BY <2>2, <3>2, StageAccepted
    <3> QED BY <2>2, <3>1, <3>2, <3>3, DropIsLose
  <2> QED BY <2>3, <2>4
<1>3. ASSUME NEW w \in GatherWorkers, processGatherItem(w) PROVE [Promise!Next]_(Promise!vars)
  <2>1. UNCHANGED <<accepted, settled, ctxDone>>
    BY <1>3 DEF processGatherItem
  <2>2. CASE dropped' = dropped
    BY <2>1, <2>2 DEF Promise!vars
  <2>3. CASE dropped' # dropped
    <3>1. dropped' = dropped \cup gathering[w] /\ down # {}
      BY <1>3, <2>3 DEF processGatherItem
    <3>2. /\ gathering[w] \subseteq At["gathering"]
          /\ "gathering" \in StageNames \ {"settled", "dropped"} /\ "gathering" # "outside"
      BY DEF At, Hands, StageNames
    <3>3. accepted' = accepted \cup gathering[w]
      BY <2>1, <3>2, StageAccepted
    <3> QED BY <2>1, <3>1, <3>2, <3>3, DropIsLose
  <2> QED BY <2>2, <2>3
<1>4. ASSUME NEW w \in AnalysisWorkers, processAnalysisItem(w)
      PROVE  [Promise!Next]_(Promise!vars)
  <2>1. UNCHANGED <<accepted, settled, ctxDone>> /\ w \notin reported
    BY <1>4 DEF processAnalysisItem
  <2>2. CASE dropped' = dropped
    BY <2>1, <2>2 DEF Promise!vars
  <2>3. CASE dropped' # dropped
    <3>1. dropped' = dropped \cup analyzing[w] /\ down # {}
      BY <1>4, <2>3 DEF processAnalysisItem, AddSink
    <3>2. Analyzed[w] = analyzing[w]
      BY <2>1 DEF Analyzed, Analyzing
    <3>3. /\ analyzing[w] \subseteq At["analyzing"]
          /\ "analyzing" \in StageNames \ {"settled", "dropped"} /\ "analyzing" # "outside"
      BY <3>2 DEF At, Hands, StageNames
    <3>4. accepted' = accepted \cup analyzing[w]
      BY <2>1, <3>3, StageAccepted
    <3> QED BY <2>1, <3>1, <3>3, <3>4, DropIsLose
  <2> QED BY <2>2, <2>3
<1>5. ASSUME NEW w \in SinkWorkers, SinkDone(w) PROVE Promise!Settle
  <2>1. /\ UNCHANGED <<accepted, dropped, ctxDone>>
        /\ settled' = settled \cup delivering[w] /\ delivering[w] # {}
    BY <1>5 DEF SinkDone
  <2>2. delivering[w] \subseteq At["delivering"]
    BY DEF At, Hands
  <2>3. delivering[w] \cap (settled \cup dropped) = {}
    <3>1. At["delivering"] \cap At["settled"] = {} /\ At["delivering"] \cap At["dropped"] = {}
      BY DEF PlaceInv, Partition, StageNames
    <3>2. At["settled"] = settled /\ At["dropped"] = dropped
      BY DEF At
    <3> QED BY <2>2, <3>1, <3>2
  <2>4. delivering[w] \subseteq accepted
    <3>1. "delivering" \in StageNames /\ "delivering" # "outside"
      BY DEF StageNames
    <3> QED BY <2>2, <3>1, StageAccepted
  <2>5. delivering[w] \in SUBSET Promise!Open
    BY <2>3, <2>4 DEF Promise!Open
  <2> QED BY <2>1, <2>5 DEF Promise!Settle
<1>6. CASE ProcessSignal \/ StopAccepting
  BY <1>6 DEF ProcessSignal, StopAccepting, Promise!Next, Promise!StopRequested
<1>7. ASSUME UNCHANGED <<accepted, settled, dropped, ctxDone>>
      PROVE  UNCHANGED Promise!vars
  BY <1>7 DEF Promise!vars
<1> QED
  BY <1>1, <1>2, <1>3, <1>4, <1>5, <1>6, <1>7
  DEF Next, CorrelatorStep, GatherStep, AnalysisStep, SinkStep, ShutdownStep,
      CorrelatorTick, CorrelatorFlush, CorrelatorIdleStop, CorrelatorReturn, GatherGet,
      GatherExit, AnalysisGet, AnalysisDone, AnalysisExit, SinkGet, Deliver, SinkExit,
      FlushCloses, FlushReturns, drainGathering, drainAnalysis, drainSink,
      ShutDownQueues, ShutDownStage, WorkersGone, vars, Promise!Next

(* For any events, workers and sinks, the staged pipeline implements its     *)
(* promise to the detectors: an accepted event is settled at most once, and  *)
(* lost only after the process was asked to stop.                            *)
THEOREM ImplementsEventDeliveryCorrect == SafeSpec => ImplementsEventDelivery
<1>1. Init => Promise!Init
  BY DEF Init, Promise!Init
<1>2. TypeOK /\ PlaceInv /\ LossInv /\ [Next]_vars => [Promise!Next]_(Promise!vars)
  BY PromiseStep
<1>3. SafeSpec => []LossInv
  BY LossInit, LossStep, TypeCorrect, PTL DEF SafeSpec
<1> QED
  BY <1>1, <1>2, <1>3, PlaceCorrect, TypeCorrect, PTL
  DEF SafeSpec, ImplementsEventDelivery, Promise!SafeSpec
=============================================================================
