------------------------------ MODULE Diagnosis ------------------------------
(* From a fault to its report: the gather worker runs the gatherers on the   *)
(* resource of the event, each in a goroutine of its own (gatherer.RunAll),  *)
(* and the rules analyzer reads the sections.  Composes Gatherers and        *)
(* RulesAnalyzer.                                                            *)
(*                                                                           *)
(* Every call asks the API server anew, so the cluster may change between    *)
(* two gatherers and between two calls of one: a report may rest on sections *)
(* of different moments, and a section on a pod of one moment and the node   *)
(* of a later one.  A gatherer only reads, so when its calls were answered   *)
(* is chosen when it returns, from the history of the server's answers.      *)
EXTENDS Gatherers, RulesAnalyzer, FiniteSets

CONSTANTS
    Events,         \* the events to diagnose
    Clusters,       \* the states the cluster may be in
    GathererLists,  \* the lists of gatherers a pipeline may be given
    MaxAffected,    \* maxAffectedResources of GatherForSuperEvent
    MaxChanges,     \* how often the cluster may change while gathering
    MaxCalls        \* how many calls of a gatherer are told apart in time

ASSUME MaxCallsAssumption == MaxCalls \in Nat \ {0}

(* A node has a name, and its conditions a type and a status each.           *)
ASSUME ClustersAssumption ==
    \A c \in Clusters :
      /\ "" \notin DOMAIN c.Node
      /\ \A n \in DOMAIN c.Node : c.Node[n] \in Seq(STRING \X STRING)
      /\ \A n \in DOMAIN c.Pod :
           IsSeq(c.Pod[n].statuses) /\ IsSeq(c.Pod[n].inits) /\ IsSeq(c.Pod[n].claims)
      /\ \A key \in DOMAIN c.logs : IsSeq(c.logs[key])

(* A super-event has faults and no detector, a fault event the reverse.      *)
ASSUME EventsAssumption ==
    \A ev \in Events :
      /\ IsSeq(ev.faults)
      /\ IF ev.super THEN ev.detector = "" ELSE ev.faults = <<>>

ASSUME GathererListsAssumption == \A gs \in GathererLists : IsSeq(gs)

VARIABLES
    event,      \* the event of this item
    entry,      \* how gathering is entered (see Entries)
    cluster,    \* what the API server answers now
    changes,    \* changes of the cluster so far
    cancelled,  \* the worker's context
    batches,    \* RunAll calls still to be made
    running,    \* sections of the RunAll call in progress, by goroutine
    sections,   \* sections of the calls that have returned
    report,     \* what Analyze returned
    answers,    \* history: what the API server answered, change by change
    launched    \* where in it the RunAll call in progress was made

diagnosisVars == <<event, entry, cluster, changes, cancelled, batches, running,
                   sections, report, answers, launched>>

NotYet == [gatherer |-> "", title |-> "", content |-> <<>>, error |-> FALSE]

NoReport == [rule |-> "none"]

(* Analyze(ctx, ...) of a cancelled context.                                 *)
Refused == [rule |-> "error"]

Batch(gatherers, ref) == [gatherers |-> gatherers, ref |-> ref]

(* Resources are told apart by UID, or by kind and name if they have none.   *)
SampleKey(r) == IF r.uid # "" THEN <<r.uid>> ELSE Key(r)

(* The affected resources of a super-event that are gathered too: the first  *)
(* of those that differ from the primary resource and from each other.       *)
SampledFaults(ev) ==
    LET KeyOf(k) == SampleKey(ev.faults[k].resource)
        New(k) == /\ KeyOf(k) # SampleKey(ev.resource)
                  /\ \A j \in 1..(k - 1) : KeyOf(j) # KeyOf(k)
        Sample(k) ==
            IF New(k) /\ Cardinality({j \in 1..(k - 1) : New(j)}) < MaxAffected
            THEN <<ev.faults[k]>> ELSE <<>>
    IN FlattenSeq([k \in 1..Len(ev.faults) |-> Sample(k)])

(* processGatherItem calls RunAll itself, with every gatherer and only for   *)
(* the (primary) resource; GatherForFaultEvent and GatherForSuperEvent       *)
(* filter by trigger, and the latter samples the affected resources.         *)
Entries == {"processGatherItem", "GatherFor"}

GatherForSuperEvent(ev, gs) ==
    LET sample == SampledFaults(ev)
    IN <<Batch(FilterByTrigger(gs, ev.resource.kind, ev.faults[1].detector),
               ev.resource)>>
       \o [k \in 1..Len(sample) |->
             Batch(FilterByTrigger(gs, sample[k].resource.kind, sample[k].detector),
                   sample[k].resource)]

Plan(ev, how, gs) ==
    IF how = "processGatherItem" THEN <<Batch(gs, ev.resource)>>
    ELSE IF ev.super THEN GatherForSuperEvent(ev, gs)
    ELSE <<Batch(FilterByTrigger(gs, ev.resource.kind, ev.detector), ev.resource)>>

Launch(bs) ==
    IF bs = <<>> THEN <<>> ELSE [k \in 1..Len(bs[1].gatherers) |-> NotYet]

DiagnosisInit ==
    /\ event \in Events
    /\ entry \in Entries
    /\ cluster \in Clusters
    /\ \E gs \in GathererLists : batches = Plan(event, entry, gs)
    /\ running = Launch(batches)
    /\ changes = 0
    /\ cancelled = FALSE
    /\ sections = <<>>
    /\ report = NoReport
    /\ answers = <<cluster>>
    /\ launched = 1

(* Nothing answers a cancelled context.                                      *)
Unreachable(c) ==
    [c EXCEPT !.failing =
        @ \cup {<<"List", what>> : what \in DOMAIN c}
          \cup UNION {{<<kind, name>> : name \in DOMAIN c[kind]} :
                        kind \in DOMAIN c \ {"failing", "events", "logs", "errText"}}]

(* The calls of a gatherer, one after the other, at moments from..Len(h) of  *)
(* a history h; the calls from the last that is told apart on are answered   *)
(* together.                                                                 *)
Moments(h, from) ==
    {m \in [1..MaxCalls -> from..Len(h)] :
       \A i, j \in 1..MaxCalls : i <= j => m[i] <= m[j]}

AnswersAt(h, m) ==
    [n \in Nat \ {0} |-> h[m[IF n < MaxCalls THEN n ELSE MaxCalls]]]

(* Mutant of Gather: a failed gatherer returns its error to the errgroup,    *)
(* which cancels the context of the others.                                  *)
GatherFailFast(k) ==
    /\ batches # <<>>
    /\ running[k] = NotYet
    /\ \E m \in Moments(answers, launched) :
         running' = [running EXCEPT ![k] =
           GatherSection(batches[1].gatherers[k], batches[1].ref,
                         IF \E j \in DOMAIN running : running[j].error
                         THEN [n \in Nat \ {0} |-> Unreachable(cluster)]
                         ELSE AnswersAt(answers, m))]
    /\ UNCHANGED <<event, entry, cluster, changes, cancelled, batches, sections,
                   report, answers, launched>>

(* The goroutine of the k-th gatherer returns; its error stays in its        *)
(* section.                                                                  *)
Gather(k) ==
    /\ batches # <<>>
    /\ running[k] = NotYet
    /\ \E m \in Moments(answers, launched) :
         running' = [running EXCEPT ![k] =
           GatherSection(batches[1].gatherers[k], batches[1].ref,
                         AnswersAt(answers, m))]
    /\ UNCHANGED <<event, entry, cluster, changes, cancelled, batches, sections,
                   report, answers, launched>>

(* errgroup.Wait: RunAll returns the sections in the order of the gatherers. *)
Wait ==
    /\ batches # <<>>
    /\ \A k \in DOMAIN running : running[k] # NotYet
    /\ sections' = sections \o running
    /\ batches' = Tail(batches)
    /\ running' = Launch(Tail(batches))
    /\ launched' = Len(answers)
    /\ UNCHANGED <<event, entry, cluster, changes, cancelled, report, answers>>

AnalyzeSections ==
    /\ batches = <<>>
    /\ report = NoReport
    /\ report' = IF cancelled THEN Refused ELSE AnalyzeBundle(event, sections)
    /\ UNCHANGED <<event, entry, cluster, changes, cancelled, batches, running,
                   sections, answers, launched>>

(* A change after the cancellation would go unseen.                          *)
ClusterChanges ==
    /\ batches # <<>>
    /\ ~cancelled
    /\ changes < MaxChanges
    /\ cluster' \in Clusters \ {cluster}
    /\ changes' = changes + 1
    /\ answers' = Append(answers, cluster')
    /\ UNCHANGED <<event, entry, cancelled, batches, running, sections, report,
                   launched>>

Cancel ==
    /\ ~cancelled
    /\ report = NoReport
    /\ cancelled' = TRUE
    /\ answers' = Append(answers, Unreachable(cluster))
    /\ UNCHANGED <<event, entry, cluster, changes, batches, running, sections,
                   report, launched>>

DiagnosisNext ==
    \/ \E k \in DOMAIN running : Gather(k)
    \/ Wait
    \/ AnalyzeSections
    \/ ClusterChanges
    \/ Cancel

DiagnosisSpec == DiagnosisInit /\ [][DiagnosisNext]_diagnosisVars

-----------------------------------------------------------------------------

Done == report # NoReport /\ report # Refused

Gathered(name) ==
    \E k \in 1..Len(sections) : sections[k].gatherer = name /\ ~sections[k].error

LinesOf(s) == {s[k] : k \in 1..Len(s)}

(* One failure costs only its own part of the bundle (RunAll and the custom  *)
(* gatherers): a section reports an error only if that gatherer fails on     *)
(* what the server answered since RunAll was called, or the worker was       *)
(* cancelled; and an action of a custom gatherer that would have worked all  *)
(* along is in its section, whatever became of the actions before it.        *)
FailureIsContained ==
    \A k \in DOMAIN running :
      LET g == batches[1].gatherers[k]
          ref == batches[1].ref
          now == launched..Len(answers)
          Collects(a) ==
            (\A i \in now : ~executeAction(a, ref, answers[i]).error) =>
              \E i \in now :
                LinesOf(executeAction(a, ref, answers[i]).lines) \subseteq
                  LinesOf(running[k].content)
      IN running[k] = NotYet \/ cancelled \/
           /\ running[k].error =>
                \E m \in Moments(answers, launched) :
                  GatherSection(g, ref, AnswersAt(answers, m)).error
           /\ g \in DOMAIN CustomGatherers =>
                \A i \in 1..Len(CustomGatherers[g].collect) :
                  Collects(CustomGatherers[g].collect[i])

ResourcesOf(ev) ==
    {ev.resource} \cup {ev.faults[k].resource : k \in 1..Len(ev.faults)}

NodeIn(c, n, bad) ==
    /\ n \in DOMAIN c.Node
    /\ \E k \in 1..Len(c.Node[n]) : c.Node[n][k] \in bad

(* The resource r was the node n, or a pod on it, in the state c.            *)
OnNode(c, r, n) ==
    \/ r.kind = "Node" /\ r.name = n
    \/ r.kind = "Pod" /\ r.name \in DOMAIN c.Pod /\ c.Pod[r.name].node = n

(* A resource of the event was on a node that was in trouble, then or at a   *)
(* later moment of the history h.                                            *)
NodeTrouble(h, ev, bad) ==
    \E r \in ResourcesOf(ev), i, j \in 1..Len(h) :
      i <= j /\ \E n \in DOMAIN h[j].Node : OnNode(h[i], r, n) /\ NodeIn(h[j], n, bad)

NotReady == {<<"Ready", "False">>, <<"Ready", "Unknown">>}

Pressure == {<<"MemoryPressure", "True">>, <<"DiskPressure", "True">>}

(* The event's resource was on one node all along, and the node not ready.   *)
DeadNode(h, ev) ==
    \E n \in DOMAIN h[1].Node :
      \A i \in 1..Len(h) : OnNode(h[i], ev.resource, n) /\ NodeIn(h[i], n, NotReady)

(* Pods are described by name, whatever the kind of the resource.            *)
PodsOf(c, ev) == {r.name : r \in ResourcesOf(ev)} \cap DOMAIN c.Pod

OOM(h, ev) ==
    \E i \in 1..Len(h) : \E n \in PodsOf(h[i], ev) :
      \E css \in {h[i].Pod[n].statuses, h[i].Pod[n].inits} :
        \E k \in 1..Len(css) : "OOMKilled" \in {css[k].state.reason, css[k].last.reason}

(* An init container that waits is not in the description.                   *)
CrashLoop(c, ev) ==
    \E n \in PodsOf(c, ev) : \E k \in 1..Len(c.Pod[n].statuses) :
      LET st == c.Pod[n].statuses[k].state
      IN st.type = "Waiting" /\ st.reason = "CrashLoopBackOff"

(* The resource r was the claim n, or a pod with it, in the state c.         *)
WithClaim(c, r, n) ==
    \/ r.kind = "PersistentVolumeClaim" /\ r.name = n
    \/ /\ r.kind = "Pod" /\ r.name \in DOMAIN c.Pod
       /\ \E k \in 1..Len(c.Pod[r.name].claims) : c.Pod[r.name].claims[k] = n

(* A resource of the event had a claim that was pending, then or later.      *)
ClaimPending(h, ev) ==
    \E r \in ResourcesOf(ev), i, j \in 1..Len(h) :
      i <= j /\ \E n \in DOMAIN h[j].PersistentVolumeClaim :
        WithClaim(h[i], r, n) /\ h[j].PersistentVolumeClaim[n].phase = "Pending"

(* The analyzer blames nothing that was not there: a report of the node      *)
(* rules means that a resource of the event was seen on a node that was then *)
(* or later in that trouble, one of the storage rule the same of a pending   *)
(* claim (or that the detector of claims fired), and one of the memory rule  *)
(* that a container was seen killed, although all of it is derived from text *)
(* that the gatherers wrote and the parsers read back (rules.go).            *)
BlameIsObserved ==
    Done =>
      /\ report.rule = "NodeNotReady" => NodeTrouble(answers, event, NotReady)
      /\ report.rule = "NodePressure" => NodeTrouble(answers, event, Pressure)
      /\ report.rule = "OOMKilled" => OOM(answers, event)
      /\ report.rule = "PVCStuckPending" =>
           event.detector = "PVCStuckBinding" \/ ClaimPending(answers, event)

(* A node that was down all along is blamed for a fault on it or on a pod of *)
(* it whenever its conditions were gathered, unless a container was          *)
(* OOM-killed: whatever else the sections show and whichever other gatherers *)
(* failed, no other rule hides it, and it is reported as systemic            *)
(* (rulesChain).                                                             *)
DeadNodeIsBlamed ==
    (/\ Done
     /\ ~event.super
     /\ Gathered("NodeConditions")
     /\ DeadNode(answers, event) /\ ~OOM(answers, event))
      => report.rule = "NodeNotReady" /\ report.systemic

KnownToRules == {"PVCStuckBinding", "PodStuckPending", "JobDeadlineExceeded",
                 "PodFailed"}

(* What the detector saw is never lost: its event is not reported as         *)
(* unknown, not even if every gatherer fails; for a crash loop this needs    *)
(* the pod's description, of a pod that kept crashing.                       *)
DetectionIsNotForgotten ==
    Done =>
      /\ event.detector \in KnownToRules => report.category # "unknown"
      /\ (/\ event.detector = "PodCrashLoop"
          /\ Gathered("PodDescribe")
          /\ \A i \in 1..Len(answers) : CrashLoop(answers[i], event))
           => report.category # "unknown"
=============================================================================
