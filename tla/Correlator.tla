----------------------------- MODULE Correlator -----------------------------
(* The pre-analysis correlation window: Submit and evaluateAndEmit of        *)
(* internal/pipeline/correlator/correlator.go, the four rules of             *)
(* internal/pipeline/correlator/rules.go, and the annotations the detector   *)
(* bridge (internal/controller/detectors.go) puts on events for the rules.   *)
(*                                                                           *)
(* An event of the window is identified by its position in the buffer, which *)
(* stands for its UUID.  Go iterates over its maps in any order; the groups  *)
(* of one rule are disjoint, so a rule's result is a set of super-events.    *)
EXTENDS Integers, Sequences, FiniteSets, FiniteSetsExt

CONSTANTS
    Faults,          \* what detectors can report: see FaultShape
    MaxWindow,       \* bound: events buffered in one window
    EnabledRules,    \* the rules whose "enabled" flag is set
    MinPodFailures,  \* rules.nodeCascade.minPodFailures
    DeployMinPods,   \* rules.deploymentRollout.minPodFailures
    StormThreshold,  \* rules.namespaceStorm.threshold
    PVCAnnotated     \* TRUE if emitters set wormsign.io/pvc-name; the detector
                     \* bridge does not

ASSUME ThresholdsAssumption ==
    /\ {MinPodFailures, DeployMinPods, StormThreshold, MaxWindow} \subseteq Nat \ {0}
    /\ PVCAnnotated \in BOOLEAN

RuleNames == {"NodeCascade", "DeploymentRollout", "StorageCascade", "NamespaceStorm"}

ASSUME EnabledRulesAssumption == EnabledRules \subseteq RuleNames

(* A fault is about an object: its kind, namespace and name, and for a pod   *)
(* the node it runs on, its owning deployment and the claim it mounts ("" if *)
(* it has none).                                                             *)
FaultShape == {"detector", "kind", "ns", "name", "sev", "node", "deploy", "claim"}

ASSUME FaultsAssumption == \A f \in Faults : DOMAIN f = FaultShape

(* The callback of newDetectorBridge: pod events get the node and the owner  *)
(* annotations.  No code sets the claim annotation.                          *)
Annotate(f) ==
    [detector |-> f.detector, kind |-> f.kind, ns |-> f.ns, name |-> f.name,
     sev |-> f.sev,
     nodeAnn   |-> IF f.kind = "Pod" THEN f.node ELSE "",
     deployAnn |-> IF f.kind = "Pod" THEN f.deploy ELSE "",
     pvcAnn    |-> IF f.kind = "Pod" /\ PVCAnnotated THEN f.claim ELSE ""]

-----------------------------------------------------------------------------
(* Rules: functions of the window ev and of the set of consumed positions *)

severityRank(s) ==
    CASE s = "critical" -> 3
      [] s = "warning"  -> 2
      [] s = "info"     -> 1
      [] OTHER          -> 0

(* Ties keep the earlier severity, which has the same rank.                  *)
highestSeverity(ev, members) ==
    LET top == Max({severityRank(ev[k].sev) : k \in members} \cup {1})
    IN  CHOOSE s \in {"critical", "warning", "info"} : severityRank(s) = top

NewSuperEvent(ev, rule, members) ==
    [rule |-> rule, members |-> members, severity |-> highestSeverity(ev, members)]

(* Mutant of Live: the consumed set is not consulted.                        *)
LiveAll(ev, consumed) == 1..Len(ev)

Live(ev, consumed) == (1..Len(ev)) \ consumed

IsNodeFault(e) == e.detector = "NodeNotReady" /\ e.kind = "Node"

(* nodeEvents keeps one event per node name, the last one in the window.     *)
NodeEvent(ev, live, n) == Max({k \in live : IsNodeFault(ev[k]) /\ ev[k].name = n})

NodePods(ev, live, n) ==
    {k \in live : ev[k].kind = "Pod" /\ ev[k].nodeAnn # "" /\ ev[k].nodeAnn = n}

evaluateNodeCascade(ev, consumed) ==
    LET live == Live(ev, consumed)
        nodes == {ev[k].name : k \in {j \in live : IsNodeFault(ev[j])}}
    IN  {NewSuperEvent(ev, "NodeCascade",
                       {NodeEvent(ev, live, n)} \cup NodePods(ev, live, n)) :
            n \in {m \in nodes : Cardinality(NodePods(ev, live, m)) >= MinPodFailures}}

DeployPods(ev, live, key) ==
    {k \in live : ev[k].kind = "Pod" /\ ev[k].deployAnn # ""
                    /\ <<ev[k].ns, ev[k].deployAnn>> = key}

(* Mutant of evaluateDeploymentRollout: it stops after the first group.      *)
evaluateFirstRollout(ev, consumed) ==
    LET live == Live(ev, consumed)
        keys == {<<ev[k].ns, ev[k].deployAnn>> : k \in live}
        hits == {c \in keys : Cardinality(DeployPods(ev, live, c)) >= DeployMinPods}
    IN  IF hits = {} THEN {}
        ELSE {NewSuperEvent(ev, "DeploymentRollout",
                            DeployPods(ev, live, CHOOSE d \in hits : TRUE))}

evaluateDeploymentRollout(ev, consumed) ==
    LET live == Live(ev, consumed)
        keys == {<<ev[k].ns, ev[k].deployAnn>> : k \in live}
    IN  {NewSuperEvent(ev, "DeploymentRollout", DeployPods(ev, live, d)) :
            d \in {c \in keys : Cardinality(DeployPods(ev, live, c)) >= DeployMinPods}}

IsPVCFault(e) == e.detector = "PVCStuckBinding" /\ e.kind = "PersistentVolumeClaim"

PVCPods(ev, live, key) ==
    {k \in live : ev[k].kind = "Pod" /\ ev[k].pvcAnn # ""
                    /\ <<ev[k].ns, ev[k].pvcAnn>> = key}

evaluateStorageCascade(ev, consumed) ==
    LET live == Live(ev, consumed)
        claims == {<<ev[k].ns, ev[k].name>> : k \in {j \in live : IsPVCFault(ev[j])}}
        claimEvent(c) == Max({k \in live : IsPVCFault(ev[k])
                                             /\ <<ev[k].ns, ev[k].name>> = c})
    IN  {NewSuperEvent(ev, "StorageCascade", {claimEvent(c)} \cup PVCPods(ev, live, c)) :
            c \in {d \in claims : PVCPods(ev, live, d) # {}}}

NamespaceEvents(ev, live, n) == {k \in live : n # "" /\ ev[k].ns = n}

evaluateNamespaceStorm(ev, consumed) ==
    LET live == Live(ev, consumed)
    IN  {NewSuperEvent(ev, "NamespaceStorm", NamespaceEvents(ev, live, n)) :
            n \in {m \in {ev[k].ns : k \in live} :
                    Cardinality(NamespaceEvents(ev, live, m)) > StormThreshold}}

Members(supers) == UNION {s.members : s \in supers}

IfEnabled(rule, supers) == IF rule \in EnabledRules THEN supers ELSE {}

NodeRule(ev, C) == IfEnabled("NodeCascade", evaluateNodeCascade(ev, C))
RolloutRule(ev, C) == IfEnabled("DeploymentRollout", evaluateDeploymentRollout(ev, C))
StorageRule(ev, C) == IfEnabled("StorageCascade", evaluateStorageCascade(ev, C))
StormRule(ev, C) == IfEnabled("NamespaceStorm", evaluateNamespaceStorm(ev, C))

(* Mutant of evaluate: deployments are grouped before nodes.                 *)
evaluateDeploymentsFirst(ev) ==
    LET r1 == RolloutRule(ev, {})
        r2 == r1 \cup NodeRule(ev, Members(r1))
        r3 == r2 \cup StorageRule(ev, Members(r2))
        r4 == r3 \cup StormRule(ev, Members(r3))
    IN  [supers |-> r4, singles |-> Live(ev, Members(r4))]

(* evaluate: the enabled rules in order, each on what the earlier ones left. *)
evaluate(ev) ==
    LET r1 == NodeRule(ev, {})
        r2 == r1 \cup RolloutRule(ev, Members(r1))
        r3 == r2 \cup StorageRule(ev, Members(r2))
        r4 == r3 \cup StormRule(ev, Members(r3))
    IN  [supers |-> r4, singles |-> Live(ev, Members(r4))]

-----------------------------------------------------------------------------
VARIABLES
    buffer,    \* Correlator.buffer
    emitted    \* the last window handed to the handler, and its result

vars == <<buffer, emitted>>

NoResult == [window |-> << >>, supers |-> {}, singles |-> {}]

Init == buffer = << >> /\ emitted = NoResult

Submit(f) ==
    /\ Len(buffer) < MaxWindow
    /\ buffer' = Append(buffer, Annotate(f))
    /\ emitted' = NoResult

evaluateAndEmit ==
    /\ buffer # << >>
    /\ LET r == evaluate(buffer) IN
        emitted' = [window |-> buffer, supers |-> r.supers, singles |-> r.singles]
    /\ buffer' = << >>

Next == (\E f \in Faults : Submit(f)) \/ evaluateAndEmit

Spec == Init /\ [][Next]_vars

-----------------------------------------------------------------------------
(* Correctness *)

(* The correlator loses and duplicates nothing: every event of a window goes *)
(* into exactly one super-event or passes through alone, whatever rules      *)
(* compete for it.                                                           *)
WindowIsPartitioned ==
    LET r == emitted IN
    /\ 1..Len(r.window) = r.singles \cup Members(r.supers)
    /\ \A s \in r.supers : s.members # {} /\ s.members \cap r.singles = {}
    /\ \A s, t \in r.supers : s = t \/ s.members \cap t.members = {}

(* Evaluating what passed through once more would correlate nothing: no rule *)
(* leaves behind a group it should have taken, although earlier rules take   *)
(* members away from later ones.                                             *)
NothingLeftToCorrelate ==
    LET ev == emitted.window
        taken == (1..Len(ev)) \ emitted.singles
    IN  NodeRule(ev, taken) \cup RolloutRule(ev, taken) \cup StorageRule(ev, taken)
          \cup StormRule(ev, taken) = {}

(* When a node is down and enough of the window's pods ran on it, all those  *)
(* pods are reported with the node, in one super-event, even if they also    *)
(* belong to a deployment or a claim that other rules would group.           *)
NodeFailureKeepsItsPods ==
    LET r == emitted
        all == 1..Len(r.window)
    IN  \A k \in all :
            (/\ "NodeCascade" \in EnabledRules
             /\ IsNodeFault(r.window[k])
             /\ Cardinality(NodePods(r.window, all, r.window[k].name)) >= MinPodFailures)
            => \E s \in r.supers :
                /\ s.rule = "NodeCascade"
                /\ NodePods(r.window, all, r.window[k].name) \subseteq s.members
                /\ \E j \in s.members : IsNodeFault(r.window[j])
                                          /\ r.window[j].name = r.window[k].name
=============================================================================
