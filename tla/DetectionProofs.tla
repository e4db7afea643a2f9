-------------------------- MODULE DetectionProofs --------------------------
(* From a fault to the events that are analyzed: what the detectors fire     *)
(* again and what they leave unreported, for any cooldown, any object and    *)
(* any schedule of informers and scan; and what the correlation rules make   *)
(* of a window, for any window, any thresholds and any choice of enabled     *)
(* rules.                                                                    *)
EXTENDS DetectorBridge, Correlator, TLAPS, FiniteSetTheorems

-----------------------------------------------------------------------------
(* Sets of positions *)

LEMMA PositionsAreFinite ==
    ASSUME NEW n \in Nat, NEW P \in SUBSET (1..n)
    PROVE  IsFiniteSet(P)
<1>1. 1 \in Int /\ n \in Int
  OBVIOUS
<1>2. IsFiniteSet(1..n)
  BY <1>1, FS_Interval
<1> QED BY <1>2, FS_Subset

(* A set of positions that is not empty has a last one.                      *)
LEMMA LastPosition ==
    ASSUME NEW n \in Nat, NEW P \in SUBSET (1..n), P # {}
    PROVE  Max(P) \in P
<1> DEFINE From(k) == {j \in P : j >= k}
           T == {From(k) : k \in P}
           R == StrictSubsetOrdering(P)
<1>1. IsFiniteSet(P)
  BY PositionsAreFinite
<1>2. IsWellFoundedOn(R, SUBSET P)
  BY <1>1, FS_StrictSubsetOrderingWellFounded, FS_FiniteSubsetsOfFinite
<1>3. T \subseteq SUBSET P /\ T # {}
  OBVIOUS
<1>4. PICK U \in T : \A V \in T : ~(<<V, U>> \in R)
  <2> HIDE DEF T, R
  <2> QED BY <1>2, <1>3, WFMin
<1>5. PICK k \in P : U = From(k)
  OBVIOUS
<1>6. ASSUME NEW j \in P, j > k PROVE FALSE
  <2>0. j \in Int /\ k \in Int /\ P \subseteq Int
    OBVIOUS
  <2>1. From(j) \in T /\ From(j) \subseteq From(k) /\ k \notin From(j) /\ k \in From(k)
    <3>1. From(j) \in T
      OBVIOUS
    <3>2. From(j) \subseteq From(k) /\ k \notin From(j) /\ k \in From(k)
      <4>1. \A i \in P : i >= j => i >= k
        BY ONLY <1>6, <2>0
      <4>2. ~(k >= j) /\ k >= k
        BY ONLY <1>6, <2>0
      <4> QED BY ONLY <4>1, <4>2, k \in P
    <3> QED BY <3>1, <3>2
  <2>2. <<From(j), U>> \in R
    BY <1>5, <2>1 DEF StrictSubsetOrdering
  <2> QED BY <1>4, <2>1, <2>2
<1>7. \A j \in P : k >= j
  BY <1>6
<1> QED BY <1>7 DEF Max

(* A set of positions counts no more than one that contains it.              *)
LEMMA CountGrows ==
    ASSUME NEW n \in Nat, NEW P \in SUBSET (1..n), NEW T \in SUBSET P
    PROVE  /\ Cardinality(T) <= Cardinality(P)
           /\ Cardinality(P) \in Nat /\ Cardinality(T) \in Nat
           /\ Cardinality(T) > 0 => T # {}
<1>1. IsFiniteSet(P)
  BY PositionsAreFinite
<1>2. IsFiniteSet(T) /\ Cardinality(T) <= Cardinality(P)
  BY <1>1, FS_Subset
<1>3. Cardinality(P) \in Nat /\ Cardinality(T) \in Nat
  BY <1>1, <1>2, FS_CardinalityType
<1>4. T = {} => Cardinality(T) = 0
  BY FS_EmptySet
<1> QED BY <1>2, <1>3, <1>4
-----------------------------------------------------------------------------
(* The rules *)

(* Windows are sequences of annotated events; only their length matters.     *)
IsWindow(ev) == Len(ev) \in Nat

(* What a rule may return: groups that are not empty, of live events, and no *)
(* two of them with an event in common.                                      *)
Disjoint(supers) ==
    \A s, t \in supers : s = t \/ s.members \cap t.members = {}

GroupsOf(supers, live) ==
    /\ \A s \in supers : s.members # {} /\ s.members \subseteq live
    /\ Disjoint(supers)

LEMMA NodeGroups ==
    ASSUME NEW ev, IsWindow(ev), NEW C
    PROVE  GroupsOf(NodeRule(ev, C), Live(ev, C))
<1> DEFINE live == Live(ev, C)
           At(n) == {k \in live : IsNodeFault(ev[k]) /\ ev[k].name = n}
           nodes == {ev[k].name : k \in {j \in live : IsNodeFault(ev[j])}}
           group(n) == {NodeEvent(ev, live, n)} \cup NodePods(ev, live, n)
           hits == {m \in nodes : Cardinality(NodePods(ev, live, m)) >= MinPodFailures}
<1>1. NodeRule(ev, C) \subseteq {NewSuperEvent(ev, "NodeCascade", group(n)) : n \in hits}
  BY DEF NodeRule, IfEnabled, evaluateNodeCascade
<1>2. ASSUME NEW n \in nodes PROVE NodeEvent(ev, live, n) \in At(n)
  <2>1. At(n) \in SUBSET (1..Len(ev)) /\ At(n) # {}
    BY DEF Live
  <2>2. NodeEvent(ev, live, n) = Max(At(n))
    BY DEF NodeEvent
  <2> HIDE DEF At
  <2> QED BY <2>1, <2>2, LastPosition DEF IsWindow
<1>3. ASSUME NEW n \in nodes, NEW k \in group(n)
      PROVE  /\ k \in live
             /\ \/ ev[k].kind = "Node" /\ ev[k].name = n
                \/ ev[k].kind = "Pod" /\ ev[k].nodeAnn = n
  BY <1>2 DEF NodePods, IsNodeFault
<1>4. \A n, m \in nodes : n = m \/ group(n) \cap group(m) = {}
  <2> HIDE DEF group, nodes
  <2> QED BY <1>3
<1>5. \A n : group(n) # {} /\ NewSuperEvent(ev, "NodeCascade", group(n)).members = group(n)
  BY DEF NewSuperEvent
<1>6. hits \subseteq nodes
  OBVIOUS
<1> HIDE DEF group, nodes, hits
<1> QED BY <1>1, <1>3, <1>4, <1>5, <1>6 DEF GroupsOf, Disjoint

LEMMA RolloutGroups ==
    ASSUME NEW ev, IsWindow(ev), NEW C
    PROVE  GroupsOf(RolloutRule(ev, C), Live(ev, C))
<1> DEFINE live == Live(ev, C)
           keys == {<<ev[k].ns, ev[k].deployAnn>> : k \in live}
           group(d) == DeployPods(ev, live, d)
           hits == {c \in keys : Cardinality(group(c)) >= DeployMinPods}
<1>1. RolloutRule(ev, C) \subseteq
        {NewSuperEvent(ev, "DeploymentRollout", group(d)) : d \in hits}
  BY DEF RolloutRule, IfEnabled, evaluateDeploymentRollout
<1>2. \A d : \A k \in group(d) : k \in live /\ <<ev[k].ns, ev[k].deployAnn>> = d
  BY DEF DeployPods
<1>3. ASSUME NEW d \in hits PROVE group(d) # {}
  BY ThresholdsAssumption, FS_EmptySet
<1>4. \A d : NewSuperEvent(ev, "DeploymentRollout", group(d)).members = group(d)
  BY DEF NewSuperEvent
<1>5. \A d, c : d = c \/ group(d) \cap group(c) = {}
  BY <1>2
<1> HIDE DEF group, hits
<1> QED BY <1>1, <1>2, <1>3, <1>4, <1>5 DEF GroupsOf, Disjoint

LEMMA StorageGroups ==
    ASSUME NEW ev, IsWindow(ev), NEW C
    PROVE  GroupsOf(StorageRule(ev, C), Live(ev, C))
<1> DEFINE live == Live(ev, C)
           At(c) == {k \in live : IsPVCFault(ev[k]) /\ <<ev[k].ns, ev[k].name>> = c}
           claims == {<<ev[k].ns, ev[k].name>> : k \in {j \in live : IsPVCFault(ev[j])}}
           group(c) == {Max(At(c))} \cup PVCPods(ev, live, c)
           hits == {d \in claims : PVCPods(ev, live, d) # {}}
<1>1. StorageRule(ev, C) \subseteq {NewSuperEvent(ev, "StorageCascade", group(c)) : c \in hits}
  BY DEF StorageRule, IfEnabled, evaluateStorageCascade
<1>2. ASSUME NEW c \in claims PROVE Max(At(c)) \in At(c)
  <2>1. At(c) \in SUBSET (1..Len(ev)) /\ At(c) # {}
    BY DEF Live
  <2> HIDE DEF At
  <2> QED BY <2>1, LastPosition DEF IsWindow
<1>3. ASSUME NEW c \in claims, NEW k \in group(c)
      PROVE  /\ k \in live
             /\ \/ ev[k].kind = "PersistentVolumeClaim" /\ <<ev[k].ns, ev[k].name>> = c
                \/ ev[k].kind = "Pod" /\ <<ev[k].ns, ev[k].pvcAnn>> = c
  BY <1>2 DEF PVCPods, IsPVCFault
<1>4. \A c, d \in claims : c = d \/ group(c) \cap group(d) = {}
  <2> HIDE DEF group, claims
  <2> QED BY <1>3
<1>5. \A c : group(c) # {} /\ NewSuperEvent(ev, "StorageCascade", group(c)).members = group(c)
  BY DEF NewSuperEvent
<1>6. hits \subseteq claims
  OBVIOUS
<1> HIDE DEF group, claims, hits
<1> QED BY <1>1, <1>3, <1>4, <1>5, <1>6 DEF GroupsOf, Disjoint

LEMMA StormGroups ==
    ASSUME NEW ev, IsWindow(ev), NEW C
    PROVE  GroupsOf(StormRule(ev, C), Live(ev, C))
<1> DEFINE live == Live(ev, C)
           group(n) == NamespaceEvents(ev, live, n)
           hits == {m \in {ev[k].ns : k \in live} : Cardinality(group(m)) > StormThreshold}
<1>1. StormRule(ev, C) \subseteq {NewSuperEvent(ev, "NamespaceStorm", group(n)) : n \in hits}
  BY DEF StormRule, IfEnabled, evaluateNamespaceStorm
<1>2. \A n : \A k \in group(n) : k \in live /\ ev[k].ns = n
  BY DEF NamespaceEvents
<1>3. ASSUME NEW n \in hits PROVE group(n) # {}
  BY ThresholdsAssumption, FS_EmptySet
<1>4. \A n : NewSuperEvent(ev, "NamespaceStorm", group(n)).members = group(n)
  BY DEF NewSuperEvent
<1>5. \A n, m : n = m \/ group(n) \cap group(m) = {}
  BY <1>2
<1> HIDE DEF group, hits
<1> QED BY <1>1, <1>2, <1>3, <1>4, <1>5 DEF GroupsOf, Disjoint

(* A rule that works on what the earlier ones left keeps groups apart.       *)
LEMMA LaterGroups ==
    ASSUME NEW ev, NEW R, NEW Q, GroupsOf(R, 1..Len(ev)), GroupsOf(Q, Live(ev, Members(R)))
    PROVE  GroupsOf(R \cup Q, 1..Len(ev))
<1>1. \A s \in Q : s.members # {} /\ s.members \subseteq 1..Len(ev)
                     /\ s.members \cap Members(R) = {}
  BY DEF GroupsOf, Live
<1>2. \A s \in R : s.members \subseteq Members(R)
  BY DEF Members
<1> QED BY <1>1, <1>2 DEF GroupsOf, Disjoint
-----------------------------------------------------------------------------
(* Later rules leave nothing behind for earlier ones *)

(* Events D has not consumed are among those C has not: what a rule would    *)
(* group of the former it has already grouped, with more, of the latter.     *)
LEMMA NodeTakesAll ==
    ASSUME NEW ev, IsWindow(ev), NEW C, NEW D, Live(ev, D) \subseteq Live(ev, C),
           Members(NodeRule(ev, C)) \cap Live(ev, D) = {}
    PROVE  NodeRule(ev, D) = {}
<1> DEFINE nodes(L) == {ev[k].name : k \in {j \in L : IsNodeFault(ev[j])}}
           pods(L, n) == NodePods(ev, L, n)
           group(L, n) == {NodeEvent(ev, L, n)} \cup pods(L, n)
           hits(L) == {m \in nodes(L) : Cardinality(pods(L, m)) >= MinPodFailures}
<1>0. \A X : "NodeCascade" \in EnabledRules =>
        NodeRule(ev, X) = {NewSuperEvent(ev, "NodeCascade", group(Live(ev, X), n)) :
                              n \in hits(Live(ev, X))}
  BY DEF NodeRule, IfEnabled, evaluateNodeCascade
<1>1. CASE "NodeCascade" \notin EnabledRules
  BY <1>1 DEF NodeRule, IfEnabled
<1>2. CASE "NodeCascade" \in EnabledRules
  <2>1. ASSUME NEW n \in hits(Live(ev, D)) PROVE FALSE
    <3>1. n \in nodes(Live(ev, C))
      OBVIOUS
    <3>2. pods(Live(ev, D), n) \subseteq pods(Live(ev, C), n)
            /\ pods(Live(ev, C), n) \subseteq 1..Len(ev)
            /\ pods(Live(ev, D), n) \subseteq Live(ev, D)
      BY DEF NodePods, Live
    <3>3. Cardinality(pods(Live(ev, D), n)) >= MinPodFailures
      OBVIOUS
    <3> HIDE DEF pods, nodes
    <3>4. Cardinality(pods(Live(ev, C), n)) >= MinPodFailures /\ pods(Live(ev, D), n) # {}
      <4>1. /\ Cardinality(pods(Live(ev, D), n)) <= Cardinality(pods(Live(ev, C), n))
            /\ Cardinality(pods(Live(ev, C), n)) \in Nat /\ Cardinality(pods(Live(ev, D), n)) \in Nat
            /\ Cardinality(pods(Live(ev, D), n)) > 0 => pods(Live(ev, D), n) # {}
        BY <3>2, CountGrows DEF IsWindow
      <4>2. MinPodFailures \in Nat \ {0}
        BY ThresholdsAssumption
      <4> QED BY <3>3, <4>1, <4>2
    <3>5. NewSuperEvent(ev, "NodeCascade", group(Live(ev, C), n)) \in NodeRule(ev, C)
      BY <1>0, <1>2, <3>1, <3>4
    <3>6. pods(Live(ev, C), n) \subseteq Members(NodeRule(ev, C))
      <4>1. pods(Live(ev, C), n) \subseteq
              NewSuperEvent(ev, "NodeCascade", group(Live(ev, C), n)).members
        BY DEF NewSuperEvent
      <4> HIDE DEF group
      <4> QED BY <3>5, <4>1 DEF Members
    <3> QED BY <3>2, <3>4, <3>6
  <2> HIDE DEF hits
  <2> QED BY <1>0, <1>2, <2>1
<1> QED BY <1>1, <1>2

LEMMA RolloutTakesAll ==
    ASSUME NEW ev, IsWindow(ev), NEW C, NEW D, Live(ev, D) \subseteq Live(ev, C),
           Members(RolloutRule(ev, C)) \cap Live(ev, D) = {}
    PROVE  RolloutRule(ev, D) = {}
<1> DEFINE keys(L) == {<<ev[k].ns, ev[k].deployAnn>> : k \in L}
           group(L, d) == DeployPods(ev, L, d)
           hits(L) == {c \in keys(L) : Cardinality(group(L, c)) >= DeployMinPods}
<1>0. \A X : "DeploymentRollout" \in EnabledRules =>
        RolloutRule(ev, X) =
          {NewSuperEvent(ev, "DeploymentRollout", group(Live(ev, X), d)) :
              d \in hits(Live(ev, X))}
  BY DEF RolloutRule, IfEnabled, evaluateDeploymentRollout
<1>1. CASE "DeploymentRollout" \notin EnabledRules
  BY <1>1 DEF RolloutRule, IfEnabled
<1>2. CASE "DeploymentRollout" \in EnabledRules
  <2>1. ASSUME NEW d \in hits(Live(ev, D)) PROVE FALSE
    <3>1. d \in keys(Live(ev, C))
      OBVIOUS
    <3>2. group(Live(ev, D), d) \subseteq group(Live(ev, C), d)
            /\ group(Live(ev, C), d) \subseteq 1..Len(ev)
            /\ group(Live(ev, D), d) \subseteq Live(ev, D)
      BY DEF DeployPods, Live
    <3>3. Cardinality(group(Live(ev, D), d)) >= DeployMinPods
      OBVIOUS
    <3> HIDE DEF group, keys
    <3>4. Cardinality(group(Live(ev, C), d)) >= DeployMinPods /\ group(Live(ev, D), d) # {}
      <4>1. /\ Cardinality(group(Live(ev, D), d)) <= Cardinality(group(Live(ev, C), d))
            /\ Cardinality(group(Live(ev, C), d)) \in Nat /\ Cardinality(group(Live(ev, D), d)) \in Nat
            /\ Cardinality(group(Live(ev, D), d)) > 0 => group(Live(ev, D), d) # {}
        BY <3>2, CountGrows DEF IsWindow
      <4>2. DeployMinPods \in Nat \ {0}
        BY ThresholdsAssumption
      <4> QED BY <3>3, <4>1, <4>2
    <3>5. NewSuperEvent(ev, "DeploymentRollout", group(Live(ev, C), d)) \in RolloutRule(ev, C)
      BY <1>0, <1>2, <3>1, <3>4
    <3>6. group(Live(ev, C), d) \subseteq Members(RolloutRule(ev, C))
      BY <3>5 DEF NewSuperEvent, Members
    <3> QED BY <3>2, <3>4, <3>6
  <2> HIDE DEF hits
  <2> QED BY <1>0, <1>2, <2>1
<1> QED BY <1>1, <1>2

LEMMA StorageTakesAll ==
    ASSUME NEW ev, IsWindow(ev), NEW C, NEW D, Live(ev, D) \subseteq Live(ev, C),
           Members(StorageRule(ev, C)) \cap Live(ev, D) = {}
    PROVE  StorageRule(ev, D) = {}
<1> DEFINE claims(L) == {<<ev[k].ns, ev[k].name>> : k \in {j \in L : IsPVCFault(ev[j])}}
           claimEvent(L, c) == Max({k \in L : IsPVCFault(ev[k]) /\ <<ev[k].ns, ev[k].name>> = c})
           pods(L, c) == PVCPods(ev, L, c)
           group(L, c) == {claimEvent(L, c)} \cup pods(L, c)
           hits(L) == {d \in claims(L) : pods(L, d) # {}}
<1>0. \A X : "StorageCascade" \in EnabledRules =>
        StorageRule(ev, X) = {NewSuperEvent(ev, "StorageCascade", group(Live(ev, X), c)) :
                                 c \in hits(Live(ev, X))}
  BY DEF StorageRule, IfEnabled, evaluateStorageCascade
<1>1. CASE "StorageCascade" \notin EnabledRules
  BY <1>1 DEF StorageRule, IfEnabled
<1>2. CASE "StorageCascade" \in EnabledRules
  <2>1. ASSUME NEW c \in hits(Live(ev, D)) PROVE FALSE
    <3>1. c \in claims(Live(ev, C))
      OBVIOUS
    <3>2. pods(Live(ev, D), c) \subseteq pods(Live(ev, C), c)
            /\ pods(Live(ev, D), c) \subseteq Live(ev, D) /\ pods(Live(ev, D), c) # {}
      BY DEF PVCPods
    <3> HIDE DEF pods, claims, claimEvent
    <3>5. NewSuperEvent(ev, "StorageCascade", group(Live(ev, C), c)) \in StorageRule(ev, C)
      BY <1>0, <1>2, <3>1, <3>2
    <3>6. pods(Live(ev, C), c) \subseteq Members(StorageRule(ev, C))
      <4>1. pods(Live(ev, C), c) \subseteq
              NewSuperEvent(ev, "StorageCascade", group(Live(ev, C), c)).members
        BY DEF NewSuperEvent
      <4> HIDE DEF group
      <4> QED BY <3>5, <4>1 DEF Members
    <3> QED BY <3>2, <3>6
  <2> HIDE DEF hits
  <2> QED BY <1>0, <1>2, <2>1
<1> QED BY <1>1, <1>2

LEMMA StormTakesAll ==
    ASSUME NEW ev, IsWindow(ev), NEW C, NEW D, Live(ev, D) \subseteq Live(ev, C),
           Members(StormRule(ev, C)) \cap Live(ev, D) = {}
    PROVE  StormRule(ev, D) = {}
<1> DEFINE names(L) == {ev[k].ns : k \in L}
           group(L, n) == NamespaceEvents(ev, L, n)
           hits(L) == {m \in names(L) : Cardinality(group(L, m)) > StormThreshold}
<1>0. \A X : "NamespaceStorm" \in EnabledRules =>
        StormRule(ev, X) = {NewSuperEvent(ev, "NamespaceStorm", group(Live(ev, X), n)) :
                               n \in hits(Live(ev, X))}
  BY DEF StormRule, IfEnabled, evaluateNamespaceStorm
<1>1. CASE "NamespaceStorm" \notin EnabledRules
  BY <1>1 DEF StormRule, IfEnabled
<1>2. CASE "NamespaceStorm" \in EnabledRules
  <2>1. ASSUME NEW n \in hits(Live(ev, D)) PROVE FALSE
    <3>1. n \in names(Live(ev, C))
      OBVIOUS
    <3>2. group(Live(ev, D), n) \subseteq group(Live(ev, C), n)
            /\ group(Live(ev, C), n) \subseteq 1..Len(ev)
            /\ group(Live(ev, D), n) \subseteq Live(ev, D)
      BY DEF NamespaceEvents, Live
    <3>3. Cardinality(group(Live(ev, D), n)) > StormThreshold
      OBVIOUS
    <3> HIDE DEF group, names
    <3>4. Cardinality(group(Live(ev, C), n)) > StormThreshold /\ group(Live(ev, D), n) # {}
      <4>1. /\ Cardinality(group(Live(ev, D), n)) <= Cardinality(group(Live(ev, C), n))
            /\ Cardinality(group(Live(ev, C), n)) \in Nat /\ Cardinality(group(Live(ev, D), n)) \in Nat
            /\ Cardinality(group(Live(ev, D), n)) > 0 => group(Live(ev, D), n) # {}
        BY <3>2, CountGrows DEF IsWindow
      <4>2. StormThreshold \in Nat \ {0}
        BY ThresholdsAssumption
      <4> QED BY <3>3, <4>1, <4>2
    <3>5. NewSuperEvent(ev, "NamespaceStorm", group(Live(ev, C), n)) \in StormRule(ev, C)
      BY <1>0, <1>2, <3>1, <3>4
    <3>6. group(Live(ev, C), n) \subseteq Members(StormRule(ev, C))
      BY <3>5 DEF NewSuperEvent, Members
    <3> QED BY <3>2, <3>4, <3>6
  <2> HIDE DEF hits
  <2> QED BY <1>0, <1>2, <2>1
<1> QED BY <1>1, <1>2
-----------------------------------------------------------------------------
(* The window *)

(* What the handler is given for a window.                                   *)
Result(ev) == [window |-> ev, supers |-> evaluate(ev).supers, singles |-> evaluate(ev).singles]

(* The three properties of what one window became.                           *)
Partitioned(r) ==
    /\ 1..Len(r.window) = r.singles \cup Members(r.supers)
    /\ \A s \in r.supers : s.members # {} /\ s.members \cap r.singles = {}
    /\ Disjoint(r.supers)

Exhausted(r) ==
    LET taken == (1..Len(r.window)) \ r.singles
    IN  NodeRule(r.window, taken) \cup RolloutRule(r.window, taken)
          \cup StorageRule(r.window, taken) \cup StormRule(r.window, taken) = {}

KeepsPods(ev, supers) ==
    LET all == 1..Len(ev)
    IN  \A k \in all :
            (/\ "NodeCascade" \in EnabledRules
             /\ IsNodeFault(ev[k])
             /\ Cardinality(NodePods(ev, all, ev[k].name)) >= MinPodFailures)
            => \E s \in supers :
                /\ s.rule = "NodeCascade"
                /\ NodePods(ev, all, ev[k].name) \subseteq s.members
                /\ \E j \in s.members : IsNodeFault(ev[j]) /\ ev[j].name = ev[k].name

(* The four stages of evaluate.                                              *)
Stage1(ev) == NodeRule(ev, {})
Stage2(ev) == Stage1(ev) \cup RolloutRule(ev, Members(Stage1(ev)))
Stage3(ev) == Stage2(ev) \cup StorageRule(ev, Members(Stage2(ev)))
Stage4(ev) == Stage3(ev) \cup StormRule(ev, Members(Stage3(ev)))

LEMMA ResultIsLastStage ==
    ASSUME NEW ev
    PROVE  /\ Result(ev).window = ev
           /\ Result(ev).supers = Stage4(ev)
           /\ Result(ev).singles = Live(ev, Members(Stage4(ev)))
BY DEF Result, evaluate, Stage1, Stage2, Stage3, Stage4

(* Whatever the rules compete for, the groups and the rest cover the window  *)
(* without overlap.                                                          *)
LEMMA ResultIsPartitioned ==
    ASSUME NEW ev, IsWindow(ev)
    PROVE  Partitioned(Result(ev))
<1>1. GroupsOf(Stage1(ev), 1..Len(ev))
  <2>1. Live(ev, {}) = 1..Len(ev)
    BY DEF Live
  <2> QED BY <2>1, NodeGroups DEF Stage1
<1>2. GroupsOf(Stage2(ev), 1..Len(ev))
  BY <1>1, RolloutGroups, LaterGroups DEF Stage2
<1>3. GroupsOf(Stage3(ev), 1..Len(ev))
  BY <1>2, StorageGroups, LaterGroups DEF Stage3
<1>4. GroupsOf(Stage4(ev), 1..Len(ev))
  BY <1>3, StormGroups, LaterGroups DEF Stage4
<1>5. Members(Stage4(ev)) \subseteq 1..Len(ev)
      /\ \A s \in Stage4(ev) : s.members \subseteq Members(Stage4(ev))
  BY <1>4 DEF GroupsOf, Members
<1> HIDE DEF Stage4
<1> QED BY <1>4, <1>5, ResultIsLastStage DEF Partitioned, GroupsOf, Live

(* A rule applied to the rest finds nothing: it would have taken the group   *)
(* at its own stage, when at least as many events were live.                 *)
LEMMA ResultIsExhausted ==
    ASSUME NEW ev, IsWindow(ev)
    PROVE  Exhausted(Result(ev))
<1> DEFINE singles == Live(ev, Members(Stage4(ev)))
           taken == (1..Len(ev)) \ singles
<1>1. Live(ev, taken) = singles
  BY DEF Live
<1>2. /\ Members(Stage1(ev)) \subseteq Members(Stage2(ev))
      /\ Members(Stage2(ev)) \subseteq Members(Stage3(ev))
      /\ Members(Stage3(ev)) \subseteq Members(Stage4(ev))
      /\ Members(RolloutRule(ev, Members(Stage1(ev)))) \subseteq Members(Stage2(ev))
      /\ Members(StorageRule(ev, Members(Stage2(ev)))) \subseteq Members(Stage3(ev))
      /\ Members(StormRule(ev, Members(Stage3(ev)))) \subseteq Members(Stage4(ev))
  <2>1. \A R, Q : Members(R) \subseteq Members(R \cup Q) /\ Members(Q) \subseteq Members(R \cup Q)
    BY DEF Members
  <2> QED BY <2>1 DEF Stage2, Stage3, Stage4
<1>3. \A C : C \subseteq Members(Stage4(ev)) =>
        Live(ev, taken) \subseteq Live(ev, C) /\ C \cap Live(ev, taken) = {}
  BY <1>1 DEF Live
<1> HIDE DEF taken
<1>4. NodeRule(ev, taken) = {}
  <2>1. Members(NodeRule(ev, {})) \cap Live(ev, taken) = {}
    BY <1>2, <1>3 DEF Stage1
  <2> QED BY <1>3, <2>1, NodeTakesAll
<1>5. RolloutRule(ev, taken) = {}
  <2>1. Members(RolloutRule(ev, Members(Stage1(ev)))) \cap Live(ev, taken) = {}
        /\ Live(ev, taken) \subseteq Live(ev, Members(Stage1(ev)))
    BY <1>2, <1>3
  <2> QED BY <2>1, RolloutTakesAll
<1>6. StorageRule(ev, taken) = {}
  <2>1. Members(StorageRule(ev, Members(Stage2(ev)))) \cap Live(ev, taken) = {}
        /\ Live(ev, taken) \subseteq Live(ev, Members(Stage2(ev)))
    BY <1>2, <1>3
  <2> QED BY <2>1, StorageTakesAll
<1>7. StormRule(ev, taken) = {}
  <2>1. Members(StormRule(ev, Members(Stage3(ev)))) \cap Live(ev, taken) = {}
        /\ Live(ev, taken) \subseteq Live(ev, Members(Stage3(ev)))
    BY <1>2, <1>3
  <2> QED BY <2>1, StormTakesAll
<1> QED BY <1>4, <1>5, <1>6, <1>7, ResultIsLastStage DEF Exhausted, taken

(* The node rule is the first, so it sees the whole window.                  *)
LEMMA ResultKeepsPods ==
    ASSUME NEW ev, IsWindow(ev)
    PROVE  KeepsPods(ev, Stage4(ev))
<1> DEFINE all == 1..Len(ev)
<1>1. SUFFICES ASSUME NEW k \in all,
                      "NodeCascade" \in EnabledRules,
                      IsNodeFault(ev[k]),
                      Cardinality(NodePods(ev, all, ev[k].name)) >= MinPodFailures
               PROVE  \E s \in Stage4(ev) :
                        /\ s.rule = "NodeCascade"
                        /\ NodePods(ev, all, ev[k].name) \subseteq s.members
                        /\ \E j \in s.members : IsNodeFault(ev[j]) /\ ev[j].name = ev[k].name
  BY DEF KeepsPods
<1> DEFINE n == ev[k].name
           At == {j \in all : IsNodeFault(ev[j]) /\ ev[j].name = n}
           s == NewSuperEvent(ev, "NodeCascade", {NodeEvent(ev, all, n)} \cup NodePods(ev, all, n))
<1>2. Live(ev, {}) = all
  BY DEF Live
<1>3. s \in NodeRule(ev, {})
  <2>1. n \in {ev[i].name : i \in {j \in all : IsNodeFault(ev[j])}}
    BY <1>1
  <2> QED BY <1>1, <1>2, <2>1 DEF NodeRule, IfEnabled, evaluateNodeCascade
<1>4. s \in Stage4(ev)
  BY <1>3 DEF Stage1, Stage2, Stage3, Stage4
<1>5. NodeEvent(ev, all, n) \in At
  <2>1. At \in SUBSET (1..Len(ev)) /\ At # {}
    BY <1>1
  <2>2. NodeEvent(ev, all, n) = Max(At)
    BY DEF NodeEvent
  <2> HIDE DEF At
  <2> QED BY <2>1, <2>2, LastPosition DEF IsWindow
<1>6. s.rule = "NodeCascade" /\ NodePods(ev, all, n) \subseteq s.members
        /\ NodeEvent(ev, all, n) \in s.members
  BY DEF NewSuperEvent
<1>7. IsNodeFault(ev[NodeEvent(ev, all, n)]) /\ ev[NodeEvent(ev, all, n)].name = n
  BY <1>5
<1> HIDE DEF s, n
<1> QED BY <1>4, <1>6, <1>7 DEF n

-----------------------------------------------------------------------------
(* The correlator *)

(* The buffer holds annotated faults, and the last result, if there is one,  *)
(* is what evaluate makes of a whole window.                                 *)
CorrelatorInv ==
    /\ buffer \in Seq({Annotate(f) : f \in Faults})
    /\ \/ emitted = NoResult
       \/ \E w \in Seq({Annotate(f) : f \in Faults}) : emitted = Result(w)

(* The correlator keeps it: Submit appends an annotated event and clears the *)
(* last result, evaluateAndEmit swaps the buffer out and hands over its      *)
(* evaluation.                                                               *)
THEOREM CorrelatorInvariant == Spec => []CorrelatorInv
<1> DEFINE E == {Annotate(f) : f \in Faults}
<1>1. Init => CorrelatorInv
  BY DEF Init, CorrelatorInv
<1>2. CorrelatorInv /\ [Next]_vars => CorrelatorInv'
  <2> SUFFICES ASSUME CorrelatorInv, [Next]_vars PROVE CorrelatorInv'
    OBVIOUS
  <2>0. buffer \in Seq(E)
    BY DEF CorrelatorInv
  <2>1. ASSUME NEW f \in Faults, Submit(f) PROVE CorrelatorInv'
    <3>1. Annotate(f) \in E
      OBVIOUS
    <3> HIDE DEF E
    <3>2. buffer' \in Seq(E)
      BY <2>0, <2>1, <3>1 DEF Submit
    <3> QED BY <2>1, <3>2 DEF Submit, CorrelatorInv, E
  <2>2. CASE evaluateAndEmit
    <3>1. emitted' = Result(buffer)
      BY <2>2 DEF evaluateAndEmit, Result
    <3>2. buffer' \in Seq(E)
      BY <2>2 DEF evaluateAndEmit
    <3> QED BY <2>0, <3>1, <3>2 DEF CorrelatorInv
  <2>3. CASE UNCHANGED vars
    BY <2>3 DEF CorrelatorInv, vars
  <2> QED BY <2>1, <2>2, <2>3 DEF Next
<1> QED BY <1>1, <1>2, PTL DEF Spec

(* No result is the result of the empty window, and every other result comes *)
(* from a window that is a sequence.                                         *)
LEMMA EmittedIsAResult ==
    ASSUME CorrelatorInv
    PROVE  \E w : IsWindow(w) /\ emitted = Result(w)
<1>1. CASE emitted = NoResult
  <2>1. IsWindow(<< >>) /\ 1..Len(<< >>) = {}
    BY DEF IsWindow
  <2>2. \A C : Live(<< >>, C) = {}
    BY <2>1 DEF Live
  <2>3. Stage4(<< >>) = {} 
    <3>1. \A C : NodeRule(<< >>, C) = {} /\ RolloutRule(<< >>, C) = {}
                   /\ StorageRule(<< >>, C) = {} /\ StormRule(<< >>, C) = {}
      BY <2>2 DEF NodeRule, RolloutRule, StorageRule, StormRule, IfEnabled,
                  evaluateNodeCascade, evaluateDeploymentRollout,
                  evaluateStorageCascade, evaluateNamespaceStorm
    <3> QED BY <3>1 DEF Stage1, Stage2, Stage3, Stage4
  <2>4. Result(<< >>) = NoResult
    <3>1. evaluate(<< >>).supers = {} /\ evaluate(<< >>).singles = {}
      BY <2>2, <2>3 DEF evaluate, Stage1, Stage2, Stage3, Stage4
    <3> QED BY <3>1 DEF Result, NoResult
  <2> QED BY <1>1, <2>1, <2>4
<1>2. CASE \E w \in Seq({Annotate(f) : f \in Faults}) : emitted = Result(w)
  BY <1>2 DEF IsWindow
<1> QED BY <1>1, <1>2 DEF CorrelatorInv

(* Nothing is lost or duplicated by correlation: in every state, the events  *)
(* of the last window are divided between super-events and single events.    *)
THEOREM WindowIsPartitionedCorrect == Spec => []WindowIsPartitioned
<1>1. CorrelatorInv => WindowIsPartitioned
  BY EmittedIsAResult, ResultIsPartitioned DEF Partitioned, Disjoint, WindowIsPartitioned
<1> QED BY <1>1, CorrelatorInvariant, PTL

(* The order of the rules leaves nothing uncorrelated: no rule would find a  *)
(* group among the events that passed through.                               *)
THEOREM NothingLeftToCorrelateCorrect == Spec => []NothingLeftToCorrelate
<1>1. CorrelatorInv => NothingLeftToCorrelate
  BY EmittedIsAResult, ResultIsExhausted DEF Exhausted, NothingLeftToCorrelate
<1> QED BY <1>1, CorrelatorInvariant, PTL

(* A failed node keeps all of its pods in one super-event, with the node's   *)
(* own event in it.                                                          *)
THEOREM NodeFailureKeepsItsPodsCorrect == Spec => []NodeFailureKeepsItsPods
<1>1. CorrelatorInv => NodeFailureKeepsItsPods
  <2> SUFFICES ASSUME CorrelatorInv PROVE NodeFailureKeepsItsPods
    OBVIOUS
  <2>1. PICK w : IsWindow(w) /\ emitted = Result(w)
    BY EmittedIsAResult
  <2>2. KeepsPods(emitted.window, emitted.supers)
    BY <2>1, ResultKeepsPods, ResultIsLastStage
  <2> QED BY <2>2 DEF KeepsPods, NodeFailureKeepsItsPods
<1> QED BY <1>1, CorrelatorInvariant, PTL
-----------------------------------------------------------------------------
(* The detectors *)

(* Versions of the object as they are queued: always one.                    *)
Versions == {{v} : v \in scene.versions}

Ages == 0..Never

BridgeTypeOK ==
    /\ scene \in Scenes
    /\ wirings \in Nat \ {0}
    /\ object \in Versions \cup {{}}
    /\ queue \in [Informers -> Seq(Versions)]
    /\ checks \in [Checkers -> SUBSET scene.detectors]
    /\ lastFired \in [Keys -> Ages]
    /\ sinceStamp \in [Keys -> Ages]
    /\ stamp \in [Checkers -> Ages]
    /\ step \in [Checkers -> {"idle", "passed", "stamped", "recorded", "calling"}]
    /\ target \in [Checkers -> Keys \cup {"none"}]
    /\ \A g \in Checkers : step[g] # "idle" => target[g] \in Keys

(* An informer that was not started does nothing, and the scan is only about *)
(* the detectors it is for.                                                  *)
WhoChecksInv ==
    /\ \A i \in Informers : i > wirings => queue[i] = <<>> /\ Idle(i)
    /\ checks[Scan] \subseteq Scannable
    /\ step[Scan] # "idle" => target[Scan] \in Scannable

(* While there is one informer, the table is no older than the last firing   *)
(* of a fault that only the informer reports, or that firing is cooled down; *)
(* except between RecordFire's two steps, when the stamp is no older.        *)
Firing(f, where) == step[1] = where /\ target[1] = f

SpacingInv ==
    wirings = 1 =>
      \A f \in Keys \ Scannable :
        /\ Firing(f, "passed") => sinceStamp[f] >= Cooldown
        /\ Firing(f, "stamped") => stamp[1] <= sinceStamp[f]
        /\ Firing(f, "stamped") \/ lastFired[f] <= sinceStamp[f] \/ sinceStamp[f] >= Cooldown

(* A pod's cache entry is the version handed out last, whatever the scan     *)
(* does.                                                                     *)
CacheInv ==
    /\ handled \in Versions \cup {{}}
    /\ scene.kind = "Pod" => cache = handled

BridgeInv == BridgeTypeOK /\ WhoChecksInv /\ SpacingInv /\ CacheInv

(* What a callback found in the cache was the version handed out last at     *)
(* some time since its fault passed the cooldown gate.                       *)
Handed == Versions \cup {{}}

SeenInv ==
    scene.kind = "Pod" =>
      /\ seen \in [Checkers -> SUBSET Handed]
      /\ loaded \in [Checkers -> Handed]
      /\ \A g \in Checkers : /\ step[g] # "idle" => handled \in seen[g]
                             /\ step[g] = "calling" => loaded[g] \in seen[g]

(* What the assumptions say about the goroutines and the detectors.          *)
LEMMA BridgeConstants ==
    /\ MaxWirings \in Nat \ {0}
    /\ Cooldown \in Nat \ {0}
    /\ Checkers = Informers \cup {Scan} /\ Scan \notin Informers
    /\ 1 \in Informers /\ Informers \subseteq Nat \ {0}
    /\ MaxAge = 2 * Cooldown + 1 /\ Never = 2 * Cooldown + 2
    /\ Ages \subseteq Nat /\ 0 \in Ages /\ Never \in Ages
    /\ \A s \in Scenes : s.detectors \subseteq Keys
<1>1. MaxWirings \in Nat \ {0} /\ Cooldown \in Nat \ {0}
  BY BridgeAssumption, CooldownAssumption
<1>2. Checkers = Informers \cup {Scan} /\ Scan \notin Informers
  BY <1>1, BridgeAssumption DEF Informers, Scan
<1>3. 1 \in Informers /\ Informers \subseteq Nat \ {0}
  BY <1>1 DEF Informers
<1>4. MaxAge = 2 * Cooldown + 1 /\ Never = 2 * Cooldown + 2
  BY <1>1 DEF MaxAge, Never
<1>5. Ages \subseteq Nat /\ 0 \in Ages /\ Never \in Ages
  BY <1>1, <1>4 DEF Ages
<1> QED BY <1>1, <1>2, <1>3, <1>4, <1>5, BridgeAssumption

(* Time passes for all ages alike.                                           *)
LEMMA OlderAges ==
    ASSUME NEW a \in Ages, NEW b \in Ages
    PROVE  /\ Older(a) \in Ages
           /\ a <= b => Older(a) <= Older(b)
           /\ b >= Cooldown => Older(b) >= Cooldown
BY BridgeConstants DEF Ages, Older

LEMMA BridgeBegins == BridgeInit => BridgeInv
<1> SUFFICES ASSUME BridgeInit PROVE BridgeInv
  OBVIOUS
<1> USE DEF BridgeInit, CooldownInit
<1>1. object \in Versions
  BY DEF Versions
<1>2. queue \in [Informers -> Seq(Versions)]
  BY <1>1
<1>3. BridgeTypeOK
  BY <1>1, <1>2, BridgeConstants DEF BridgeTypeOK
<1>4. WhoChecksInv
  BY BridgeConstants DEF WhoChecksInv, Idle
<1>5. SpacingInv
  BY BridgeConstants DEF SpacingInv, Firing
<1> QED BY <1>3, <1>4, <1>5 DEF BridgeInv, CacheInv

(* The object, the informers' queues, the handlers and the scan's beginning: *)
(* steps that leave the cooldown table alone.                                *)
Queues ==
    \/ ObjectChanges \/ Unwire \/ wireNamespace
    \/ \E i \in Informers : Handle(i) \/ Resync(i)
    \/ ScanLists \/ ScanChecks

LEMMA QueuesKeepBridgeInv == BridgeInv /\ Queues => BridgeInv'
<1> SUFFICES ASSUME BridgeInv, Queues PROVE BridgeInv'
  OBVIOUS
<1>0. BridgeTypeOK /\ WhoChecksInv /\ SpacingInv /\ CacheInv
  BY DEF BridgeInv
<1>1. /\ UNCHANGED <<lastFired, step, target, stamp, sinceStamp, scene>>
      /\ wirings' = wirings \/ wirings' = wirings + 1
  BY DEF Queues, ObjectChanges, Unwire, wireNamespace, Handle, Resync, ScanLists, ScanChecks,
         cooldownVars, objectVars, informerVars
<1>2. /\ Versions' = Versions /\ Scannable' = Scannable
      /\ \A f, w : Firing(f, w)' <=> Firing(f, w)
  BY <1>1 DEF Versions, Scannable, Firing
<1>3. SpacingInv'
  BY <1>0, <1>1, <1>2 DEF SpacingInv, BridgeTypeOK
<1>4. CASE ObjectChanges
  <2>1. UNCHANGED <<wirings, checks, cache, handled>>
    BY <1>4 DEF ObjectChanges
  <2>2. /\ object' \in Versions \cup {{}}
        /\ queue' \in [Informers -> Seq(Versions)]
        /\ \A i \in Informers : i > wirings => queue'[i] = queue[i]
    <3>1. CASE object' = {} /\ UNCHANGED queue
      BY <3>1, <1>0 DEF BridgeTypeOK
    <3>2. ASSUME NEW v \in scene.versions, object' = {v}, queue' = Notify({v})
          PROVE  <2>2!:
      <4>1. {v} \in Versions
        BY DEF Versions
      <4>2. ASSUME NEW i \in Informers
            PROVE  /\ queue'[i] \in Seq(Versions)
                   /\ i > wirings => queue'[i] = queue[i]
        BY <1>0, <3>2, <4>1, BridgeConstants DEF Notify, BridgeTypeOK
      <4> QED BY <3>2, <4>1, <4>2 DEF Notify
    <3> QED BY <1>4, <3>1, <3>2 DEF ObjectChanges
  <2> QED BY <1>0, <1>1, <1>2, <1>3, <2>1, <2>2
       DEF BridgeInv, BridgeTypeOK, WhoChecksInv, CacheInv, Idle
<1>5. CASE Unwire
  <2>1. UNCHANGED <<object, wirings, queue, checks, cache, handled>>
    BY <1>5 DEF Unwire, objectVars
  <2> QED BY <1>0, <1>1, <1>2, <1>3, <2>1
       DEF BridgeInv, BridgeTypeOK, WhoChecksInv, CacheInv, Idle
<1>6. CASE wireNamespace
  <2>1. /\ UNCHANGED <<object, checks, cache, handled>>
        /\ wirings' = wirings + 1
    BY <1>6 DEF wireNamespace, objectVars
  <2>2. /\ queue' \in [Informers -> Seq(Versions)]
        /\ \A i \in Informers : i > wirings' => queue'[i] = queue[i]
    <3>1. wirings \in Nat /\ wirings' \in Nat /\ Informers \subseteq Nat
      BY <1>0, <2>1, BridgeConstants DEF BridgeTypeOK
    <3> DEFINE q == IF object = {} THEN <<>> ELSE <<object>>
    <3>2. q \in Seq(Versions)
      BY <1>0 DEF BridgeTypeOK
    <3>3. queue' = [queue EXCEPT ![wirings + 1] = q]
      BY <1>6 DEF wireNamespace
    <3> HIDE DEF q
    <3>4. \A i \in Informers : i > wirings' => i # wirings + 1
      BY <2>1, <3>1
    <3> QED BY <1>0, <3>2, <3>3, <3>4 DEF BridgeTypeOK
  <2>3. \A i \in Informers : i > wirings' => i > wirings
    BY <1>0, <2>1, BridgeConstants DEF BridgeTypeOK
  <2> QED BY <1>0, <1>1, <1>2, <1>3, <2>1, <2>2, <2>3
       DEF BridgeInv, BridgeTypeOK, WhoChecksInv, CacheInv, Idle
<1>7. ASSUME NEW i \in Informers, Resync(i) PROVE BridgeInv'
  <2>1. /\ UNCHANGED <<object, wirings, checks, cache, handled>>
        /\ i <= wirings
    BY <1>7 DEF Resync, objectVars
  <2>2. /\ queue' \in [Informers -> Seq(Versions)]
        /\ \A j \in Informers : j > wirings => queue'[j] = queue[j]
    BY <1>0, <1>7, <2>1, BridgeConstants DEF Resync, BridgeTypeOK
  <2> QED BY <1>0, <1>1, <1>2, <1>3, <2>1, <2>2
       DEF BridgeInv, BridgeTypeOK, WhoChecksInv, CacheInv, Idle
<1>8. ASSUME NEW i \in Informers, Handle(i) PROVE BridgeInv'
  <2>1. /\ UNCHANGED <<object, wirings>>
        /\ queue[i] # <<>>
        /\ queue' = [queue EXCEPT ![i] = Tail(queue[i])]
        /\ checks' = [checks EXCEPT ![i] = ChecksOf(scene.kind)]
        /\ cache' = Cached(queue[i][1])
        /\ handled' = queue[i][1]
    BY <1>8 DEF Handle, objectVars
  <2>2. i <= wirings /\ i # Scan
    BY <1>0, <2>1, BridgeConstants DEF WhoChecksInv, BridgeTypeOK
  <2>3. queue[i] \in Seq(Versions) /\ Tail(queue[i]) \in Seq(Versions)
        /\ queue[i][1] \in Versions
    BY <1>0, <2>1 DEF BridgeTypeOK
  <2>4. /\ queue' \in [Informers -> Seq(Versions)]
        /\ \A j \in Informers : j > wirings => queue'[j] = queue[j]
    BY <1>0, <2>1, <2>2, <2>3, BridgeConstants DEF BridgeTypeOK
  <2>5. ChecksOf(scene.kind) \subseteq scene.detectors
    BY DEF ChecksOf
  <2>6. /\ checks' \in [Checkers -> SUBSET scene.detectors]
        /\ checks'[Scan] = checks[Scan]
        /\ \A j \in Informers : j > wirings => checks'[j] = checks[j]
    BY <1>0, <2>1, <2>2, <2>5, BridgeConstants DEF BridgeTypeOK
  <2>7. CacheInv'
    BY <1>1, <1>2, <2>1, <2>3 DEF CacheInv, Cached
  <2> QED BY <1>0, <1>1, <1>2, <1>3, <2>1, <2>4, <2>6, <2>7
       DEF BridgeInv, BridgeTypeOK, WhoChecksInv, Idle
<1>9. CASE ScanLists
  <2>1. UNCHANGED <<object, wirings, queue, checks, cache, handled>>
    BY <1>9 DEF ScanLists, objectVars, informerVars
  <2> QED BY <1>0, <1>1, <1>2, <1>3, <2>1
       DEF BridgeInv, BridgeTypeOK, WhoChecksInv, CacheInv, Idle
<1>10. CASE ScanChecks
  <2>1. /\ UNCHANGED <<object, wirings, queue, handled>>
        /\ checks' = [checks EXCEPT ![Scan] = ChecksOf(scene.kind) \cap Scannable]
        /\ scene.kind = "Pod" => cache' = cache
    BY <1>10 DEF ScanChecks, objectVars, informerVars
  <2>2. ChecksOf(scene.kind) \subseteq scene.detectors
    BY DEF ChecksOf
  <2>3. /\ checks' \in [Checkers -> SUBSET scene.detectors]
        /\ checks'[Scan] \subseteq Scannable
        /\ \A j \in Informers : checks'[j] = checks[j]
    BY <1>0, <2>1, <2>2, BridgeConstants DEF BridgeTypeOK
  <2> QED BY <1>0, <1>1, <1>2, <1>3, <2>1, <2>3
       DEF BridgeInv, BridgeTypeOK, WhoChecksInv, CacheInv, Idle
<1> QED BY <1>4, <1>5, <1>6, <1>7, <1>8, <1>9, <1>10 DEF Queues

(* A goroutine at work is that of an informer that was started or the scan,  *)
(* and while there is one informer it is one of two.                         *)
LEMMA WhoIsAtWork ==
    ASSUME BridgeTypeOK, WhoChecksInv, NEW g \in Checkers, ~Idle(g)
    PROVE  /\ g \in Informers => g <= wirings
           /\ wirings = 1 => g = 1 \/ g = Scan
<1>1. CASE g = Scan
  BY <1>1, BridgeConstants
<1>2. CASE g \in Informers
  <2>1. g \in Nat \ {0} /\ wirings \in Nat /\ ~(g > wirings)
    BY <1>2, BridgeConstants DEF WhoChecksInv, BridgeTypeOK
  <2> QED BY <2>1
<1> QED BY <1>1, <1>2, BridgeConstants

(* A detector's check, and Emit's first step if it finds the fault.          *)
LEMMA CheckKeepsBridgeInv ==
    ASSUME BridgeInv, NEW g \in Checkers, Check(g)
    PROVE  BridgeInv'
<1>0. BridgeTypeOK /\ WhoChecksInv /\ SpacingInv /\ CacheInv
  BY DEF BridgeInv
<1>1. PICK d \in checks[g] :
        /\ step[g] = "idle"
        /\ checks' = [checks EXCEPT ![g] = @ \ {d}]
        /\ ShouldFire(g, d) \/ UNCHANGED cooldownVars
        /\ UNCHANGED <<scene, object, wirings, queue, cache, handled>>
  BY DEF Check, objectVars, informerVars
<1>2. /\ Versions' = Versions /\ Scannable' = Scannable
  BY <1>1 DEF Versions, Scannable
<1>3. d \in scene.detectors /\ d \in Keys /\ (g = Scan => d \in Scannable)
  BY <1>0, <1>1, BridgeConstants DEF BridgeTypeOK, WhoChecksInv
<1>4. /\ checks' \in [Checkers -> SUBSET scene.detectors]
      /\ \A h \in Checkers : checks'[h] \subseteq checks[h]
  BY <1>0, <1>1 DEF BridgeTypeOK
<1>5. (g \in Informers => g <= wirings) /\ (wirings = 1 => g = 1 \/ g = Scan)
  BY <1>0, <1>1, WhoIsAtWork DEF Idle
<1>6. UNCHANGED <<lastFired, stamp, sinceStamp>>
  BY <1>1 DEF ShouldFire, cooldownVars
<1>7. CacheInv'
  BY <1>0, <1>1, <1>2 DEF CacheInv
<1>8. CASE UNCHANGED <<step, target>>
  <2>1. \A f, w : Firing(f, w)' <=> Firing(f, w)
    BY <1>8 DEF Firing
  <2>2. SpacingInv'
    BY <1>0, <1>1, <1>2, <1>6, <2>1 DEF SpacingInv
  <2> QED BY <1>0, <1>1, <1>2, <1>4, <1>6, <1>7, <1>8, <2>2, BridgeConstants
       DEF BridgeInv, BridgeTypeOK, WhoChecksInv, Idle
<1>9. CASE ~UNCHANGED <<step, target>>
  <2>1. /\ lastFired[d] >= Cooldown
        /\ step' = [step EXCEPT ![g] = "passed"]
        /\ target' = [target EXCEPT ![g] = d]
    BY <1>1, <1>9 DEF ShouldFire, CooledDown, cooldownVars
  <2>2. /\ step' \in [Checkers -> {"idle", "passed", "stamped", "recorded", "calling"}]
        /\ target' \in [Checkers -> Keys \cup {"none"}]
        /\ step'[g] = "passed" /\ target'[g] = d
        /\ \A h \in Checkers \ {g} : step'[h] = step[h] /\ target'[h] = target[h]
    BY <1>0, <1>3, <2>1 DEF BridgeTypeOK
  <2>3. BridgeTypeOK'
    BY <1>0, <1>1, <1>2, <1>3, <1>4, <1>6, <2>2 DEF BridgeTypeOK
  <2>4. WhoChecksInv'
    <3>1. ASSUME NEW i \in Informers, i > wirings' PROVE queue'[i] = <<>> /\ Idle(i)'
      <4>1. i # g
        BY <1>0, <1>1, <1>5, <3>1, BridgeConstants DEF BridgeTypeOK
      <4>2. queue[i] = <<>> /\ step[i] = "idle" /\ checks[i] = {}
        BY <1>0, <1>1, <3>1 DEF WhoChecksInv, Idle
      <4> QED BY <1>1, <1>4, <2>2, <4>1, <4>2, BridgeConstants DEF Idle
    <3>2. /\ checks'[Scan] \subseteq Scannable'
          /\ step'[Scan] # "idle" => target'[Scan] \in Scannable'
      BY <1>0, <1>2, <1>3, <1>4, <2>2, BridgeConstants DEF WhoChecksInv
    <3> QED BY <3>1, <3>2 DEF WhoChecksInv
  <2>5. SpacingInv'
    <3> SUFFICES ASSUME wirings = 1, NEW f \in Keys \ Scannable
                 PROVE  /\ Firing(f, "passed")' => sinceStamp[f] >= Cooldown
                        /\ Firing(f, "stamped")' => stamp[1] <= sinceStamp[f]
                        /\ \/ Firing(f, "stamped")'
                           \/ lastFired[f] <= sinceStamp[f] \/ sinceStamp[f] >= Cooldown
      BY <1>1, <1>2, <1>6 DEF SpacingInv
    <3>1. /\ Firing(f, "passed") => sinceStamp[f] >= Cooldown
          /\ Firing(f, "stamped") => stamp[1] <= sinceStamp[f]
          /\ Firing(f, "stamped") \/ lastFired[f] <= sinceStamp[f] \/ sinceStamp[f] >= Cooldown
      BY <1>0 DEF SpacingInv
    <3>2. CASE g = 1
      <4>1. lastFired[f] \in Nat /\ sinceStamp[f] \in Nat /\ Cooldown \in Nat
        BY <1>0, BridgeConstants DEF BridgeTypeOK
      <4>2. ~Firing(f, "stamped") /\ ~Firing(f, "stamped")' /\ (Firing(f, "passed")' => f = d)
        BY <1>1, <2>2, <3>2 DEF Firing
      <4> QED BY <2>1, <3>1, <4>1, <4>2
    <3>3. CASE g # 1
      <4>1. \A w : Firing(f, w)' <=> Firing(f, w)
        BY <2>2, <3>3, BridgeConstants DEF Firing
      <4> QED BY <3>1, <4>1
    <3> QED BY <3>2, <3>3
  <2> QED BY <1>7, <2>3, <2>4, <2>5 DEF BridgeInv
<1> QED BY <1>8, <1>9

(* RecordFire's two steps and the callback: a goroutine inside Emit moves on *)
(* with the same fault.                                                      *)
LEMMA EmitKeepsBridgeInv ==
    ASSUME BridgeInv, NEW g \in Checkers, Record(g) \/ LoadCached(g) \/ Callback(g)
    PROVE  BridgeInv'
<1>0. BridgeTypeOK /\ WhoChecksInv /\ SpacingInv /\ CacheInv
  BY DEF BridgeInv
<1>1. UNCHANGED <<scene, object, wirings, queue, checks, cache, handled>>
  BY DEF Record, LoadCached, Callback, objectVars, informerVars
<1>2. /\ Versions' = Versions /\ Scannable' = Scannable
  BY <1>1 DEF Versions, Scannable
<1>3. RecordFireNow(g) \/ RecordFire(g) \/ CallbackBegins(g) \/ Emitted(g)
  BY DEF Record, LoadCached, Callback
<1>4. step[g] # "idle" /\ target[g] \in Keys
  BY <1>0, <1>3 DEF RecordFireNow, RecordFire, CallbackBegins, Emitted, BridgeTypeOK
<1>5. /\ (g \in Informers => g <= wirings) /\ (wirings = 1 => g = 1 \/ g = Scan)
      /\ g = Scan => target[g] \in Scannable
  BY <1>0, <1>4, WhoIsAtWork DEF Idle, WhoChecksInv
<1>6. /\ step' \in [Checkers -> {"idle", "passed", "stamped", "recorded", "calling"}]
      /\ target' \in [Checkers -> Keys \cup {"none"}]
      /\ \A h \in Checkers \ {g} : step'[h] = step[h] /\ target'[h] = target[h]
      /\ step'[g] # "idle" => target'[g] = target[g]
  <2>1. CASE RecordFireNow(g)
    BY <1>0, <2>1 DEF RecordFireNow, BridgeTypeOK
  <2>2. CASE RecordFire(g)
    BY <1>0, <2>2 DEF RecordFire, BridgeTypeOK
  <2>3. CASE CallbackBegins(g) \/ Emitted(g)
    BY <1>0, <2>3 DEF CallbackBegins, Emitted, BridgeTypeOK
  <2> QED BY <1>3, <2>1, <2>2, <2>3
<1>7. /\ lastFired' \in [Keys -> Ages] /\ sinceStamp' \in [Keys -> Ages]
      /\ stamp' \in [Checkers -> Ages]
  <2>1. stamp[g] \in Ages /\ 0 \in Ages
    BY <1>0, BridgeConstants DEF BridgeTypeOK
  <2>2. CASE RecordFireNow(g)
    BY <1>0, <1>4, <2>1, <2>2 DEF RecordFireNow, BridgeTypeOK
  <2>3. CASE RecordFire(g)
    BY <1>0, <1>4, <2>1, <2>3 DEF RecordFire, BridgeTypeOK
  <2>4. CASE CallbackBegins(g) \/ Emitted(g)
    BY <1>0, <2>4 DEF CallbackBegins, Emitted, BridgeTypeOK
  <2> QED BY <1>3, <2>2, <2>3, <2>4
<1>8. BridgeTypeOK'
  BY <1>0, <1>1, <1>2, <1>4, <1>6, <1>7 DEF BridgeTypeOK
<1>9. WhoChecksInv'
  <2>1. ASSUME NEW i \in Informers, i > wirings' PROVE queue'[i] = <<>> /\ Idle(i)'
    <3>1. i # g
      BY <1>0, <1>1, <1>5, <2>1, BridgeConstants DEF BridgeTypeOK
    <3>2. queue[i] = <<>> /\ step[i] = "idle" /\ checks[i] = {}
      BY <1>0, <1>1, <2>1 DEF WhoChecksInv, Idle
    <3> QED BY <1>1, <1>6, <3>1, <3>2, BridgeConstants DEF Idle
  <2>2. /\ checks'[Scan] \subseteq Scannable'
        /\ step'[Scan] # "idle" => target'[Scan] \in Scannable'
    BY <1>0, <1>1, <1>2, <1>5, <1>6, BridgeConstants DEF WhoChecksInv
  <2> QED BY <2>1, <2>2 DEF WhoChecksInv
<1>10. SpacingInv'
  <2> SUFFICES ASSUME wirings = 1, NEW f \in Keys \ Scannable
               PROVE  /\ Firing(f, "passed")' => sinceStamp'[f] >= Cooldown
                      /\ Firing(f, "stamped")' => stamp'[1] <= sinceStamp'[f]
                      /\ \/ Firing(f, "stamped")'
                         \/ lastFired'[f] <= sinceStamp'[f] \/ sinceStamp'[f] >= Cooldown
    BY <1>1, <1>2 DEF SpacingInv
  <2>1. /\ Firing(f, "passed") => sinceStamp[f] >= Cooldown
        /\ Firing(f, "stamped") => stamp[1] <= sinceStamp[f]
        /\ Firing(f, "stamped") \/ lastFired[f] <= sinceStamp[f] \/ sinceStamp[f] >= Cooldown
    BY <1>0 DEF SpacingInv
  <2>2. /\ 1 \in Checkers /\ f \in Keys
        /\ lastFired \in [Keys -> Nat] /\ sinceStamp \in [Keys -> Nat]
        /\ stamp \in [Checkers -> Nat]
    BY <1>0, BridgeConstants DEF BridgeTypeOK
  <2>3. CASE target[g] # f
    <3>1. /\ lastFired'[f] = lastFired[f] /\ sinceStamp'[f] = sinceStamp[f]
      BY <1>3, <1>4, <2>2, <2>3 DEF RecordFireNow, RecordFire, CallbackBegins, Emitted
    <3>2. (~Firing(f, "passed")' /\ ~Firing(f, "stamped")') \/ g # 1
      BY <1>3, <1>6, <2>3 DEF Firing, RecordFireNow, RecordFire, CallbackBegins, Emitted
    <3>3. g = 1 => ~Firing(f, "stamped")
      BY <2>3 DEF Firing
    <3>4. g # 1 => stamp'[1] = stamp[1] /\ \A w : Firing(f, w)' <=> Firing(f, w)
      BY <1>3, <1>6, <2>2 DEF Firing, RecordFireNow, RecordFire, CallbackBegins, Emitted
    <3> QED BY <2>1, <3>1, <3>2, <3>3, <3>4
  <2>4. CASE target[g] = f
    <3>1. g = 1
      BY <1>5, <2>4
    <3>2. CASE RecordFireNow(g)
      BY <1>0, <2>2, <2>4, <3>1, <3>2 DEF Firing, RecordFireNow, BridgeTypeOK
    <3>3. CASE RecordFire(g)
      <4>1. Firing(f, "stamped") /\ ~Firing(f, "passed")' /\ ~Firing(f, "stamped")'
        BY <1>0, <2>4, <3>1, <3>3 DEF Firing, RecordFire, BridgeTypeOK
      <4>2. lastFired'[f] = stamp[1] /\ sinceStamp'[f] = sinceStamp[f]
        BY <2>2, <2>4, <3>1, <3>3 DEF RecordFire
      <4> QED BY <2>1, <4>1, <4>2
    <3>4. CASE CallbackBegins(g) \/ Emitted(g)
      <4>1. ~Firing(f, "stamped") /\ ~Firing(f, "passed")' /\ ~Firing(f, "stamped")'
        BY <1>0, <2>4, <3>1, <3>4 DEF Firing, CallbackBegins, Emitted, BridgeTypeOK
      <4>2. UNCHANGED <<lastFired, sinceStamp>>
        BY <3>4 DEF CallbackBegins, Emitted
      <4> QED BY <2>1, <4>1, <4>2
    <3> QED BY <1>3, <3>2, <3>3, <3>4
  <2> QED BY <2>3, <2>4
<1>11. CacheInv'
  BY <1>0, <1>1, <1>2 DEF CacheInv
<1> QED BY <1>8, <1>9, <1>10, <1>11 DEF BridgeInv

(* Time and the clean-up of the table.                                       *)
LEMMA AgingKeepsBridgeInv ==
    ASSUME BridgeInv, Tick \/ Cleanup
    PROVE  BridgeInv'
<1>0. BridgeTypeOK /\ WhoChecksInv /\ SpacingInv /\ CacheInv
  BY DEF BridgeInv
<1>1. UNCHANGED <<scene, object, wirings, queue, checks, cache, handled, step, target>>
  BY DEF Tick, Cleanup, CooldownAges, CleanupExpiredEntries, objectVars, informerVars
<1>2. /\ Versions' = Versions /\ Scannable' = Scannable
      /\ \A f, w : Firing(f, w)' <=> Firing(f, w)
  BY <1>1 DEF Versions, Scannable, Firing
<1>3. WhoChecksInv' /\ CacheInv'
  BY <1>0, <1>1, <1>2 DEF WhoChecksInv, CacheInv, Idle
<1>4. 1 \in Checkers
  BY BridgeConstants
<1>5. CASE Tick
  <2>1. /\ lastFired' = [f \in Keys |-> Older(lastFired[f])]
        /\ stamp' = [g \in Checkers |-> IF step[g] = "stamped" THEN Older(stamp[g]) ELSE 0]
        /\ sinceStamp' = [f \in Keys |-> Older(sinceStamp[f])]
    BY <1>5 DEF Tick, CooldownAges
  <2>2. BridgeTypeOK'
    <3>1. /\ \A f \in Keys : Older(lastFired[f]) \in Ages /\ Older(sinceStamp[f]) \in Ages
          /\ \A g \in Checkers : Older(stamp[g]) \in Ages
      BY <1>0, OlderAges DEF BridgeTypeOK
    <3>2. /\ lastFired' \in [Keys -> Ages] /\ sinceStamp' \in [Keys -> Ages]
          /\ stamp' \in [Checkers -> Ages]
      BY <2>1, <3>1, BridgeConstants
    <3> QED BY <1>0, <1>1, <1>2, <3>2 DEF BridgeTypeOK
  <2>3. SpacingInv'
    <3> SUFFICES ASSUME wirings = 1, NEW f \in Keys \ Scannable
                 PROVE  /\ Firing(f, "passed") => sinceStamp'[f] >= Cooldown
                        /\ Firing(f, "stamped") => stamp'[1] <= sinceStamp'[f]
                        /\ \/ Firing(f, "stamped")
                           \/ lastFired'[f] <= sinceStamp'[f] \/ sinceStamp'[f] >= Cooldown
      BY <1>1, <1>2 DEF SpacingInv
    <3>1. /\ Firing(f, "passed") => sinceStamp[f] >= Cooldown
          /\ Firing(f, "stamped") => stamp[1] <= sinceStamp[f]
          /\ Firing(f, "stamped") \/ lastFired[f] <= sinceStamp[f] \/ sinceStamp[f] >= Cooldown
      BY <1>0 DEF SpacingInv
    <3>2. lastFired[f] \in Ages /\ sinceStamp[f] \in Ages /\ stamp[1] \in Ages
      BY <1>0, <1>4 DEF BridgeTypeOK
    <3>3. /\ lastFired'[f] = Older(lastFired[f]) /\ sinceStamp'[f] = Older(sinceStamp[f])
          /\ Firing(f, "stamped") => stamp'[1] = Older(stamp[1])
      BY <1>4, <2>1 DEF Firing
    <3>4. /\ lastFired[f] <= sinceStamp[f] => Older(lastFired[f]) <= Older(sinceStamp[f])
          /\ stamp[1] <= sinceStamp[f] => Older(stamp[1]) <= Older(sinceStamp[f])
          /\ sinceStamp[f] >= Cooldown => Older(sinceStamp[f]) >= Cooldown
      BY <3>2, OlderAges
    <3> QED BY <3>1, <3>3, <3>4
  <2> QED BY <1>3, <2>2, <2>3 DEF BridgeInv
<1>6. CASE Cleanup
  <2>1. /\ lastFired' = [f \in Keys |-> IF Expired(f) THEN Never ELSE lastFired[f]]
        /\ UNCHANGED <<stamp, sinceStamp>>
    BY <1>6 DEF Cleanup, CleanupExpiredEntries
  <2>2. BridgeTypeOK'
    BY <1>0, <1>1, <1>2, <2>1, BridgeConstants DEF BridgeTypeOK
  <2>3. SpacingInv'
    <3> SUFFICES ASSUME wirings = 1, NEW f \in Keys \ Scannable,
                        lastFired[f] <= sinceStamp[f]
                 PROVE  lastFired'[f] <= sinceStamp[f] \/ sinceStamp[f] >= Cooldown
      BY <1>0, <1>1, <1>2, <2>1 DEF SpacingInv
    <3>1. lastFired[f] \in Nat /\ sinceStamp[f] \in Nat /\ Cooldown \in Nat
      BY <1>0, BridgeConstants DEF BridgeTypeOK
    <3>2. CASE Expired(f)
      BY <3>1, <3>2 DEF Expired
    <3>3. CASE ~Expired(f)
      BY <2>1, <3>3
    <3> QED BY <3>2, <3>3
  <2> QED BY <1>3, <2>2, <2>3 DEF BridgeInv
<1> QED BY <1>5, <1>6

(* The invariant behind what the detectors report.                           *)
THEOREM BridgeInvariant == BridgeSafeSpec => []BridgeInv
<1>1. BridgeInv /\ [BridgeNext]_bridgeVars => BridgeInv'
  <2> SUFFICES ASSUME BridgeInv, [BridgeNext]_bridgeVars PROVE BridgeInv'
    OBVIOUS
  <2>1. CASE UNCHANGED bridgeVars
    BY <2>1 DEF BridgeInv, bridgeVars, cooldownVars, objectVars, informerVars, BridgeTypeOK,
                WhoChecksInv, SpacingInv, CacheInv, Versions, Scannable, Firing, Idle
  <2>2. ASSUME NEW g \in Checkers, EmitStep(g) PROVE BridgeInv'
    BY <2>2, CheckKeepsBridgeInv, EmitKeepsBridgeInv DEF EmitStep
  <2>3. CASE Queues
    BY <2>3, QueuesKeepBridgeInv
  <2>4. CASE Tick \/ Cleanup
    BY <2>4, AgingKeepsBridgeInv
  <2> QED BY <2>1, <2>2, <2>3, <2>4, BridgeConstants
       DEF BridgeNext, ScanStep, InformerStep, Queues
<1> QED BY <1>1, BridgeBegins, PTL DEF BridgeSafeSpec

(* Deduplication: with one wiring, a fault that only the informer reports    *)
(* does not fire twice within the cooldown (ShouldFire, RecordFire and       *)
(* CleanupExpiredEntries of base.go), for any cooldown, object and schedule. *)
THEOREM FiresAreSpacedCorrect == BridgeSafeSpec => FiresAreSpaced
<1>1. BridgeInv /\ [BridgeNext]_bridgeVars
        => [\A g \in Checkers :
              (step[g] = "passed" /\ step'[g] = "stamped" /\ wirings = 1
                 /\ target[g] \notin Scannable)
                => sinceStamp[target[g]] >= Cooldown]_bridgeVars
  <2> SUFFICES ASSUME BridgeInv, NEW g \in Checkers, step[g] = "passed", wirings = 1,
                      target[g] \notin Scannable
               PROVE  sinceStamp[target[g]] >= Cooldown
    OBVIOUS
  <2>1. g = 1
    BY WhoIsAtWork DEF BridgeInv, WhoChecksInv, Idle
  <2>2. target[g] \in Keys \ Scannable
    BY DEF BridgeInv, BridgeTypeOK
  <2> QED BY <2>1, <2>2 DEF BridgeInv, SpacingInv, Firing
<1> QED BY <1>1, BridgeInvariant, PTL DEF BridgeSafeSpec, FiresAreSpaced

(* The fourth of six levels matters if it matches: one is found.             *)
LEMMA FourthLevelIsFound ==
    ASSUME NEW a, NEW b, NEW c, NEW d, NEW e, NEW f, d.matches,
           a.reason # Passed, b.reason # Passed, c.reason # Passed,
           d.reason # Passed, e.reason # Passed, f.reason # Passed
    PROVE  FirstMatch(<<a, b, c, d, e, f>>) # Passed
<1> DEFINE s == <<a, b, c, d, e, f>>
           I == {i \in 1..Len(s) : s[i].matches}
<1>1. /\ Len(s) = 6 /\ s[1] = a /\ s[2] = b /\ s[3] = c
      /\ s[4] = d /\ s[5] = e /\ s[6] = f
  OBVIOUS
<1>2. 4 \in I /\ I \subseteq 1..6
  BY <1>1
<1>3. FirstMatch(s) = LET k == IF I # {} THEN S!Min(I) ELSE 0
                      IN  IF k = 0 THEN Passed ELSE s[k].reason
  BY DEF FirstMatch, S!SelectInSeq
<1>4. \A i \in 1..6 : s[i].reason # Passed
  BY <1>1
<1> HIDE DEF I, s
<1>5. \E x \in I : \A y \in I : x =< y
  <2>1. CASE 1 \in I
    BY <1>2, <2>1
  <2>2. CASE 1 \notin I /\ 2 \in I
    BY <1>2, <2>2
  <2>3. CASE 1 \notin I /\ 2 \notin I /\ 3 \in I
    BY <1>2, <2>3
  <2>4. CASE 1 \notin I /\ 2 \notin I /\ 3 \notin I
    BY <1>2, <2>4
  <2> QED BY <2>1, <2>2, <2>3, <2>4
<1>6. S!Min(I) \in 1..6
  BY <1>2, <1>5 DEF S!Min
<1> QED BY <1>2, <1>3, <1>4, <1>6 DEF s

(* An event that its object's annotation excludes is not let through.        *)
LEMMA ExclusionIsRespected ==
    ASSUME NEW P, NEW input, EvaluateLower(P, input) = Passed
    PROVE  input.detector \notin getExcludedDetectors(input.annotations)
<1> DEFINE m1 == isAnnotationTrue(input.namespace.annotations, "suppress")
           m2 == isAnnotationTrue(input.annotations, "exclude")
           m3 == ownerHasAnnotationTrue(input.owners, "exclude")
           m4 == input.detector \in getExcludedDetectors(input.annotations)
           m5 == input.detector \in getOwnerExcludedDetectors(input.owners)
           m6 == matchesExcludePolicy(P, input)
<1>1. \A r, m : Level(r, m).reason = r /\ Level(r, m).matches = m
  BY DEF Level
<1>2. EvaluateLower(P, input) = FirstMatch(<<
        Level("namespace_annotation", m1), Level("resource_annotation", m2),
        Level("owner_annotation", m3), Level("resource_annotation", m4),
        Level("owner_annotation", m5), Level("policy_exclude", m6)>>)
  BY DEF EvaluateLower
<1> HIDE DEF m1, m2, m3, m4, m5, m6
<1>3. ~m4
  BY <1>1, <1>2, FourthLevelIsFound DEF Passed
<1> QED BY <1>3 DEF m4

(* The steps of all goroutines keep SeenInv: what is handed out is cached    *)
(* and remembered in one step, and a callback loads what was handed out last.*)
LEMMA SeenStep == BridgeInv /\ SeenInv /\ [BridgeNext]_bridgeVars => SeenInv'
<1> SUFFICES ASSUME BridgeInv, SeenInv, [BridgeNext]_bridgeVars,
                    scene'.kind = "Pod"
             PROVE  SeenInv'
  BY DEF SeenInv
<1>0. scene' = scene
  BY DEF BridgeNext, bridgeVars, ObjectChanges, Unwire, wireNamespace, Tick, Cleanup,
         ScanStep, InformerStep, EmitStep, ScanLists, ScanChecks, Handle, Resync, Check,
         Record, LoadCached, Callback, objectVars
<1>1. /\ seen \in [Checkers -> SUBSET Handed] /\ loaded \in [Checkers -> Handed]
      /\ \A g \in Checkers : /\ step[g] # "idle" => handled \in seen[g]
                             /\ step[g] = "calling" => loaded[g] \in seen[g]
  BY <1>0 DEF SeenInv
<1>2. /\ step \in [Checkers -> {"idle", "passed", "stamped", "recorded", "calling"}]
      /\ handled \in Handed /\ cache = handled /\ Handed' = Handed
  BY <1>0 DEF BridgeInv, BridgeTypeOK, CacheInv, Handed, Versions
<1> DEFINE Goal ==
      /\ seen' \in [Checkers -> SUBSET Handed] /\ loaded' \in [Checkers -> Handed]
      /\ \A g \in Checkers : /\ step'[g] # "idle" => handled' \in seen'[g]
                             /\ step'[g] = "calling" => loaded'[g] \in seen'[g]
<1>3. CASE UNCHANGED <<step, loaded, handled, seen>>
  <2>1. Goal
    BY <1>1, <1>3
  <2> QED BY <1>2, <2>1 DEF SeenInv
<1>4. ASSUME NEW i \in Informers, Handle(i) PROVE SeenInv'
  <2>1. /\ step' = step /\ loaded' = loaded /\ handled' = queue[i][1]
        /\ seen' = [g \in Checkers |->
                      IF step[g] = "idle" THEN {} ELSE seen[g] \cup {queue[i][1]}]
    BY <1>4 DEF Handle, cooldownVars
  <2>2. queue[i][1] \in Handed
    <3>1. queue[i] \in Seq(Versions) /\ queue[i] # <<>>
      BY <1>4 DEF Handle, BridgeInv, BridgeTypeOK
    <3> QED BY <3>1 DEF Handed
  <2>3. Goal
    BY <1>1, <2>1, <2>2
  <2> QED BY <1>2, <2>3 DEF SeenInv
<1>5. ASSUME NEW g \in Checkers, Check(g) PROVE SeenInv'
  <2>1. /\ step[g] = "idle"
        /\ step' = step \/ step' = [step EXCEPT ![g] = "passed"]
        /\ seen' = [seen EXCEPT ![g] = IF step'[g] = "passed" THEN {handled} ELSE {}]
        /\ loaded' = loaded /\ handled' = handled
    BY <1>5 DEF Check, ShouldFire, cooldownVars
  <2>2. Goal
    BY <1>1, <1>2, <2>1
  <2> QED BY <1>2, <2>2 DEF SeenInv
<1>6. ASSUME NEW g \in Checkers, Record(g) PROVE SeenInv'
  <2>1. /\ step[g] # "idle" /\ UNCHANGED <<loaded, handled, seen>>
        /\ step' = [step EXCEPT ![g] = "stamped"] \/ step' = [step EXCEPT ![g] = "recorded"]
    BY <1>6 DEF Record, RecordFireNow, RecordFire
  <2>2. Goal
    BY <1>1, <1>2, <2>1
  <2> QED BY <1>2, <2>2 DEF SeenInv
<1>7. ASSUME NEW g \in Checkers, LoadCached(g) PROVE SeenInv'
  <2>1. /\ step[g] = "recorded" /\ step' = [step EXCEPT ![g] = "calling"]
        /\ loaded' = [loaded EXCEPT ![g] = handled] /\ UNCHANGED <<handled, seen>>
    BY <1>2, <1>7 DEF LoadCached, CallbackBegins
  <2>2. Goal
    BY <1>1, <1>2, <2>1
  <2> QED BY <1>2, <2>2 DEF SeenInv
<1>8. ASSUME NEW g \in Checkers, Callback(g) PROVE SeenInv'
  <2>1. /\ step' = [step EXCEPT ![g] = "idle"] /\ loaded' = [loaded EXCEPT ![g] = {}]
        /\ seen' = [seen EXCEPT ![g] = {}] /\ handled' = handled
    BY <1>8 DEF Callback, Emitted
  <2>2. {} \in Handed
    BY DEF Handed
  <2>3. Goal
    BY <1>1, <1>2, <2>1, <2>2
  <2> QED BY <1>2, <2>3 DEF SeenInv
<1>9. CASE ObjectChanges \/ Unwire \/ wireNamespace \/ Tick \/ Cleanup \/ ScanLists
           \/ ScanChecks \/ (\E i \in Informers : Resync(i)) \/ UNCHANGED bridgeVars
  BY <1>3, <1>9 DEF ObjectChanges, Unwire, wireNamespace, Tick, Cleanup, ScanLists, ScanChecks,
                    Resync, bridgeVars, cooldownVars, CooldownAges, CleanupExpiredEntries
<1> QED BY <1>4, <1>5, <1>6, <1>7, <1>8, <1>9, BridgeConstants
        DEF BridgeNext, ScanStep, InformerStep, EmitStep

(* A pod is not reported by a detector its annotation excludes, once an      *)
(* informer handed out the annotated version before the fault passed the     *)
(* cooldown gate, even if the scan had listed the pod before: the callback   *)
(* asks the cache (detectors.go:90), and by SeenInv it finds a version that  *)
(* was the last one handed out at some time since.                           *)
THEOREM ExcludedPodIsSilentCorrect == BridgeSafeSpec => ExcludedPodIsSilent
<1>1. BridgeInv /\ SeenInv /\ [BridgeNext]_bridgeVars
        => [scene.kind = "Pod" =>
              \A g \in Checkers :
                (step[g] = "calling" /\ step'[g] = "idle" /\ target[g] \in fresh' \ fresh)
                  => \E u \in seen[g] : \A v \in u : ~Excluded(v, target[g])]_bridgeVars
  <2> SUFFICES ASSUME BridgeInv, SeenInv, BridgeNext, scene.kind = "Pod",
                      NEW g \in Checkers, step[g] = "calling", step'[g] = "idle",
                      target[g] \in fresh' \ fresh
               PROVE  \E u \in seen[g] : \A v \in u : ~Excluded(v, target[g])
    OBVIOUS
  <2>0. step \in [Checkers -> {"idle", "passed", "stamped", "recorded", "calling"}]
    BY DEF BridgeInv, BridgeTypeOK
  <2>1. Callback(g)
    <3>1. PICK h \in Checkers : Callback(h)
      BY BridgeConstants
         DEF BridgeNext, ObjectChanges, Unwire, wireNamespace, Tick, Cleanup, ScanStep,
             InformerStep, EmitStep, ScanLists, ScanChecks, Handle, Resync, Check, Record,
             LoadCached
    <3>2. step' = [step EXCEPT ![h] = "idle"]
      BY <3>1 DEF Callback, Emitted
    <3> QED BY <2>0, <3>1, <3>2
  <2>2. Submits(target[g], loaded[g])
    BY <2>1 DEF Callback
  <2>3. loaded[g] \in seen[g] /\ loaded[g] \in Handed
    BY DEF SeenInv
  <2>4. ASSUME NEW v \in loaded[g] PROVE ~Excluded(v, target[g])
    <3> DEFINE input == FilterInput(target[g], loaded[g])
    <3>1. loaded[g] = {v}
      BY <2>3, <2>4 DEF Handed, Versions
    <3>2. input.detector = target[g] /\ input.annotations = v.annotations
      BY <3>1 DEF FilterInput
    <3>3. EvaluateLower({}, input) = Passed
      BY <2>2 DEF Submits
    <3> HIDE DEF input
    <3>4. input.detector \notin getExcludedDetectors(input.annotations)
      BY <3>3, ExclusionIsRespected
    <3> QED BY <3>2, <3>4 DEF Excluded
  <2> QED BY <2>3, <2>4
<1>2. BridgeInit => SeenInv
  BY DEF BridgeInit, CooldownInit, SeenInv, Handed, Versions
<1> QED BY <1>1, <1>2, SeenStep, BridgeInvariant, PTL DEF BridgeSafeSpec, ExcludedPodIsSilent
=============================================================================
