------------------------- MODULE ShardManagerProofs -------------------------
(* Every shard map a coordinator computes is a partition of the namespaces   *)
(* it listed, for any number of replicas and namespaces and any hash.        *)
(*                                                                           *)
(* The heart of it is that the positions of the pods in the sorted list of   *)
(* peers are exactly the buckets 0..n-1 of the hash for n peers: different   *)
(* pods have different positions, and then by counting each bucket has one.  *)
EXTENDS ShardManager, FiniteSetTheorems, TLAPS

Coordinating == {"planned", "got", "written"}

(* The maps and the shares read are functions on the replicas.               *)
ShardTypeInv ==
    /\ TypeOK
    /\ plan = [r \in Replicas |-> plan[r]]
    /\ read = [r \in Replicas |-> read[r]]

Splits(map, S) ==
    /\ \A p, q \in DOMAIN map : p # q => map[p] \cap map[q] = {}
    /\ UNION {map[p] : p \in DOMAIN map} = S

PartitionInv ==
    \A r \in Replicas :
        /\ listed[r] \cap Excluded = {}
        /\ step[r] \in Coordinating => Splits(plan[r], listed[r])

(* The pods found are finitely many, and their number is a replica count.    *)
LEMMA PeersCounted ==
    ASSUME NEW peers \in SUBSET Replicas, peers # {}
    PROVE  IsFiniteSet(peers) /\ Cardinality(peers) \in Replicas
<1>1. NumPods \in Nat \ {0}
  BY ReplicaAssumption
<1>2. IsFiniteSet(Replicas) /\ Cardinality(Replicas) = NumPods
  BY <1>1, FS_Interval DEF Replicas
<1>3. IsFiniteSet(peers) /\ Cardinality(peers) <= NumPods
  BY <1>2, FS_Subset
<1>4. Cardinality(peers) \in Nat /\ Cardinality(peers) # 0
  BY <1>3, FS_CardinalityType, FS_EmptySet
<1> QED
  BY <1>1, <1>3, <1>4 DEF Replicas

(* A position in the list of peers is a bucket number.                       *)
LEMMA IndexType ==
    ASSUME NEW peers \in SUBSET Replicas, NEW p \in peers
    PROVE  Index(p, peers) \in 0..(Cardinality(peers) - 1)
<1> DEFINE before == {q \in peers : q < p}
<1>1. IsFiniteSet(peers) /\ Cardinality(peers) \in Nat
  BY PeersCounted, FS_CardinalityType
<1>2. before \in SUBSET peers /\ p \notin before
  BY ReplicaAssumption DEF Replicas
<1>3. IsFiniteSet(before) /\ Cardinality(before) \in Nat
  BY <1>1, <1>2, FS_Subset, FS_CardinalityType
<1>4. Cardinality(before) <= Cardinality(peers) /\ Cardinality(before) # Cardinality(peers)
  BY <1>1, <1>2, FS_Subset
<1> QED
  BY <1>1, <1>3, <1>4 DEF Index

(* Of two pods the later one has the higher position.                        *)
LEMMA IndexGrows ==
    ASSUME NEW peers \in SUBSET Replicas, NEW p \in peers, NEW q \in peers, p < q
    PROVE  Index(p, peers) # Index(q, peers)
<1> DEFINE beforeP == {s \in peers : s < p}
           beforeQ == {s \in peers : s < q}
<1>1. IsFiniteSet(peers)
  BY PeersCounted
<1>2. IsFiniteSet(beforeQ)
  BY <1>1, FS_Subset
<1>3. p \in Int /\ q \in Int /\ peers \subseteq Int
  BY ReplicaAssumption DEF Replicas
<1>4. beforeP \in SUBSET beforeQ /\ p \in beforeQ /\ p \notin beforeP
  <2>1. \A s \in peers : s < p => s < q
    BY <1>3
  <2>2. ~(p < p)
    BY <1>3
  <2> QED
    BY <2>1, <2>2
<1>5. Cardinality(beforeQ) # Cardinality(beforeP)
  BY <1>2, <1>4, FS_Subset
<1> QED
  BY <1>5 DEF Index

(* Every bucket belongs to one of the pods.                                  *)
LEMMA BucketHasPod ==
    ASSUME NEW peers \in SUBSET Replicas, peers # {},
           NEW i \in 0..(Cardinality(peers) - 1)
    PROVE  \E p \in peers : Index(p, peers) = i
<1> DEFINE n == Cardinality(peers)
           position == [p \in peers |-> Index(p, peers)]
<1>1. IsFiniteSet(peers) /\ n \in Nat \ {0}
  BY PeersCounted, ReplicaAssumption DEF Replicas
<1>2. IsFiniteSet(0..(n - 1)) /\ Cardinality(0..(n - 1)) = n
  <2> HIDE DEF n
  <2> QED BY <1>1, FS_Interval
<1>3. position \in [peers -> 0..(n - 1)]
  BY IndexType
<1>4. \A p, q \in peers : position[p] = position[q] => p = q
  <2>1. \A p, q \in peers : p \in Int /\ q \in Int
    BY ReplicaAssumption DEF Replicas
  <2>2. \A p, q \in peers : p < q => position[p] # position[q]
    BY IndexGrows
  <2> QED
    BY <2>1, <2>2
<1>5. position \in Injection(peers, 0..(n - 1))
  BY <1>3, <1>4 DEF Injection, IsInjective
<1>6. position \in Surjection(peers, 0..(n - 1))
  <2> HIDE DEF position, n
  <2>1. Cardinality(peers) = Cardinality(0..(n - 1))
    BY <1>2 DEF n
  <2> QED
    BY <1>2, <1>5, <2>1, FS_Injection
<1> QED
  BY <1>6 DEF Surjection

(* The map of a coordinator that is among its peers splits what it listed.   *)
LEMMA AssignmentsSplit ==
    ASSUME NEW peers \in SUBSET Replicas, NEW r \in peers,
           listed[r] \subseteq Namespaces
    PROVE  /\ Assignments(r, peers) \in ShardMaps
           /\ Splits(Assignments(r, peers), listed[r])
<1> DEFINE n == Cardinality(peers)
<1>1. CASE numReplicas[r] = 1
  <2> DEFINE map == [p \in {r} |-> listed[r]]
  <2>1. Assignments(r, peers) = map
    BY <1>1 DEF Assignments
  <2>2. map \in ShardMaps
    <3>1. {r} \in SUBSET Replicas
      OBVIOUS
    <3>2. map \in [{r} -> SUBSET Namespaces]
      OBVIOUS
    <3> QED
      BY <3>1, <3>2 DEF ShardMaps
  <2>3. Splits(map, listed[r])
    BY DEF Splits
  <2> QED
    BY <2>1, <2>2, <2>3
<1>2. CASE numReplicas[r] # 1
  <2> DEFINE map == [p \in peers |->
                       {ns \in listed[r] : Bucket[n][ns] = Index(p, peers)}]
  <2>1. Assignments(r, peers) = map
    BY <1>2 DEF Assignments
  <2>2. map \in ShardMaps
    BY DEF ShardMaps
  <2>3. ASSUME NEW p \in peers, NEW q \in peers, p # q
        PROVE  map[p] \cap map[q] = {}
    <3>1. p \in Int /\ q \in Int
      BY ReplicaAssumption DEF Replicas
    <3>2. p < q \/ q < p
      BY <3>1, <2>3
    <3>3. Index(p, peers) # Index(q, peers)
      BY <3>2, IndexGrows
    <3> QED
      BY <3>3
  <2>4. ASSUME NEW ns \in listed[r]
        PROVE  \E p \in peers : ns \in map[p]
    <3>1. n \in Replicas
      BY PeersCounted
    <3>2. Bucket[n][ns] \in 0..(n - 1)
      BY <3>1, BucketAssumption
    <3>3. PICK p \in peers : Index(p, peers) = Bucket[n][ns]
      BY <3>2, BucketHasPod
    <3> QED
      BY <3>3
  <2>5. DOMAIN map = peers /\ \A p \in peers : map[p] \subseteq listed[r]
    OBVIOUS
  <2>6. Splits(map, listed[r])
    <3> HIDE DEF map
    <3> QED BY <2>3, <2>4, <2>5 DEF Splits
  <2> QED
    BY <2>1, <2>2, <2>6
<1> QED
  BY <1>1, <1>2

(* A share of a map is a set of namespaces.                                  *)
LEMMA ShareType ==
    ASSUME NEW map, NEW r \in Replicas, map = NoMap \/ map \in ShardMaps
    PROVE  Share(map, r) \in SUBSET Namespaces
  BY DEF Share, ShardMaps

(* The initial state has its type, and no map has been computed.             *)
LEMMA ShardInit == Init => ShardTypeInv /\ PartitionInv
<1> SUFFICES ASSUME Init PROVE ShardTypeInv /\ PartitionInv
  OBVIOUS
<1>1. ShardTypeInv
  BY ReplicaAssumption, BoundsAssumption DEF Init, ShardTypeInv, TypeOK
<1>2. PartitionInv
  BY DEF Init, PartitionInv, Coordinating
<1> QED
  BY <1>1, <1>2

(* What a step by which reconcile returns does to the coordinator's part.    *)
LEMMA ReturnStep ==
    ASSUME ShardTypeInv, PartitionInv, NEW r \in Replicas,
           NEW to \in {"off", "idle"}, Return(r, to)
    PROVE  /\ step' \in [Replicas -> {"off", "idle", "listed", "planned", "got", "written"}]
           /\ \A q \in Replicas : step'[q] = IF q = r THEN to ELSE step[q]
           /\ listed' \in [Replicas -> SUBSET Namespaces]
           /\ plan' = [q \in Replicas |-> plan'[q]]
           /\ \A q \in Replicas : plan'[q] = NoMap \/ plan'[q] \in ShardMaps
           /\ PartitionInv'
<1>1. \A q \in Replicas : /\ step'[q] = IF q = r THEN to ELSE step[q]
                          /\ listed'[q] = IF q = r THEN {} ELSE listed[q]
                          /\ plan'[q] = IF q = r THEN NoMap ELSE plan[q]
  BY DEF Return, ShardTypeInv, TypeOK
<1>2. PartitionInv'
  BY <1>1 DEF PartitionInv, Coordinating, Splits
<1>3. plan' = [q \in Replicas |-> plan'[q]]
  BY DEF Return, ShardTypeInv
<1> QED
  BY <1>1, <1>2, <1>3 DEF Return, ShardTypeInv, TypeOK

(* Steps that leave the coordinators alone keep the partition.               *)
LEMMA CoordinatorsUnchanged ==
    ASSUME PartitionInv, UNCHANGED <<listed, plan>>,
           \A r \in Replicas : step'[r] \in Coordinating => step[r] \in Coordinating
    PROVE  PartitionInv'
  BY DEF PartitionInv, Splits

(* Every step keeps the invariant.                                           *)
LEMMA ShardStep ==
    ShardTypeInv /\ PartitionInv /\ [Next]_vars => ShardTypeInv' /\ PartitionInv'
<1> SUFFICES ASSUME ShardTypeInv, PartitionInv, [Next]_vars
             PROVE  ShardTypeInv' /\ PartitionInv'
  OBVIOUS
<1> USE DEF cluster, election, coordinator
<1>1. ASSUME NEW ns \in Namespaces, NamespaceChanges(ns)
      PROVE  ShardTypeInv' /\ PartitionInv'
  <2>1. ShardTypeInv'
    BY <1>1, BoundsAssumption DEF NamespaceChanges, Disturbed, ShardTypeInv, TypeOK
  <2>2. PartitionInv'
    BY <1>1, CoordinatorsUnchanged DEF NamespaceChanges
  <2> QED BY <2>1, <2>2
<1>17. ASSUME NEW r \in Replicas, PodCreated(r) \/ PodRemoved(r)
       PROVE  ShardTypeInv' /\ PartitionInv'
  <2>1. ShardTypeInv'
    BY <1>17, BoundsAssumption DEF PodCreated, PodRemoved, Disturbed, ShardTypeInv, TypeOK
  <2>2. PartitionInv'
    BY <1>17, CoordinatorsUnchanged DEF PodCreated, PodRemoved
  <2> QED BY <2>1, <2>2
<1>2. ASSUME NEW r \in Replicas, PodStarts(r)
      PROVE  ShardTypeInv' /\ PartitionInv'
  <2>1. ShardTypeInv'
    BY <1>2, BoundsAssumption DEF PodStarts, Disturbed, ShardTypeInv, TypeOK
  <2>2. PartitionInv'
    BY <1>2, CoordinatorsUnchanged DEF PodStarts
  <2> QED BY <2>1, <2>2
<1>3. ASSUME NEW r \in Replicas, PodStops(r)
      PROVE  ShardTypeInv' /\ PartitionInv'
  <2>1. Return(r, "off")
    BY <1>3 DEF PodStops
  <2>2. /\ pods' \subseteq Replicas
        /\ up' \subseteq pods'
        /\ lease' \in up' \cup {None}
        /\ contending' \subseteq up'
        /\ \A q \in Replicas : step'[q] # "off" => q \in up'
    <3>1. \A q \in Replicas : step'[q] = IF q = r THEN "off" ELSE step[q]
      BY <2>1, ReturnStep
    <3> QED
      BY <1>3, <3>1 DEF PodStops, ShardTypeInv, TypeOK
  <2>3. /\ numReplicas' \in [Replicas -> Replicas]
        /\ fresh' \in [Replicas -> BOOLEAN]
        /\ assigned' \in [Replicas -> SUBSET Namespaces]
        /\ disturbances' \in 0..MaxDisturbances
    BY <1>3, ReplicaAssumption, BoundsAssumption
    DEF PodStops, Disturbed, ShardTypeInv, TypeOK
  <2>4. /\ read' = [q \in Replicas |-> read'[q]]
        /\ \A q \in Replicas : read'[q] = None \/ read'[q] \subseteq Namespaces
    BY <1>3 DEF PodStops, ShardTypeInv, TypeOK
  <2>5. UNCHANGED <<namespaces, configMap>>
    BY <1>3 DEF PodStops
  <2>6. ShardTypeInv'
    BY <2>1, <2>2, <2>3, <2>4, <2>5, ReturnStep DEF ShardTypeInv, TypeOK
  <2> QED BY <2>1, <2>6, ReturnStep
<1>4. ASSUME NEW r \in Replicas, OnStartedLeading(r)
      PROVE  ShardTypeInv' /\ PartitionInv'
  <2>1. ShardTypeInv'
    BY <1>4 DEF OnStartedLeading, ShardTypeInv, TypeOK
  <2>2. PartitionInv'
    BY <1>4, CoordinatorsUnchanged DEF OnStartedLeading, ShardTypeInv, TypeOK, Coordinating
  <2> QED BY <2>1, <2>2
<1>5. ASSUME NEW r \in Replicas, OnStoppedLeading(r)
      PROVE  ShardTypeInv' /\ PartitionInv'
  <2>1. ShardTypeInv'
    BY <1>5, BoundsAssumption DEF OnStoppedLeading, Disturbed, ShardTypeInv, TypeOK
  <2>2. PartitionInv'
    BY <1>5, CoordinatorsUnchanged DEF OnStoppedLeading
  <2> QED BY <2>1, <2>2
<1>6. ASSUME NEW r \in Replicas, CoordinatorStops(r)
      PROVE  ShardTypeInv' /\ PartitionInv'
  <2>1. Return(r, "off")
    BY <1>6 DEF CoordinatorStops
  <2>2. ShardTypeInv'
    BY <1>6, <2>1, ReturnStep DEF CoordinatorStops, ShardTypeInv, TypeOK
  <2> QED BY <2>1, <2>2, ReturnStep
<1>7. ASSUME NEW r \in Replicas, ListNamespaces(r)
      PROVE  ShardTypeInv' /\ PartitionInv'
  <2>1. ShardTypeInv'
    BY <1>7 DEF ListNamespaces, ShardTypeInv, TypeOK
  <2>2. \A q \in Replicas :
           /\ step'[q] = IF q = r THEN "listed" ELSE step[q]
           /\ listed'[q] = IF q = r THEN namespaces \ Excluded ELSE listed[q]
           /\ plan'[q] = plan[q]
    BY <1>7 DEF ListNamespaces, ShardTypeInv, TypeOK
  <2>3. PartitionInv'
    BY <2>2 DEF PartitionInv, Coordinating, Splits
  <2> QED BY <2>1, <2>3
<1>8. ASSUME NEW r \in Replicas, ComputeMap(r)
      PROVE  ShardTypeInv' /\ PartitionInv'
  <2>1. r \in pods /\ pods \in SUBSET Replicas /\ listed[r] \subseteq Namespaces
    BY <1>8, ReplicaAssumption DEF ComputeMap, discoverPeers, ShardTypeInv, TypeOK
  <2>2. /\ Assignments(r, pods) \in ShardMaps
        /\ Splits(Assignments(r, pods), listed[r])
    BY <2>1, AssignmentsSplit
  <2>3. Cardinality(pods) \in Replicas
    BY <2>1, PeersCounted
  <2>4. \A q \in Replicas :
           /\ step'[q] = IF q = r THEN "planned" ELSE step[q]
           /\ plan'[q] = IF q = r THEN Assignments(r, pods) ELSE plan[q]
           /\ listed'[q] = listed[q]
    BY <1>8 DEF ComputeMap, discoverPeers, ShardTypeInv, TypeOK
  <2>5. plan' = [q \in Replicas |-> plan'[q]]
    BY <1>8 DEF ComputeMap, discoverPeers, ShardTypeInv
  <2>6. ShardTypeInv'
    BY <1>8, <2>1, <2>2, <2>3, <2>4, <2>5 DEF ComputeMap, discoverPeers, ShardTypeInv, TypeOK
  <2>7. PartitionInv'
    BY <2>2, <2>4 DEF PartitionInv, Splits
  <2> QED BY <2>6, <2>7
<1>9. ASSUME NEW r \in Replicas, GetConfigMap(r)
      PROVE  ShardTypeInv' /\ PartitionInv'
  <2>1. ShardTypeInv'
    BY <1>9 DEF GetConfigMap, ShardTypeInv, TypeOK
  <2>2. PartitionInv'
    BY <1>9, CoordinatorsUnchanged DEF GetConfigMap, ShardTypeInv, TypeOK, Coordinating
  <2> QED BY <2>1, <2>2
<1>10. ASSUME NEW r \in Replicas, WriteConfigMap(r)
       PROVE  ShardTypeInv' /\ PartitionInv'
  <2>1. CASE fresh[r]
    <3>1. /\ UNCHANGED <<namespaces, pods, up, lease, contending, numReplicas, listed,
                         plan, read, assigned, disturbances>>
          /\ configMap' = plan[r]
          /\ fresh' \in [Replicas -> BOOLEAN]
      BY <1>10, <2>1 DEF WriteConfigMap
    <3>2. /\ step' = [step EXCEPT ![r] = "written"]
          /\ step[r] = "got"
      BY <1>10, <2>1 DEF WriteConfigMap
    <3>3. configMap' = NoMap \/ configMap' \in ShardMaps
      BY <3>1 DEF ShardTypeInv, TypeOK
    <3>4. ShardTypeInv'
      BY <3>1, <3>2, <3>3 DEF ShardTypeInv, TypeOK
    <3>5. PartitionInv'
      BY <1>10, <2>1, CoordinatorsUnchanged
      DEF WriteConfigMap, ShardTypeInv, TypeOK, Coordinating
    <3> QED BY <3>4, <3>5
  <2>2. CASE ~fresh[r]
    <3>1. Return(r, "idle")
      BY <1>10, <2>2 DEF WriteConfigMap
    <3>2. ShardTypeInv'
      BY <1>10, <2>2, <3>1, ReturnStep DEF WriteConfigMap, ShardTypeInv, TypeOK
    <3> QED BY <3>1, <3>2, ReturnStep
  <2> QED BY <2>1, <2>2
<1>11. ASSUME NEW r \in Replicas, CoordinatorApplies(r)
       PROVE  ShardTypeInv' /\ PartitionInv'
  <2>1. Return(r, "idle")
    BY <1>11 DEF CoordinatorApplies
  <2>2. Share(plan[r], r) \in SUBSET Namespaces
    BY ShareType DEF ShardTypeInv, TypeOK
  <2>3. ShardTypeInv'
    BY <1>11, <2>1, <2>2, ReturnStep DEF CoordinatorApplies, ShardTypeInv, TypeOK
  <2> QED BY <2>1, <2>3, ReturnStep
<1>12. ASSUME NEW r \in Replicas, CallFails(r)
       PROVE  ShardTypeInv' /\ PartitionInv'
  <2>1. Return(r, "idle")
    BY <1>12 DEF CallFails
  <2>2. ShardTypeInv'
    BY <1>12, <2>1, ReturnStep, BoundsAssumption DEF CallFails, Disturbed, ShardTypeInv, TypeOK
  <2> QED BY <2>1, <2>2, ReturnStep
<1>13. ASSUME NEW r \in Replicas, WriteUnanswered(r)
       PROVE  ShardTypeInv' /\ PartitionInv'
  <2>1. Return(r, "idle")
    BY <1>13 DEF WriteUnanswered
  <2>2. ShardTypeInv'
    BY <1>13, <2>1, ReturnStep, BoundsAssumption
    DEF WriteUnanswered, Disturbed, ShardTypeInv, TypeOK
  <2> QED BY <2>1, <2>2, ReturnStep
<1>14. ASSUME NEW r \in Replicas, FollowerReads(r)
       PROVE  ShardTypeInv' /\ PartitionInv'
  <2>1. Share(configMap, r) \in SUBSET Namespaces
    BY ShareType DEF ShardTypeInv, TypeOK
  <2>2. ShardTypeInv'
    BY <1>14, <2>1 DEF FollowerReads, ShardTypeInv, TypeOK
  <2>3. PartitionInv'
    BY <1>14, CoordinatorsUnchanged DEF FollowerReads
  <2> QED BY <2>2, <2>3
<1>15. ASSUME NEW r \in Replicas, FollowerApplies(r)
       PROVE  ShardTypeInv' /\ PartitionInv'
  <2>1. read[r] \in SUBSET Namespaces
    BY <1>15 DEF FollowerApplies, ShardTypeInv, TypeOK
  <2>2. ShardTypeInv'
    BY <1>15, <2>1 DEF FollowerApplies, ShardTypeInv, TypeOK
  <2>3. PartitionInv'
    BY <1>15, CoordinatorsUnchanged DEF FollowerApplies
  <2> QED BY <2>2, <2>3
<1>16. CASE UNCHANGED vars
  <2>1. ShardTypeInv'
    BY <1>16 DEF vars, ShardTypeInv, TypeOK
  <2>2. PartitionInv'
    BY <1>16, CoordinatorsUnchanged DEF vars
  <2> QED BY <2>1, <2>2
<1> QED
  BY <1>1, <1>2, <1>3, <1>4, <1>5, <1>6, <1>7, <1>8, <1>9, <1>10, <1>11, <1>12,
     <1>13, <1>14, <1>15, <1>16, <1>17
  DEF Next, ReconcileStep, FollowerStep

(* Whatever replicas, leases and calls do, a map that reconcile computed     *)
(* gives every namespace it listed to exactly one pod and no excluded one to *)
(* any.                                                                      *)
THEOREM PlanIsPartitionCorrect == SafeSpec => []PlanIsPartition
<1>1. ShardTypeInv /\ PartitionInv => PlanIsPartition
  BY DEF ShardTypeInv, PartitionInv, PlanIsPartition, Coordinating, Splits
<1> QED
  BY <1>1, ShardInit, ShardStep, PTL DEF SafeSpec
=============================================================================
