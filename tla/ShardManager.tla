---------------------------- MODULE ShardManager ----------------------------
(* internal/shard/manager.go on several controller replicas that share the   *)
(* shard map ConfigMap: the coordinator loop of the replica that holds the   *)
(* leader lease (internal/controller/leader.go and the leader callbacks of   *)
(* controller.go) and the follower loop every replica runs.                  *)
(*                                                                           *)
(* The coordinator's reconcile is cut at its API calls, where the cluster,   *)
(* the ConfigMap and the other replicas move on.  This module stops at       *)
(* assignedNamespaces; what the callbacks make of a change is in             *)
(* ShardInformers.                                                           *)
EXTENDS Integers, FiniteSets

CONSTANTS
    Namespaces,        \* namespaces that may exist in the cluster
    Excluded,          \* m.excludeNamespaces
    NumPods,           \* controller pods; pod names sort as 1..NumPods
    InitUp,            \* the pods that run initially
    Configured,        \* cfg.ReplicaCount, numReplicas of a fresh process
    Bucket,            \* Bucket[n][ns] = JumpHash(HashNamespace(ns), n)
    MayLoseLease,      \* TRUE if a running leader may fail to renew its lease
    MaxDisturbances,   \* bound: changes of the cluster and failures of calls
    NoMap, None

Replicas == 1..NumPods

ASSUME ReplicaAssumption ==
    /\ NumPods \in Nat \ {0}
    /\ Configured \in Replicas
    /\ InitUp \subseteq Replicas
    /\ None \notin Replicas
ASSUME BucketAssumption ==
    \A n \in Replicas, ns \in Namespaces : Bucket[n][ns] \in 0..(n - 1)
ASSUME NamespaceAssumption == Excluded \subseteq Namespaces
ASSUME BoundsAssumption == MaxDisturbances \in Nat

VARIABLES
    namespaces,     \* the namespaces in the cluster
    pods,           \* controller pods that are neither Succeeded nor Failed:
                    \* pending, running, crash-looping and terminating ones
    up,             \* the pods whose process runs
    lease,          \* the lease holder, or None
    contending,     \* replicas whose leader election loop is running
    numReplicas,    \* m.numReplicas
    step,           \* step[r]: where the coordinator loop of r is
    listed,         \* listed[r]: namespaces reconcile works with
    plan,           \* plan[r]: the shard map reconcile computed
    fresh,          \* fresh[r]: the ConfigMap was not written since r's Get
    configMap,      \* the stored shard map: pods to their namespaces
    read,           \* read[r]: the share the follower read, or None
    assigned,       \* m.assignedNamespaces
    disturbances    \* how much of the bound is used up

cluster == <<namespaces, pods, up>>
election == <<lease, contending>>
coordinator == <<numReplicas, step, listed, plan, fresh>>
vars == <<cluster, election, coordinator, configMap, read, assigned, disturbances>>

Init ==
    /\ namespaces \in SUBSET Namespaces
    /\ pods = InitUp
    /\ up = InitUp
    /\ lease = None
    /\ contending = InitUp
    /\ numReplicas = [r \in Replicas |-> Configured]
    /\ step = [r \in Replicas |-> "off"]
    /\ listed = [r \in Replicas |-> {}]
    /\ plan = [r \in Replicas |-> NoMap]
    /\ fresh = [r \in Replicas |-> FALSE]
    /\ configMap = NoMap
    /\ read = [r \in Replicas |-> None]
    /\ assigned = [r \in Replicas |-> {}]
    /\ disturbances = 0

(* reconcile returns: its local variables are gone.                          *)
Return(r, to) ==
    /\ step' = [step EXCEPT ![r] = to]
    /\ listed' = [listed EXCEPT ![r] = {}]
    /\ plan' = [plan EXCEPT ![r] = NoMap]

Disturbed ==
    /\ disturbances < MaxDisturbances
    /\ disturbances' = disturbances + 1

-----------------------------------------------------------------------------
(* The cluster *)

NamespaceChanges(ns) ==
    /\ Disturbed
    /\ namespaces' = IF ns \in namespaces THEN namespaces \ {ns} ELSE namespaces \cup {ns}
    /\ UNCHANGED <<pods, up, election, coordinator, configMap, read, assigned>>

(* A pod that is pending: the API server knows it and no process runs.       *)
PodCreated(r) ==
    /\ Disturbed
    /\ r \notin pods
    /\ pods' = pods \cup {r}
    /\ UNCHANGED <<namespaces, up, election, coordinator, configMap, read, assigned>>

PodStarts(r) ==
    /\ Disturbed
    /\ r \notin up
    /\ pods' = pods \cup {r}
    /\ up' = up \cup {r}
    /\ contending' = contending \cup {r}
    /\ UNCHANGED <<namespaces, lease, coordinator, configMap, read, assigned>>

(* The process ends: everything it kept in memory is gone, and its lease is  *)
(* released or runs out.  Its pod goes too, or stays to be restarted.        *)
PodStops(r) ==
    /\ Disturbed
    /\ r \in up
    /\ up' = up \ {r}
    /\ pods' \in {pods, pods \ {r}}
    /\ contending' = contending \ {r}
    /\ lease' = IF lease = r THEN None ELSE lease
    /\ numReplicas' = [numReplicas EXCEPT ![r] = Configured]
    /\ Return(r, "off")
    /\ fresh' = [fresh EXCEPT ![r] = FALSE]
    /\ read' = [read EXCEPT ![r] = None]
    /\ assigned' = [assigned EXCEPT ![r] = {}]
    /\ UNCHANGED <<namespaces, configMap>>

PodRemoved(r) ==
    /\ Disturbed
    /\ r \in pods \ up
    /\ pods' = pods \ {r}
    /\ UNCHANGED <<namespaces, up, election, coordinator, configMap, read, assigned>>

-----------------------------------------------------------------------------
(* Leader election *)

(* OnStartedLeading launches RunCoordinator.                                 *)
OnStartedLeading(r) ==
    /\ r \in contending
    /\ lease = None
    /\ step[r] = "off"
    /\ lease' = r
    /\ step' = [step EXCEPT ![r] = "idle"]
    /\ UNCHANGED <<cluster, contending, numReplicas, listed, plan, fresh, configMap,
                   read, assigned, disturbances>>

(* The lease is not renewed in time.  OnStoppedLeading cancels the           *)
(* coordinator, and the elector's Run returns: nothing calls it again.       *)
OnStoppedLeading(r) ==
    /\ MayLoseLease
    /\ Disturbed
    /\ lease = r
    /\ lease' = None
    /\ contending' = contending \ {r}
    /\ UNCHANGED <<cluster, coordinator, configMap, read, assigned>>

(* A cancelled coordinator notices at its next call or its next tick.        *)
CoordinatorStops(r) ==
    /\ lease # r
    /\ step[r] \in {"idle", "listed", "planned", "got"}
    /\ Return(r, "off")
    /\ fresh' = [fresh EXCEPT ![r] = FALSE]
    /\ UNCHANGED <<cluster, election, numReplicas, configMap, read, assigned,
                   disturbances>>

-----------------------------------------------------------------------------
(* The coordinator: reconcile *)

ListNamespaces(r) ==
    /\ step[r] = "idle"
    /\ lease = r
    /\ listed' = [listed EXCEPT ![r] = namespaces \ Excluded]
    /\ step' = [step EXCEPT ![r] = "listed"]
    /\ UNCHANGED <<cluster, election, numReplicas, plan, fresh, configMap, read,
                   assigned, disturbances>>

(* The pod with index i of the sorted peer list gets bucket i.               *)
Index(p, peers) == Cardinality({q \in peers : q < p})

(* Mutant of Assignments: the buckets of the configured replica count are    *)
(* kept although another number of peers was found.                          *)
AssignmentsStale(r, peers) ==
    IF numReplicas[r] = 1
    THEN [p \in {r} |-> listed[r]]
    ELSE [p \in peers |->
            {ns \in listed[r] : Bucket[numReplicas[r]][ns] = Index(p, peers)}]

(* The shard map for the pods found: all to this replica in single-replica   *)
(* mode, otherwise by the hash for the number of peers.                      *)
Assignments(r, peers) ==
    IF numReplicas[r] = 1
    THEN [p \in {r} |-> listed[r]]
    ELSE [p \in peers |->
            {ns \in listed[r] : Bucket[Cardinality(peers)][ns] = Index(p, peers)}]

(* discoverPeers: every controller pod that is not terminal, whether its     *)
(* process runs or not.                                                      *)
discoverPeers == pods

(* In multi-replica mode the replica count is adjusted to the peers found,   *)
(* before anything is written.  Pod r itself is always among them.           *)
ComputeMap(r) ==
    /\ step[r] = "listed"
    /\ lease = r
    /\ plan' = [plan EXCEPT ![r] = Assignments(r, discoverPeers)]
    /\ numReplicas' = IF numReplicas[r] = 1 THEN numReplicas
                      ELSE [numReplicas EXCEPT ![r] = Cardinality(discoverPeers)]
    /\ step' = [step EXCEPT ![r] = "planned"]
    /\ UNCHANGED <<cluster, election, listed, fresh, configMap, read, assigned,
                   disturbances>>

GetConfigMap(r) ==
    /\ step[r] = "planned"
    /\ lease = r
    /\ fresh' = [fresh EXCEPT ![r] = TRUE]
    /\ step' = [step EXCEPT ![r] = "got"]
    /\ UNCHANGED <<cluster, election, numReplicas, listed, plan, configMap, read,
                   assigned, disturbances>>

(* Update with the resource version of the Get, or Create if there was none: *)
(* both fail if another replica wrote in between.  The request of a leader   *)
(* that has just lost its lease may still be under way.                      *)
WriteConfigMap(r) ==
    /\ step[r] = "got"
    /\ IF fresh[r]
       THEN /\ configMap' = plan[r]
            /\ fresh' = [q \in Replicas |-> FALSE]
            /\ step' = [step EXCEPT ![r] = "written"]
            /\ UNCHANGED <<listed, plan>>
       ELSE /\ Return(r, "idle")
            /\ UNCHANGED <<configMap, fresh>>
    /\ UNCHANGED <<cluster, election, numReplicas, read, assigned, disturbances>>

Share(map, r) == IF map # NoMap /\ r \in DOMAIN map THEN map[r] ELSE {}

(* applyShardMap of what was written, then wait for the next tick.           *)
CoordinatorApplies(r) ==
    /\ step[r] = "written"
    /\ assigned' = [assigned EXCEPT ![r] = Share(plan[r], r)]
    /\ Return(r, "idle")
    /\ UNCHANGED <<cluster, election, numReplicas, fresh, configMap, read, disturbances>>

(* Any call to the API server may fail; reconcile returns the error and the  *)
(* loop waits for the next tick.                                             *)
CallFails(r) ==
    /\ Disturbed
    /\ step[r] \in {"listed", "planned", "got"}
    /\ Return(r, "idle")
    /\ fresh' = [fresh EXCEPT ![r] = FALSE]
    /\ UNCHANGED <<cluster, election, numReplicas, configMap, read, assigned>>

(* The write reached the API server and its answer did not come back: an     *)
(* error for reconcile, which applies nothing.                               *)
WriteUnanswered(r) ==
    /\ Disturbed
    /\ step[r] = "got"
    /\ fresh[r]
    /\ configMap' = plan[r]
    /\ fresh' = [q \in Replicas |-> FALSE]
    /\ Return(r, "idle")
    /\ UNCHANGED <<cluster, election, numReplicas, read, assigned>>

-----------------------------------------------------------------------------
(* The follower: syncFromConfigMap *)

FollowerReads(r) ==
    /\ r \in up
    /\ read[r] = None
    /\ configMap # NoMap
    /\ read' = [read EXCEPT ![r] = Share(configMap, r)]
    /\ UNCHANGED <<cluster, election, coordinator, configMap, assigned, disturbances>>

(* Mutant of FollowerApplies: a replica that is not in the map keeps what it *)
(* had.                                                                      *)
FollowerKeeps(r) ==
    /\ read[r] # None
    /\ assigned' = IF read[r] = {} THEN assigned ELSE [assigned EXCEPT ![r] = read[r]]
    /\ read' = [read EXCEPT ![r] = None]
    /\ UNCHANGED <<cluster, election, coordinator, configMap, disturbances>>

FollowerApplies(r) ==
    /\ read[r] # None
    /\ assigned' = [assigned EXCEPT ![r] = read[r]]
    /\ read' = [read EXCEPT ![r] = None]
    /\ UNCHANGED <<cluster, election, coordinator, configMap, disturbances>>

-----------------------------------------------------------------------------
ReconcileStep(r) ==
    \/ ListNamespaces(r) \/ ComputeMap(r) \/ GetConfigMap(r) \/ WriteConfigMap(r)
    \/ CoordinatorApplies(r) \/ CoordinatorStops(r)

FollowerStep(r) == FollowerReads(r) \/ FollowerApplies(r)

Next ==
    \/ \E ns \in Namespaces : NamespaceChanges(ns)
    \/ \E r \in Replicas :
        \/ PodCreated(r) \/ PodStarts(r) \/ PodStops(r) \/ PodRemoved(r)
        \/ OnStartedLeading(r) \/ OnStoppedLeading(r)
        \/ ReconcileStep(r) \/ CallFails(r) \/ WriteUnanswered(r)
        \/ FollowerStep(r)

SafeSpec == Init /\ [][Next]_vars

(* A free lease is taken by somebody who contends for it; the tickers of     *)
(* both loops keep firing and calls come back.                               *)
Fairness ==
    /\ WF_vars(\E r \in Replicas : OnStartedLeading(r))
    /\ \A r \in Replicas : WF_vars(ReconcileStep(r)) /\ WF_vars(FollowerStep(r))

Spec == SafeSpec /\ Fairness

-----------------------------------------------------------------------------
(* Correctness *)

ShardMaps == UNION {[P -> SUBSET Namespaces] : P \in SUBSET Replicas}

(* Every variable keeps its type; only a running pod leads or coordinates.   *)
TypeOK ==
    /\ namespaces \subseteq Namespaces
    /\ pods \subseteq Replicas
    /\ up \subseteq pods
    /\ lease \in up \cup {None}
    /\ contending \subseteq up
    /\ numReplicas \in [Replicas -> Replicas]
    /\ step \in [Replicas -> {"off", "idle", "listed", "planned", "got", "written"}]
    /\ \A r \in Replicas : step[r] # "off" => r \in up
    /\ listed \in [Replicas -> SUBSET Namespaces]
    /\ \A r \in Replicas : plan[r] = NoMap \/ plan[r] \in ShardMaps
    /\ fresh \in [Replicas -> BOOLEAN]
    /\ configMap = NoMap \/ configMap \in ShardMaps
    /\ \A r \in Replicas : read[r] = None \/ read[r] \subseteq Namespaces
    /\ assigned \in [Replicas -> SUBSET Namespaces]
    /\ disturbances \in 0..MaxDisturbances

(* Whatever the replica count was configured or adjusted to, and however the *)
(* peers changed since, a computed map gives every namespace that was listed *)
(* to exactly one pod, and no excluded one to any.                           *)
PlanIsPartition ==
    TypeOK /\ \A r \in Replicas : step[r] \in {"planned", "got", "written"} =>
        /\ \A p, q \in DOMAIN plan[r] : p # q => plan[r][p] \cap plan[r][q] = {}
        /\ UNION {plan[r][p] : p \in DOMAIN plan[r]} = listed[r]
        /\ listed[r] \cap Excluded = {}

Watched == namespaces \ Excluded

(* The pods the stored map gives a namespace to.                             *)
GivenTo(ns) == {p \in Replicas : ns \in Share(configMap, p)}

Covered ==
    /\ \A ns \in Watched : \E p \in pods :
         /\ GivenTo(ns) = {p}
         /\ {r \in up : ns \in assigned[r]} = {p} \cap up
    /\ \A r \in up : assigned[r] \subseteq Watched

(* Once the cluster leaves the controller alone and somebody leads, every    *)
(* namespace ends up with exactly one pod that exists, which watches it if   *)
(* its process runs, and nobody else does: whatever was lost or done         *)
(* half-way before, crashes between computing, writing and applying a map, a *)
(* stale read of the ConfigMap, a leader that was replaced while its write   *)
(* was under way.  (A pod that is not terminal and does not run keeps its    *)
(* share unwatched, see the README.)                                         *)
EventuallyCovered == <>[](lease # None => Covered)
=============================================================================
