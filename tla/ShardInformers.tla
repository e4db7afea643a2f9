--------------------------- MODULE ShardInformers ---------------------------
(* What one replica makes of a change of its shard assignment: applyShardMap *)
(* of internal/shard/manager.go and the three callbacks it fires, in order:  *)
(* InformerManager.HandleShardChange (informer_manager.go), the detector     *)
(* bridge (controller/detectors.go) and the readiness callback               *)
(* (controller.go).                                                          *)
(*                                                                           *)
(* The follower loop runs on every replica and the coordinator loop as well  *)
(* on the leader: both apply, on goroutines of their own.  Each callback     *)
(* holds the lock of its component and is one step; between the callbacks    *)
(* nothing is held.  At least one detector is enabled.                       *)
EXTENDS Integers, FiniteSets, Bags

CONSTANTS
    Namespaces,     \* namespaces that may be assigned to this replica
    MaxChanges      \* bound: how often the stored assignment changes

ASSUME ChangesAssumption == MaxChanges \in Nat

Appliers == {"coordinator", "follower"}

VARIABLES
    stored,     \* this replica's share in the shard map ConfigMap
    changes,    \* changes of it so far
    role,       \* "follower", then "leader", then "former" leader
    assigned,   \* m.assignedNamespaces
    pc,         \* pc[p]: where applier p is
    share,      \* share[p]: the share p applies
    added,      \* added[p], removed[p]: the difference p found
    removed,
    made,       \* made[ns]: informer factories created for ns so far
    factory,    \* factory[ns]: which of them im.factories holds, 0 if none
    stopped,    \* im.stopped
    wired,      \* b.wiredNamespaces
    watching,   \* <<ns, g>>: the informers of factory g of ns run
    populated,  \* those of them whose cache is filled
    ready,      \* the informersSynced flag of the health handler
    spawned,    \* goroutines of the readiness callback not running yet
    waits,      \* the others: a bag, each the set of factories it waits for
    expired     \* history: one of them gave up

assignment == <<stored, changes, role, assigned>>
applying == <<pc, share, added, removed>>
informers == <<made, factory, stopped>>
bridge == <<wired, watching>>
health == <<populated, ready, spawned, waits, expired>>
vars == <<assignment, applying, informers, bridge, health>>

Init ==
    /\ stored \in SUBSET Namespaces
    /\ changes = 0
    /\ role = "follower"
    /\ assigned = {}
    /\ pc = [p \in Appliers |-> "idle"]
    /\ share = [p \in Appliers |-> {}]
    /\ added = [p \in Appliers |-> {}]
    /\ removed = [p \in Appliers |-> {}]
    /\ made = [ns \in Namespaces |-> 0]
    /\ factory = [ns \in Namespaces |-> 0]
    /\ stopped = FALSE
    /\ wired = {}
    /\ watching = {}
    /\ populated = {}
    /\ ready = TRUE
    /\ spawned = 0
    /\ waits = EmptyBag
    /\ expired = FALSE

StoredChanges(S) ==
    /\ changes < MaxChanges
    /\ ~stopped
    /\ stored' = S
    /\ changes' = changes + 1

-----------------------------------------------------------------------------
(* Where an assignment comes from *)

(* Another replica coordinates and writes the ConfigMap; a leader that does  *)
(* not know yet that its lease is gone may see this as well.                 *)
OtherReplicaWrites(S) ==
    /\ StoredChanges(S)
    /\ UNCHANGED <<role, assigned, applying, informers, bridge, health>>

(* startLeading runs the coordinator loop.                                   *)
StartsLeading ==
    /\ role = "follower"
    /\ ~stopped
    /\ role' = "leader"
    /\ UNCHANGED <<stored, changes, assigned, applying, informers, bridge, health>>

(* The lease is lost, and with it the election: the loop ends, but not an    *)
(* application that it has begun.                                            *)
StopsLeading ==
    /\ role = "leader"
    /\ role' = "former"
    /\ UNCHANGED <<stored, changes, assigned, applying, informers, bridge, health>>

(* The end of reconcile: the map is written and then applied.                *)
CoordinatorWrites(S) ==
    /\ role = "leader"
    /\ pc["coordinator"] = "idle"
    /\ StoredChanges(S)
    /\ share' = [share EXCEPT !["coordinator"] = S]
    /\ pc' = [pc EXCEPT !["coordinator"] = "apply"]
    /\ UNCHANGED <<role, assigned, added, removed, informers, bridge, health>>

FollowerReads ==
    /\ pc["follower"] = "idle"
    /\ ~stopped
    /\ share' = [share EXCEPT !["follower"] = stored]
    /\ pc' = [pc EXCEPT !["follower"] = "apply"]
    /\ UNCHANGED <<assignment, added, removed, informers, bridge, health>>

-----------------------------------------------------------------------------
(* Mutant of applyShardMap: the assignment is only ever extended.            *)
applyShardMapAddsOnly(p) ==
    /\ pc[p] = "apply"
    /\ assigned' = assigned \cup share[p]
    /\ added' = [added EXCEPT ![p] = share[p] \ assigned]
    /\ removed' = [removed EXCEPT ![p] = {}]
    /\ pc' = [pc EXCEPT ![p] = IF share[p] \subseteq assigned THEN "idle" ELSE "informers"]
    /\ share' = [share EXCEPT ![p] = {}]
    /\ UNCHANGED <<stored, changes, role, informers, bridge, health>>

(* The difference is taken and the assignment replaced under m.mu.  The      *)
(* callbacks are fired, after the lock is released, if there is any.         *)
applyShardMap(p) ==
    /\ pc[p] = "apply"
    /\ assigned' = share[p]
    /\ added' = [added EXCEPT ![p] = share[p] \ assigned]
    /\ removed' = [removed EXCEPT ![p] = assigned \ share[p]]
    /\ pc' = [pc EXCEPT ![p] = IF share[p] = assigned THEN "idle" ELSE "informers"]
    /\ share' = [share EXCEPT ![p] = {}]
    /\ UNCHANGED <<stored, changes, role, informers, bridge, health>>

(* Namespaces whose factory a change tears down, and those it creates one    *)
(* for: an added one that has a factory keeps it.                            *)
Torn(p, ns) == ns \in removed[p] /\ factory[ns] # 0

Created(p, ns) == ns \in added[p] /\ factory[ns] = 0

(* InformerManager.HandleShardChange.  cancel() closes the channel that the  *)
(* factory was started with; no informer was registered then, so no informer *)
(* listens on it.                                                            *)
HandleShardChange(p) ==
    /\ pc[p] = "informers"
    /\ IF stopped
       THEN UNCHANGED <<made, factory>>
       ELSE /\ made' = [ns \in Namespaces |-> made[ns] + IF Created(p, ns) THEN 1 ELSE 0]
            /\ factory' = [ns \in Namespaces |->
                             IF Torn(p, ns) THEN 0
                             ELSE IF Created(p, ns) THEN made'[ns] ELSE factory[ns]]
    /\ pc' = [pc EXCEPT ![p] = "bridge"]
    /\ UNCHANGED <<assignment, share, added, removed, stopped, bridge, health>>

(* Mutant of Wirable: a namespace that was unwired is not wired again.       *)
WirableOnce(p) == {ns \in added[p] : factory[ns] = 1}

(* Added namespaces the bridge wires: not wired already, with a factory.     *)
Wirable(p) == {ns \in added[p] \ (wired \ removed[p]) : factory[ns] # 0}

(* detectorBridge.HandleShardChange and wireNamespace: the handlers are      *)
(* registered with the current factory, and its informers are started with a *)
(* stop channel of their own that nobody keeps.                              *)
BridgeHandleShardChange(p) ==
    /\ pc[p] = "bridge"
    /\ wired' = (wired \ removed[p]) \cup Wirable(p)
    /\ watching' = watching \cup {<<ns, factory[ns]>> : ns \in Wirable(p)}
    /\ pc' = [pc EXCEPT ![p] = "health"]
    /\ UNCHANGED <<assignment, share, added, removed, informers, health>>

-----------------------------------------------------------------------------
(* Readiness *)

Factories == {<<ns, factory[ns]>> : ns \in {n \in Namespaces : factory[n] # 0}}

(* Mutant of HealthCallback: nobody waits for the caches.                    *)
HealthCallbackNoWait(p) ==
    /\ pc[p] = "health"
    /\ pc' = [pc EXCEPT ![p] = "idle"]
    /\ added' = [added EXCEPT ![p] = {}]
    /\ removed' = [removed EXCEPT ![p] = {}]
    /\ ready' = (ready /\ added[p] = {})
    /\ UNCHANGED <<assignment, share, informers, bridge, populated, spawned, waits,
                   expired>>

(* The readiness callback: not synced, until a new goroutine says otherwise. *)
HealthCallback(p) ==
    /\ pc[p] = "health"
    /\ pc' = [pc EXCEPT ![p] = "idle"]
    /\ added' = [added EXCEPT ![p] = {}]
    /\ removed' = [removed EXCEPT ![p] = {}]
    /\ IF added[p] = {}
       THEN UNCHANGED <<ready, spawned>>
       ELSE /\ ready' = FALSE
            /\ spawned' = spawned + 1
    /\ UNCHANGED <<assignment, share, informers, bridge, populated, waits, expired>>

(* The goroutine starts WaitForCacheSync, which takes its own snapshot.      *)
WaitStarts ==
    /\ spawned > 0
    /\ spawned' = spawned - 1
    /\ waits' = waits (+) SetToBag({Factories})
    /\ UNCHANGED <<assignment, applying, informers, bridge, populated, ready, expired>>

(* Informers a factory of the snapshot runs must be synced; a factory that   *)
(* runs none has nothing to wait for.                                        *)
AllSynced(w) == w \cap watching \subseteq populated

(* WaitForCacheSync returns true ...                                         *)
WaitSucceeds(w) ==
    /\ AllSynced(w)
    /\ ready' = TRUE
    /\ waits' = waits (-) SetToBag({w})
    /\ UNCHANGED <<assignment, applying, informers, bridge, populated, spawned, expired>>

(* ... or, after 30 seconds or at shutdown, false.                           *)
WaitFails(w) ==
    /\ ~AllSynced(w)
    /\ ready' = FALSE
    /\ expired' = TRUE
    /\ waits' = waits (-) SetToBag({w})
    /\ UNCHANGED <<assignment, applying, informers, bridge, populated, spawned>>

CachePopulates(i) ==
    /\ i \in watching \ populated
    /\ populated' = populated \cup {i}
    /\ UNCHANGED <<assignment, applying, informers, bridge, ready, spawned, waits, expired>>

(* InformerManager.Stop, in the second step of the controller's shutdown:    *)
(* the loops that apply are not waited for.                                  *)
Stop ==
    /\ ~stopped
    /\ stopped' = TRUE
    /\ factory' = [ns \in Namespaces |-> 0]
    /\ UNCHANGED <<assignment, applying, made, bridge, health>>

-----------------------------------------------------------------------------
Apply(p) ==
    applyShardMap(p) \/ HandleShardChange(p) \/ BridgeHandleShardChange(p) \/ HealthCallback(p)

Next ==
    \/ \E S \in SUBSET Namespaces : OtherReplicaWrites(S) \/ CoordinatorWrites(S)
    \/ StartsLeading \/ StopsLeading
    \/ FollowerReads
    \/ \E p \in Appliers : Apply(p)
    \/ WaitStarts
    \/ \E w \in BagToSet(waits) : WaitSucceeds(w) \/ WaitFails(w)
    \/ \E i \in watching : CachePopulates(i)
    \/ Stop

(* The follower's ticker keeps firing, goroutines run on, and a running      *)
(* informer lists its resources some time.                                   *)
Fairness ==
    /\ WF_vars(FollowerReads)
    /\ \A p \in Appliers : WF_vars(Apply(p))
    /\ WF_vars(WaitStarts \/ \E w \in BagToSet(waits) : WaitSucceeds(w))
    /\ WF_vars(\E i \in watching : CachePopulates(i))

Spec == Init /\ [][Next]_vars /\ Fairness

-----------------------------------------------------------------------------
(* Correctness *)

Instances == Namespaces \X Nat

(* Every variable keeps its type; no namespace is both added and removed, a  *)
(* factory that is held was created, and only informers that were started    *)
(* have a cache.                                                             *)
TypeOK ==
    /\ stored \subseteq Namespaces
    /\ changes \in 0..MaxChanges
    /\ role \in {"follower", "leader", "former"}
    /\ assigned \subseteq Namespaces
    /\ pc \in [Appliers -> {"idle", "apply", "informers", "bridge", "health"}]
    /\ share \in [Appliers -> SUBSET Namespaces]
    /\ added \in [Appliers -> SUBSET Namespaces]
    /\ removed \in [Appliers -> SUBSET Namespaces]
    /\ \A p \in Appliers : added[p] \cap removed[p] = {}
    /\ made \in [Namespaces -> Nat]
    /\ \A ns \in Namespaces : factory[ns] \in 0..made[ns]
    /\ stopped \in BOOLEAN
    /\ wired \subseteq Namespaces
    /\ watching \subseteq Instances
    /\ populated \subseteq watching
    /\ ready \in BOOLEAN /\ expired \in BOOLEAN
    /\ spawned \in Nat
    /\ IsABag(waits) /\ \A w \in BagToSet(waits) : w \subseteq Instances

Quiet == \A p \in Appliers : pc[p] \in {"idle", "apply"}

(* Between two applications on a replica that has not led yet, the           *)
(* namespaces with a factory, the wired ones and the assigned ones are the   *)
(* same, and every one of them is watched through its current factory,       *)
(* however often it came and went.  "After Stop is called, HandleShardChange *)
(* will be a no-op": a shard change that was under way when the manager was  *)
(* stopped creates no factory.                                               *)
InformersFollow ==
    /\ TypeOK
    /\ role = "follower" /\ Quiet /\ ~stopped =>
        /\ {ns \in Namespaces : factory[ns] # 0} = assigned
        /\ wired = assigned
        /\ Factories \subseteq watching
    /\ stopped => Factories = {}

(* The goroutines of the readiness callback may end in any order.  Unless    *)
(* one of them gave up, when the last one has ended the replica reports      *)
(* synced informers, and the caches of all its running informers are filled. *)
ReadinessSettles ==
    Quiet /\ spawned = 0 /\ waits = EmptyBag /\ ~expired =>
        ready /\ Factories \cap watching \subseteq populated

(* However stale a map the follower and the coordinator loop hold, the       *)
(* assignment ends up as the stored one, unless the replica is shut down;    *)
(* and so do the informers of a replica that never leads: with one loop, the *)
(* callbacks run in the order of the assignments.                            *)
InformersCatchUp ==
    /\ <>[](stopped \/ assigned = stored)
    /\ <>[](\/ stopped
            \/ role # "follower"
            \/ {f[1] : f \in Factories \cap watching} = stored)
=============================================================================
