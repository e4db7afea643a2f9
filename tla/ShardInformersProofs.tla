------------------------ MODULE ShardInformersProofs ------------------------
(* A replica's informers and its readiness follow its shard assignment, for  *)
(* any set of namespaces and any number of changes.                          *)
EXTENDS ShardInformers, TLAPS

-----------------------------------------------------------------------------
(* Bags *)

(* A goroutine that starts to wait, and one that ends, leave the others.     *)
LEMMA BagPut ==
    ASSUME NEW B, IsABag(B), NEW w
    PROVE  /\ IsABag(B (+) SetToBag({w}))
           /\ BagToSet(B (+) SetToBag({w})) = BagToSet(B) \cup {w}
BY DEF IsABag, BagToSet, SetToBag, (+)

LEMMA BagTake ==
    ASSUME NEW B, IsABag(B), NEW w
    PROVE  /\ IsABag(B (-) SetToBag({w}))
           /\ BagToSet(B (-) SetToBag({w})) \subseteq BagToSet(B)
           /\ BagToSet(B) \subseteq BagToSet(B (-) SetToBag({w})) \cup {w}
BY DEF IsABag, BagToSet, SetToBag, (-)

LEMMA BagEmpty ==
    /\ IsABag(EmptyBag) /\ BagToSet(EmptyBag) = {}
    /\ \A B : IsABag(B) => (B = EmptyBag <=> BagToSet(B) = {})
BY DEF IsABag, BagToSet, SetToBag, EmptyBag
-----------------------------------------------------------------------------
(* The inductive invariant *)

(* No informer runs of a factory that was not created yet.                   *)
InformerTypeOK ==
    /\ TypeOK
    /\ factory \in [Namespaces -> Nat]
    /\ \A i \in watching : i[2] <= made[i[1]]

Held == {ns \in Namespaces : factory[ns] # 0}

(* The assignment before the one the follower loop is applying.              *)
Before == (assigned \ added["follower"]) \cup removed["follower"]

Difference == added["follower"] \subseteq assigned /\ removed["follower"] \cap assigned = {}

(* How far each component has followed, where the follower loop is alone.    *)
FollowerInv ==
    /\ pc["follower"] \in {"idle", "apply", "health"} =>
         Held = assigned /\ wired = assigned /\ Factories \subseteq watching
    /\ pc["follower"] = "informers" =>
         Difference /\ Held = Before /\ wired = Before /\ Factories \subseteq watching
    /\ pc["follower"] = "bridge" =>
         /\ Difference /\ Held = assigned /\ wired = Before
         /\ \A ns \in assigned \ added["follower"] : <<ns, factory[ns]>> \in watching

FollowInv ==
    /\ role = "follower" => pc["coordinator"] = "idle"
    /\ role = "follower" /\ ~stopped => FollowerInv
    /\ stopped => Held = {}

(* An informer whose cache is empty has somebody to wait for it: a callback  *)
(* that is going to start a goroutine, one that has not looked yet, or one   *)
(* that waits for just this factory.                                         *)
Awaited(i) ==
    \/ expired
    \/ spawned > 0
    \/ \E p \in Appliers : pc[p] = "health" /\ added[p] # {}
    \/ \E w \in BagToSet(waits) : i \in w

ReadyInv ==
    /\ ready \/ expired \/ spawned > 0 \/ BagToSet(waits) # {}
    /\ \A i \in (Factories \cap watching) \ populated : Awaited(i)

InformersInv == InformerTypeOK /\ FollowInv /\ ReadyInv
-----------------------------------------------------------------------------
(* Types *)

LEMMA FactoriesAreHeld ==
    ASSUME InformerTypeOK
    PROVE  /\ Factories \subseteq Instances
           /\ \A i \in Factories : i[2] <= made[i[1]]
           /\ \A ns \in Held : <<ns, factory[ns]>> \in Factories
           /\ \A i \in Factories : i[1] \in Held /\ i = <<i[1], factory[i[1]]>>
BY DEF InformerTypeOK, TypeOK, Factories, Held, Instances

(* Where assignments come from, and applyShardMap.                           *)
LEMMA AssignmentType ==
    ASSUME InformerTypeOK,
           \/ \E S \in SUBSET Namespaces : OtherReplicaWrites(S) \/ CoordinatorWrites(S)
           \/ StartsLeading \/ StopsLeading \/ FollowerReads
           \/ \E p \in Appliers : applyShardMap(p)
    PROVE  InformerTypeOK'
<1>0. UNCHANGED <<informers, bridge, health>>
  BY DEF OtherReplicaWrites, CoordinatorWrites, StartsLeading, StopsLeading, FollowerReads,
         applyShardMap, assignment, applying
<1>1. /\ factory' = factory /\ watching' = watching /\ made' = made
      /\ UNCHANGED <<stopped, wired, populated, ready, expired, spawned, waits>>
  BY <1>0 DEF informers, bridge, health
<1>2. /\ stored' \subseteq Namespaces /\ changes' \in 0..MaxChanges
      /\ role' \in {"follower", "leader", "former"} /\ assigned' \subseteq Namespaces
      /\ pc' \in [Appliers -> {"idle", "apply", "informers", "bridge", "health"}]
      /\ share' \in [Appliers -> SUBSET Namespaces]
      /\ added' \in [Appliers -> SUBSET Namespaces]
      /\ removed' \in [Appliers -> SUBSET Namespaces]
      /\ \A q \in Appliers : added'[q] \cap removed'[q] = {}
  <2> USE ChangesAssumption DEF InformerTypeOK, TypeOK, Appliers
  <2>1. CASE \E S \in SUBSET Namespaces : OtherReplicaWrites(S)
    BY <2>1 DEF OtherReplicaWrites, StoredChanges, applying
  <2>2. CASE \E S \in SUBSET Namespaces : CoordinatorWrites(S)
    BY <2>2 DEF CoordinatorWrites, StoredChanges
  <2>3. CASE StartsLeading \/ StopsLeading
    BY <2>3 DEF StartsLeading, StopsLeading, applying
  <2>4. CASE FollowerReads
    BY <2>4 DEF FollowerReads, assignment
  <2>5. CASE \E p \in Appliers : applyShardMap(p)
    BY <2>5 DEF applyShardMap
  <2> QED BY <2>1, <2>2, <2>3, <2>4, <2>5
<1> QED BY <1>1, <1>2 DEF InformerTypeOK, TypeOK

(* The three callbacks.                                                      *)
LEMMA CallbackType ==
    ASSUME InformerTypeOK, NEW p \in Appliers,
           HandleShardChange(p) \/ BridgeHandleShardChange(p) \/ HealthCallback(p)
    PROVE  InformerTypeOK'
<1>0. UNCHANGED <<assignment, share, stopped, populated, waits, expired>>
  BY DEF HandleShardChange, BridgeHandleShardChange, HealthCallback, informers, health
<1>1. pc' \in [Appliers -> {"idle", "apply", "informers", "bridge", "health"}]
  BY DEF HandleShardChange, BridgeHandleShardChange, HealthCallback, InformerTypeOK, TypeOK
<1>2. CASE HandleShardChange(p)
  <2>1. UNCHANGED <<added, removed, wired, watching, ready, spawned>>
    BY <1>2 DEF HandleShardChange, bridge, health
  <2>2. /\ made' \in [Namespaces -> Nat] /\ factory' \in [Namespaces -> Nat]
        /\ \A ns \in Namespaces : made[ns] <= made'[ns] /\ factory'[ns] \in 0..made'[ns]
    BY <1>2 DEF HandleShardChange, InformerTypeOK, TypeOK
  <2>3. \A i \in watching : i[2] <= made'[i[1]]
    BY <2>2 DEF InformerTypeOK, TypeOK, Instances
  <2> QED BY <1>0, <1>1, <2>1, <2>2, <2>3 DEF InformerTypeOK, TypeOK, assignment
<1>3. CASE BridgeHandleShardChange(p)
  <2>1. UNCHANGED <<added, removed, made, factory, ready, spawned>>
    BY <1>3 DEF BridgeHandleShardChange, informers, health
  <2>2. Wirable(p) \subseteq Namespaces
    BY DEF Wirable, InformerTypeOK, TypeOK
  <2>3. /\ wired' = (wired \ removed[p]) \cup Wirable(p)
        /\ watching' = watching \cup {<<ns, factory[ns]>> : ns \in Wirable(p)}
    BY <1>3 DEF BridgeHandleShardChange
  <2>4. /\ wired' \subseteq Namespaces /\ watching' \subseteq Instances
        /\ populated \subseteq watching'
        /\ \A i \in watching' : i[2] <= made[i[1]]
    BY <2>2, <2>3 DEF InformerTypeOK, TypeOK, Instances
  <2> QED BY <1>0, <1>1, <2>1, <2>4 DEF InformerTypeOK, TypeOK, assignment
<1>4. CASE HealthCallback(p)
  <2>1. UNCHANGED <<made, factory, wired, watching>>
    BY <1>4 DEF HealthCallback, informers, bridge
  <2>2. /\ added' \in [Appliers -> SUBSET Namespaces]
        /\ removed' \in [Appliers -> SUBSET Namespaces]
        /\ \A q \in Appliers : added'[q] \cap removed'[q] = {}
        /\ ready' \in BOOLEAN /\ spawned' \in Nat
    <3>1. /\ added \in [Appliers -> SUBSET Namespaces]
          /\ removed \in [Appliers -> SUBSET Namespaces]
          /\ \A q \in Appliers : added[q] \cap removed[q] = {}
          /\ ready \in BOOLEAN /\ spawned \in Nat
      BY DEF InformerTypeOK, TypeOK
    <3>2. ready' \in BOOLEAN /\ spawned' \in Nat
      <4>1. CASE UNCHANGED <<ready, spawned>>
        <5>1. ready' = ready /\ spawned' = spawned
          BY <4>1
        <5> QED BY <3>1, <5>1, Zenon
      <4>2. CASE ready' = FALSE /\ spawned' = spawned + 1
        <5>1. ready' \in BOOLEAN
          BY <4>2, Zenon
        <5>2. spawned' \in Nat
          BY <3>1, <4>2
        <5> QED BY <5>1, <5>2, Zenon
      <4> QED BY <1>4, <4>1, <4>2 DEF HealthCallback
    <3> QED BY <1>4, <3>1, <3>2 DEF HealthCallback
  <2> QED BY <1>0, <1>1, <2>1, <2>2 DEF InformerTypeOK, TypeOK, assignment
<1> QED BY <1>2, <1>3, <1>4

(* The goroutines that wait, the caches, and Stop.                           *)
LEMMA WaitType ==
    ASSUME InformerTypeOK,
           \/ WaitStarts \/ \E w \in BagToSet(waits) : WaitSucceeds(w) \/ WaitFails(w)
           \/ \E i \in watching : CachePopulates(i)
           \/ Stop \/ UNCHANGED vars
    PROVE  InformerTypeOK'
<1>0. UNCHANGED <<assignment, applying, made, bridge>>
  BY DEF WaitStarts, WaitSucceeds, WaitFails, CachePopulates, Stop, vars, informers
<1>1. factory' \in [Namespaces -> Nat] /\ \A ns \in Namespaces : factory'[ns] \in 0..made[ns]
  <2>1. CASE factory' = factory
    BY <2>1 DEF InformerTypeOK, TypeOK
  <2>2. CASE Stop
    BY <2>2 DEF Stop, InformerTypeOK, TypeOK
  <2> QED BY <2>1, <2>2 DEF WaitStarts, WaitSucceeds, WaitFails, CachePopulates, vars, informers
<1>2. /\ stopped' \in BOOLEAN /\ ready' \in BOOLEAN /\ expired' \in BOOLEAN
      /\ spawned' \in Nat /\ populated' \subseteq watching
  <2>0. /\ stopped \in BOOLEAN /\ ready \in BOOLEAN /\ expired \in BOOLEAN
        /\ spawned \in Nat /\ populated \subseteq watching
    BY DEF InformerTypeOK, TypeOK
  <2>1. CASE WaitStarts
    BY <2>0, <2>1 DEF WaitStarts, informers
  <2>2. CASE \E w \in BagToSet(waits) : WaitSucceeds(w) \/ WaitFails(w)
    BY <2>0, <2>2 DEF WaitSucceeds, WaitFails, informers
  <2>3. CASE \E i \in watching : CachePopulates(i)
    BY <2>0, <2>3 DEF CachePopulates, informers
  <2>4. CASE Stop \/ UNCHANGED vars
    BY <2>0, <2>4 DEF Stop, vars, informers, health
  <2> QED BY <2>1, <2>2, <2>3, <2>4
<1>3. IsABag(waits') /\ \A w \in BagToSet(waits') : w \subseteq Instances
  <2>1. CASE WaitStarts
    <3>1. waits' = waits (+) SetToBag({Factories}) /\ Factories \subseteq Instances
      BY <2>1, FactoriesAreHeld DEF WaitStarts
    <3>2. IsABag(waits) /\ \A w \in BagToSet(waits) : w \subseteq Instances
      BY DEF InformerTypeOK, TypeOK
    <3>3. IsABag(waits') /\ BagToSet(waits') = BagToSet(waits) \cup {Factories}
      BY <3>1, <3>2, BagPut
    <3> QED BY <3>1, <3>2, <3>3
  <2>2. CASE \E w \in BagToSet(waits) : WaitSucceeds(w) \/ WaitFails(w)
    <3>1. PICK w \in BagToSet(waits) : waits' = waits (-) SetToBag({w})
      BY <2>2 DEF WaitSucceeds, WaitFails
    <3>2. IsABag(waits) /\ \A v \in BagToSet(waits) : v \subseteq Instances
      BY DEF InformerTypeOK, TypeOK
    <3>3. IsABag(waits') /\ BagToSet(waits') \subseteq BagToSet(waits)
      BY <3>1, <3>2, BagTake
    <3> QED BY <3>2, <3>3
  <2>3. CASE waits' = waits
    BY <2>3 DEF InformerTypeOK, TypeOK
  <2> QED BY <2>1, <2>2, <2>3 DEF CachePopulates, Stop, vars, health
<1> QED BY <1>0, <1>1, <1>2, <1>3 DEF InformerTypeOK, TypeOK, assignment, applying, bridge

LEMMA InformerTypeStep == InformerTypeOK /\ [Next]_vars => InformerTypeOK'
BY AssignmentType, CallbackType, WaitType DEF Next, Apply

-----------------------------------------------------------------------------
(* Following *)

(* What the components hold, when a step leaves it alone.                    *)
LEMMA HoldsOn ==
    ASSUME FollowerInv, UNCHANGED <<assigned, added, removed, factory, wired, watching>>,
           \/ pc'["follower"] = pc["follower"]
           \/ {pc["follower"], pc'["follower"]} \subseteq {"idle", "apply", "health"}
    PROVE  FollowerInv'
BY DEF FollowerInv, Difference, Before, Held, Factories

LEMMA ApplyFollows ==
    ASSUME InformerTypeOK, FollowerInv, applyShardMap("follower")
    PROVE  FollowerInv'
<1> DEFINE p == "follower"
<1>1. /\ pc[p] = "apply" /\ assigned' = share[p] /\ UNCHANGED <<factory, wired, watching>>
      /\ added'[p] = share[p] \ assigned /\ removed'[p] = assigned \ share[p]
      /\ pc'[p] = IF share[p] = assigned THEN "idle" ELSE "informers"
  BY DEF applyShardMap, InformerTypeOK, TypeOK, Appliers, informers, bridge
<1>2. Held = assigned /\ wired = assigned /\ Factories \subseteq watching
  BY <1>1 DEF FollowerInv
<1>3. Held' = Held /\ Factories' = Factories
  BY <1>1 DEF Held, Factories
<1>4. Difference' /\ Before' = assigned
  BY <1>1 DEF Difference, Before
<1> QED BY <1>1, <1>2, <1>3, <1>4 DEF FollowerInv

LEMMA HandleFollows ==
    ASSUME InformerTypeOK, FollowerInv, ~stopped, HandleShardChange("follower")
    PROVE  FollowerInv'
<1> DEFINE p == "follower"
<1>1. /\ pc[p] = "informers" /\ pc'[p] = "bridge"
      /\ UNCHANGED <<assigned, added, removed, wired, watching>>
      /\ made' = [ns \in Namespaces |-> made[ns] + IF Created(p, ns) THEN 1 ELSE 0]
      /\ factory' = [ns \in Namespaces |->
                       IF Torn(p, ns) THEN 0
                       ELSE IF Created(p, ns) THEN made'[ns] ELSE factory[ns]]
  BY DEF HandleShardChange, InformerTypeOK, TypeOK, Appliers, assignment, bridge
<1>2. /\ Difference /\ Held = Before /\ wired = Before /\ Factories \subseteq watching
      /\ assigned \subseteq Namespaces /\ removed[p] \subseteq Namespaces
      /\ added[p] \cap removed[p] = {}
  BY <1>1 DEF FollowerInv, InformerTypeOK, TypeOK, Appliers
<1>3. Difference' /\ Before' = Before
  BY <1>1, <1>2 DEF Difference, Before
<1>4. ASSUME NEW ns \in Namespaces
      PROVE  /\ ns \in Held' <=> ns \in assigned
             /\ ns \in assigned \ added[p] => factory'[ns] = factory[ns] /\ factory[ns] # 0
  <2>0. ns \in Held <=> factory[ns] # 0
    BY DEF Held
  <2>1. CASE ns \in removed[p]
    <3>1. Torn(p, ns) /\ ns \notin assigned
      BY <1>2, <2>0, <2>1 DEF Before, Difference, Torn
    <3> QED BY <1>1, <3>1 DEF Held
  <2>2. CASE ns \in added[p]
    <3>1. Created(p, ns) /\ ~Torn(p, ns) /\ ns \in assigned
      BY <1>2, <2>0, <2>2 DEF Before, Difference, Created, Torn
    <3>2. factory'[ns] = made[ns] + 1 /\ made[ns] \in Nat
      BY <1>1, <3>1 DEF InformerTypeOK, TypeOK
    <3> QED BY <2>2, <3>1, <3>2 DEF Held
  <2>3. CASE ns \notin removed[p] /\ ns \notin added[p]
    <3>1. ~Torn(p, ns) /\ ~Created(p, ns) /\ (ns \in Before <=> ns \in assigned)
      BY <2>3 DEF Before, Created, Torn
    <3> QED BY <1>1, <1>2, <2>0, <3>1 DEF Held
  <2> QED BY <2>1, <2>2, <2>3
<1>5. Held' = assigned
  BY <1>2, <1>4 DEF Held
<1>6. ASSUME NEW ns \in assigned \ added[p] PROVE <<ns, factory'[ns]>> \in watching
  <2>1. ns \in Namespaces /\ factory'[ns] = factory[ns] /\ factory[ns] # 0
    BY <1>2, <1>4
  <2> QED BY <1>2, <2>1 DEF Factories
<1> QED BY <1>1, <1>2, <1>3, <1>5, <1>6 DEF FollowerInv

LEMMA BridgeFollows ==
    ASSUME InformerTypeOK, FollowerInv, BridgeHandleShardChange("follower")
    PROVE  FollowerInv'
<1> DEFINE p == "follower"
<1>1. /\ pc[p] = "bridge" /\ pc'[p] = "health" /\ UNCHANGED <<assigned, factory>>
      /\ wired' = (wired \ removed[p]) \cup Wirable(p)
      /\ watching' = watching \cup {<<ns, factory[ns]>> : ns \in Wirable(p)}
  BY DEF BridgeHandleShardChange, InformerTypeOK, TypeOK, Appliers, assignment, informers
<1>2. /\ Difference /\ Held = assigned /\ wired = Before
      /\ \A ns \in assigned \ added[p] : <<ns, factory[ns]>> \in watching
      /\ added[p] \cap removed[p] = {}
  BY <1>1 DEF FollowerInv, InformerTypeOK, TypeOK, Appliers
<1>3. Wirable(p) = added[p]
  <2>1. added[p] \cap (wired \ removed[p]) = {}
    BY <1>2 DEF Before
  <2>2. \A ns \in added[p] : factory[ns] # 0
    BY <1>2 DEF Difference, Held
  <2> QED BY <2>1, <2>2 DEF Wirable
<1>4. wired' = assigned
  BY <1>1, <1>2, <1>3 DEF Before, Difference
<1>5. Held' = Held /\ Factories' = Factories
  BY <1>1 DEF Held, Factories
<1>6. Factories \subseteq watching'
  <2> SUFFICES ASSUME NEW ns \in Held PROVE <<ns, factory[ns]>> \in watching'
    BY FactoriesAreHeld
  <2> QED BY <1>1, <1>2, <1>3
<1> QED BY <1>1, <1>2, <1>4, <1>5, <1>6 DEF FollowerInv

LEMMA FollowStep ==
    ASSUME InformerTypeOK, FollowInv, [Next]_vars
    PROVE  FollowInv'
<1> USE DEF Appliers
<1>1. role' = "follower" => role = "follower" /\ pc'["coordinator"] = "idle"
  <2>1. CASE role # "follower"
    BY <2>1 DEF Next, vars, OtherReplicaWrites, CoordinatorWrites, StartsLeading, StopsLeading,
                FollowerReads, Apply, applyShardMap, HandleShardChange,
                BridgeHandleShardChange, HealthCallback, WaitStarts, WaitSucceeds, WaitFails,
                CachePopulates, Stop, assignment
  <2>2. CASE role = "follower"
    <3>1. pc["coordinator"] = "idle"
      BY <2>2 DEF FollowInv
    <3> QED BY <2>2, <3>1 DEF Next, vars, OtherReplicaWrites, CoordinatorWrites, StartsLeading,
                StopsLeading, FollowerReads, Apply, applyShardMap, HandleShardChange,
                BridgeHandleShardChange, HealthCallback, WaitStarts, WaitSucceeds, WaitFails,
                CachePopulates, Stop, applying, InformerTypeOK, TypeOK
  <2> QED BY <2>1, <2>2
<1>2. stopped' => Held' = {}
  <2>1. CASE stopped
    <3>1. factory' = factory \/ Stop
      BY <2>1 DEF Next, vars, OtherReplicaWrites, CoordinatorWrites, StartsLeading,
                StopsLeading, FollowerReads, Apply, applyShardMap, HandleShardChange,
                BridgeHandleShardChange, HealthCallback, WaitStarts, WaitSucceeds, WaitFails,
                CachePopulates, informers
    <3> QED BY <2>1, <3>1 DEF FollowInv, Held, Stop
  <2>2. CASE Stop
    BY <2>2 DEF Stop, Held
  <2>3. CASE ~stopped /\ ~Stop
    BY <2>3 DEF Next, vars, OtherReplicaWrites, CoordinatorWrites, StartsLeading,
                StopsLeading, FollowerReads, Apply, applyShardMap, HandleShardChange,
                BridgeHandleShardChange, HealthCallback, WaitStarts, WaitSucceeds, WaitFails,
                CachePopulates, informers, InformerTypeOK, TypeOK
  <2> QED BY <2>1, <2>2, <2>3
<1>3. ASSUME role' = "follower", ~stopped' PROVE FollowerInv'
  <2>0. FollowerInv /\ role = "follower" /\ pc["coordinator"] = "idle" /\ ~stopped
    <3>1. stopped => stopped'
      BY DEF Next, vars, OtherReplicaWrites, CoordinatorWrites, StartsLeading,
                StopsLeading, FollowerReads, Apply, applyShardMap, HandleShardChange,
                BridgeHandleShardChange, HealthCallback, WaitStarts, WaitSucceeds, WaitFails,
                CachePopulates, Stop, informers
    <3> QED BY <1>1, <1>3, <3>1 DEF FollowInv
  <2>1. CASE UNCHANGED <<assigned, added, removed, factory, wired, watching, pc>>
    BY <2>0, <2>1, HoldsOn
  <2>2. CASE \E p \in Appliers : Apply(p)
    <3>1. Apply("follower")
      BY <2>0, <2>2 DEF Apply, applyShardMap, HandleShardChange, BridgeHandleShardChange,
                        HealthCallback
    <3>2. CASE HealthCallback("follower")
      <4>1. /\ pc["follower"] = "health" /\ pc'["follower"] = "idle"
            /\ UNCHANGED <<assigned, factory, wired, watching>>
        BY <3>2 DEF HealthCallback, InformerTypeOK, TypeOK, assignment, informers, bridge
      <4> QED BY <2>0, <4>1 DEF FollowerInv, Held, Factories
    <3> QED BY <2>0, <3>1, <3>2, ApplyFollows, HandleFollows, BridgeFollows DEF Apply
  <2>3. CASE FollowerReads
    <3>1. /\ pc["follower"] = "idle" /\ pc'["follower"] = "apply"
          /\ UNCHANGED <<assigned, added, removed, factory, wired, watching>>
      BY <2>3 DEF FollowerReads, InformerTypeOK, TypeOK, assignment, informers, bridge
    <3> QED BY <2>0, <3>1, HoldsOn
  <2> QED BY <1>3, <2>0, <2>1, <2>2, <2>3
          DEF Next, vars, OtherReplicaWrites, CoordinatorWrites, StartsLeading, StopsLeading,
              WaitStarts, WaitSucceeds, WaitFails, CachePopulates, Stop, assignment, applying,
              informers, bridge
<1> QED BY <1>1, <1>2, <1>3 DEF FollowInv
-----------------------------------------------------------------------------
(* Readiness *)

(* A step that keeps the goroutines and starts no informer keeps the rest.   *)
LEMMA ReadyOn ==
    ASSUME ReadyInv, UNCHANGED <<ready, expired, spawned, waits, added>>,
           Factories' \cap watching' \subseteq Factories \cap watching,
           populated \subseteq populated',
           \A p \in Appliers : pc[p] = "health" => pc'[p] = "health"
    PROVE  ReadyInv'
<1>1. ASSUME NEW i \in (Factories' \cap watching') \ populated' PROVE Awaited(i)'
  <2>1. Awaited(i)
    BY DEF ReadyInv
  <2> QED BY <2>1 DEF Awaited
<1> QED BY <1>1 DEF ReadyInv

(* applyShardMap fills in the difference of an applier that had none.        *)
LEMMA ApplyReady ==
    ASSUME InformerTypeOK, ReadyInv, NEW p \in Appliers, applyShardMap(p)
    PROVE  ReadyInv'
<1>1. /\ pc[p] = "apply"
      /\ UNCHANGED <<ready, expired, spawned, waits, watching, populated, factory>>
      /\ \A q \in Appliers \ {p} : pc'[q] = pc[q] /\ added'[q] = added[q]
  BY DEF applyShardMap, InformerTypeOK, TypeOK, informers, bridge, health
<1>2. Factories' = Factories
  BY <1>1 DEF Factories
<1>3. ASSUME NEW i \in (Factories \cap watching) \ populated PROVE Awaited(i)'
  <2>1. Awaited(i)
    BY DEF ReadyInv
  <2> QED BY <1>1, <2>1 DEF Awaited
<1> QED BY <1>1, <1>2, <1>3 DEF ReadyInv

(* A new factory is not one whose informers run already.                     *)
LEMMA HandleReady ==
    ASSUME InformerTypeOK, ReadyInv, NEW p \in Appliers, HandleShardChange(p)
    PROVE  ReadyInv'
<1>1. /\ pc[p] = "informers" /\ pc' = [pc EXCEPT ![p] = "bridge"]
      /\ UNCHANGED <<ready, expired, spawned, waits, watching, populated, added>>
  BY DEF HandleShardChange, bridge, health
<1>2. \A q \in Appliers : pc[q] = "health" => pc'[q] = "health"
  BY <1>1 DEF InformerTypeOK, TypeOK
<1>3. ASSUME NEW ns \in Namespaces
      PROVE  factory'[ns] \in {0, factory[ns], made[ns] + 1}
  <2>1. CASE stopped
    BY <2>1 DEF HandleShardChange
  <2>2. CASE ~stopped
    <3>1. /\ made'[ns] = made[ns] + IF Created(p, ns) THEN 1 ELSE 0
          /\ factory'[ns] = IF Torn(p, ns) THEN 0
                            ELSE IF Created(p, ns) THEN made'[ns] ELSE factory[ns]
      BY <2>2 DEF HandleShardChange
    <3> QED BY <3>1
  <2> QED BY <2>1, <2>2
<1>4. ASSUME NEW ns \in Namespaces, factory'[ns] # 0, <<ns, factory'[ns]>> \in watching
      PROVE  factory'[ns] = factory[ns]
  <2>1. factory'[ns] <= made[ns] /\ made[ns] \in Nat
    BY <1>4 DEF InformerTypeOK, TypeOK
  <2> QED BY <1>3, <1>4, <2>1
<1>5. Factories' \cap watching' \subseteq Factories \cap watching
  BY <1>1, <1>4 DEF Factories
<1> QED BY <1>1, <1>2, <1>5, ReadyOn

(* The bridge starts informers before the readiness callback is fired.       *)
LEMMA BridgeReady ==
    ASSUME InformerTypeOK, ReadyInv, NEW p \in Appliers, BridgeHandleShardChange(p)
    PROVE  ReadyInv'
<1>1. /\ pc[p] = "bridge" /\ pc' = [pc EXCEPT ![p] = "health"]
      /\ watching' = watching \cup {<<ns, factory[ns]>> : ns \in Wirable(p)}
      /\ UNCHANGED <<ready, expired, spawned, waits, populated, added, factory>>
  BY DEF BridgeHandleShardChange, informers, health
<1>2. pc'[p] = "health" /\ \A q \in Appliers \ {p} : pc'[q] = pc[q]
  BY <1>1 DEF InformerTypeOK, TypeOK
<1>3. Factories' = Factories
  BY <1>1 DEF Factories
<1>4. CASE added[p] = {}
  <2>1. watching' = watching
    BY <1>1, <1>4 DEF Wirable
  <2> QED BY <1>1, <1>2, <1>3, <2>1, ReadyOn
<1>5. CASE added[p] # {}
  BY <1>1, <1>2, <1>5 DEF ReadyInv, Awaited
<1> QED BY <1>4, <1>5

LEMMA HealthReady ==
    ASSUME InformerTypeOK, ReadyInv, NEW p \in Appliers, HealthCallback(p)
    PROVE  ReadyInv'
<1>1. /\ UNCHANGED <<expired, waits, populated, watching, factory>>
      /\ \A q \in Appliers \ {p} : pc'[q] = pc[q] /\ added'[q] = added[q]
      /\ spawned \in Nat
  BY DEF HealthCallback, InformerTypeOK, TypeOK, informers, bridge
<1>2. Factories' = Factories
  BY <1>1 DEF Factories
<1>3. CASE added[p] = {}
  <2>1. UNCHANGED <<ready, spawned>>
    BY <1>3 DEF HealthCallback
  <2>2. ASSUME NEW i \in (Factories \cap watching) \ populated PROVE Awaited(i)'
    <3>1. Awaited(i)
      BY DEF ReadyInv
    <3> QED BY <1>1, <1>3, <2>1, <3>1 DEF Awaited
  <2> QED BY <1>1, <1>2, <2>1, <2>2 DEF ReadyInv
<1>4. CASE added[p] # {}
  <2>1. spawned' = spawned + 1
    BY <1>4 DEF HealthCallback
  <2>2. spawned' > 0
    BY <1>1, <2>1
  <2> QED BY <2>2 DEF ReadyInv, Awaited
<1> QED BY <1>3, <1>4

LEMMA WaitReady ==
    ASSUME InformerTypeOK, ReadyInv,
           WaitStarts \/ \E w \in BagToSet(waits) : WaitSucceeds(w) \/ WaitFails(w)
    PROVE  ReadyInv'
<1>0. IsABag(waits) /\ spawned \in Nat
  BY DEF InformerTypeOK, TypeOK
<1>1. /\ UNCHANGED <<pc, added, factory, watching, populated>>
      /\ Factories' = Factories
  BY DEF WaitStarts, WaitSucceeds, WaitFails, applying, informers, bridge, Factories
<1>2. CASE WaitStarts
  <2>1. waits' = waits (+) SetToBag({Factories})
    BY <1>2 DEF WaitStarts
  <2>2. BagToSet(waits') = BagToSet(waits) \cup {Factories}
    BY <1>0, <2>1, BagPut
  <2> QED BY <1>1, <2>2 DEF ReadyInv, Awaited
<1>3. ASSUME NEW w \in BagToSet(waits), WaitFails(w) PROVE ReadyInv'
  BY <1>3 DEF WaitFails, ReadyInv, Awaited
<1>4. ASSUME NEW w \in BagToSet(waits), WaitSucceeds(w) PROVE ReadyInv'
  <2>1. /\ ready' = TRUE /\ waits' = waits (-) SetToBag({w}) /\ AllSynced(w)
        /\ UNCHANGED <<spawned, expired>>
    BY <1>4 DEF WaitSucceeds
  <2>2. BagToSet(waits) \subseteq BagToSet(waits') \cup {w}
    BY <1>0, <2>1, BagTake
  <2>3. ASSUME NEW i \in (Factories \cap watching) \ populated PROVE Awaited(i)'
    <3>1. Awaited(i) /\ i \notin w
      BY <2>1 DEF ReadyInv, AllSynced
    <3> QED BY <1>1, <2>1, <2>2, <3>1 DEF Awaited
  <2> QED BY <1>1, <2>1, <2>3 DEF ReadyInv
<1> QED BY <1>2, <1>3, <1>4

LEMMA ReadyStep ==
    ASSUME InformerTypeOK, ReadyInv, [Next]_vars
    PROVE  ReadyInv'
<1>1. CASE \E p \in Appliers : Apply(p)
  BY <1>1, ApplyReady, HandleReady, BridgeReady, HealthReady DEF Apply
<1>2. CASE WaitStarts \/ \E w \in BagToSet(waits) : WaitSucceeds(w) \/ WaitFails(w)
  BY <1>2, WaitReady
<1>3. CASE \/ \E S \in SUBSET Namespaces : OtherReplicaWrites(S) \/ CoordinatorWrites(S)
           \/ StartsLeading \/ StopsLeading \/ FollowerReads
  <2>1. /\ UNCHANGED <<ready, expired, spawned, waits, added, populated, watching, factory>>
        /\ \A p \in Appliers : pc[p] = "health" => pc'[p] = "health"
    BY <1>3 DEF OtherReplicaWrites, CoordinatorWrites, StartsLeading, StopsLeading,
                FollowerReads, applying, informers, bridge, health, InformerTypeOK, TypeOK
  <2> QED BY <2>1, ReadyOn DEF Factories
<1>4. CASE \/ \E i \in watching : CachePopulates(i)
           \/ Stop \/ UNCHANGED vars
  <2>1. /\ UNCHANGED <<ready, expired, spawned, waits, added, pc, watching>>
        /\ populated \subseteq populated'
    BY <1>4 DEF CachePopulates, Stop, vars, applying, bridge, health
  <2>2. Factories' \subseteq Factories
    BY <1>4 DEF CachePopulates, Stop, vars, informers, Factories
  <2> QED BY <2>1, <2>2, ReadyOn
<1> QED BY <1>1, <1>2, <1>3, <1>4 DEF Next

-----------------------------------------------------------------------------
(* The properties *)

LEMMA InformersInit == Init => InformersInv
<1> SUFFICES ASSUME Init PROVE InformersInv
  OBVIOUS
<1>1. InformerTypeOK
  <2>1. stopped \in BOOLEAN /\ ready \in BOOLEAN /\ expired \in BOOLEAN
    BY Zenon DEF Init
  <2>2. IsABag(waits) /\ \A w \in BagToSet(waits) : w \subseteq Instances
    BY BagEmpty DEF Init
  <2> QED BY <2>1, <2>2, ChangesAssumption DEF Init, InformerTypeOK, TypeOK, Appliers
<1>2. Held = {} /\ Factories = {}
  BY DEF Init, Held, Factories
<1>3. FollowInv
  BY <1>2 DEF Init, FollowInv, FollowerInv, Appliers
<1>4. ReadyInv
  BY <1>2 DEF Init, ReadyInv
<1> QED BY <1>1, <1>3, <1>4 DEF InformersInv

(* The inductive invariant holds throughout, whatever the scheduling.        *)
THEOREM InformersInvariant == Spec => []InformersInv
<1>1. InformersInv /\ [Next]_vars => InformersInv'
  BY InformerTypeStep, FollowStep, ReadyStep DEF InformersInv
<1> QED BY <1>1, InformersInit, PTL DEF Spec

(* Between two applications on a replica that has not led, the factories,    *)
(* the wired namespaces and the watched ones are those of the assignment     *)
(* (applyShardMap and the HandleShardChange callbacks); after Stop, a shard  *)
(* change that was under way creates no factory.                             *)
THEOREM InformersFollowCorrect == Spec => []InformersFollow
<1>1. InformersInv => InformersFollow
  <2> SUFFICES ASSUME InformersInv PROVE InformersFollow
    OBVIOUS
  <2>1. TypeOK
    BY DEF InformersInv, InformerTypeOK
  <2>2. ASSUME role = "follower", Quiet, ~stopped
        PROVE  /\ {ns \in Namespaces : factory[ns] # 0} = assigned
               /\ wired = assigned
               /\ Factories \subseteq watching
    BY <2>2 DEF InformersInv, FollowInv, FollowerInv, Quiet, Appliers, Held
  <2>3. stopped => Factories = {}
    BY DEF InformersInv, FollowInv, Held, Factories
  <2> QED BY <2>1, <2>2, <2>3 DEF InformersFollow
<1> QED BY <1>1, InformersInvariant, PTL

(* In whatever order the goroutines of the readiness callback end, when the  *)
(* last one has and none gave up, the replica reports synced informers and   *)
(* the caches of its running informers are filled.                           *)
THEOREM ReadinessSettlesCorrect == Spec => []ReadinessSettles
<1>1. InformersInv => ReadinessSettles
  <2> SUFFICES ASSUME InformersInv, Quiet, spawned = 0, waits = EmptyBag, ~expired
               PROVE  ready /\ Factories \cap watching \subseteq populated
    BY DEF ReadinessSettles
  <2>1. BagToSet(waits) = {} /\ \A p \in Appliers : pc[p] # "health"
    BY BagEmpty DEF Quiet
  <2> QED BY <2>1 DEF InformersInv, ReadyInv, Awaited
<1> QED BY <1>1, InformersInvariant, PTL
=============================================================================
