--------------------------- MODULE DetectorBridge ---------------------------
(* The detector bridge (internal/controller/detectors.go): the goroutines    *)
(* that look at a Kubernetes object, from its change to the event submitted  *)
(* to the pipeline.  One object of one namespace is followed; the conditions *)
(* are in BuiltinDetectors, the cooldown gate in DetectorCooldown, and the   *)
(* filter in FilterEngine.                                                   *)
(*                                                                           *)
(* Every wiring of the namespace starts an informer of its own on a stop     *)
(* channel that nobody closes: the informers of earlier wirings go on.  The  *)
(* periodic scan looks at the store of the present one.  A version of the    *)
(* object that is missing is the empty set, one that exists a singleton.     *)
EXTENDS BuiltinDetectors, DetectorCooldown, FilterEngine

CONSTANTS
    Scenes,         \* [kind, detectors, versions, writes, wirings]: an object,
                    \* the enabled detectors, the states the object may be in,
                    \* and how often it may change and the namespace be wired
    MaxWirings,     \* bound: how often the namespace is wired in any scene
    MaxObjectAge    \* ages of the object beyond this are not told apart

ASSUME BridgeAssumption ==
    /\ MaxWirings \in Nat \ {0}
    /\ MaxObjectAge \in Nat
    /\ Checkers = (1..MaxWirings) \cup {0}
    /\ \A s \in Scenes : s.detectors \subseteq Keys

Informers == 1..MaxWirings

Scan == 0   \* the goroutine of RunPeriodicScan

VARIABLES
    scene,
    object,     \* the object, as the API server and the stores have it
    age,        \* how long ago it was created
    writes,
    wired,      \* the namespace is in wiredNamespaces
    wirings,    \* informers started so far
    queue,      \* queue[i]: versions informer i has still to hand out
    held,       \* held[g]: the version goroutine g is checking
    checks,     \* checks[g]: the detectors it has still to run on it
    cache,      \* the entry of resourceCache
    loaded,     \* loaded[g]: the entry as g's callback found it
    fresh,      \* history: submitted since the last tick, by detector
    handled,    \* history: the version an informer has handed out last
    seen        \* history: seen[g]: the versions that were the last handed out
                \* at some time since the fault of g passed the cooldown gate

objectVars == <<scene, object, age, writes>>
informerVars == <<wired, wirings, queue>>
bridgeVars == <<cooldownVars, objectVars, informerVars, held, checks, cache, loaded,
                fresh, handled, seen>>

BridgeInit ==
    /\ CooldownInit
    /\ scene \in Scenes
    /\ object \in {{v} : v \in scene.versions}
    /\ age = 0
    /\ writes = 0
    /\ wired = TRUE
    /\ wirings = 1
    /\ queue = [i \in Informers |-> IF i = 1 THEN <<object>> ELSE <<>>]
    /\ held = [g \in Checkers |-> {}]
    /\ checks = [g \in Checkers |-> {}]
    /\ cache = {}
    /\ loaded = [g \in Checkers |-> {}]
    /\ fresh = {}
    /\ handled = {}
    /\ seen = [g \in Checkers |-> {}]

Idle(g) == step[g] = "idle" /\ checks[g] = {}

-----------------------------------------------------------------------------
(* The object and the assignment of the namespace *)

Notify(v) ==
    [i \in Informers |-> IF i <= wirings THEN Append(queue[i], v) ELSE queue[i]]

(* A change reaches the stores and is queued for the handlers; nobody        *)
(* handles a deletion.                                                       *)
ObjectChanges ==
    /\ object # {}
    /\ writes < scene.writes
    /\ writes' = writes + 1
    /\ \/ \E v \in scene.versions :
            /\ object # {v}
            /\ object' = {v}
            /\ queue' = Notify({v})
       \/ object' = {} /\ UNCHANGED queue
    /\ UNCHANGED <<cooldownVars, scene, age, wired, wirings, held, checks, cache, loaded,
                   fresh, handled, seen>>

(* The informers' resync hands out what is in the store again.               *)
Resync(i) ==
    /\ i <= wirings
    /\ object # {}
    /\ queue[i] = <<>>
    /\ Idle(i)
    /\ queue' = [queue EXCEPT ![i] = <<object>>]
    /\ UNCHANGED <<cooldownVars, objectVars, wired, wirings, held, checks, cache, loaded,
                   fresh, handled, seen>>

(* HandleShardChange, a removed namespace: only the mark is deleted.         *)
Unwire ==
    /\ wired
    /\ wirings < scene.wirings
    /\ wired' = FALSE
    /\ UNCHANGED <<cooldownVars, objectVars, wirings, queue, held, checks, cache, loaded,
                   fresh, handled, seen>>

(* wireNamespace: new informers, which hand out what they find.              *)
wireNamespace ==
    /\ ~wired
    /\ wired' = TRUE
    /\ wirings' = wirings + 1
    /\ queue' = [queue EXCEPT ![wirings + 1] = IF object = {} THEN <<>> ELSE <<object>>]
    /\ UNCHANGED <<cooldownVars, objectVars, held, checks, cache, loaded,
                   fresh, handled, seen>>

-----------------------------------------------------------------------------
(* The goroutines *)

(* checkPod runs its detectors in this order.                                *)
Order == [PodCrashLoop |-> 1, PodFailed |-> 2, PodStuckPending |-> 3,
          PVCStuckBinding |-> 1, JobDeadlineExceeded |-> 1]

(* The detectors of checkPod, checkPVC and checkJob that are enabled.        *)
ChecksOf(kind) ==
    scene.detectors \cap
      CASE kind = "Pod" -> {"PodCrashLoop", "PodFailed", "PodStuckPending"}
        [] kind = "PersistentVolumeClaim" -> {"PVCStuckBinding"}
        [] kind = "Job" -> {"JobDeadlineExceeded"}

(* Jobs are not cached.                                                      *)
Cached(v) == IF scene.kind = "Job" THEN cache ELSE v

(* Add and update handlers: checkPod, checkPVC or checkJob begins.           *)
Handle(i) ==
    /\ Idle(i)
    /\ queue[i] # <<>>
    /\ queue' = [queue EXCEPT ![i] = Tail(@)]
    /\ held' = [held EXCEPT ![i] = queue[i][1]]
    /\ checks' = [checks EXCEPT ![i] = ChecksOf(scene.kind)]
    /\ cache' = Cached(queue[i][1])
    /\ handled' = queue[i][1]
    /\ seen' = [g \in Checkers |->
                  IF step[g] = "idle" THEN {} ELSE seen[g] \cup {queue[i][1]}]
    /\ UNCHANGED <<cooldownVars, objectVars, wired, wirings, loaded, fresh>>

(* Pending pods and claims are looked for in the wired namespaces.           *)
Scannable == {"PodStuckPending", "PVCStuckBinding"} \cap scene.detectors

(* scanPendingPods and scanPendingPVCs list ...                              *)
ScanLists ==
    /\ Idle(Scan)
    /\ held[Scan] = {}
    /\ wired
    /\ Scannable # {}
    /\ \E v \in object : v.phase = "Pending"
    /\ held' = [held EXCEPT ![Scan] = object]
    /\ UNCHANGED <<cooldownVars, objectVars, informerVars, checks, cache, loaded,
                   fresh, handled, seen>>

(* ... and then check what they found; a claim is cached again, a pod not.   *)
ScanChecks ==
    /\ Idle(Scan)
    /\ held[Scan] # {}
    /\ checks' = [checks EXCEPT ![Scan] = ChecksOf(scene.kind) \cap Scannable]
    /\ cache' = IF scene.kind = "Pod" THEN cache ELSE held[Scan]
    /\ UNCHANGED <<cooldownVars, objectVars, informerVars, held, loaded, fresh, handled, seen>>

(* The next detector's Check.                                                *)
Check(g) ==
    \E d \in checks[g] :
      /\ \A e \in checks[g] : Order[d] <= Order[e]
      /\ step[g] = "idle"
      /\ checks' = [checks EXCEPT ![g] = @ \ {d}]
      /\ IF \E v \in held[g] : Finds(d, v, age)
         THEN ShouldFire(g, d)
         ELSE UNCHANGED cooldownVars
      /\ held' = IF g = Scan \/ checks[g] = {d} THEN [held EXCEPT ![g] = {}] ELSE held
      /\ seen' = [seen EXCEPT ![g] = IF step'[g] = "passed" THEN {handled} ELSE {}]
      /\ UNCHANGED <<objectVars, informerVars, cache, loaded, fresh, handled>>

Record(g) ==
    /\ RecordFireNow(g) \/ RecordFire(g)
    /\ UNCHANGED <<objectVars, informerVars, held, checks, cache, loaded,
                   fresh, handled, seen>>

NilAnnotations == <<>>

(* The callback looks up the object in the cache ...                         *)
LoadCached(g) ==
    /\ CallbackBegins(g)
    /\ loaded' = [loaded EXCEPT ![g] = cache]
    /\ UNCHANGED <<objectVars, informerVars, held, checks, cache, fresh, handled, seen>>

(* Mutant of FilterInput: the object is not looked up.                       *)
FilterInputUncached(d, found) ==
    [detector |-> d, labels |-> NilLabels, annotations |-> NilAnnotations, owners |-> {},
     namespace |-> [name |-> <<"ns">>, labels |-> NilLabels,
                    annotations |-> NilAnnotations]]

(* ... tells the filter the annotations of the object it found there, and of *)
(* the namespace only its name ...                                           *)
FilterInput(d, found) ==
    [detector |-> d, labels |-> NilLabels,
     annotations |-> IF found = {} THEN NilAnnotations
                     ELSE (CHOOSE v \in found : TRUE).annotations,
     owners |-> {},
     namespace |-> [name |-> <<"ns">>, labels |-> NilLabels,
                    annotations |-> NilAnnotations]]

(* No policy is ever set by the controller.                                  *)
Submits(d, found) ==
    /\ EvaluateUpper({}, FilterInput(d, found), 0) = Passed
    /\ EvaluateLower({}, FilterInput(d, found)) = Passed

(* ... and submits: SubmitFaultEvent drops an event that is excluded.  The   *)
(* cache may have got a newer version meanwhile.                             *)
Callback(g) ==
    /\ Emitted(g)
    /\ fresh' = IF Submits(target[g], loaded[g]) THEN fresh \cup {target[g]} ELSE fresh
    /\ loaded' = [loaded EXCEPT ![g] = {}]
    /\ seen' = [seen EXCEPT ![g] = {}]
    /\ UNCHANGED <<objectVars, informerVars, held, checks, cache, handled>>

-----------------------------------------------------------------------------

(* Nobody calls it in the controller; it may run at any time.                *)
Cleanup ==
    /\ CleanupExpiredEntries
    /\ UNCHANGED <<objectVars, informerVars, held, checks, cache, loaded,
                   fresh, handled, seen>>

Tick ==
    /\ CooldownAges
    /\ age' = IF age < MaxObjectAge THEN age + 1 ELSE age
    /\ fresh' = {}
    /\ UNCHANGED <<scene, object, writes, informerVars, held, checks, cache, loaded,
                   handled, seen>>

EmitStep(g) == Check(g) \/ Record(g) \/ LoadCached(g) \/ Callback(g)

ScanStep == ScanLists \/ ScanChecks \/ EmitStep(Scan)

InformerStep(i) == Handle(i) \/ EmitStep(i)

BridgeNext ==
    \/ ObjectChanges \/ Unwire \/ wireNamespace \/ Tick \/ Cleanup
    \/ ScanStep
    \/ \E i \in Informers : InformerStep(i) \/ Resync(i)

(* Time passes, goroutines go on, and the tickers of scan and resync fire.   *)
Fairness ==
    /\ WF_bridgeVars(Tick)
    /\ WF_bridgeVars(ScanStep)
    /\ \A i \in Informers : WF_bridgeVars(InformerStep(i) \/ Resync(i))

BridgeSafeSpec == BridgeInit /\ [][BridgeNext]_bridgeVars

BridgeSpec == BridgeSafeSpec /\ Fairness

-----------------------------------------------------------------------------

(* Deduplication: of the detectors that only the informer runs, no fault     *)
(* fires twice within the cooldown, although the table is written after the  *)
(* check and may be cleaned up in between; as long as the namespace has been *)
(* wired once.                                                               *)
FiresAreSpaced ==
    [][\A g \in Checkers :
         (step[g] = "passed" /\ step'[g] = "stamped" /\ wirings = 1
            /\ target[g] \notin Scannable)
           => sinceStamp[target[g]] >= Cooldown]_bridgeVars

Excluded(v, d) == d \in getExcludedDetectors(v.annotations)

Faulty(d) ==
    /\ d \in scene.detectors
    /\ \E v \in object : Finds(d, v, age) /\ ~Excluded(v, d)

(* Again and again, every fault there is has just been reported: neither the *)
(* cooldown nor a change that came while a goroutine was at work, nor moving *)
(* the namespace away and back, silences a lasting fault for good.           *)
FaultIsReported == []<>(\A d \in scene.detectors : Faulty(d) => d \in fresh)

(* A pod that its owner excluded is not reported if the exclusion was handed *)
(* out before the fault passed the cooldown gate and still stands, even if   *)
(* the scan listed the pod before: the callback asks the cache.  (An         *)
(* exclusion that comes while the callback runs may come too late, and those *)
(* of claims and jobs may be missed, see the README.)                        *)
ExcludedPodIsSilent ==
    [][scene.kind = "Pod" =>
         \A g \in Checkers :
           (step[g] = "calling" /\ step'[g] = "idle" /\ target[g] \in fresh' \ fresh)
             => \E u \in seen[g] : \A v \in u : ~Excluded(v, target[g])]_bridgeVars
=============================================================================
