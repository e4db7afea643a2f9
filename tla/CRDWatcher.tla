----------------------------- MODULE CRDWatcher -----------------------------
(* The CRD watcher (internal/config/crd_watcher.go), which turns the four    *)
(* kinds of custom resources into registry entries and filter policies, and  *)
(* the filter engine (internal/filter/engine.go) that it feeds while events  *)
(* are being evaluated.                                                      *)
(*                                                                           *)
(* The registries, the status updater and the API server are external: a     *)
(* registry is a map, a status update may fail and then is only logged.      *)
(* Events of one handler are delivered in order; HandlerOf says which        *)
(* goroutine an object's events go to.  Nothing in the watcher asks for one  *)
(* goroutine per kind, and its tests call it from several at once.  A step   *)
(* is what happens under one lock, or one call of another component.         *)
EXTENDS FilterEngine, FiniteSets

CONSTANTS
    Objects,        \* the custom resources: records [kind, namespace, name]
    Specs,          \* Specs[o]: the specs a user may write for o
    HandlerOf,      \* HandlerOf[o]: the goroutine that handles the events of o
    SystemNamespace,    \* where policies for several namespaces belong
    Scenes,         \* [objects, inputs]: what users may touch and what may be
                    \* evaluated in one behaviour
    MaxWrites,      \* bound: writes and deletions by users
    MaxTime         \* bound: the times schedules are compared with

ASSUME BoundsAssumption == MaxWrites \in Nat /\ MaxTime \in Nat

ASSUME KindsAssumption ==
    \A o \in Objects : o.kind \in {"Detector", "Gatherer", "Sink", "Policy"}

Handlers == {HandlerOf[o] : o \in Objects}

Policies == {o \in Objects : o.kind = "Policy"}

VARIABLES
    scene,          \* which of the scenes this behaviour plays
    objects,        \* the spec of each object at the API server, {} if none
    status,         \* its status conditions
    writes,         \* writes so far
    queue,          \* queue[h]: events for handler h; the first is in hand
    pc,             \* pc[h]: where handler h is
    wasValid,       \* wasValid[h]: what setXNotReady found
    valid,          \* the keys of the four valid maps
    registry,       \* the detector, gatherer and sink registries
    policyStore,    \* the policy store
    snapshot,       \* snapshot[h]: what rebuildPolicies has collected
    policies,       \* the policies of the filter engine
    eval,           \* one call of Evaluate
    lastValid,      \* history: the last valid spec written since the creation
    unreported,     \* history: objects whose last status update was lost
    rebuilds,       \* history: how often rebuildPolicies has collected so far
    number,         \* history: number[h]: which of them h has in hand, or 0
    applied         \* history: which of them the engine has

api == <<scene, objects, status, writes, lastValid>>
watcher == <<valid, policyStore, snapshot>>
order == <<rebuilds, number, applied>>
vars == <<api, queue, pc, wasValid, watcher, registry, policies, eval, unreported,
          order>>

The(set) == CHOOSE x \in set : TRUE

With(f, o, v) == [x \in DOMAIN f \cup {o} |-> IF x = o THEN v ELSE f[x]]

Without(f, o) == [x \in DOMAIN f \ {o} |-> f[x]]

NoConditions == <<>>

Idle == [pc |-> "idle"]

Init ==
    /\ scene \in Scenes
    /\ objects = [o \in Objects |-> {}]
    /\ status = [o \in Objects |-> NoConditions]
    /\ writes = 0
    /\ queue = [h \in Handlers |-> <<>>]
    /\ pc = [h \in Handlers |-> "idle"]
    /\ wasValid = [h \in Handlers |-> FALSE]
    /\ valid = {}
    /\ registry = <<>>
    /\ policyStore = <<>>
    /\ snapshot = [h \in Handlers |-> {}]
    /\ policies = {}
    /\ eval = Idle
    /\ lastValid = <<>>
    /\ unreported = {}
    /\ rebuilds = 0
    /\ number = [h \in Handlers |-> 0]
    /\ applied = 0

-----------------------------------------------------------------------------
(* Validation *)

Severities == {"critical", "warning", "info"}

ValidDetector(s) ==
    /\ s.resource # ""
    /\ s.condition # ""
    /\ s.compiles
    /\ s.severity \in Severities

validateCollectAction(a) ==
    \/ /\ a.type = "resource"
       /\ a.apiVersion # ""
       /\ a.resource # ""
       /\ a.listAll \/ a.name # ""
    \/ a.type = "logs"

ValidGatherer(s) ==
    /\ s.resourceKinds # {} \/ s.detectors # {}
    /\ s.collect # {}
    /\ \A a \in s.collect : validateCollectAction(a)

(* Exactly one of url and secretRef; a template, if any, must parse.         *)
ValidSink(s) ==
    /\ s.type = "webhook"
    /\ s.webhook # {}
    /\ \A w \in s.webhook :
         /\ (w.url = "") # (w.secretRef = {})
         /\ w.template # "unparsable"
    /\ s.severityFilter \subseteq Severities

(* Of the owner patterns only the empty one is rejected.  A malformed one is *)
(* accepted, and never matches.                                              *)
ValidPolicy(s) ==
    /\ s.action \in {"Exclude", "Suppress"}
    /\ s.schedule # {} => s.action = "Suppress"
    /\ \A w \in s.schedule : w.start < w.end
    /\ \A m \in s.match :
         \A pattern \in m.ownerNames : pattern.text # <<>> \/ pattern.star

Valid(kind, s) ==
    CASE kind = "Detector" -> ValidDetector(s)
      [] kind = "Gatherer" -> ValidGatherer(s)
      [] kind = "Sink" -> ValidSink(s)
      [] kind = "Policy" -> ValidPolicy(s)

ValidSpecs(kind, specs) == {s \in specs : Valid(kind, s)}

-----------------------------------------------------------------------------
(* What users do *)

(* A write is delivered to the handler of the object, a deletion as {}.  An  *)
(* evaluation under way is no longer calm if it may see a policy change.     *)
UserChanges(o, spec) ==
    /\ o \in scene.objects
    /\ writes < MaxWrites
    /\ objects[o] # spec
    /\ writes' = writes + 1
    /\ objects' = [objects EXCEPT ![o] = spec]
    /\ status' = IF objects[o] = {} \/ spec = {}
                 THEN [status EXCEPT ![o] = NoConditions] ELSE status
    /\ queue' = [queue EXCEPT ![HandlerOf[o]] = Append(@, [object |-> o, spec |-> spec])]
    /\ eval' = IF eval.pc # "idle" /\ o \in Policies
               THEN [eval EXCEPT !.calm = FALSE] ELSE eval
    /\ lastValid' =
         CASE spec = {} -> Without(lastValid, o)
           [] ValidSpecs(o.kind, spec) # {} -> With(lastValid, o, The(spec))
           [] OTHER -> lastValid
    /\ UNCHANGED <<scene, pc, wasValid, watcher, registry, policies,
                   unreported, order>>

UserWrites(o) == \E spec \in Specs[o] : UserChanges(o, {spec})

UserDeletes(o) == UserChanges(o, {})

-----------------------------------------------------------------------------
(* Handlers.  OnXAdd and OnXUpdate are the same, handleX.                    *)

Item(h) == queue[h][1]

(* The handler's event is delivered.                                         *)
Handles(h) == pc[h] = "idle" /\ queue[h] # <<>>

HandlesValid(h) ==
    /\ Handles(h)
    /\ ValidSpecs(Item(h).object.kind, Item(h).spec) # {}

Goto(h, label) == pc' = [pc EXCEPT ![h] = label]

(* The handler returns.                                                      *)
Return(h) ==
    /\ queue' = [queue EXCEPT ![h] = Tail(@)]
    /\ Goto(h, "idle")

(* handleDetector, handleGatherer and handleSink: registered first ...       *)
Register(h) ==
    /\ HandlesValid(h)
    /\ Item(h).object \notin Policies
    /\ registry' = With(registry, Item(h).object, The(Item(h).spec))
    /\ Goto(h, "mark")
    /\ UNCHANGED <<api, queue, wasValid, watcher, policies, eval, unreported, order>>

(* ... then marked as valid.                                                 *)
Mark(h) ==
    /\ pc[h] = "mark"
    /\ valid' = valid \cup {Item(h).object}
    /\ Goto(h, "ready")
    /\ UNCHANGED <<api, queue, wasValid, registry, policyStore, snapshot, policies,
                   eval, unreported, order>>

(* handlePolicy stores and marks under one lock.                             *)
StorePolicy(h) ==
    /\ HandlesValid(h)
    /\ Item(h).object \in Policies
    /\ policyStore' = With(policyStore, Item(h).object, The(Item(h).spec))
    /\ valid' = valid \cup {Item(h).object}
    /\ Goto(h, "rebuild")
    /\ UNCHANGED <<api, queue, wasValid, registry, snapshot, policies, eval,
                   unreported, order>>

(* Mutant of Reject: the previous version is dropped with the invalid one.   *)
RejectAndUnregister(h) ==
    /\ Handles(h)
    /\ Item(h).spec # {}
    /\ ~HandlesValid(h)
    /\ wasValid' = [wasValid EXCEPT ![h] = Item(h).object \in valid]
    /\ registry' = Without(registry, Item(h).object)
    /\ Goto(h, "notready")
    /\ UNCHANGED <<api, queue, watcher, policies, eval, unreported, order>>

(* setXNotReady: an invalid spec changes nothing but the status.             *)
Reject(h) ==
    /\ Handles(h)
    /\ Item(h).spec # {}
    /\ ~HandlesValid(h)
    /\ wasValid' = [wasValid EXCEPT ![h] = Item(h).object \in valid]
    /\ Goto(h, "notready")
    /\ UNCHANGED <<api, queue, watcher, registry, policies, eval, unreported, order>>

(* OnDetectorDelete, OnGathererDelete, OnSinkDelete: no longer valid ...     *)
Unmark(h) ==
    /\ Handles(h)
    /\ Item(h).spec = {}
    /\ Item(h).object \notin Policies
    /\ valid' = valid \ {Item(h).object}
    /\ Goto(h, "unregister")
    /\ UNCHANGED <<api, queue, wasValid, registry, policyStore, snapshot, policies,
                   eval, unreported, order>>

(* ... then unregistered.                                                    *)
Unregister(h) ==
    /\ pc[h] = "unregister"
    /\ registry' = Without(registry, Item(h).object)
    /\ Return(h)
    /\ UNCHANGED <<api, wasValid, watcher, policies, eval, unreported, order>>

(* OnPolicyDelete forgets the policy under one lock.                         *)
OnPolicyDelete(h) ==
    /\ Handles(h)
    /\ Item(h).spec = {}
    /\ Item(h).object \in Policies
    /\ valid' = valid \ {Item(h).object}
    /\ policyStore' = Without(policyStore, Item(h).object)
    /\ Goto(h, "rebuild")
    /\ UNCHANGED <<api, queue, wasValid, registry, snapshot, policies, eval,
                   unreported, order>>

(* An empty selector stays one; match is flattened.                          *)
convertToFilterPolicy(o, s) ==
    [name |-> o.name, namespace |-> o.namespace, action |-> s.action,
     detectors |-> s.detectors, namespaceSelector |-> s.namespaceSelector,
     resourceSelector |-> UNION {m.resourceSelector : m \in s.match},
     ownerNames |-> UNION {m.ownerNames : m \in s.match},
     schedule |-> s.schedule]

ConvertedPolicies(store) ==
    {convertToFilterPolicy(o, store[o]) : o \in Policies \cap DOMAIN store}

(* rebuildPolicies: the first half, under the read lock.                     *)
CollectPolicies(h) ==
    /\ pc[h] = "rebuild"
    /\ snapshot' = [snapshot EXCEPT ![h] =
         {convertToFilterPolicy(o, policyStore[o]) : o \in valid \cap DOMAIN policyStore}]
    /\ rebuilds' = rebuilds + 1
    /\ number' = [number EXCEPT ![h] = rebuilds + 1]
    /\ Goto(h, "set")
    /\ UNCHANGED <<api, queue, wasValid, valid, registry, policyStore, policies,
                   eval, unreported, applied>>

(* Mutant of SetPolicies: the policies are added to the old ones.            *)
SetPoliciesAppends(h) ==
    /\ pc[h] = "set"
    /\ policies' = policies \cup snapshot[h]
    /\ snapshot' = [snapshot EXCEPT ![h] = {}]
    /\ eval' = eval
    /\ applied' = number[h]
    /\ number' = [number EXCEPT ![h] = 0]
    /\ IF Item(h).spec = {} THEN Return(h) ELSE Goto(h, "ready") /\ UNCHANGED queue
    /\ UNCHANGED <<api, wasValid, valid, policyStore, registry, unreported,
                   rebuilds>>

(* The second half, under the engine's lock: filterEngine.SetPolicies.       *)
SetPolicies(h) ==
    /\ pc[h] = "set"
    /\ policies' = snapshot[h]
    /\ snapshot' = [snapshot EXCEPT ![h] = {}]
    /\ applied' = number[h]
    /\ number' = [number EXCEPT ![h] = 0]
    /\ eval' = IF eval.pc = "lower"
               THEN [eval EXCEPT !.standing = @ \cap snapshot[h]] ELSE eval
    /\ IF Item(h).spec = {} THEN Return(h) ELSE Goto(h, "ready") /\ UNCHANGED queue
    /\ UNCHANGED <<api, wasValid, valid, policyStore, registry, unreported,
                   rebuilds>>

(* The conditions the four setXReady and setXNotReady write.                 *)
setCondition(conditions, type, value) == With(conditions, type, value)

WithActive(ready, active) ==
    setCondition(setCondition(NoConditions, "Ready", ready), "Active", active)

(* A detector or a policy whose update is invalid stays active if it was     *)
(* valid before; gatherers and sinks only tell whether they are ready.       *)
DetectorConditions(ready, previous) == WithActive(ready, ready \/ previous)

GathererConditions(ready) == setCondition(NoConditions, "Ready", ready)

SinkConditions(ready) == setCondition(NoConditions, "Ready", ready)

PolicyConditions(ready, previous) == WithActive(ready, ready \/ previous)

(* Mutant of Conditions: an invalid update is reported as not active.        *)
ConditionsOfUpdate(kind, ready, previous) ==
    IF kind \in {"Detector", "Policy"} THEN WithActive(ready, ready)
    ELSE GathererConditions(ready)

Conditions(kind, ready, previous) ==
    CASE kind = "Detector" -> DetectorConditions(ready, previous)
      [] kind = "Gatherer" -> GathererConditions(ready)
      [] kind = "Sink" -> SinkConditions(ready)
      [] kind = "Policy" -> PolicyConditions(ready, previous)

(* The status is written by name; an error is logged.                        *)
UpdateStatus(h) ==
    LET o == Item(h).object
    IN /\ pc[h] \in {"ready", "notready"}
       /\ \/ /\ objects[o] # {}
             /\ status' = [status EXCEPT ![o] =
                             Conditions(o.kind, pc[h] = "ready", wasValid[h])]
             /\ unreported' = unreported \ {o}
          \/ /\ status' = status
             /\ unreported' = unreported \cup {o}
       /\ wasValid' = [wasValid EXCEPT ![h] = FALSE]
       /\ Return(h)
       /\ UNCHANGED <<scene, objects, writes, lastValid, watcher, registry, policies,
                      eval, order>>

-----------------------------------------------------------------------------
(* One call of Evaluate.  The engine's lock is taken for level 3 and again   *)
(* for level 9.  eval also records the policies in force throughout the call *)
(* and whether the watcher had nothing to do with policies meanwhile.        *)

PoliciesSettled ==
    \A h \in Handlers : \A k \in 1..Len(queue[h]) : queue[h][k].object \notin Policies

EvaluateStarts(input, now) ==
    LET verdict == EvaluateUpper(policies, input, now)
    IN /\ eval.pc = "idle"
       /\ eval' = [pc |-> IF verdict = Passed THEN "lower" ELSE "done",
                   input |-> input, verdict |-> verdict, at |-> now,
                   standing |-> policies, calm |-> PoliciesSettled]
       /\ UNCHANGED <<api, queue, pc, wasValid, watcher, registry, policies,
                      unreported, order>>

EvaluateEnds ==
    /\ eval.pc = "lower"
    /\ eval' = [eval EXCEPT !.pc = "done",
                            !.verdict = EvaluateLower(policies, eval.input)]
    /\ UNCHANGED <<api, queue, pc, wasValid, watcher, registry, policies,
                   unreported, order>>

-----------------------------------------------------------------------------

HandlerStep(h) ==
    \/ Register(h)
    \/ Mark(h)
    \/ StorePolicy(h)
    \/ Reject(h)
    \/ Unmark(h)
    \/ Unregister(h)
    \/ OnPolicyDelete(h)
    \/ CollectPolicies(h)
    \/ SetPolicies(h)
    \/ UpdateStatus(h)

Next ==
    \/ \E o \in Objects : UserWrites(o) \/ UserDeletes(o)
    \/ \E h \in Handlers : HandlerStep(h)
    \/ \E input \in scene.inputs, now \in 0..MaxTime : EvaluateStarts(input, now)
    \/ EvaluateEnds

Spec == Init /\ [][Next]_vars

-----------------------------------------------------------------------------

(* The handler of o has nothing to do for it.                                *)
Settled(o) ==
    \A k \in 1..Len(queue[HandlerOf[o]]) : queue[HandlerOf[o]][k].object # o

(* "Invalid CRDs get status.conditions[Ready]=False ... while previous valid *)
(* configuration remains active": once its events are handled, an object is  *)
(* registered with the last valid spec its user wrote since its creation, or *)
(* not at all if there was none, whatever invalid updates, deletions and     *)
(* re-creations came between (handleX, OnXDelete).                           *)
LastValidVersionIsRegistered ==
    \A o \in Objects \ Policies :
      Settled(o) =>
        IF o \in DOMAIN lastValid
        THEN o \in DOMAIN registry /\ registry[o] = lastValid[o]
        ELSE o \notin DOMAIN registry

(* The conditions tell the truth about the object that carries them: after   *)
(* its events are handled, Ready is the validity of its present spec and     *)
(* Active says whether some version of it is in force, unless the last       *)
(* status update was lost.  Nor does Counts, at any moment, count what is    *)
(* not there.                                                                *)
StatusIsTruthful ==
    /\ \A o \in Objects \ unreported :
         (Settled(o) /\ objects[o] # {}) =>
           /\ status[o]["Ready"] = (ValidSpecs(o.kind, objects[o]) # {})
           /\ o.kind \in {"Detector", "Policy"} =>
                status[o]["Active"] = (o \in DOMAIN lastValid)
    /\ valid \subseteq DOMAIN registry \cup DOMAIN policyStore

PolicyMatches(p, input, now) == Suppresses(p, input, now) \/ Excludes(p, input)

(* A policy that is in force throughout an evaluation is obeyed by it,       *)
(* although Evaluate reads the policies twice and they may be replaced in    *)
(* between.                                                                  *)
StandingPolicyIsObeyed ==
    (eval.pc = "done" /\ eval.verdict = Passed) =>
      \A p \in eval.standing : ~PolicyMatches(p, eval.input, eval.at)

(* Where the CRD's documentation allows a namespace selector: in the         *)
(* policies of the controller's own namespace.  The engine does not ask.     *)
ScopeIsDocumented(p) == p.namespaceSelector # {} => p.namespace = SystemNamespace

(* "Exclusion always wins" (PROJECT_SPEC.md, 6.2), from the custom resource  *)
(* to the verdict: with no policy change under way, an event is dropped      *)
(* exactly if the Helm values, an annotation or the last valid version of a  *)
(* policy says so.  Any number of goroutines may have handled the policies;  *)
(* what is excepted is that an older copy of them reached the engine after a *)
(* newer one (rebuildPolicies), which then stays until the next rebuild.     *)
(* Nothing is claimed while a namespace selector is used where it should not *)
(* be.                                                                       *)
VerdictFollowsPolicies ==
    (/\ eval.pc = "done" /\ eval.calm
     /\ applied = rebuilds
     /\ \A p \in ConvertedPolicies(lastValid) : ScopeIsDocumented(p)) =>
      ((eval.verdict # Passed) <=>
         \/ EvaluateUpper({}, eval.input, eval.at) # Passed
         \/ EvaluateLower({}, eval.input) # Passed
         \/ \E p \in ConvertedPolicies(lastValid) :
              PolicyMatches(p, eval.input, eval.at))
=============================================================================
