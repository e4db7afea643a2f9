# Wormsign, verified: TLA+ models of the controller

Wormsign watches a Kubernetes cluster for faults, groups them, gathers
diagnostics, has an analyzer explain them and delivers the explanation to
sinks. This directory models the parts of the controller in which goroutines,
replicas, failures or a long order of calls can go wrong, checks them with TLC
on small instances and proves the central invariants with TLAPS for all sizes.

All paths are relative to the repository, which is `src/` here.

## 1. Inventory

| Component | State | Operations | Talks to | What is hard | What makes it correct |
|---|---|---|---|---|---|
| Analysis priority queue `internal/pipeline/queue/queues.go` | three FIFO slices, in-flight count, shutdown flag, one condition variable | Add, Get, Done, ShutDown, Drain, WaitForDrain, WaitForInflight | gathering workers add, analysis workers get, shutdown waits | one condition variable for workers and waiters, `Signal` wakes an arbitrary one; waits that time out leave their goroutine behind | no lost wakeup, nothing lost or handed out twice, severity then age, WaitForDrain tells the truth |
| Pipeline `internal/pipeline/pipeline.go` | three queues, three worker pools, a context | SubmitFaultEvent, Start, StopAccepting, DrainAndShutdown, the workers' loops | detectors, correlator, analyzer, sinks, controller | submission, workers and shutdown interleave; the context is cancelled before the drain | every accepted event is in one place, before shutdown none is lost, every sink is offered every report, shutdown ends |
| Correlator `internal/pipeline/correlator/` | buffer, stop channel | Submit, Run, Flush, four rules | pipeline | four rules compete for the events of a window | a window is partitioned, a root cause keeps its symptoms |
| Circuit breaker, rate limiter `internal/analyzer/` | state, failure count, time of opening; two token windows | Analyze | an analyzer backend | check, call and record are three steps; results arrive in a later state or a later hour | trips at the threshold, rests, recovers; budgets are overdrawn by what is under way at most |
| Gatherers `internal/gatherer/` | none | Gather of nine built-in and of custom gatherers, RunAll, GatherForSuperEvent | API server, pipeline | they run concurrently against a cluster that changes, and fail one by one | a failure stays in its section |
| Rules analyzer `internal/analyzer/rules.go` | none | parsers of the sections, a chain of rules | gatherers, by way of text | what one part prints the other part parses; the first rule that matches wins | blames only what was observed, root cause first |
| Built-in detectors `internal/detector/` | a cooldown map each | Check, ShouldFire, RecordFire, Emit, CleanupExpiredEntries | bridge, pipeline | check and record are two critical sections; thresholds and time | firings are a cooldown apart, a lasting fault is reported |
| Detector bridge `internal/controller/detectors.go` | wired namespaces, resource cache | HandleShardChange, wireNamespace, informer handlers, periodic scan, callback | informers, detectors, filter, pipeline | informers that outlive their namespace, a cache written by several goroutines | an excluded object is silent, a fault is not missed |
| Filter engine `internal/filter/engine.go` | policies | Evaluate with nine levels, SetPolicies | pipeline, CRD watcher | two critical sections in one evaluation | the verdict is that of the policies |
| CRD watcher `internal/config/crd_watcher.go` | policies by resource | handlers of four kinds | registries, filter engine, API server | updates that turn invalid, status updates that fail, the policy set written outside the lock | the last valid version stays in force, the status says so |
| Shard manager `internal/shard/manager.go` | replica count, assigned namespaces, the shard map ConfigMap | RunCoordinator, reconcile, RunFollower, applyShardMap | leader election, API server, informer manager | several replicas, stale leaders, crashes between steps | a computed map is a partition; in the end each namespace has one replica |
| Informer manager `internal/shard/informer_manager.go` | factory per namespace, stopped flag | HandleShardChange, WaitForCacheSync, Stop | shard manager, bridge, health | callbacks of two goroutines, Stop in between | informers follow the assignment, Stop is final |
| Leader election `internal/controller/leader.go` | lease, flag | campaign, renew, release, callbacks | shard manager, API server | timers against outages; callbacks run in goroutines | one leader, a flag that tells the truth, somebody leads |
| Controller, health handler, command `internal/controller/controller.go`, `internal/health/`, `cmd/controller/` | readiness, heartbeat, run state | Run, shutdown, probe loops | all of the above | order of start and shutdown, error paths | probes tell the truth, Run returns |
| Sinks `internal/sink/` | none | Deliver, deliverWithRetry | pipeline | retries against a cancelled context | bounded attempts |
| Configuration, redaction, metrics, API types, CEL, registries | little | | | | |

`PROJECT.json` lists every component with its files and status, and under
"hazards" the places in the code that are hard to test.

Two remarks on what runs in production. `Controller.Run` does not wire the
circuit breaker, the rate limiter, the replica watcher, the CRD watcher, the
gatherers and the registries, and never calls `PriorityQueue.Drain`; they are
reached by tests only. They are modelled for what they promise, and properties
that hold only without `Drain` say so.

## 2. Plan

Done: the queue, pipeline, correlator, shards and informers; then policies
(filter engine and CRD watcher), lifecycle (process, probes, leader election),
detectors (conditions, cooldown, bridge), the analyzer's guards, and diagnosis
(gatherers and rules).

The theorems cover all of these components (section 6): every invariant and
action property of a passing run is proved; what is left to TLC is liveness.

Left, in this order:

1. *Sinks*: attempts and backoff of deliverWithRetry as steps of their own.
2. *Replica watcher and registries*, should the controller start to use them.

## 3. Modules

Mutated operators ("Mutant of ...") stand before the definition they mutate.
They are not part of a specification; each one shows that a property would
notice a plausible mistake in the code.

How they fit together:

    Controller ----- which replica leads ------> ShardManager
        |                                            | stored share
        | shutdown                                   v
        v                                      ShardInformers
    Pipeline -> EventDelivery                        | wired namespaces
      |   |                                          v
      |   +-- Correlator (rules)              DetectorBridge
      |                                        EXTENDS BuiltinDetectors,
      +-- PriorityQueue -> WorkPool            DetectorCooldown, FilterEngine
      +-- Diagnosis                                  ^
      |   EXTENDS Gatherers, RulesAnalyzer           |
      +-- RateLimiter                          CRDWatcher EXTENDS FilterEngine
          EXTENDS CircuitBreaker

An arrow `->` is a refinement; `EXTENDS` composes in one state space; the other
lines are interfaces that one module leaves open and another one fills.

**PriorityQueue**. `queues` are the slices of the three severities, `inflight`
and `shutdown` the fields, `pc` says for each goroutine whether it runs, is
parked on the condition variable or has returned. Every action is one critical
section of `pq.mu`: an `Add` that signals, the three outcomes of the loop in
`Get`, `Done` with its broadcast, `ShutDown`, `Drain`, and the loop, the result
and the timeout of the two `WaitFor*` calls. `Signal` wakes any one parked
goroutine. History variables record what arrived, was refused, was drained and
was finished.

**WorkPool** is what the queue promises without locks and sleepers: an
accepted item is taken by one worker, the most severe and then the oldest
first, unless it is evicted; workers leave a closed, empty pool only.
`PriorityQueue!ImplementsPool` is the refinement.

**Pipeline**. A work item is the set of fault events it stands for, so a
super-event is a set with several members; any partition of a window is
possible. Client-go queues are external: a set of waiting items, into which
`Add` drops nothing before and everything after shutdown. One action per step
of each goroutine: submission, the correlator's tick, final flush and hand-over
item by item, the worker loops (taking an item, handing on, `Done`, exit), one
delivery per sink, and `Controller.shutdown` with `DrainAndShutdown` line by
line: cancel, flush, three drain phases that end by their condition or their
timer, three queue shutdowns, `wg.Wait`. Whether correlation is enabled is
chosen in `Init`. Events the filter excludes end in `SubmitFaultEvent` and do
not appear.

**EventDelivery** is what the pipeline promises: an accepted event is put
before every sink; only a stopping pipeline loses one.

**Correlator**. The four rules as set-valued operators on a window and the set
of consumed positions, `evaluate` with their order, and Submit and
evaluateAndEmit as the actions. `Annotate` is the callback of the bridge; the
constant `PVCAnnotated` says whether emitters also set the annotation that the
storage rule needs. The bridge does not (section 7); the run sets it, because
otherwise the storage rule would never compete with the others.

**CircuitBreaker** and **RateLimiter**. Reading the state and recording the
result are two actions of a call, because the lock is released in between. The
limiter looks at the budget before, and charges after the call, in critical
sections of its own, and its primary, the breaker, reads and records in others:
`stage` says where between these four a call is. `restLeft` is a history
variable, the rest still owed to the backend since the circuit opened last; it
runs by the clock alone and only an answer of the backend cancels it. Window keys are only ever
compared with the key of the present hour or day, so a window is a count and
whether it is current. The breaker's clock stands still at `OpenDuration`, and
`MaxFailures` caps the counter, which is only compared with the threshold.

**Gatherers** gives for each gatherer the section it writes for the answers of
the API server, `at[n]` being the cluster at its n-th call, as lines of which only what the analyzer's expressions can pick out
is kept; error answers give the section the code writes for them. Custom
gatherers expand their templates, collect resources or logs and cut by JSON
path. **RulesAnalyzer** translates the parsers and the chain of rules; a log
line is the set of patterns that match it. The parser of descriptions is a fold
of `PodDescriptionLine` over the lines, `extractSignals` one of `ReadSection`
over the sections. **Diagnosis** runs the gatherers of one work item in
goroutines, for a single event and for the samples of a super-event, and hands
the bundle to the rules. `answers` is the history of the cluster as its clients
see it (unreachable once the worker is cancelled); each call of a gatherer is
answered at some moment between the launch of its goroutine and its return, in
the order of the calls, so that a pod may come from one state and its node from
a later one.

**BuiltinDetectors** has the conditions of the five detectors the controller
wires, over the state the bridge's conversions keep. **DetectorCooldown** splits
`Emit` where the code takes or releases its lock: check, time stamp, write, the
look of the callback into the object cache, its submission; ages instead of times keep the state finite. **DetectorBridge** puts
one object of one namespace through informers (one for each time the namespace
was wired, since old ones never end), their resync, the object cache, the
periodic scan, the callback and the filter. `checks` are the detectors that a
goroutine has still to run on the version it holds, in the code's `Order`.

**FilterEngine** is pure: labels, selectors, namespace patterns and owner globs
on token sequences, schedules, and `evaluate` with its nine levels in order.
**CRDWatcher** adds the handlers of the four kinds of custom resources, the
registries, the policy map and its snapshots, the conditions written back, and
an evaluation that takes its lock twice while policies change. `HandlerOf` says
which goroutine handles an object; nothing is assumed about it. The snapshots of
the policies are numbered: `rebuilds` counts those taken, `applied` is the
number of the one the engine has.

**ShardManager**. Several replicas with their coordinator and follower loops,
the lease, the ConfigMap and the cluster. `pods` are the controller pods that are
not terminal, which is what `discoverPeers` finds, `up` those whose process runs:
a pod may be created long before it starts, and stay after its process has
stopped. `reconcile` is split at every call to
the API server, and each call may fail, or succeed without the answer arriving.
`Bucket` is the hash, a constant.

**ShardInformers**. One replica below `applyShardMap`: the difference and the
assignment under the lock, then the three callbacks outside of it, on the
follower's goroutine and, on a replica that leads, on the coordinator's too.
Factories are numbered, so that the informers of an earlier factory of the same
namespace are told from those of the current one. The readiness callback starts
a goroutine each time; those that wait are a bag of snapshots.

**Controller**. Processes that start (and may fail to), campaign, lead, miss
renewals while the API server is away, get a signal, shut down, crash and are
restarted, or whose durations client-go rejects, so that they run without taking
part in the election; the heartbeat and the reachability check behind the probes. The lease
protocol is client-go's and external, modelled from the durations and callbacks
`leader.go` gives it. Time passes in ticks; a timer that is due fires before the
next tick.

Module **MC...** gives the constants of an instance; `*Proofs` hold theorems.

## 4. Runs

| Run | Instance | Shows |
|---|---|---|
| `queue_safety` | items c1 (critical), w1, w2 (warning), two workers, one WaitForDrain and one WaitForInflight call, Drain and ShutDown at any time | every item is in one place and the count exact, no lost wakeup, no unjustified sleep, WaitForDrain covers what was accepted before it, severity then age |
| `queue_liveness` | items c1, w1, the same goroutines | items are taken, workers and waiter goroutines end, the queue implements WorkPool |
| `pipeline` | two events, two gathering workers, one analysis and one sink worker, a remote sink before a local one, failing sinks, correlation on and off | nothing duplicated or vanished, losses explained, sinks independent, shutdown completes and leaves nothing behind, EventDelivery |
| `correlator_rules` | six faults that belong to several groups at once, all windows of up to five events in every order | the partition and the priority of root causes |
| `analyzer_guards` | three callers, threshold 2, open duration 2, budgets of 3 tokens a day and 2 an hour, two hours a day, up to 2 tokens a call | the breaker trips at its threshold, gives the backend its whole rest each time it opens, recovers with the backend although budgets run out; overshoot is bounded |
| `diagnosis` | eight events, eleven clusters with dead nodes, crashes, a deleted pod, pending claims and failing calls, one change anywhere between two calls, six lists of gatherers | failures stay in their section, reports blame only what was observed, a dead node first, and never forget what the detector saw |
| `detectors` | six scenes: an object of each kind with its detector and the states it goes through, and a namespace wired twice | firings are spaced, a lasting fault is reported, a pod whose exclusion was handed out in time is silent |
| `crd_watcher` | three writes over detector and gatherer, sink, or two policies in two namespaces, handled by two goroutines; valid and invalid specs; four filter inputs at two times | the last valid version is registered, the status is truthful, a standing policy is obeyed, the verdict follows the policies |
| `shards` | two replicas, three namespaces of which one is excluded, three disturbances: a pod that is created, starts, stops or is removed, a lost lease, a failing call, a namespace that comes or goes | partition; convergence of stored map and replicas |
| `informers` | one namespace, any stored share at the start, two changes, leading and shutdown at any time | assignment and informers converge, readiness settles, Stop is final |
| `controller` | two replicas, lease 3, renew deadline 2, retry 1, probe timeout 2 ticks, two faults (outage, signal, crash or an elector that client-go rejects) | one leader, flag, probes and lease tell the truth, Run returns, a leader while somebody campaigns |
| `controller_reelection` | the same, two outages | the code disagrees with its comment, see section 7 |

**Bounds.** Two workers and two waiters are the least with which a signal can
go to the wrong goroutine while the right one sleeps; the third item makes two
of equal severity meet one of another. Two events and two gathering workers
allow one event to be handed on while the other is still gathered, and one
super-event or two single ones. Three callers with threshold 2 let two fail
while a third still holds an answer from before; with a budget below the sum of
two calls, two that both passed the check overdraw it. An open duration of two
ticks lets a probe fail in the middle of what a stale time of opening would
still count as rest. `MaxCalls` = 3 tells the first three calls of a gatherer
apart, and lets the later ones be answered together: with one change there are
two states to see, and what the properties relate are a pod and its node or
claim (two calls), and a ReplicaSet between a pod and its Deployment (three). A fault window of five
holds a node, its pods and a rival deployment or claim at once. Three writes
suffice for a policy that is valid, becomes invalid and is deleted, or deleted
and created anew while the old status update is under way. Three changes of the
assignment (the one at the start and two more) let a namespace come, go and come
again, with a stale change still under way. Three disturbances suffice for a
crash of the leader in the middle of a write that a second failure interrupts.
Two faults of the controller make one replica lose its lease in an outage and
the other one be stopped or crash, or lose it in a second outage. A second wiring is the
least with which an old informer meets a new one. `MaxFailures`, `MaxCalls`, the stopped
clocks, `MaxWindow`, `MaxWrites`, `MaxTime`, `MaxChanges`, `MaxFaults`,
`MaxWirings`, `MaxObjectAge` and `MaxDisturbances` are bounds of the models only;
`MaxDepth`, `MaxMatches` and `MaxAffected` are limits of the code, made smaller.

The one-object, one-item and one-replica models (`detectors`, `diagnosis`,
`informers`) are enough because nothing is shared between objects, items or
replicas in the code they model but maps keyed by them.

**Deadlock** is checked except where the modelled system may really stop: the
pipeline ends with its shutdown, a diagnosis with its report, a cluster, a
process or a replica without further changes becomes quiet. There
`ShutdownCompletes`, `RunReturns` and the convergence properties say that nobody
is left waiting. In the queue `ShutDown` and `Drain` may be called at any time,
so the deadlock check alone would show nothing; `NobodyWaitsForever` and
`SleepIsJustified` do.

## 5. Fairness

Goroutines that can run do run (weak fairness of each one's steps): the Go
scheduler and `sync.Mutex` starvation mode give that. Calls to analyzers,
gatherers and sinks return, since every one has a timeout; a call that the rate
limiter let pass goes on to its primary and is charged. Tickers fire: the
correlator's window, the coordinator's and the follower's intervals, the
heartbeat, the periodic scan; the drain phases end by their timers, time passes,
and hours end. Informers deliver and resync (30 minutes by default). In
`controller` an outage of the API server ends. A lease that is free and
contended for is taken. An informer that runs lists its resources some time, and
each waiting readiness goroutine then sees it. `RecoversWithBackend` assumes that
callers keep calling (a fault that lasts is reported again, `FaultIsReported`).

There is no fairness for submissions, for stopping, for crashes and failing
calls, for the backend's recovery, or for the cluster's changes.
`EventuallyCovered` and `InformersCatchUp` therefore speak about what holds for
good in the end; the bounded disturbances and changes make sure there is an end.

## 6. Proofs

`PriorityQueueProofs`, for any items and waiters and any finite set of workers:

* `TypeCorrect`: the type invariant, with the relation between a worker's place
  in the code and the item it holds.
* `InflightCorrect`: `inflight` is the number of workers between Get and Done.
  The proof counts with the theorems on finite sets: taking an item adds one
  worker to the set, Done removes one.
* `NoLostWakeupCorrect` and `SleepIsJustifiedCorrect`. Neither is inductive
  alone. If a worker sleeps although an item waits, the reason must be that
  another goroutine is awake or an item is in flight, and whether a *waiter* may
  be the one that swallows the signal depends on waiters sleeping only while
  something is pending. The inductive invariant is the conjunction
  (`WakeupInv`) on top of the type and count invariants; a lemma shows that once
  nothing is pending no waiter is parked, so that `Signal` reaches a worker.
  Both are stated as long as `Drain` has not removed anything: `Drain` takes
  items away without a broadcast, and after that they fail.

* `ExactlyOnePlaceCorrect` needs to know more than that the places differ: the
  sequence of a queue must not repeat an item, each item must be in the queue of
  its own severity, and two workers must not hold the same one (`OrderInv`,
  `PlaceInv`). The counters are then cardinalities of disjoint finite sets.
* `SeverityThenAgeCorrect`, an action property, uses the order part of the same
  invariant: the position of two items in their queue is that of their arrival.
* `DrainCoversAcceptedCorrect`: `CoverInv` carries what WaitForDrain has seen
  from the critical section in which its loop ended to its return.
* `ImplementsPoolCorrect`: every critical section is a step of WorkPool or leaves
  the pool alone; the abstract choice of the item to take is justified by
  `OrderInv`.

`PipelineProofs`, for any events, any disjoint pools of workers, any list of
sinks, with and without correlation:

* `EverySinkIsOfferedCorrect`: `OfferInv` says of the loop over the sinks that
  all before the present one were offered the report, and that this goes for
  what is settled too.
* `LossesAreExplainedCorrect`: `LossInv` follows the shutdown sequence. No queue
  refuses anything before its `ShutDown` is reached, the correlator has returned
  by then, and what is upstream of a finished drain has strayed.
* `EveryEventInOnePlaceCorrect`: `PlaceInv` has two levels, that the stages
  partition the accepted events and that the items of one stage (a queue, the
  hands of its workers) share none. Without the second level taking one of two
  overlapping items could duplicate an event.
* `ImplementsEventDeliveryCorrect`: the steps within the pipeline are stutters,
  the last sink delivers, and a lost item needs a process that was asked to stop.

`DetectionProofs`, first for the correlator, with any window, any positive
thresholds and any set of enabled rules: `WindowIsPartitionedCorrect`,
`NothingLeftToCorrelateCorrect`, `NodeFailureKeepsItsPodsCorrect`. One lemma for each rule says that its groups
are disjoint, not empty and taken from what is live, another one that a rule
which has been applied finds nothing in any rest that avoids its groups: the
rest has no more events of a node, deployment or namespace than the rule saw,
so a group that reaches the threshold there had reached it before. That the
maximum of a set of positions is one of them (the last event of a node) comes
from the well-foundedness of strict subsets of a finite set.

Then for the detectors, with any cooldown, scenes and number of wirings, on the
invariant `BridgeInv` of the bridge:

* `FiresAreSpacedCorrect`: while the namespace has been wired once, one goroutine
  alone checks a kind that is not scanned (`WhoChecksInv`), and the entry of its
  detector in the cooldown table is no older than its last firing, or that firing
  is a cooldown ago; between the reading of the clock and the entry the time
  stamp stands for it (`SpacingInv`). A clean-up of expired entries may fall
  anywhere: it only removes what is older than the cooldown.
* `ExcludedPodIsSilentCorrect`: the cache entry of a pod is the version an
  informer handed out last (`CacheInv`), because the scan, whose list may be
  older, does not write pods. So what the callback loads is among the versions
  handed out since the fault passed the cooldown gate, which `seen` collects (`SeenInv`); if
  all of these exclude the detector, the filter drops the event, whatever the
  informer stores between load and submission.

`AnalysisProofs`, first for the breaker alone, with any threshold, open
duration and set of callers: `BreakerTypeCorrect`; `TripsAtThresholdCorrect`, by
one invariant that is inductive with the type; `RestIsRespectedCorrect`, an
action property from the invariant that while a rest is owed the circuit is open
and its own clock has as long to go: a failed probe opens it anew and must reset
both, and nothing but an answer of the backend ends the one without the other. Then, for all budgets and
any finite set of callers:

* `LimiterImplementsBreaker`: every step of the limiter is a step of the breaker
  or leaves it alone, so the breaker's theorems hold behind the limiter
  (`LimitedBreakerTrips`, `LimitedBreakerRests`).
* `OvershootBound`: what a window holds stays below its budget plus one call for
  each caller. The bound is not inductive: a window at its bound must imply that
  nobody is under way. `LimiterInv` therefore charges every call under way in
  advance with the most it can use, and says that this sum stays below the
  budget plus the same for all callers. A check that passes had a window below
  its budget; a charge moves tokens from the advance to the window.

Then for the diagnosis, with any events, cluster states, lists of built-in and
custom gatherers, number of changes while gathering, and sections of any length:

* `DiagnosisInvariant`. Until the worker is cancelled, every section, returned or
  still with its goroutine, is what its gatherer writes about a resource of the
  event when its calls are answered, in order, at some moments of the history
  (`DiagnosisInv`); a report that was written is the rules' verdict on these
  sections. The history only grows, so what was said of it stays true.
* `FailureIsContainedCorrect` takes these moments from the launch of the present
  batch on, and adds that the lines of an action of a custom gatherer survive
  the failure of the actions before it.
* `BlameIsObservedCorrect`, `DeadNodeIsBlamedCorrect` and
  `DetectionIsNotForgottenCorrect` follow a fact from the cluster to the report
  and back in three layers. What a section says: for each gatherer the lines it
  can write and what each of them means in the state that answered the call; a
  node or claim is named by an answer no later than the one that shows it. What the parsers make of
  it: a signal is set by a line of a section of its kind and by nothing else, and
  what must be kept (a crash loop, a node that is not ready) no later line or
  section takes away. For descriptions this needs the order of the lines, since
  a state line is about the last status line before it: `Sane` says that a
  "waiting" or "terminated" line always follows the status of its own container.
  What the chain makes of it: the report is that of the first rule that fires
  (`FirstRule`), and for each rule the signals it fires on.

Parsers and lists of any length are inductions. They are carried out without
induction schemes: the positions at which a claim holds are a set, a set of
positions that is not empty has a least element (`FirstPosition`, from the
well-foundedness of strict subsets of a finite set), and so a set with 0 and
the successors of its members has all of them (`Induction`).

`ControllerProofs`, for any set of replicas, any number of faults and any lease
timing that `config.Validate` accepts: `OneLeaderCorrect`. The invariant `LeaseInv`
says that whoever believes to lead and runs holds the lease, with the last
renewal no older than the renew deadline, which is below the lease duration:
nobody else may take it before the holder's own timer has fired.
Durations that client-go rejects never reach the lease. `SelfReportIsTrueCorrect`
rests on `SelfInv`: for each place in Run and in the
elector, what the flag, the heartbeat and the reachability result can be there,
and which replicas may have left a lease unreleased.

`CRDWatcherProofs`, for any objects, specs, filter inputs and handlers: the
four invariants of the run. An object's registration lags behind its queue of
events, so `WatcherInv` speaks about the future: among an object's events that
are queued or under way the last one that acts (a valid spec or a deletion)
decides what will be registered, and if none is left the registry has the last
valid version already. The conditions are treated in the same way. `EngineInv` says that
the engine has the policies of the store if no handler rebuilds them and the
newest snapshot is the one that was applied; that snapshots may be applied out
of order needs the histories `number` and `applied`. `OneHandlerIsNotOvertaken`:
if one goroutine handles all policies, as a shared informer's does, this is
always the newest one (`KeepsUp`). `EvalInv` says what the first critical section of an evaluation has established for
the second one.

`ShardInformersProofs`, for any namespaces and any number of changes. `FollowInv`
says how far factories, wiring and watches have followed for each place of the
follower's loop. `InformersFollow` needs nothing else; `ReadinessSettles` needs
`ReadyInv`: an informer that runs with an empty cache is always awaited, by a
callback still to start its goroutine, by one that has not taken its snapshot or
by one whose snapshot has this very factory.

`ShardManagerProofs`, for any number of replicas and namespaces and any hash
into the buckets: `PlanIsPartitionCorrect`. The positions of the pods in the
sorted peer list are shown to be exactly the buckets 0..n-1 (later pods have
higher positions, so positions differ; n different positions below n leave none
out, by the theorem on injections of finite sets). The rest is the invariant that
what was listed holds nothing excluded at every step of `reconcile`, and that no
step changes a computed map before it is given up, on top of the type: a
coordinator that computes is among the pods it finds.

Assumptions are the named `ASSUME`s of these modules: that there are workers,
finitely many and none of them a waiter or of two stages, that an item has a
severity, that every sink is in the list once, that threshold and open duration
are positive (which `NewCircuitBreaker` enforces), as are the thresholds of the
correlation rules, that callers are finitely many, the order of the lease's
durations, that the hash for n replicas is below n, that a watched object is of
one of the four kinds, that a scene's detectors are among the keys of the cooldown tables and
the cooldown is positive; and for the diagnosis: that at least one call is told apart
(`MaxCallsAssumption`), that a node has a name and its
conditions a type and a status, that the lists of an object are sequences
(`ClustersAssumption`), that a fault event has a detector and no faults and a
super-event the reverse (`EventsAssumption`), that the gatherers of a pipeline
are a list (`GathererListsAssumption`), and that a custom gatherer has none of
the built-in ones' names, being named by namespace and name
(`GatherersAssumption`).

Only model-checked: all liveness, because fairness and ENABLED are out of the
prover's reach. It is `NobodyWaitsForever` of the queue, `ShutdownCompletes` and
`AcceptedIsSettled` of the pipeline, `RecoversWithBackend` of the breaker behind
the limiter, `FaultIsReported` of the detectors, `EventuallyCovered` of the
shards, `InformersCatchUp`, and `RunReturns` and `LeadershipIsTaken` of the
controller. So is what the parsers and rules compute beyond the invariants
above, and what the owner walk finds.

## 7. Where code and comments disagree

With a run that shows it, `controller_reelection`: "Leader election runs until
context cancellation" (controller.go:413). The elector returns when the lease is
lost and is not run again (leader.go:188). After two outages, one while each
replica leads, both processes run on healthily and nobody ever leads again.

Noticed while modelling. The properties of the passing runs are stated so that
they hold; what they leave out is said here.

*Queue and pipeline*

* Get "blocks until an item is available" (queues.go:202), but `Drain`
  (queues.go:276) wakes nobody: a parked WaitForDrain goroutine can swallow the
  signal of the next Add. Hence "as long as nothing was drained".
* "Deliver all pending sink messages" (pipeline.go:354): the sinks' context is
  cancelled by then and `deliverWithRetry` gives up before its first attempt
  (sink.go:71). `EverySinkIsOffered` is about the offer.
* "Wait for in-flight gathering workers" (pipeline.go:352): the drain polls
  `Len()` only (pipeline.go:412). `LossesAreExplained` says that this is the
  only loss besides late submissions.
* StopAccepting is "preventing new fault events from being accepted"
  (pipeline.go:339), yet SubmitFaultEvent does not look: a late event stays in
  the buffer of a stopped correlator. `ShutdownCompletes` allows for it.
* "annotation set by detectors" (rules.go:181 of the correlator): nothing sets
  `wormsign.io/pvc-name` (detectors.go:89), so the storage rule never matches.

*Analyzers and gatherers*

* "a single probe request" (circuit_breaker.go:65): every call that arrives
  while half-open goes through (119). The transitions listed in lines 5-10 miss
  open to closed, by a late success (191).
* Tokens of a call that began in one hour are charged to the next one; a window
  may be overdrawn by one call per caller less than a token.
* The rules report the first matching line of a log, although the comment speaks
  of the most specific error; a request for logs that failed prints a line that
  matches the `level-error` pattern; a later claim overwrites an earlier one.
  `BlameIsObserved` asks that the reported condition was there, not that it is
  the most telling one.
* A gatherer reads the pod and then its node or claims (node_conditions.go:47 and
  64, pvc_status.go:47 and 56). If the pod is deleted, and the node fails after
  that, the report blames a node that at no single moment was down with the pod
  on it. `BlameIsObserved` therefore asks for the pod on the node at one moment,
  and the trouble at that or a later one.
* The detector of crash loops looks at init containers too
  (pod_crashloop.go:115-117), the description leaves out that one is waiting
  (pod_describe.go:142-150). Such a crash loop is reported for what else is seen
  of the pod, usually that it is pending, or as unknown;
  `DetectionIsNotForgotten` is about the others.
* `{node.name}` of a custom gatherer always expands to the empty string:
  `Gather` never sets it (custom.go:109), docs/agents/PROJECT_SPEC.md:505 offers it.
* The pipeline's workers run all gatherers for the primary resource only and do
  not ask `Matches`; docs/agents/PROJECT_SPEC.md:659 asks for the samples of
  `GatherForSuperEvent`. The model has both entries.

*Detectors and filter*

* "Deduplication is keyed on (DetectorName, Resource.UID) within the cooldown
  window" (base.go:22): the informer and the periodic scan both pass
  `ShouldFire` before either records (base.go:157). `FiresAreSpaced` is about
  detectors that only one goroutine calls.
* "informers are stopped by InformerManager" (detectors.go:229): they are
  started with a channel nobody closes (detectors.go:280). A namespace that was
  wired twice has two informers, and the same race; spacing is stated for one
  wiring, and exclusion by the version that any informer handed out last.
* "enables Level 7 wormsign.io/exclude-detectors evaluation" (detectors.go:93):
  the callback loads the cached pod (detectors.go:90) and submits later
  (detectors.go:112). An exclusion that the informer stores in between, or after
  the cooldown gate was passed, may come too late for this one event;
  `ExcludedPodIsSilent` allows for it.
* The scan stores an older version of a claim (detectors.go:458) and so may
  report one that was just excluded; Jobs are not cached, so their annotations
  never reach the filter. Namespaces' labels and owners are never passed either:
  the levels that need them cannot match in the controller. `ExcludedPodIsSilent`
  speaks about pods.
* "Already completed or failed" (job_deadline_exceeded.go:105): only completed
  is looked at.
* A namespace pattern `a|b` is anchored as `^a|b$` (engine.go:655-662); Suppress
  ignores selectors and owners. The model does the same.
* "A `WormsignPolicy` in namespace `test` only affects resources in `test`"
  (docs/agents/PROJECT_SPEC.md:1117, and types_policy.go:44-47): with a namespace
  selector a policy of any namespace acts in all that match (engine.go:465).
  `VerdictFollowsPolicies` claims nothing while such a policy exists outside
  `wormsign-system` (`ScopeIsDocumented`).
* `Evaluate` takes its lock twice: a policy turned from Exclude into Suppress in
  between lets an event pass that both versions would stop.
  `StandingPolicyIsObeyed` is about policies in force all the time.
* Policies are copied under the lock and given to the engine after it
  (crd_watcher.go:764). Two goroutines that handle policies, as in
  crd_watcher_test.go:2449 and 2466, may do the second in the opposite order,
  and the engine keeps the older copy until the next change.
  `VerdictFollowsPolicies` excepts exactly this (`applied = rebuilds`); nothing
  in the repository connects the handlers to informers, and one goroutine for
  all policies would be safe (`OneHandlerIsNotOvertaken`).

*Shards and controller*

* "Skip terminal pods (completed or failed) - they won't process namespaces"
  (manager.go:390), and "match actual running peers" (manager.go:333): a pod that
  is pending, in a crash loop or terminating is not terminal and does not process
  any either. It is given its share of the namespaces, which nobody watches until
  it runs or is removed. `EventuallyCovered` asks that each namespace has one pod
  that exists, and that this pod watches it if its process runs.
* The replica count is "updated by the coordinator when scaling events are
  detected" (manager.go:71-72); once it is 1, peers are no longer discovered
  (manager.go:321). `EventuallyCovered` speaks about coverage, not about use of
  every replica.
* "It is safe to call from multiple goroutines" (informer_manager.go:102): on
  the leader, two changes may reach the informer manager in the order opposite
  to the assignments (manager.go:540), and a namespace is left without
  informers. `InformersFollow` and `InformersCatchUp` are about a replica that
  has not led.
* Readiness is "not-synced until caches populate, then re-mark synced"
  (controller.go:326): an earlier goroutine may report synced while a later
  change is still waiting, and after 30 seconds nobody reports any more
  (controller.go:335-338). `ReadinessSettles` is about the end of all waits.
* The heartbeat stops with the context while the drain may take two minutes
  (controller.go:493); the API server counts as reachable before it was asked
  (controller.go:138). `SelfReportIsTrue` is about a process that runs.
* `config.Validate` asks for RenewDeadline above RetryPeriod (validate.go:98),
  client-go for more than 1.2 times RetryPeriod. With durations in between,
  NewLeaderElector returns an error (leader.go:183), which is logged
  (controller.go:417-419), and the process runs on, healthy, without ever taking
  part in the election. `LeadershipIsTaken` is about replicas that do.
* On shutdown the goroutine of OnStartedLeading may run after OnStoppedLeading
  and leave the flag set; the process ends soon after.

## 8. Not modelled

* The hash of a namespace (64-bit floating point) is a parameter: any bucket
  below the number of replicas.
* CEL compilation and evaluation happen in an external library; a condition
  compiles or not.
* LLM backends are HTTP clients: a call succeeds or fails, and takes tokens.
* Sinks: a delivery succeeds or fails; attempts and backoff are one step and wire
  formats are I/O. URL checks and secret look-ups have no state.
* Replica watcher, registries of detectors, gatherers and sinks, custom sinks,
  the detectors NodeNotReady and HighPodCount: the controller does not start
  them. The CRD watcher's registries are maps.
* Configuration is parsing, defaults and ranges; the ranges are the assumptions
  of the modules. Redaction is regular expressions over text. Metrics, flags,
  servers, API types and generated code decide nothing.
* Wording: descriptions, prompts, remediations, log messages.
