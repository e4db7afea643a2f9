----------------------------- MODULE Controller -----------------------------
(* The life of a controller process and of its leadership: run of            *)
(* cmd/controller/main.go, Controller.Run and shutdown, the heartbeat and    *)
(* API server checks behind the probes (internal/health/handler.go), and     *)
(* leader election (leader.go and the leader callbacks of controller.go).    *)
(*                                                                           *)
(* The lease protocol is client-go's, modelled from how leader.go configures *)
(* it: renew until the renew deadline, then give up; release on cancel; a    *)
(* goroutine for OnStartedLeading, OnStoppedLeading when Run ends, and Run   *)
(* ends with the first lost lease.  Time passes in ticks; a timer that is    *)
(* due fires, and a goroutine that was started runs, before the next tick.   *)
EXTENDS Integers, FiniteSets

CONSTANTS
    Replicas,
    Nobody,             \* the holder of a released lease
    LeaseDuration, RenewDeadline, RetryPeriod,
    HeartbeatInterval, HeartbeatTimeout,
    MaxFaults           \* bound: outages of the API server, signals, crashes
                        \* and starts with durations that client-go rejects

(* What config.Validate demands of the lease, and the probe's constants.     *)
ASSUME TimingAssumption ==
    /\ {LeaseDuration, RenewDeadline, RetryPeriod} \subseteq Nat \ {0}
    /\ RetryPeriod < RenewDeadline
    /\ RenewDeadline < LeaseDuration
    /\ {HeartbeatInterval, HeartbeatTimeout} \subseteq Nat \ {0}
    /\ HeartbeatInterval < HeartbeatTimeout
ASSUME HolderAssumption == Nobody \notin Replicas
ASSUME BoundsAssumption == MaxFaults \in Nat

VARIABLES
    phase,          \* where main and Controller.Run are
    cancelled,      \* the signal context
    waitGroup,      \* the goroutines Run waits for
    heartbeat,      \* age of the last heartbeat
    reachable,      \* apiServerReachable of the health handler
    detectors,      \* detectorCount of the health handler is positive
    elector,        \* where client-go's elector is
    started,        \* the goroutine of OnStartedLeading
    isLeader,       \* the flag of the elector, and the metric
    coordinator,    \* the goroutine of RunCoordinator
    renewed,        \* age of the last renewal, as the leader counts it
    lease,          \* the Lease object: holder and age
    apiUp,          \* the API server answers
    faults,         \* what the bound counts, so far
    unreleased      \* history: the release of the lease failed, or its holder died

process == <<phase, cancelled, waitGroup>>
probes == <<heartbeat, reachable, detectors>>
election == <<elector, started, isLeader, coordinator, renewed>>
vars == <<process, probes, election, lease, apiUp, faults, unreleased>>

(* The goroutines of Run that end with the context.  The periodic scan and   *)
(* the shard follower are like them (see DetectorCooldown, ShardInformers).  *)
Loops == {"heartbeat", "healthcheck"}

Init ==
    /\ phase = [r \in Replicas |-> "down"]
    /\ cancelled = [r \in Replicas |-> FALSE]
    /\ waitGroup = [r \in Replicas |-> {}]
    /\ heartbeat = [r \in Replicas |-> 0]
    /\ reachable = [r \in Replicas |-> FALSE]
    /\ detectors = [r \in Replicas |-> FALSE]
    /\ elector = [r \in Replicas |-> "none"]
    /\ started = [r \in Replicas |-> "none"]
    /\ isLeader = [r \in Replicas |-> FALSE]
    /\ coordinator = [r \in Replicas |-> "none"]
    /\ renewed = [r \in Replicas |-> 0]
    /\ lease = [holder |-> Nobody, age |-> 0]
    /\ apiUp = TRUE
    /\ faults = 0
    /\ unreleased = {}

Set(f, r, v) == f' = [f EXCEPT ![r] = v]

-----------------------------------------------------------------------------
(* Starting: main, and Run until it waits for the context *)

(* run of main.go: the health server answers from now on; NewHandler starts  *)
(* with a fresh heartbeat.  Run marks the API server as reachable without    *)
(* having asked it.                                                          *)
StartProcess(r) ==
    /\ phase[r] = "down"
    /\ Set(phase, r, "starting")
    /\ Set(heartbeat, r, 0)
    /\ Set(reachable, r, TRUE)
    /\ UNCHANGED <<cancelled, waitGroup, detectors, election, lease, apiUp, faults,
                   unreleased>>

(* The subsystems are created, the pipeline started and the callbacks wired; *)
(* then the background goroutines.  At least one detector is enabled.        *)
(* client-go accepts the durations.                                          *)
StartBackground(r) ==
    /\ phase[r] = "starting"
    /\ Set(detectors, r, TRUE)
    /\ Set(waitGroup, r, Loops \cup {"elector"})
    /\ Set(elector, r, "acquiring")
    /\ Set(phase, r, IF cancelled[r] THEN "draining" ELSE "running")
    /\ UNCHANGED <<cancelled, heartbeat, reachable, started, isLeader, coordinator,
                   renewed, lease, apiUp, faults, unreleased>>

(* The same in a process whose durations config.Validate accepts, but not    *)
(* NewLeaderElector of client-go, which asks for RenewDeadline to be more    *)
(* than 1.2 times RetryPeriod.  LeaderElector.Run returns that error, the    *)
(* goroutine logs it and ends, and the process goes on without an election.  *)
(* A misconfigured start counts as a fault; its durations are never used.    *)
StartBackgroundRejected(r) ==
    /\ phase[r] = "starting"
    /\ faults < MaxFaults
    /\ faults' = faults + 1
    /\ Set(detectors, r, TRUE)
    /\ Set(waitGroup, r, Loops)
    /\ Set(elector, r, "rejected")
    /\ Set(phase, r, IF cancelled[r] THEN "draining" ELSE "running")
    /\ UNCHANGED <<cancelled, heartbeat, reachable, started, isLeader, coordinator,
                   renewed, lease, apiUp, unreleased>>

-----------------------------------------------------------------------------
(* Probes *)

(* Ages beyond the last limit are all alike.                                 *)
Older(age, limit) == IF age > limit THEN age ELSE age + 1

(* runHeartbeat: the age of the heartbeat after a tick.                      *)
runHeartbeat(r) ==
    IF "heartbeat" \in waitGroup[r] /\ heartbeat[r] + 1 >= HeartbeatInterval
    THEN 0 ELSE Older(heartbeat[r], HeartbeatTimeout)

(* runAPIServerHealthCheck: what the handler is told in a tick.              *)
runAPIServerHealthCheck(r) ==
    IF "healthcheck" \in waitGroup[r] THEN apiUp ELSE reachable[r]

LivezCheck(r) == heartbeat[r] <= HeartbeatTimeout

(* The informers' part of readiness is in ShardInformers.                    *)
ReadyzCheck(r) == reachable[r] /\ detectors[r]

-----------------------------------------------------------------------------
(* Leader election *)

(* Mutant of LeaderElectionConfig: the two durations are swapped.            *)
LeaderElectionConfigSwapped ==
    [leaseDuration |-> RenewDeadline, renewDeadline |-> LeaseDuration,
     retryPeriod |-> RetryPeriod, releaseOnCancel |-> TRUE]

(* What LeaderElector.Run passes to client-go.                               *)
LeaderElectionConfig ==
    [leaseDuration |-> LeaseDuration, renewDeadline |-> RenewDeadline,
     retryPeriod |-> RetryPeriod, releaseOnCancel |-> TRUE]

(* Mutant of Available: a lease that its holder left behind never expires.   *)
AvailableIfReleased(r) == lease.holder \in {Nobody, r}

(* The lease is free, expired, or left from an earlier process of the same   *)
(* pod, whose identity is the same.                                          *)
Available(r) == lease.holder \in {Nobody, r} \/ lease.age > LeaderElectionConfig.leaseDuration

(* A candidate takes the lease; OnStartedLeading is called in a goroutine.   *)
Acquire(r) ==
    /\ elector[r] = "acquiring"
    /\ ~cancelled[r]
    /\ apiUp
    /\ Available(r)
    /\ lease' = [holder |-> r, age |-> 0]
    /\ Set(elector, r, "leading")
    /\ Set(renewed, r, 0)
    /\ Set(started, r, "spawned")
    /\ unreleased' = unreleased \ {r}
    /\ UNCHANGED <<process, probes, isLeader, coordinator, apiUp, faults>>

Renew(r) ==
    /\ elector[r] = "leading"
    /\ ~cancelled[r]
    /\ apiUp
    /\ renewed[r] >= LeaderElectionConfig.retryPeriod
    /\ lease' = [holder |-> r, age |-> 0]
    /\ Set(renewed, r, 0)
    /\ UNCHANGED <<process, probes, elector, started, isLeader, coordinator, apiUp,
                   faults, unreleased>>

(* The renewals end: at the deadline, or because the context was cancelled.  *)
RenewEnds(r) ==
    /\ elector[r] = "leading"
    /\ cancelled[r] \/ renewed[r] >= LeaderElectionConfig.renewDeadline
    /\ Set(elector, r, "releasing")
    /\ UNCHANGED <<process, probes, started, isLeader, coordinator, renewed, lease,
                   apiUp, faults, unreleased>>

(* ReleaseOnCancel: one attempt, while the coordinator may still be at work. *)
(* Then the leader's context is cancelled.                                   *)
Release(r) ==
    /\ elector[r] = "releasing"
    /\ IF LeaderElectionConfig.releaseOnCancel /\ apiUp /\ lease.holder = r
       THEN lease' = [holder |-> Nobody, age |-> 0] /\ UNCHANGED unreleased
       ELSE UNCHANGED lease /\ unreleased' = unreleased \cup {r}
    /\ Set(elector, r, "stopping")
    /\ UNCHANGED <<process, probes, started, isLeader, coordinator, renewed, apiUp,
                   faults>>

(* A candidate whose context is cancelled stops as well.                     *)
AcquireEnds(r) ==
    /\ elector[r] = "acquiring"
    /\ cancelled[r]
    /\ Set(elector, r, "stopping")
    /\ UNCHANGED <<process, probes, started, isLeader, coordinator, renewed, lease,
                   apiUp, faults, unreleased>>

(* onStartedLeading and the callback, which launches the coordinator and     *)
(* blocks until the leader's context ends.                                   *)
onStartedLeading(r) ==
    /\ started[r] = "spawned"
    /\ Set(isLeader, r, TRUE)
    /\ Set(coordinator, r, "running")
    /\ Set(started, r, "blocked")
    /\ UNCHANGED <<process, probes, elector, renewed, lease, apiUp, faults, unreleased>>

(* Mutant of onStoppedLeading: the flag is not reset.                        *)
onStoppedLeadingKeepsFlag(r) ==
    /\ elector[r] = "stopping"
    /\ Set(elector, r, "ended")
    /\ waitGroup' = [waitGroup EXCEPT ![r] = @ \ {"elector"}]
    /\ UNCHANGED <<phase, cancelled, probes, started, isLeader, coordinator, renewed,
                   lease, apiUp, faults, unreleased>>

(* onStoppedLeading, the last thing elector.Run does: LeaderElector.Run      *)
(* returns and is not called again.                                          *)
onStoppedLeading(r) ==
    /\ elector[r] = "stopping"
    /\ Set(isLeader, r, FALSE)
    /\ Set(elector, r, "ended")
    /\ waitGroup' = [waitGroup EXCEPT ![r] = @ \ {"elector"}]
    /\ UNCHANGED <<phase, cancelled, probes, started, coordinator, renewed, lease,
                   apiUp, faults, unreleased>>

(* The coordinator notices the cancelled context after the reconciliation it *)
(* is in; nobody waits for it.                                               *)
CoordinatorEnds(r) ==
    /\ coordinator[r] = "running"
    /\ cancelled[r] \/ elector[r] \in {"stopping", "ended"}
    /\ Set(coordinator, r, "none")
    /\ Set(started, r, "none")
    /\ UNCHANGED <<process, probes, elector, isLeader, renewed, lease, apiUp, faults,
                   unreleased>>

-----------------------------------------------------------------------------
(* Stopping *)

(* SIGTERM or SIGINT cancels the context: Run shuts down, after its start-up *)
(* if it is still in the middle of it.                                       *)
Signal(r) ==
    /\ phase[r] \in {"starting", "running"}
    /\ ~cancelled[r]
    /\ faults < MaxFaults
    /\ faults' = faults + 1
    /\ Set(cancelled, r, TRUE)
    /\ Set(phase, r, IF phase[r] = "running" THEN "draining" ELSE "starting")
    /\ UNCHANGED <<waitGroup, probes, election, lease, apiUp, unreleased>>

(* Mutant of LoopEnds: the API check does not look at the context.           *)
HeartbeatEnds(r, g) ==
    /\ g = "heartbeat"
    /\ cancelled[r]
    /\ g \in waitGroup[r]
    /\ waitGroup' = [waitGroup EXCEPT ![r] = @ \ {g}]
    /\ UNCHANGED <<phase, cancelled, probes, election, lease, apiUp, faults, unreleased>>

(* <-ctx.Done() in a loop of Run.                                            *)
LoopEnds(r, g) ==
    /\ cancelled[r]
    /\ g \in waitGroup[r]
    /\ waitGroup' = [waitGroup EXCEPT ![r] = @ \ {g}]
    /\ UNCHANGED <<phase, cancelled, probes, election, lease, apiUp, faults, unreleased>>

(* c.shutdown() returns: the pipeline is drained (see Pipeline).             *)
Drained(r) ==
    /\ phase[r] = "draining"
    /\ Set(phase, r, "waiting")
    /\ UNCHANGED <<cancelled, waitGroup, probes, election, lease, apiUp, faults,
                   unreleased>>

(* wg.Wait() returns and Run with it; main stops the servers.                *)
Stop(r) ==
    /\ phase[r] = "waiting"
    /\ waitGroup[r] = {}
    /\ Set(phase, r, "stopped")
    /\ UNCHANGED <<cancelled, waitGroup, probes, election, lease, apiUp, faults,
                   unreleased>>

(* Nothing of a process that is gone remains; the pod is started again.      *)
Gone(r) ==
    /\ Set(phase, r, "down")
    /\ Set(cancelled, r, FALSE)
    /\ Set(waitGroup, r, {})
    /\ Set(heartbeat, r, 0)
    /\ Set(reachable, r, FALSE)
    /\ Set(detectors, r, FALSE)
    /\ Set(elector, r, "none")
    /\ Set(started, r, "none")
    /\ Set(isLeader, r, FALSE)
    /\ Set(coordinator, r, "none")
    /\ Set(renewed, r, 0)
    /\ unreleased' = IF lease.holder = r THEN unreleased \cup {r} ELSE unreleased \ {r}
    /\ UNCHANGED <<lease, apiUp>>

Exit(r) ==
    /\ phase[r] = "stopped"
    /\ Gone(r)
    /\ UNCHANGED faults

(* Run returns an error before it waits (a subsystem cannot be created), or  *)
(* the process dies.                                                         *)
Crash(r) ==
    /\ phase[r] \notin {"down", "stopped"}
    /\ faults < MaxFaults
    /\ faults' = faults + 1
    /\ Gone(r)

-----------------------------------------------------------------------------
(* The API server and the time *)

ApiChanges ==
    /\ apiUp => faults < MaxFaults
    /\ apiUp' = ~apiUp
    /\ faults' = IF apiUp THEN faults + 1 ELSE faults
    /\ UNCHANGED <<process, probes, election, lease, unreleased>>

(* Something that is due at r happens before the next tick.                  *)
Due(r) ==
    \/ phase[r] = "starting"
    \/ elector[r] = "leading" /\ cancelled[r]
    \/ elector[r] = "leading" /\ renewed[r] >= LeaderElectionConfig.renewDeadline
    \/ elector[r] = "leading" /\ apiUp /\ renewed[r] >= LeaderElectionConfig.retryPeriod
    \/ elector[r] \in {"releasing", "stopping"}
    \/ started[r] = "spawned"

(* Time passes, and the tickers of the probes fire.                          *)
Tick ==
    /\ \A r \in Replicas : ~Due(r)
    /\ heartbeat' = [r \in Replicas |-> IF phase[r] = "down" THEN 0 ELSE runHeartbeat(r)]
    /\ reachable' = [r \in Replicas |-> runAPIServerHealthCheck(r)]
    /\ renewed' = [r \in Replicas |->
         IF elector[r] = "leading" THEN renewed[r] + 1 ELSE renewed[r]]
    /\ lease' = IF lease.holder = Nobody THEN lease
                ELSE [lease EXCEPT !.age = Older(@, LeaseDuration)]
    /\ UNCHANGED <<process, detectors, elector, started, isLeader, coordinator, apiUp,
                   faults, unreleased>>

-----------------------------------------------------------------------------

ElectionStep(r) ==
    \/ Acquire(r) \/ Renew(r) \/ RenewEnds(r) \/ Release(r) \/ AcquireEnds(r)
    \/ onStartedLeading(r) \/ onStoppedLeading(r) \/ CoordinatorEnds(r)

ProcessStep(r) ==
    \/ StartProcess(r) \/ StartBackground(r) \/ Drained(r) \/ Stop(r) \/ Exit(r)
    \/ \E g \in Loops : LoopEnds(r, g)

Next ==
    \/ \E r \in Replicas : ElectionStep(r) \/ ProcessStep(r)
    \/ \E r \in Replicas : Signal(r) \/ Crash(r) \/ StartBackgroundRejected(r)
    \/ ApiChanges
    \/ Tick

(* Timers fire, goroutines run, the pod is restarted, an outage ends and     *)
(* time passes.  Nobody has to send a signal.                                *)
Fairness ==
    /\ \A r \in Replicas : WF_vars(ElectionStep(r))
    /\ \A r \in Replicas : WF_vars(ProcessStep(r))
    /\ WF_vars(~apiUp /\ ApiChanges)
    /\ WF_vars(Tick)

SafeSpec == Init /\ [][Next]_vars

Spec == SafeSpec /\ Fairness

-----------------------------------------------------------------------------

Leads(r) == elector[r] = "leading"

(* At most one replica believes to hold the lease, whatever outages, crashes *)
(* and restarts there were: the old leader gives up (RenewDeadline) before   *)
(* another may take over (LeaseDuration).                                    *)
OneLeader == \A r, s \in Replicas : Leads(r) /\ Leads(s) => r = s

(* What a replica tells the outside is true, although several goroutines set *)
(* it.  Before time passes again, a replica that is not shutting down claims *)
(* to lead only if it does, and one that leads says so and runs a            *)
(* coordinator; its liveness probe succeeds, however long the API server is  *)
(* away, so that kubelet does not restart it; it is not ready before it has  *)
(* started everything; and when Run has returned, the lease has been         *)
(* released, unless the one attempt failed, so that the next leader need not *)
(* wait for it to expire.                                                    *)
SelfReportIsTrue ==
    \A r \in Replicas :
      /\ (phase[r] = "running" /\ ~Due(r)) =>
           /\ isLeader[r] = Leads(r)
           /\ Leads(r) => coordinator[r] = "running"
      /\ phase[r] \in {"starting", "running"} => LivezCheck(r)
      /\ ReadyzCheck(r) => phase[r] \notin {"down", "starting"}
      /\ (phase[r] = "stopped" /\ lease.holder = r) => r \in unreleased

(* A cancelled controller comes to its end: no goroutine keeps wg.Wait from  *)
(* returning.                                                                *)
RunReturns ==
    \A r \in Replicas : cancelled[r] ~> (phase[r] \in {"stopped", "down"})

Campaigns(r) == phase[r] = "running" /\ elector[r] \notin {"ended", "rejected"}

(* As long as a replica still takes part in the election, there will be a    *)
(* leader: after a crash, a shutdown or a failed release.  A replica whose   *)
(* election has ended, or never began because client-go rejected its         *)
(* durations, takes no part in it, and nothing brings it back.               *)
LeadershipIsTaken ==
    (\E r \in Replicas : Campaigns(r))
      ~> ((\E r \in Replicas : Leads(r)) \/ (\A r \in Replicas : ~Campaigns(r)))

(* "Leader election runs until context cancellation" (controller.go): as     *)
(* long as some replica keeps running, there is a leader again after every   *)
(* outage of the API server; client-go is taken to accept all durations.     *)
LeadershipReturns ==
    (/\ [](\A r \in Replicas : elector[r] # "rejected")
     /\ \E r \in Replicas : <>[](phase[r] = "running"))
      => []<>(\E r \in Replicas : Leads(r))
=============================================================================
