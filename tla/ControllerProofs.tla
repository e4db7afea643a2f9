--------------------------- MODULE ControllerProofs ---------------------------
(* Mutual exclusion of leaders and the truth of what a replica reports, for  *)
(* any number of replicas and any durations that the configuration accepts.  *)
(* OneLeader is not inductive: what keeps a second candidate away is the age *)
(* of the lease, which the leader knows only through the age of its own last *)
(* renewal.                                                                  *)
EXTENDS Controller, TLAPS

ElectorStates ==
    {"none", "acquiring", "leading", "releasing", "stopping", "ended", "rejected"}

ElectionTypeOK ==
    /\ elector \in [Replicas -> ElectorStates]
    /\ renewed \in [Replicas -> Nat]
    /\ lease \in [holder : Replicas \cup {Nobody}, age : Nat]

(* A leader holds the lease, its own clock is not behind that of the lease,  *)
(* and it has not reached the deadline by more than the tick that shows it.  *)
LeaderHoldsLease ==
    \A r \in Replicas :
      Leads(r) => /\ lease.holder = r
                  /\ lease.age <= renewed[r]
                  /\ renewed[r] <= RenewDeadline

LeaseInv == ElectionTypeOK /\ LeaderHoldsLease

(* Before the first process is started, nobody leads.                        *)
LEMMA LeaseInit == Init => LeaseInv
  BY DEF Init, LeaseInv, ElectionTypeOK, LeaderHoldsLease, Leads, ElectorStates

(* A step that makes no leader and leaves the lease and the renewals alone.  *)
LEMMA NoNewLeader ==
    ASSUME LeaseInv, NEW r \in Replicas, NEW v \in ElectorStates \ {"leading"},
           elector' = [elector EXCEPT ![r] = v],
           renewed' = renewed \/ renewed' = [renewed EXCEPT ![r] = 0],
           lease' = lease
    PROVE  LeaseInv'
<1>1. ElectionTypeOK'
  BY DEF LeaseInv, ElectionTypeOK
<1>2. ASSUME NEW q \in Replicas, elector'[q] = "leading"
      PROVE  elector[q] = "leading" /\ renewed'[q] = renewed[q]
  BY <1>2 DEF LeaseInv, ElectionTypeOK
<1> QED BY <1>1, <1>2 DEF LeaseInv, LeaderHoldsLease, Leads

(* A step that has nothing to do with the election.                          *)
LEMMA NoElection ==
    ASSUME LeaseInv, UNCHANGED <<elector, renewed, lease>>
    PROVE  LeaseInv'
  BY DEF LeaseInv, ElectionTypeOK, LeaderHoldsLease, Leads

(* The lease can be taken only when nobody else leads: it is released, it is *)
(* the candidate's own, or it is older than any leader lets it become.       *)
LEMMA AcquireStep ==
    ASSUME LeaseInv, NEW r \in Replicas, Acquire(r)
    PROVE  LeaseInv'
<1>1. /\ lease' = [holder |-> r, age |-> 0]
      /\ elector' = [elector EXCEPT ![r] = "leading"]
      /\ renewed' = [renewed EXCEPT ![r] = 0]
  BY DEF Acquire, Set
<1>2. ASSUME NEW q \in Replicas, q # r PROVE elector[q] # "leading"
  <2> SUFFICES ASSUME elector[q] = "leading" PROVE FALSE
    OBVIOUS
  <2>1. lease.holder = q /\ lease.age <= RenewDeadline
    BY TimingAssumption DEF LeaseInv, ElectionTypeOK, LeaderHoldsLease, Leads
  <2>2. ~(lease.age > LeaderElectionConfig.leaseDuration)
    BY <2>1, TimingAssumption DEF LeaderElectionConfig, LeaseInv, ElectionTypeOK
  <2> QED BY <1>2, <2>1, <2>2, HolderAssumption DEF Acquire, Available
<1>3. ElectionTypeOK'
  BY <1>1 DEF LeaseInv, ElectionTypeOK, ElectorStates
<1>4. ASSUME NEW q \in Replicas, elector'[q] = "leading" PROVE q = r
  BY <1>1, <1>2, <1>4 DEF LeaseInv, ElectionTypeOK
<1>5. renewed'[r] = 0
  BY <1>1 DEF LeaseInv, ElectionTypeOK
<1> QED BY <1>1, <1>3, <1>4, <1>5, TimingAssumption DEF LeaseInv, LeaderHoldsLease, Leads

LEMMA RenewStep ==
    ASSUME LeaseInv, NEW r \in Replicas, Renew(r)
    PROVE  LeaseInv'
<1>1. /\ lease' = [holder |-> r, age |-> 0] /\ elector' = elector
      /\ renewed' = [renewed EXCEPT ![r] = 0] /\ elector[r] = "leading"
  BY DEF Renew, Set
<1>2. ElectionTypeOK'
  BY <1>1 DEF LeaseInv, ElectionTypeOK
<1>3. ASSUME NEW q \in Replicas, elector'[q] = "leading" PROVE q = r
  BY <1>1, <1>3 DEF LeaseInv, LeaderHoldsLease, Leads
<1>4. renewed'[r] = 0
  BY <1>1 DEF LeaseInv, ElectionTypeOK
<1> QED BY <1>1, <1>2, <1>3, <1>4, TimingAssumption DEF LeaseInv, LeaderHoldsLease, Leads

(* What is released is the lease of somebody who leads no more.              *)
LEMMA ReleaseStep ==
    ASSUME LeaseInv, NEW r \in Replicas, Release(r)
    PROVE  LeaseInv'
<1>1. /\ elector[r] = "releasing" /\ renewed' = renewed
      /\ elector' = [elector EXCEPT ![r] = "stopping"]
  BY DEF Release, Set
<1>2. CASE lease' = lease
  BY <1>1, <1>2, NoNewLeader DEF ElectorStates
<1>3. CASE lease' = [holder |-> Nobody, age |-> 0] /\ lease.holder = r
  <2>1. ElectionTypeOK'
    BY <1>1, <1>3 DEF LeaseInv, ElectionTypeOK, ElectorStates
  <2>2. ASSUME NEW q \in Replicas PROVE elector'[q] # "leading"
    BY <1>1, <1>3 DEF LeaseInv, ElectionTypeOK, LeaderHoldsLease, Leads
  <2> QED BY <2>1, <2>2 DEF LeaseInv, LeaderHoldsLease, Leads
<1> QED BY <1>2, <1>3 DEF Release

(* A leader whose deadline has come gives up before time goes on.            *)
LEMMA TickStep ==
    ASSUME LeaseInv, Tick
    PROVE  LeaseInv'
<1>1. /\ elector' = elector
      /\ renewed' = [r \in Replicas |->
            IF elector[r] = "leading" THEN renewed[r] + 1 ELSE renewed[r]]
  BY DEF Tick
<1>2. lease'.holder = lease.holder /\ lease'.age \in Nat /\ lease'.age <= lease.age + 1
      /\ lease' \in [holder : Replicas \cup {Nobody}, age : Nat]
  BY DEF Tick, Older, LeaseInv, ElectionTypeOK
<1>3. ElectionTypeOK'
  BY <1>1, <1>2 DEF LeaseInv, ElectionTypeOK
<1>4. ASSUME NEW r \in Replicas, elector[r] = "leading"
      PROVE  renewed'[r] = renewed[r] + 1 /\ renewed[r] < RenewDeadline
  BY <1>1, <1>4, TimingAssumption
     DEF Tick, Due, LeaderElectionConfig, LeaseInv, ElectionTypeOK
<1>5. ASSUME NEW r \in Replicas, elector'[r] = "leading"
      PROVE  lease'.holder = r /\ lease'.age <= renewed'[r] /\ renewed'[r] <= RenewDeadline
  BY <1>1, <1>2, <1>4, <1>5, TimingAssumption
     DEF LeaseInv, ElectionTypeOK, LeaderHoldsLease, Leads
<1> QED BY <1>3, <1>5 DEF LeaseInv, LeaderHoldsLease, Leads

LEMMA GoneStep ==
    ASSUME LeaseInv, NEW r \in Replicas, Gone(r)
    PROVE  LeaseInv'
<1>1. /\ elector' = [elector EXCEPT ![r] = "none"]
      /\ renewed' = [renewed EXCEPT ![r] = 0] /\ lease' = lease
  BY DEF Gone, Set
<1> QED BY <1>1, NoNewLeader DEF ElectorStates

LEMMA LeaseStep == LeaseInv /\ [Next]_vars => LeaseInv'
<1> SUFFICES ASSUME LeaseInv, [Next]_vars PROVE LeaseInv'
  OBVIOUS
<1>1. ASSUME NEW r \in Replicas, ElectionStep(r) PROVE LeaseInv'
  <2>1. CASE Acquire(r)
    BY <2>1, AcquireStep
  <2>2. CASE Renew(r)
    BY <2>2, RenewStep
  <2>3. CASE RenewEnds(r)
    <3>1. elector' = [elector EXCEPT ![r] = "releasing"] /\ UNCHANGED <<renewed, lease>>
      BY <2>3 DEF RenewEnds, Set
    <3> QED BY <3>1, NoNewLeader DEF ElectorStates
  <2>4. CASE Release(r)
    BY <2>4, ReleaseStep
  <2>5. CASE AcquireEnds(r)
    <3>1. elector' = [elector EXCEPT ![r] = "stopping"] /\ UNCHANGED <<renewed, lease>>
      BY <2>5 DEF AcquireEnds, Set
    <3> QED BY <3>1, NoNewLeader DEF ElectorStates
  <2>6. CASE onStartedLeading(r) \/ CoordinatorEnds(r)
    BY <2>6, NoElection DEF onStartedLeading, CoordinatorEnds
  <2>7. CASE onStoppedLeading(r)
    <3>1. elector' = [elector EXCEPT ![r] = "ended"] /\ UNCHANGED <<renewed, lease>>
      BY <2>7 DEF onStoppedLeading, Set
    <3> QED BY <3>1, NoNewLeader DEF ElectorStates
  <2> QED BY <1>1, <2>1, <2>2, <2>3, <2>4, <2>5, <2>6, <2>7 DEF ElectionStep
<1>2. ASSUME NEW r \in Replicas, ProcessStep(r) PROVE LeaseInv'
  <2>1. CASE StartProcess(r) \/ Drained(r) \/ Stop(r)
    BY <2>1, NoElection DEF StartProcess, Drained, Stop, election
  <2>2. CASE StartBackground(r)
    <3>1. elector' = [elector EXCEPT ![r] = "acquiring"] /\ UNCHANGED <<renewed, lease>>
      BY <2>2 DEF StartBackground, Set
    <3> QED BY <3>1, NoNewLeader DEF ElectorStates
  <2>3. CASE Exit(r)
    BY <2>3, GoneStep DEF Exit
  <2>4. CASE \E g \in Loops : LoopEnds(r, g)
    BY <2>4, NoElection DEF LoopEnds, election
  <2> QED BY <1>2, <2>1, <2>2, <2>3, <2>4 DEF ProcessStep
<1>8. ASSUME NEW r \in Replicas, StartBackgroundRejected(r) PROVE LeaseInv'
  <2>1. elector' = [elector EXCEPT ![r] = "rejected"] /\ UNCHANGED <<renewed, lease>>
    BY <1>8 DEF StartBackgroundRejected, Set
  <2> QED BY <2>1, NoNewLeader DEF ElectorStates
<1>3. ASSUME NEW r \in Replicas, Signal(r) PROVE LeaseInv'
  BY <1>3, NoElection DEF Signal, election
<1>4. ASSUME NEW r \in Replicas, Crash(r) PROVE LeaseInv'
  BY <1>4, GoneStep DEF Crash
<1>5. CASE ApiChanges
  BY <1>5, NoElection DEF ApiChanges, election
<1>6. CASE Tick
  BY <1>6, TickStep
<1>7. CASE UNCHANGED vars
  BY <1>7, NoElection DEF vars, election
<1> QED BY <1>1, <1>2, <1>3, <1>4, <1>5, <1>6, <1>7, <1>8 DEF Next

(* At most one replica leads (leader.go, with the durations config.Validate  *)
(* accepts), whatever crashes, restarts, outages and shutdowns there are.    *)
THEOREM OneLeaderCorrect == SafeSpec => []OneLeader
<1>1. Init => LeaseInv
  BY LeaseInit
<1>2. LeaseInv /\ [Next]_vars => LeaseInv'
  BY LeaseStep
<1>3. LeaseInv => OneLeader
  BY DEF LeaseInv, LeaderHoldsLease, OneLeader
<1> QED BY <1>1, <1>2, <1>3, PTL DEF SafeSpec

-----------------------------------------------------------------------------
(* What a replica reports *)

SelfTypeOK ==
    /\ phase \in [Replicas -> {"down", "starting", "running", "draining", "waiting",
                               "stopped"}]
    /\ cancelled \in [Replicas -> BOOLEAN]
    /\ waitGroup \in [Replicas -> SUBSET (Loops \cup {"elector"})]
    /\ heartbeat \in [Replicas -> Nat]
    /\ reachable \in [Replicas -> BOOLEAN]
    /\ detectors \in [Replicas -> BOOLEAN]
    /\ started \in [Replicas -> {"none", "spawned", "blocked"}]
    /\ isLeader \in [Replicas -> BOOLEAN]
    /\ coordinator \in [Replicas -> {"none", "running"}]
    /\ apiUp \in BOOLEAN

(* A process that is starting has its first heartbeat, and one that runs     *)
(* keeps its heartbeat goroutine; nothing of the election is left over from  *)
(* an earlier process; an elector at work is waited for.                     *)
ProcessInv(r) ==
    /\ phase[r] \in {"down", "starting"} =>
         /\ elector[r] = "none" /\ started[r] = "none"
         /\ ~isLeader[r] /\ ~detectors[r]
    /\ phase[r] = "starting" => heartbeat[r] = 0
    /\ phase[r] = "running" =>
         /\ ~cancelled[r]
         /\ "heartbeat" \in waitGroup[r]
         /\ heartbeat[r] < HeartbeatInterval
         /\ elector[r] # "none"
    /\ phase[r] = "stopped" => waitGroup[r] = {}
    /\ elector[r] \notin {"none", "ended", "rejected"} => "elector" \in waitGroup[r]

(* The goroutine of OnStartedLeading has run before the first renewal is     *)
(* due, so that in a process that is not being stopped onStartedLeading      *)
(* never comes after onStoppedLeading.                                       *)
LeaderFlagInv(r) ==
    /\ elector[r] \in {"acquiring", "rejected"} => ~isLeader[r] /\ started[r] = "none"
    /\ elector[r] = "leading" /\ renewed[r] > 0 => started[r] # "spawned"
    /\ ~cancelled[r] =>
         /\ elector[r] \in {"releasing", "stopping", "ended"} => started[r] # "spawned"
         /\ elector[r] = "leading" /\ started[r] # "spawned" =>
              isLeader[r] /\ coordinator[r] = "running"
         /\ elector[r] = "ended" => ~isLeader[r]

(* Only a leader, or one that is about to release, holds a lease that is not *)
(* known to be left behind.                                                  *)
UnreleasedInv ==
    \A r \in Replicas :
      elector[r] \notin {"leading", "releasing"} /\ lease.holder = r => r \in unreleased

SelfInv ==
    /\ SelfTypeOK
    /\ \A r \in Replicas : ProcessInv(r) /\ LeaderFlagInv(r)
    /\ UnreleasedInv

(* Everything a replica's step can change of a replica.                      *)
SameReplica(q) ==
    /\ phase'[q] = phase[q] /\ cancelled'[q] = cancelled[q]
    /\ waitGroup'[q] = waitGroup[q] /\ heartbeat'[q] = heartbeat[q]
    /\ detectors'[q] = detectors[q] /\ elector'[q] = elector[q]
    /\ started'[q] = started[q] /\ isLeader'[q] = isLeader[q]
    /\ coordinator'[q] = coordinator[q] /\ renewed'[q] = renewed[q]

LocalInv(r) == ProcessInv(r) /\ LeaderFlagInv(r)

(* A replica to which nothing happens keeps its part of the invariant.       *)
LEMMA SameReplicaKeeps ==
    ASSUME NEW q \in Replicas, LocalInv(q), SameReplica(q)
    PROVE  LocalInv(q)'
BY DEF LocalInv, ProcessInv, LeaderFlagInv, SameReplica

(* Every variable of the process keeps its type.                             *)
LEMMA SelfTypeStep == LeaseInv /\ SelfTypeOK /\ [Next]_vars => SelfTypeOK'
<1> SUFFICES ASSUME LeaseInv, SelfTypeOK, [Next]_vars PROVE SelfTypeOK'
  OBVIOUS
<1> USE DEF SelfTypeOK, Set, process, probes, election, Loops
<1>1. ASSUME NEW r \in Replicas, ElectionStep(r) PROVE SelfTypeOK'
  <2>1. CASE onStoppedLeading(r)
    BY <2>1 DEF onStoppedLeading
  <2>2. CASE onStartedLeading(r) \/ CoordinatorEnds(r) \/ Acquire(r)
    BY <2>2 DEF onStartedLeading, CoordinatorEnds, Acquire
  <2>3. CASE Renew(r) \/ RenewEnds(r) \/ Release(r) \/ AcquireEnds(r)
    BY <2>3 DEF Renew, RenewEnds, Release, AcquireEnds
  <2> QED BY <1>1, <2>1, <2>2, <2>3 DEF ElectionStep
<1>2. ASSUME NEW r \in Replicas, Gone(r) PROVE SelfTypeOK'
  BY <1>2 DEF Gone
<1>3. ASSUME NEW r \in Replicas, ProcessStep(r) PROVE SelfTypeOK'
  <2>1. CASE StartProcess(r)
    BY <2>1 DEF StartProcess
  <2>2. CASE StartBackground(r)
    BY <2>2 DEF StartBackground
  <2>3. CASE Drained(r) \/ Stop(r)
    BY <2>3 DEF Drained, Stop
  <2>4. CASE Exit(r)
    BY <1>2, <2>4 DEF Exit
  <2>5. ASSUME NEW g \in Loops, LoopEnds(r, g) PROVE SelfTypeOK'
    BY <2>5 DEF LoopEnds
  <2> QED BY <1>3, <2>1, <2>2, <2>3, <2>4, <2>5 DEF ProcessStep
<1>4. ASSUME NEW r \in Replicas, Signal(r) PROVE SelfTypeOK'
  BY <1>4 DEF Signal
<1>5. ASSUME NEW r \in Replicas, Crash(r) PROVE SelfTypeOK'
  BY <1>2, <1>5 DEF Crash
<1>6. CASE ApiChanges
  BY <1>6 DEF ApiChanges
<1>7. CASE Tick
  <2>1. heartbeat' \in [Replicas -> Nat]
    <3>1. ASSUME NEW r \in Replicas PROVE runHeartbeat(r) \in Nat
      BY DEF runHeartbeat, Older
    <3> QED BY <1>7, <3>1 DEF Tick
  <2>2. reachable' \in [Replicas -> BOOLEAN]
    BY <1>7 DEF Tick, runAPIServerHealthCheck
  <2> QED BY <1>7, <2>1, <2>2 DEF Tick
<1>8. CASE UNCHANGED vars
  BY <1>8 DEF vars
<1>9. ASSUME NEW r \in Replicas, StartBackgroundRejected(r) PROVE SelfTypeOK'
  BY <1>9 DEF StartBackgroundRejected
<1> QED BY <1>1, <1>3, <1>4, <1>5, <1>6, <1>7, <1>8, <1>9 DEF Next

(* A step of the election at r: only r changes, and r keeps its part.        *)
LEMMA ElectionLocal ==
    ASSUME LeaseInv, SelfTypeOK, NEW r \in Replicas, LocalInv(r), ElectionStep(r)
    PROVE  LocalInv(r)' /\ \A q \in Replicas \ {r} : SameReplica(q)
<1> USE DEF SelfTypeOK, LeaseInv, ElectionTypeOK, Set, process, probes, election,
        LocalInv, ProcessInv, LeaderFlagInv, SameReplica
<1>1. CASE Acquire(r)
  BY <1>1 DEF Acquire
<1>2. CASE Renew(r)
  BY <1>2 DEF Renew
<1>3. CASE RenewEnds(r)
  <2>1. cancelled[r] \/ renewed[r] > 0
    BY <1>3, TimingAssumption DEF RenewEnds, LeaderElectionConfig
  <2> QED BY <1>3, <2>1 DEF RenewEnds
<1>4. CASE Release(r)
  BY <1>4 DEF Release
<1>5. CASE AcquireEnds(r)
  BY <1>5 DEF AcquireEnds
<1>6. CASE onStartedLeading(r)
  BY <1>6 DEF onStartedLeading, ElectorStates
<1>7. CASE onStoppedLeading(r)
  BY <1>7 DEF onStoppedLeading
<1>8. CASE CoordinatorEnds(r)
  BY <1>8 DEF CoordinatorEnds
<1> QED BY <1>1, <1>2, <1>3, <1>4, <1>5, <1>6, <1>7, <1>8 DEF ElectionStep

(* So it is when the process of r is gone.                                   *)
LEMMA GoneLocal ==
    ASSUME LeaseInv, SelfTypeOK, NEW r \in Replicas, Gone(r)
    PROVE  LocalInv(r)' /\ \A q \in Replicas \ {r} : SameReplica(q)
BY DEF SelfTypeOK, LeaseInv, ElectionTypeOK, Set, LocalInv, ProcessInv, LeaderFlagInv,
       SameReplica, Gone

(* And when main, Run or a loop of r takes a step, or r gets a signal.       *)
LEMMA ProcessLocal ==
    ASSUME LeaseInv, SelfTypeOK, NEW r \in Replicas, LocalInv(r),
           ProcessStep(r) \/ Signal(r) \/ Crash(r) \/ StartBackgroundRejected(r)
    PROVE  LocalInv(r)' /\ \A q \in Replicas \ {r} : SameReplica(q)
<1> USE DEF SelfTypeOK, LeaseInv, ElectionTypeOK, Set, process, probes, election,
        LocalInv, ProcessInv, LeaderFlagInv, SameReplica
<1>1. CASE StartProcess(r)
  BY <1>1 DEF StartProcess
<1>2. CASE StartBackground(r)
  BY <1>2, TimingAssumption DEF StartBackground, Loops
<1>3. CASE Drained(r)
  BY <1>3 DEF Drained
<1>4. CASE Stop(r)
  BY <1>4 DEF Stop
<1>5. CASE Gone(r)
  BY <1>5, GoneLocal
<1>6. ASSUME NEW g \in Loops, LoopEnds(r, g)
      PROVE  LocalInv(r)' /\ \A q \in Replicas \ {r} : SameReplica(q)
  BY <1>6 DEF LoopEnds, Loops
<1>7. CASE Signal(r)
  BY <1>7 DEF Signal
<1>8. CASE StartBackgroundRejected(r)
  BY <1>8, TimingAssumption DEF StartBackgroundRejected, Loops
<1> QED BY <1>1, <1>2, <1>3, <1>4, <1>5, <1>6, <1>7, <1>8 DEF ProcessStep, Exit, Crash

(* Time: the heartbeat of a running process comes before the probe's limit,  *)
(* and a goroutine that was started has run.                                 *)
LEMMA TickLocal ==
    ASSUME LeaseInv, SelfTypeOK, Tick, NEW r \in Replicas, LocalInv(r)
    PROVE  LocalInv(r)'
<1>1. /\ ~Due(r)
      /\ heartbeat'[r] = IF phase[r] = "down" THEN 0 ELSE runHeartbeat(r)
      /\ renewed'[r] = IF elector[r] = "leading" THEN renewed[r] + 1 ELSE renewed[r]
      /\ UNCHANGED <<phase, cancelled, waitGroup, detectors, elector, started, isLeader,
                     coordinator>>
  BY DEF Tick, process
<1>2. phase[r] # "starting" /\ started[r] # "spawned"
  BY <1>1 DEF Due
<1>3. phase[r] = "running" => heartbeat'[r] < HeartbeatInterval
  BY <1>1, TimingAssumption
     DEF runHeartbeat, Older, SelfTypeOK, LocalInv, ProcessInv
<1> QED BY <1>1, <1>2, <1>3 DEF LocalInv, ProcessInv, LeaderFlagInv

(* A lease that is given back or left behind: only the release and the death *)
(* of a process leave one, and both say so.                                  *)
LEMMA UnreleasedStep ==
    ASSUME LeaseInv, SelfInv, [Next]_vars
    PROVE  UnreleasedInv'
<1>0. UnreleasedInv /\ \A r \in Replicas : ProcessInv(r)
  BY DEF SelfInv
<1> USE <1>0 DEF LeaseInv, ElectionTypeOK, Set, UnreleasedInv
<1>1. ASSUME NEW r \in Replicas, ElectionStep(r) PROVE UnreleasedInv'
  <2>1. CASE Acquire(r)
    BY <2>1 DEF Acquire
  <2>2. CASE Renew(r)
    BY <2>2 DEF Renew
  <2>3. CASE RenewEnds(r)
    BY <2>3 DEF RenewEnds
  <2>4. CASE Release(r)
    <3>1. CASE lease' = lease /\ unreleased' = unreleased \cup {r}
      BY <2>4, <3>1 DEF Release
    <3>2. CASE lease' = [holder |-> Nobody, age |-> 0]
      BY <3>2, HolderAssumption
    <3> QED BY <2>4, <3>1, <3>2 DEF Release
  <2>5. CASE AcquireEnds(r)
    BY <2>5 DEF AcquireEnds
  <2>6. CASE onStartedLeading(r) \/ CoordinatorEnds(r)
    BY <2>6 DEF onStartedLeading, CoordinatorEnds
  <2>7. CASE onStoppedLeading(r)
    BY <2>7 DEF onStoppedLeading
  <2> QED BY <1>1, <2>1, <2>2, <2>3, <2>4, <2>5, <2>6, <2>7 DEF ElectionStep
<1>2. ASSUME NEW r \in Replicas, Gone(r) PROVE UnreleasedInv'
  BY <1>2 DEF Gone
<1>3. ASSUME NEW r \in Replicas, ProcessStep(r) PROVE UnreleasedInv'
  <2>1. CASE StartProcess(r) \/ Drained(r) \/ Stop(r)
    BY <2>1 DEF StartProcess, Drained, Stop, election
  <2>2. CASE StartBackground(r)
    <3>1. elector[r] = "none"
      BY <2>2 DEF StartBackground, ProcessInv
    <3> QED BY <2>2, <3>1 DEF StartBackground
  <2>3. CASE Exit(r)
    BY <1>2, <2>3 DEF Exit
  <2>4. CASE \E g \in Loops : LoopEnds(r, g)
    BY <2>4 DEF LoopEnds, election
  <2> QED BY <1>3, <2>1, <2>2, <2>3, <2>4 DEF ProcessStep
<1>4. ASSUME NEW r \in Replicas, Signal(r) PROVE UnreleasedInv'
  BY <1>4 DEF Signal, election
<1>5. ASSUME NEW r \in Replicas, Crash(r) PROVE UnreleasedInv'
  BY <1>2, <1>5 DEF Crash
<1>6. CASE ApiChanges
  BY <1>6 DEF ApiChanges, election
<1>7. CASE Tick
  <2>1. lease'.holder = lease.holder
    BY <1>7 DEF Tick
  <2> QED BY <1>7, <2>1 DEF Tick
<1>8. CASE UNCHANGED vars
  BY <1>8 DEF vars, election
<1>9. ASSUME NEW r \in Replicas, StartBackgroundRejected(r) PROVE UnreleasedInv'
  <2>1. elector[r] = "none"
    BY <1>9 DEF StartBackgroundRejected, ProcessInv
  <2> QED BY <1>9, <2>1 DEF StartBackgroundRejected
<1> QED BY <1>1, <1>3, <1>4, <1>5, <1>6, <1>7, <1>8, <1>9 DEF Next

(* No process is there at first.                                             *)
LEMMA SelfInit == Init => SelfInv
<1> SUFFICES ASSUME Init PROVE SelfInv
  OBVIOUS
<1>1. SelfTypeOK
  BY DEF Init, SelfTypeOK
<1>2. UnreleasedInv
  BY HolderAssumption DEF Init, UnreleasedInv
<1>3. ASSUME NEW r \in Replicas PROVE ProcessInv(r) /\ LeaderFlagInv(r)
  BY DEF Init, ProcessInv, LeaderFlagInv
<1> QED BY <1>1, <1>2, <1>3 DEF SelfInv

LEMMA SelfStep == LeaseInv /\ SelfInv /\ [Next]_vars => SelfInv'
<1> SUFFICES ASSUME LeaseInv, SelfInv, [Next]_vars PROVE SelfInv'
  OBVIOUS
<1>1. SelfTypeOK'
  BY SelfTypeStep DEF SelfInv
<1>2. UnreleasedInv'
  BY UnreleasedStep
<1>3. SelfTypeOK /\ \A r \in Replicas : LocalInv(r)
  BY DEF SelfInv, LocalInv
<1>4. \A r \in Replicas : LocalInv(r)'
  <2>1. ASSUME NEW r \in Replicas,
               \/ ElectionStep(r) \/ ProcessStep(r)
               \/ Signal(r) \/ Crash(r) \/ StartBackgroundRejected(r)
        PROVE  \A q \in Replicas : LocalInv(q)'
    <3>1. LocalInv(r)' /\ \A q \in Replicas \ {r} : SameReplica(q)
      BY <1>3, <2>1, ElectionLocal, ProcessLocal
    <3> QED BY <1>3, <3>1, SameReplicaKeeps
  <2>2. CASE ApiChanges \/ UNCHANGED vars
    <3>1. \A q \in Replicas : SameReplica(q)
      BY <2>2 DEF ApiChanges, vars, process, probes, election, SameReplica
    <3> QED BY <1>3, <3>1, SameReplicaKeeps
  <2>3. CASE Tick
    BY <1>3, <2>3, TickLocal
  <2> QED BY <2>1, <2>2, <2>3 DEF Next
<1> QED BY <1>1, <1>2, <1>4 DEF SelfInv, LocalInv

(* What a replica reports is true (the leader flag and its metric, the       *)
(* liveness and readiness probes, the released lease), whatever the          *)
(* goroutines of client-go, of Run and of the probes do in between, and      *)
(* whatever fails.                                                           *)
THEOREM SelfReportIsTrueCorrect == SafeSpec => []SelfReportIsTrue
<1>1. Init => LeaseInv /\ SelfInv
  BY LeaseInit, SelfInit
<1>2. (LeaseInv /\ SelfInv) /\ [Next]_vars => (LeaseInv /\ SelfInv)'
  BY LeaseStep, SelfStep
<1>3. LeaseInv /\ SelfInv => SelfReportIsTrue
  <2> SUFFICES ASSUME LeaseInv, SelfInv, NEW r \in Replicas
      PROVE  /\ (phase[r] = "running" /\ ~Due(r)) =>
                  /\ isLeader[r] = Leads(r)
                  /\ Leads(r) => coordinator[r] = "running"
             /\ phase[r] \in {"starting", "running"} => LivezCheck(r)
             /\ ReadyzCheck(r) => phase[r] \notin {"down", "starting"}
             /\ (phase[r] = "stopped" /\ lease.holder = r) => r \in unreleased
    BY DEF SelfReportIsTrue
  <2> USE DEF SelfInv, SelfTypeOK, ProcessInv
  <2>1. ASSUME phase[r] = "running", ~Due(r)
        PROVE  isLeader[r] = Leads(r) /\ (Leads(r) => coordinator[r] = "running")
    <3>1. /\ ~cancelled[r] /\ started[r] # "spawned"
          /\ elector[r] \in {"acquiring", "leading", "ended", "rejected"}
      BY <2>1 DEF Due, LeaseInv, ElectionTypeOK, ElectorStates
    <3>2. LeaderFlagInv(r) /\ isLeader[r] \in BOOLEAN
      OBVIOUS
    <3> QED BY <3>1, <3>2 DEF LeaderFlagInv, Leads
  <2>2. phase[r] \in {"starting", "running"} => LivezCheck(r)
    BY TimingAssumption DEF LivezCheck
  <2>3. ReadyzCheck(r) => phase[r] \notin {"down", "starting"}
    BY DEF ReadyzCheck
  <2>4. ASSUME phase[r] = "stopped", lease.holder = r PROVE r \in unreleased
    <3>1. elector[r] \in {"none", "ended", "rejected"}
      BY <2>4
    <3> QED BY <2>4, <3>1 DEF UnreleasedInv
  <2> QED BY <2>1, <2>2, <2>3, <2>4
<1> QED BY <1>1, <1>2, <1>3, PTL DEF SafeSpec
=============================================================================
