-------------------------- MODULE BuiltinDetectors --------------------------
(* The conditions of the five detectors the controller wires                 *)
(* (internal/detector), and the conversions of Kubernetes objects that feed  *)
(* them (internal/controller/detectors.go).                                  *)
(*                                                                           *)
(* Times are ages: how long ago an object was created or a job was started.  *)
EXTENDS Integers

CONSTANTS
    CrashThreshold,     \* restarts that make a crash loop
    IgnoreExitCodes,    \* exit codes that are not failures
    PendingThreshold    \* how long a pod or a claim may be pending

waitingReason(cs) == IF cs.state.type = "Waiting" THEN cs.state.reason ELSE ""

toStatus(cs) ==
    [restarts |-> cs.restarts, waiting |-> cs.state.type = "Waiting",
     waitingReason |-> waitingReason(cs)]

toCrashLoopState(pod) ==
    [statuses |-> {toStatus(cs) : cs \in pod.statuses},
     inits |-> {toStatus(cs) : cs \in pod.inits}]

(* Init containers that terminated are not looked at.                        *)
toFailedState(pod) ==
    [phase |-> pod.phase,
     terminations |-> {cs.state.code : cs \in
                        {cs \in pod.statuses : cs.state.type = "Terminated"}}]

(* Neither the node name nor the scheduler's verdict gets through.           *)
toPendingState(pod) == [phase |-> pod.phase]

toPVCState(pvc) == [phase |-> pvc.phase]

(* A job failed for its deadline if some failed condition says so.           *)
toJobState(job) ==
    [completed |-> [type |-> "Complete", reason |-> ""] \in job.conditions,
     deadlineExceeded |->
        [type |-> "Failed", reason |-> "DeadlineExceeded"] \in job.conditions,
     activeDeadline |-> job.activeDeadline,
     started |-> job.started]

-----------------------------------------------------------------------------

isCrashLooping(cs) ==
    /\ cs.restarts >= CrashThreshold
    /\ cs.waiting
    /\ cs.waitingReason = "CrashLoopBackOff"

CheckCrashLoop(state) ==
    \E cs \in state.statuses \cup state.inits : isCrashLooping(cs)

CheckPodFailed(state) ==
    \/ state.phase = "Failed"
    \/ \E code \in state.terminations : code \notin IgnoreExitCodes

CheckPodStuckPending(state, age) == state.phase = "Pending" /\ age >= PendingThreshold

CheckPVCStuckBinding(state, age) == state.phase = "Pending" /\ age >= PendingThreshold

(* The deadline of a job is a set of at most one age.  A job that failed for *)
(* another reason counts as running.                                         *)
CheckJobDeadline(state, age) ==
    /\ ~state.completed
    /\ \/ state.deadlineExceeded
       \/ state.started /\ \E deadline \in state.activeDeadline : age >= deadline

(* Does detector d find the object, as it was in version v, faulty?          *)
Finds(d, v, age) ==
    CASE d = "PodCrashLoop" -> CheckCrashLoop(toCrashLoopState(v))
      [] d = "PodFailed" -> CheckPodFailed(toFailedState(v))
      [] d = "PodStuckPending" -> CheckPodStuckPending(toPendingState(v), age)
      [] d = "PVCStuckBinding" -> CheckPVCStuckBinding(toPVCState(v), age)
      [] d = "JobDeadlineExceeded" -> CheckJobDeadline(toJobState(v), age)
=============================================================================
