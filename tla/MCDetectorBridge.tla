-------------------------- MODULE MCDetectorBridge --------------------------
(* A pod that crashes and fails, a pod or claim that is stuck, a job with a  *)
(* deadline, each with and without an excluding annotation.                  *)
EXTENDS DetectorBridge, TLC

Waiting(reason) == [type |-> "Waiting", reason |-> reason]

Terminated(code) == [type |-> "Terminated", code |-> code]

Container(restarts, state) == [restarts |-> restarts, state |-> state]

Pod(phase, statuses, inits, annotations) ==
    [phase |-> phase, statuses |-> statuses, inits |-> inits, annotations |-> annotations]

Except(d) == "exclude-detectors" :> {d}

CrashingPod == {
    Pod("Running", {Container(1, Waiting("CrashLoopBackOff"))}, {}, NilAnnotations),
    Pod("Running", {Container(2, Waiting("CrashLoopBackOff"))}, {}, NilAnnotations),
    Pod("Pending", {}, {Container(2, Waiting("CrashLoopBackOff"))}, Except("PodCrashLoop"))}

FailingPod == {
    Pod("Running", {Container(0, Terminated(0))}, {Container(0, Terminated(1))},
        NilAnnotations),
    Pod("Running", {Container(0, Terminated(1))}, {}, NilAnnotations),
    Pod("Failed", {Container(0, Terminated(0))}, {}, Except("PodFailed"))}

StuckPod == {
    Pod("Pending", {}, {}, NilAnnotations),
    Pod("Pending", {}, {}, Except("PodStuckPending"))}

Claims == {
    [phase |-> "Pending", annotations |-> NilAnnotations],
    [phase |-> "Pending", annotations |-> Except("PVCStuckBinding")],
    [phase |-> "Bound", annotations |-> NilAnnotations]}

Job(conditions, deadline, started) ==
    [conditions |-> conditions, activeDeadline |-> deadline, started |-> started,
     annotations |-> NilAnnotations]

Jobs == {
    Job({}, {1}, FALSE),
    Job({}, {1}, TRUE),
    Job({[type |-> "Failed", reason |-> "DeadlineExceeded"]}, {1}, TRUE),
    Job({[type |-> "Complete", reason |-> ""]}, {1}, TRUE)}

Scene(kind, detector, versions, maxWrites, maxWirings) ==
    [kind |-> kind, detectors |-> {detector}, versions |-> versions,
     writes |-> maxWrites, wirings |-> maxWirings]

(* In the last scene the namespace leaves and comes back.                    *)
MCScenes == {
    Scene("Pod", "PodCrashLoop", CrashingPod, 1, 1),
    Scene("Pod", "PodFailed", FailingPod, 1, 1),
    Scene("Pod", "PodStuckPending", StuckPod, 2, 1),
    Scene("PersistentVolumeClaim", "PVCStuckBinding", Claims, 1, 1),
    Scene("Job", "JobDeadlineExceeded", Jobs, 1, 1),
    Scene("Pod", "PodCrashLoop",
          {Pod("Running", {Container(2, Waiting("CrashLoopBackOff"))}, {},
               NilAnnotations)}, 0, 2)}

MCKeys == UNION {s.detectors : s \in Scenes}
=============================================================================
