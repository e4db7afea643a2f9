----------------------------- MODULE MCDiagnosis -----------------------------
(* A cluster of one node, two pods of one deployment, two claims and a job,  *)
(* in the troubles that the rules tell apart.                                *)
EXTENDS Diagnosis

St(type, reason, code) == [type |-> type, reason |-> reason, code |-> code]

NoLast == [reason |-> "", code |-> 0]

Cs(name, restarts, state, last) ==
    [name |-> name, ready |-> FALSE, restarts |-> restarts, state |-> state,
     last |-> last]

Crash == Cs("a", 1, St("Waiting", "CrashLoopBackOff", 0),
            [reason |-> "Error", code |-> 1])
CrashOOM == Cs("a", 1, St("Waiting", "CrashLoopBackOff", 0),
               [reason |-> "OOMKilled", code |-> 137])
Unpulled == Cs("a", 0, St("Waiting", "ImagePullBackOff", 0), NoLast)
Completed == Cs("b", 0, St("Terminated", "Completed", 0), NoLast)
Errored == Cs("a", 0, St("Terminated", "Error", 1), NoLast)
InitError == Cs("i", 0, St("Terminated", "Error", 2), NoLast)

Owner(kind, name) == [kind |-> kind, name |-> name, controller |-> TRUE]

Pod(phase, node, statuses, inits, claims) ==
    [phase |-> phase, node |-> node, statuses |-> statuses, inits |-> inits,
     claims |-> claims, owners |-> <<Owner("ReplicaSet", "r")>>]

Good == <<<<"MemoryPressure", "False">>, <<"Ready", "True">>>>
Bad == <<<<"DiskPressure", "True">>, <<"Ready", "Unknown">>>>
Pressed == <<<<"MemoryPressure", "True">>, <<"Ready", "True">>>>

Cluster(pod, node, claim, ready, events, logs, failing) ==
    [Pod |-> ("p" :> pod @@ "q" :> Pod("Running", "n", <<>>, <<>>, <<>>)),
     Node |-> ("n" :> node),
     PersistentVolumeClaim |->
        ("v" :> [phase |-> claim, class |-> "fast"]
         @@ "w" :> [phase |-> "Bound", class |-> ""]),
     ReplicaSet |-> ("r" :> [owners |-> <<Owner("Deployment", "d")>>,
                             desired |-> 2, ready |-> ready]),
     Deployment |-> ("d" :> [desired |-> 2, ready |-> ready,
                             conditions |-> <<"MinimumReplicasUnavailable",
                                              "ReplicaSetUpdated">>]),
     Job |-> ("j" :> [owners |-> <<>>]),
     events |-> ("p" :> events),
     logs |-> (<<"a", FALSE>> :> logs @@ <<"i", FALSE>> :> <<{"no-such-file"}>>),
     failing |-> failing,
     errText |-> {"connection-refused"}]

CrashPod == Pod("Running", "n", <<Completed, Crash>>, <<>>, <<"w">>)
ErrorThenRefused == <<{}, {"level-error"}, {"level-error", "connection-refused"}>>

Deleted(c) == [c EXCEPT !.Pod = [n \in {"q"} |-> c.Pod[n]]]

MCClusters ==
    {Deleted(Cluster(CrashPod, Bad, "Pending", 0, <<>>, <<>>, {})),
     Cluster(CrashPod, Good, "Bound", 2, <<>>, ErrorThenRefused, {}),
     Cluster(CrashPod, Good, "Bound", 2, <<>>, <<>>, {<<"List", "logs">>}),
     Cluster(CrashPod, Bad, "Bound", 0, <<<<"Unhealthy", "readiness">>>>,
             ErrorThenRefused, {}),
     Cluster(CrashPod, Pressed, "Bound", 1, <<<<"FailedScheduling", "">>>>,
             <<>>, {<<"ReplicaSet", "r">>}),
     Cluster(Pod("Running", "n", <<CrashOOM>>, <<>>, <<"v", "w">>), Bad,
             "Pending", 0, <<>>, <<{"oom", "java-oom"}>>, {}),
     Cluster(Pod("Pending", "", <<>>, <<InitError>>, <<"v", "w">>), Good,
             "Pending", 0, <<<<"FailedScheduling", "cpu">>>>, <<>>, {}),
     Cluster(Pod("Pending", "n", <<Unpulled, Completed>>, <<>>, <<"w", "v">>),
             Bad, "Pending", 0, <<>>, <<>>, {<<"Deployment", "d">>}),
     Cluster(Pod("Failed", "n", <<Errored>>, <<InitError>>, <<"v">>), Good,
             "Bound", 1, <<<<"Unhealthy", "liveness">>>>, <<{"go-panic", "timeout"}>>, {}),
     Cluster(CrashPod, Bad, "Pending", 0, <<>>, <<>>,
             {<<"Pod", "p">>, <<"List", "events">>}),
     Cluster(CrashPod, Bad, "Pending", 0, <<>>, <<>>, {<<"Node", "n">>})}

Ref(kind, ns, name, uid) == [kind |-> kind, ns |-> ns, name |-> name, uid |-> uid]

Fault(detector, ref) ==
    [super |-> FALSE, id |-> ref.name, detector |-> detector, rule |-> "",
     severity |-> "warning", resource |-> ref, faults |-> <<>>]

P == Ref("Pod", "x", "p", "u1")
Q == Ref("Pod", "x", "q", "u2")
N == Ref("Node", "", "n", "u3")
D == Ref("Deployment", "x", "d", "")

Super(rule, ref, faults) ==
    [super |-> TRUE, id |-> rule, detector |-> "", rule |-> rule,
     severity |-> "critical", resource |-> ref, faults |-> faults]

MCEvents ==
    {Fault("PodCrashLoop", P), Fault("PodFailed", P), Fault("PodStuckPending", P),
     Fault("NodeNotReady", N),
     Fault("PVCStuckBinding", Ref("PersistentVolumeClaim", "x", "v", "u4")),
     Fault("JobDeadlineExceeded", Ref("Job", "x", "j", "u5")),
     Super("NodeCascade", N, <<Fault("NodeNotReady", N), Fault("PodFailed", P),
                               Fault("PodCrashLoop", P), Fault("PodFailed", Q)>>),
     Super("DeploymentRollout", D, <<Fault("PodFailed", P), Fault("PodFailed", Q)>>)}

Collect(type, kind, name, listAll, path, container) ==
    [type |-> type, kind |-> kind, name |-> name, listAll |-> listAll,
     jsonPath |-> path, container |-> container, previous |-> FALSE]

MCCustomGatherers ==
    "x/storage" :>
        [title |-> "Storage", kinds |-> {"Pod"}, detectors |-> {},
         collect |-> <<
            Collect("resource", "Deployment", "d", FALSE, <<"status">>, ""),
            Collect("resource", "PersistentVolumeClaim", "", TRUE, <<"items", "*">>, ""),
            Collect("logs", "", "", FALSE, <<>>, "a")>>]
    @@ "x/node" :>
        [title |-> "x/node", kinds |-> {}, detectors |-> {"PodFailed", "NodeNotReady"},
         collect |-> <<
            Collect("resource", "Node", "{node.name}", FALSE, <<>>, ""),
            Collect("resource", "Pod", "{resource.name}", FALSE, <<"status", "phase">>, ""),
            Collect("resource", "Pod", "q", FALSE, <<"spec">>, "")>>]

MCJSONPaths ==
    "List" :> {<<"items">>} @@ "Pod" :> {<<"spec">>} @@ "Node" :> {}
    @@ "Deployment" :> {<<"status">>}

MCGathererLists ==
    {<<"PodDescribe", "PodLogs", "NodeConditions">>,
     <<"PVCStatus", "NodeConditions">>,
     <<"OwnerChain", "ReplicaSetStatus">>,
     <<"NamespaceEvents", "PodEvents", "KarpenterState">>,
     <<"PodLogs", "x/storage", "x/node">>,
     <<>>}
=============================================================================
