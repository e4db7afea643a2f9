------------------------------ MODULE Gatherers ------------------------------
(* What each diagnostic gatherer of internal/gatherer writes into its        *)
(* section, for the answers of the API server to its calls: at[n] is the     *)
(* cluster at the moment of the n-th call of the gatherer.                   *)
(*                                                                           *)
(* A section's content is a sequence of lines; a line is a tuple whose head  *)
(* is its shape and whose rest is what the regular expressions of the rules  *)
(* analyzer can pick out of it.  Lines that no expression distinguishes      *)
(* (UIDs, tolerations, volumes, capacities) are left out.                    *)
(*                                                                           *)
(* A cluster c is a record: c[kind][name] is the object of that kind and     *)
(* name, c.events the pod events by pod, c.logs the log lines by container   *)
(* (each the set of the log patterns it matches), c.failing the calls that   *)
(* fail and c.errText the patterns that the text of an error of a log        *)
(* request matches.                                                          *)
EXTENDS Integers, Sequences, SequencesExt

CONSTANTS
    MaxDepth,           \* maxDepth of the owner walk
    CustomGatherers,    \* CustomGatherers[g]: the WormsignGatherer spec of g
    JSONPaths           \* JSONPaths[kind]: the field paths of its objects

IsSeq(s) == s \in Seq({s[k] : k \in DOMAIN s})

BuiltinGatherers ==
    {"PodDescribe", "PodEvents", "PodLogs", "OwnerChain", "ReplicaSetStatus", "PVCStatus",
     "NodeConditions", "NamespaceEvents", "KarpenterState"}

(* A custom gatherer is named by its namespace and its name.                 *)
ASSUME GatherersAssumption ==
    \A g \in DOMAIN CustomGatherers :
      g \notin BuiltinGatherers /\ IsSeq(CustomGatherers[g].collect)

Found(c, kind, name) ==
    /\ name \in DOMAIN c[kind]
    /\ <<kind, name>> \notin c.failing

Listed(c, what) == <<"List", what>> \notin c.failing

(* Gather's two results: a section, or an error, which RunAll turns into a   *)
(* section titled with the gatherer's name and without content.              *)
Section(g, title, lines) ==
    [gatherer |-> g, title |-> title, content |-> lines, error |-> FALSE]

ErrorSection(g) ==
    [gatherer |-> g, title |-> g, content |-> <<>>, error |-> TRUE]

Each(s, Op(_)) == FlattenSeq([k \in 1..Len(s) |-> Op(s[k])])

-----------------------------------------------------------------------------

StateLines(st) ==
    CASE st.type = "Waiting"    -> <<<<"waiting", st.reason>>>>
      [] st.type = "Terminated" -> <<<<"terminated", st.code, st.reason>>>>
      [] OTHER                  -> <<<<"running">>>>

(* The container specs come first, all statuses after them.  An image is     *)
(* named by its container.                                                   *)
PodDescribe(ref, at) ==
    LET pod == at[1].Pod[ref.name]
        Spec1(cs) == <<<<"container", cs.name>>, <<"image", cs.name>>>>
        InitSpec(cs) == <<<<"initContainer", cs.name>>, <<"image", cs.name>>>>
        Status(cs) ==
            <<<<"status", cs.name, cs.ready, cs.restarts>>>>
            \o StateLines(cs.state)
            \o (IF cs.last.reason = "" THEN <<>>
                ELSE <<<<"lastTermination", cs.last.code, cs.last.reason>>>>)
        InitStatus(cs) ==
            <<<<"status", cs.name, cs.ready, cs.restarts>>>>
            \o (IF cs.state.type = "Terminated" THEN StateLines(cs.state)
                ELSE <<>>)
    IN IF ~Found(at[1], "Pod", ref.name) THEN ErrorSection("PodDescribe")
       ELSE Section("PodDescribe", "Pod Description",
                    <<<<"phase", pod.phase>>>>
                    \o Each(pod.statuses, Spec1)
                    \o Each(pod.inits, InitSpec)
                    \o Each(pod.statuses, Status)
                    \o Each(pod.inits, InitStatus))

PodEvents(ref, at) ==
    LET events == at[1].events
    IN IF ~Listed(at[1], "events") THEN ErrorSection("PodEvents")
       ELSE Section("PodEvents", "Pod Events",
                    IF ref.name \notin DOMAIN events THEN <<>>
                    ELSE [k \in 1..Len(events[ref.name]) |->
                            <<"event">> \o events[ref.name][k]])

(* One block per container, a second one for its previous instance (with     *)
(* includePrevious, the default), and one for each init container that       *)
(* failed, each of a request of its own.  An error is written into the       *)
(* block.                                                                    *)
LogRequest(container, previous, whenEmpty) ==
    [key |-> <<container, previous>>, whenEmpty |-> whenEmpty]

LogBlock(c, request) ==
    LET lines == IF request.key \in DOMAIN c.logs THEN c.logs[request.key] ELSE <<>>
    IN <<<<"blank">>, <<"header">>>>
       \o CASE ~Listed(c, "logs") -> <<<<"fetchError", c.errText>>>>
            [] lines = <<>> -> request.whenEmpty
            [] OTHER -> [k \in 1..Len(lines) |-> <<"log", lines[k]>>]

PodLogs(ref, at) ==
    LET pod == at[1].Pod[ref.name]
        CurrentAndPrevious(cs) ==
            <<LogRequest(cs.name, FALSE, <<<<"noLogs">>>>)>>
            \o (IF cs.restarts > 0
                THEN <<LogRequest(cs.name, TRUE, <<<<"noPreviousLogs">>>>)>>
                ELSE <<>>)
        Failed(cs) ==
            IF cs.state.type = "Terminated" /\ cs.state.code # 0
            THEN <<LogRequest(cs.name, FALSE, <<>>)>> ELSE <<>>
        requests == Each(pod.statuses, CurrentAndPrevious) \o Each(pod.inits, Failed)
    IN IF ~Found(at[1], "Pod", ref.name) THEN ErrorSection("PodLogs")
       ELSE Section("PodLogs", "Pod Logs",
                    <<<<"title">>>>
                    \o FlattenSeq([k \in 1..Len(requests) |->
                                     LogBlock(at[k + 1], requests[k])]))

(* fetchOwnerRefs fails only for the two kinds it reads; the others have no  *)
(* owners and need no call.                                                  *)
ReadOwners == {"ReplicaSet", "Job"}

WithStatus == {"Deployment", "StatefulSet", "DaemonSet", "Job", "ReplicaSet"}

fetchOwnerRefs(c, o) ==
    IF o.kind \in ReadOwners THEN c[o.kind][o.name].owners ELSE <<>>

fetchOwnerStatus(c, o) ==
    IF o.kind \notin WithStatus \/ ~Found(c, o.kind, o.name) THEN <<>>
    ELSE CASE o.kind \in {"Deployment", "ReplicaSet", "StatefulSet"} ->
                <<<<"replicas", c[o.kind][o.name].desired,
                                c[o.kind][o.name].ready>>>>
           [] o.kind = "DaemonSet" ->
                <<<<"desired", c[o.kind][o.name].desired,
                               c[o.kind][o.name].ready>>>>
           [] OTHER -> <<>>

(* What the walk writes for one owner, after w.calls calls; only a           *)
(* controller is followed.                                                   *)
Visit(at, w, o) ==
    LET first == w.calls + 1
        second == IF o.kind \in ReadOwners THEN first + 1 ELSE first
        unread == o.kind \in ReadOwners /\ ~Found(at[first], o.kind, o.name)
    IN [calls |-> IF unread \/ o.kind \notin WithStatus THEN second - 1 ELSE second,
        lines |-> w.lines \o <<<<"owner", o.kind, o.name>>>>
                  \o (IF unread THEN <<>> ELSE fetchOwnerStatus(at[second], o)),
        next |-> w.next \o (IF unread \/ ~o.controller THEN <<>>
                            ELSE fetchOwnerRefs(at[first], o))]

(* The owners of a level are written before those of the next.               *)
walk(at, owners) ==
    LET Level(w) == FoldLeft(LAMBDA v, o : Visit(at, v, o),
                             [w EXCEPT !.next = <<>>], w.next)
        level[d \in 0..MaxDepth] ==
            IF d = 0 THEN [calls |-> 1, lines |-> <<>>, next |-> owners]
            ELSE Level(level[d - 1])
    IN level[MaxDepth].lines

OwnerChain(ref, at) ==
    IF ~Found(at[1], "Pod", ref.name) THEN ErrorSection("OwnerChain")
    ELSE Section("OwnerChain", "Owner Chain",
                 walk(at, at[1].Pod[ref.name].owners))

(* The first ReplicaSet owner, then its first Deployment owner.              *)
FirstOwner(owners, kind) ==
    LET k == SelectInSeq(owners, LAMBDA o : o.kind = kind)
    IN IF k = 0 THEN "" ELSE owners[k].name

ReplicaSetStatus(ref, at) ==
    LET rs == FirstOwner(at[1].Pod[ref.name].owners, "ReplicaSet")
        dep == FirstOwner(at[2].ReplicaSet[rs].owners, "Deployment")
        Counts(o) == <<<<"desired", o.desired, o.ready>>>>
        Cond(r) == <<<<"condition", r>>>>
        DeploymentLines ==
            IF dep = "" \/ ~Found(at[3], "Deployment", dep) THEN <<>>
            ELSE <<<<"deployment", dep>>>> \o Counts(at[3].Deployment[dep])
                 \o Each(at[3].Deployment[dep].conditions, Cond)
    IN IF ~Found(at[1], "Pod", ref.name) THEN ErrorSection("ReplicaSetStatus")
       ELSE Section("ReplicaSetStatus", "ReplicaSet Status",
                    IF rs = "" \/ ~Found(at[2], "ReplicaSet", rs) THEN <<>>
                    ELSE Counts(at[2].ReplicaSet[rs]) \o DeploymentLines)

gatherPVC(c, name) ==
    LET pvc == c.PersistentVolumeClaim[name]
    IN <<<<"phase", pvc.phase>>>>
       \o (IF pvc.class = "" THEN <<>> ELSE <<<<"storageClass", pvc.class>>>>)

(* The pod first, then one claim after the other.                            *)
PVCStatus(ref, at) ==
    LET claims == at[1].Pod[ref.name].claims
        Claim(c, name) == IF Found(c, "PersistentVolumeClaim", name)
                          THEN gatherPVC(c, name) ELSE <<>>
    IN CASE ref.kind = "PersistentVolumeClaim" /\ Found(at[1], ref.kind, ref.name) ->
              Section("PVCStatus", "PVC Status", gatherPVC(at[1], ref.name))
         [] ref.kind = "Pod" /\ Found(at[1], "Pod", ref.name) ->
              Section("PVCStatus", "PVC Status",
                      FlattenSeq([k \in 1..Len(claims) |-> Claim(at[k + 1], claims[k])]))
         [] OTHER -> ErrorSection("PVCStatus")

(* The conditions of a node, as the call c finds it.                         *)
DescribeNode(c, n) ==
    IF ~Found(c, "Node", n) THEN ErrorSection("NodeConditions")
    ELSE Section("NodeConditions", "Node Conditions",
                 [k \in 1..Len(c.Node[n]) |->
                    <<"nodeCondition", c.Node[n][k][1], c.Node[n][k][2]>>])

(* A pod's node is looked up in a call of its own, after the pod.            *)
NodeConditions(ref, at) ==
    CASE ref.kind = "Node" -> DescribeNode(at[1], ref.name)
      [] ref.kind = "Pod" /\ Found(at[1], "Pod", ref.name) ->
           IF at[1].Pod[ref.name].node = ""
           THEN Section("NodeConditions", "Node Conditions", <<>>)
           ELSE DescribeNode(at[2], at[1].Pod[ref.name].node)
      [] OTHER -> ErrorSection("NodeConditions")

(* No rule reads these two sections; only whether they failed matters.       *)
NamespaceEvents(ref, at) ==
    IF ref.ns # "" /\ ~Listed(at[1], "events") THEN ErrorSection("NamespaceEvents")
    ELSE Section("NamespaceEvents", "Namespace Events", <<>>)

KarpenterState(ref, at) == Section("KarpenterState", "Karpenter State", <<>>)

-----------------------------------------------------------------------------
(* Custom gatherers.  A spec is a record of a title (its description), the   *)
(* kinds and detectors it triggers on and its collect actions; an action is  *)
(* [type, kind, name, listAll, jsonPath, container, previous].               *)

Collected(lines) == [lines |-> lines, error |-> FALSE]

CollectFailed == [lines |-> <<>>, error |-> TRUE]

(* Gather fills in the resource only, so a node name expands to nothing.     *)
ExpandTemplate(s, ref) ==
    CASE s = "{resource.name}" -> ref.name
      [] s = "{node.name}"     -> ""
      [] OTHER                 -> s

(* A path is a sequence of segments, <<>> for the whole object; what follows *)
(* a wildcard is not looked at.                                              *)
extractJSONPath(shape, path) ==
    LET star == SelectInSeq(path, LAMBDA seg : seg = "*")
        fields == IF star = 0 THEN path ELSE SubSeq(path, 1, star - 1)
    IN IF fields = <<>> \/ fields \in JSONPaths[shape]
       THEN Collected(<<<<"json", shape, fields>>>>)
       ELSE CollectFailed

collectResource(a, ref, c) ==
    IF a.listAll
    THEN IF Listed(c, a.kind) THEN extractJSONPath("List", a.jsonPath)
         ELSE CollectFailed
    ELSE IF Found(c, a.kind, ExpandTemplate(a.name, ref))
         THEN extractJSONPath(a.kind, a.jsonPath)
         ELSE CollectFailed

collectLogs(a, ref, c) ==
    LET key == <<ExpandTemplate(a.container, ref), a.previous>>
        lines == IF key \in DOMAIN c.logs THEN c.logs[key] ELSE <<>>
    IN IF ref.kind \notin {"", "Pod"} \/ ~Listed(c, "logs") THEN CollectFailed
       ELSE Collected([k \in 1..Len(lines) |-> <<"log", lines[k]>>])

executeAction(a, ref, c) ==
    IF a.type = "resource" THEN collectResource(a, ref, c)
    ELSE collectLogs(a, ref, c)

(* The actions run one after the other, in a call each; one that fails is    *)
(* noted in the section's error, next to what the others collected.          *)
CustomGather(g, ref, at) ==
    LET collect == CustomGatherers[g].collect
    IN [gatherer |-> g, title |-> CustomGatherers[g].title,
        content |-> FlattenSeq([k \in 1..Len(collect) |->
                                  executeAction(collect[k], ref, at[k]).lines]),
        error |-> \E k \in 1..Len(collect) :
                    executeAction(collect[k], ref, at[k]).error]

-----------------------------------------------------------------------------

(* Trigger matching.  NamespaceEvents does not implement TriggerMatcher, and *)
(* an empty list matches everything.                                         *)
ResourceKinds(g) ==
    CASE g \in DOMAIN CustomGatherers -> CustomGatherers[g].kinds
      [] g = "PVCStatus"       -> {"PersistentVolumeClaim", "Pod"}
      [] g = "NodeConditions"  -> {"Pod", "Node"}
      [] g = "NamespaceEvents" -> {}
      [] OTHER                 -> {"Pod"}

DetectorNames(g) ==
    CASE g \in DOMAIN CustomGatherers -> CustomGatherers[g].detectors
      [] g = "PodLogs"        -> {"PodCrashLoop", "PodFailed"}
      [] g = "KarpenterState" -> {"PodStuckPending"}
      [] OTHER                -> {}

MatchesTrigger(g, kind, detector) ==
    /\ ResourceKinds(g) # {} => kind \in ResourceKinds(g)
    /\ DetectorNames(g) # {} => detector \in DetectorNames(g)

FilterByTrigger(gatherers, kind, detector) ==
    LET Kept(g) == IF MatchesTrigger(g, kind, detector) THEN <<g>> ELSE <<>>
    IN Each(gatherers, Kept)

GatherSection(g, ref, at) ==
    CASE g \in DOMAIN CustomGatherers -> CustomGather(g, ref, at)
      [] g = "PodDescribe"      -> PodDescribe(ref, at)
      [] g = "PodEvents"        -> PodEvents(ref, at)
      [] g = "PodLogs"          -> PodLogs(ref, at)
      [] g = "OwnerChain"       -> OwnerChain(ref, at)
      [] g = "ReplicaSetStatus" -> ReplicaSetStatus(ref, at)
      [] g = "PVCStatus"        -> PVCStatus(ref, at)
      [] g = "NodeConditions"   -> NodeConditions(ref, at)
      [] g = "NamespaceEvents"  -> NamespaceEvents(ref, at)
      [] OTHER                  -> KarpenterState(ref, at)
=============================================================================
