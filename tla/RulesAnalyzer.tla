---------------------------- MODULE RulesAnalyzer ----------------------------
(* The rules-based analyzer of internal/analyzer/rules.go: the parsers that  *)
(* read signals back out of the gathered sections, and the chain of rules of *)
(* which the first that matches writes the report.                           *)
(*                                                                           *)
(* Lines are the tuples of module Gatherers.  A report keeps the fields that *)
(* decide something: which rule wrote it, for which event, its severity,     *)
(* category, systemic flag and related resources, the container it names and *)
(* the log line it quotes.  The remediation texts and the evidence text are  *)
(* left out.                                                                 *)
EXTENDS Integers, Sequences, SequencesExt

CONSTANT MaxMatches    \* maxMatches of parsePodLogs

Lookup(s, Test(_), zero) ==
    LET k == SelectInSeq(s, Test) IN IF k = 0 THEN zero ELSE s[k]

NoContainer ==
    [name |-> "", type |-> "", reason |-> "", code |-> 0,
     lastReason |-> "", lastCode |-> 0, image |-> ""]

NoSignals ==
    [podPhase |-> "", containers |-> <<>>, events |-> <<>>, logErrors |-> <<>>,
     deployment |-> "", desired |-> 0, ready |-> 0, rollout |-> "",
     pvcPhase |-> "", class |-> "",
     notReady |-> FALSE, memory |-> FALSE, disk |-> FALSE]

(* The patterns in the order of the table: the first that matches names the  *)
(* line.                                                                     *)
logErrorPatterns ==
    <<"oom", "probe-failure", "python-traceback", "python-exception",
      "java-exception", "java-caused-by", "java-oom", "java-stacktrace",
      "go-panic", "go-fatal", "go-goroutine", "node-unhandled", "node-error",
      "dotnet-exception", "rust-panic", "ruby-error", "connection-refused",
      "connection-reset", "timeout", "dns-failure", "tls-error",
      "permission-denied", "auth-failure", "no-such-file", "disk-full",
      "read-only-fs", "segfault", "command-not-found", "db-connection",
      "db-error", "level-fatal", "level-critical", "level-error">>

-----------------------------------------------------------------------------

(* What a line of a pod's description does to the signals a.s: an image line *)
(* is attached to the containers collected so far, a status line adds one,   *)
(* and the lines on states are about the one added last.                     *)
PodDescriptionLine(a, l) ==
    LET Containers(cs) == [a EXCEPT !.s = [@ EXCEPT !.containers = cs]]
        cs == a.s.containers
        Current(cur) == Containers([cs EXCEPT ![Len(cs)] = cur])
    IN CASE l[1] = "phase" -> [a EXCEPT !.s = [@ EXCEPT !.podPhase = l[2]]]
         [] l[1] = "container" -> [a EXCEPT !.spec = l[2]]
         [] l[1] = "image" /\ a.spec # "" ->
              Containers([k \in 1..Len(cs) |->
                            IF cs[k].name = a.spec THEN [cs[k] EXCEPT !.image = l[2]]
                            ELSE cs[k]])
         [] l[1] = "status" ->
              [Containers(Append(cs, [NoContainer EXCEPT !.name = l[2]]))
                 EXCEPT !.current = TRUE]
         [] l[1] = "waiting" /\ a.current /\ l[2] # "" ->
              Current([cs[Len(cs)] EXCEPT !.type = "Waiting", !.reason = l[2]])
         [] l[1] = "terminated" /\ a.current /\ l[3] # "" ->
              Current([cs[Len(cs)] EXCEPT !.type = "Terminated", !.reason = l[3],
                                          !.code = l[2]])
         [] l[1] = "lastTermination" /\ a.current ->
              Current([cs[Len(cs)] EXCEPT !.lastReason = l[3], !.lastCode = l[2]])
         [] OTHER -> a

parsePodDescription(lines, s) ==
    LET after[k \in 0..Len(lines)] ==
            IF k = 0 THEN [s |-> s, spec |-> "", current |-> FALSE]
            ELSE PodDescriptionLine(after[k - 1], lines[k])
    IN after[Len(lines)].s

parsePodEvents(lines, s) ==
    LET evs == SelectSeq(lines, LAMBDA l : l[1] = "event")
    IN [s EXCEPT !.events = @ \o [k \in 1..Len(evs) |->
                                    [reason |-> evs[k][2], message |-> evs[k][3]]]]

(* The line an entry quotes: the first that is neither blank nor a header in *)
(* the window of three lines before and one after the match.                 *)
Window(lines, k) == <<IF k > 3 THEN k - 3 ELSE 1,
                      IF k < Len(lines) THEN k + 1 ELSE k>>

firstNonEmptyLine(lines, k) ==
    LET w == Window(lines, k)
    IN SelectInSubSeq(lines, w[1], w[2],
                      LAMBDA l : l[1] \notin {"blank", "header"})

(* A line carries the patterns it matches, and the first of the table names  *)
(* it.  The note of a failed fetch is a line like any other and says "error".*)
PatternOf(l) ==
    LET matches == CASE l[1] = "log"        -> l[2]
                     [] l[1] = "fetchError" -> l[2] \cup {"level-error"}
                     [] OTHER               -> {}
        k == SelectInSeq(logErrorPatterns, LAMBDA p : p \in matches)
    IN IF k = 0 THEN "none" ELSE logErrorPatterns[k]

parsePodLogs(lines, s) ==
    LET Scan(found, k) ==
            IF Len(found) >= MaxMatches \/ PatternOf(lines[k]) = "none"
            THEN found
            ELSE Append(found, [pattern |-> PatternOf(lines[k]),
                                line |-> lines[k],
                                quote |-> lines[firstNonEmptyLine(lines, k)]])
    IN [s EXCEPT !.logErrors = @ \o FoldLeftDomain(Scan, <<>>, lines)]

(* The i-th part of the last line that passes the test; the signal is left   *)
(* as it was if none does.                                                   *)
Latest(lines, Test(_), i, before) ==
    LET k == SelectLastInSeq(lines, Test) IN IF k = 0 THEN before ELSE lines[k][i]

parseOwnerChain(lines, s) ==
    LET Deployment(l) == l[1] = "owner" /\ l[2] = "Deployment"
        Replicas(l) == l[1] = "replicas"
    IN [s EXCEPT !.deployment = Latest(lines, Deployment, 3, @),
                 !.desired = Latest(lines, Replicas, 2, @),
                 !.ready = Latest(lines, Replicas, 3, @)]

(* A deployment that is known already is kept.                               *)
parseReplicaSetStatus(lines, s) ==
    LET Deployment(l) == l[1] = "deployment"
        Replicas(l) == l[1] = "desired"
        Condition(l) == l[1] = "condition" /\ l[2] # ""
    IN [s EXCEPT !.deployment = IF @ # "" THEN @
                                ELSE Lookup(lines, Deployment, <<"deployment", "">>)[2],
                 !.desired = Latest(lines, Replicas, 2, @),
                 !.ready = Latest(lines, Replicas, 3, @),
                 !.rollout = Latest(lines, Condition, 2, @)]

(* Later claims overwrite earlier ones.                                      *)
parsePVCStatus(lines, s) ==
    LET Phase(l) == l[1] = "phase"
        Class(l) == l[1] = "storageClass"
    IN [s EXCEPT !.pvcPhase = Latest(lines, Phase, 2, @),
                 !.class = Latest(lines, Class, 2, @)]

(* Mutant of parseNodeConditions: a pressure condition counts whatever its   *)
(* status.                                                                   *)
parseNodeConditionsAnyStatus(lines, s) ==
    LET Has(type, statuses) ==
            \E k \in 1..Len(lines) : \E st \in statuses :
              lines[k] = <<"nodeCondition", type, st>>
    IN [s EXCEPT !.notReady = @ \/ Has("Ready", {"False", "Unknown"}),
                 !.memory = @ \/ Has("MemoryPressure", {"True", "False", "Unknown"}),
                 !.disk = @ \/ Has("DiskPressure", {"True", "False", "Unknown"})]

parseNodeConditions(lines, s) ==
    LET Has(type, statuses) ==
            \E k \in 1..Len(lines) : \E st \in statuses :
              lines[k] = <<"nodeCondition", type, st>>
    IN [s EXCEPT !.notReady = @ \/ Has("Ready", {"False", "Unknown"}),
                 !.memory = @ \/ Has("MemoryPressure", {"True"}),
                 !.disk = @ \/ Has("DiskPressure", {"True"})]

(* What a section adds to the signals, by its title.                         *)
ReadSection(s, x) ==
    IF x.error /\ x.content = <<>> THEN s
    ELSE CASE x.title = "Pod Description"   -> parsePodDescription(x.content, s)
           [] x.title = "Pod Events"        -> parsePodEvents(x.content, s)
           [] x.title = "Pod Logs"          -> parsePodLogs(x.content, s)
           [] x.title = "Owner Chain"       -> parseOwnerChain(x.content, s)
           [] x.title = "ReplicaSet Status" -> parseReplicaSetStatus(x.content, s)
           [] x.title = "PVC Status"        -> parsePVCStatus(x.content, s)
           [] x.title = "Node Conditions"   -> parseNodeConditions(x.content, s)
           [] OTHER -> s

extractSignals(sections) ==
    LET after[k \in 0..Len(sections)] ==
            IF k = 0 THEN NoSignals ELSE ReadSection(after[k - 1], sections[k])
    IN after[Len(sections)]

-----------------------------------------------------------------------------

(* An event ev is a fault event or a super-event (ev.super); ev.rule is the  *)
(* correlation rule of a super-event and ev.detector the detector of a fault *)
(* event, each "" for the other.                                             *)
Key(r) == <<r.kind, r.ns, r.name>>

bundleRelatedResources(ev) ==
    IF ev.super THEN {Key(ev.faults[k].resource) : k \in 1..Len(ev.faults)}
    ELSE {}

Report(ev, rule, severity, category, systemic) ==
    [event |-> ev.id, rule |-> rule, severity |-> severity,
     category |-> category, systemic |-> systemic,
     related |-> bundleRelatedResources(ev), container |-> NoContainer,
     quote |-> <<"none">>]

Rule(fires, report) == [fires |-> fires, report |-> report]

FirstEvent(s, why) ==
    Lookup(s.events, LAMBDA e : e.reason = why, [reason |-> why, message |-> ""])

hasCrashLoop(s) ==
    \E k \in 1..Len(s.containers) : s.containers[k].reason = "CrashLoopBackOff"

Crashed(s) ==
    Lookup(s.containers,
           LAMBDA cs : cs.reason = "CrashLoopBackOff" \/ cs.type = "Terminated",
           NoContainer)

logPatternCategory(p) ==
    CASE p \in {"connection-refused", "connection-reset", "timeout",
                "dns-failure", "tls-error", "db-connection"} -> "networking"
      [] p \in {"permission-denied", "auth-failure", "no-such-file",
                "command-not-found", "read-only-fs"} -> "configuration"
      [] p \in {"disk-full", "oom", "java-oom"} -> "resources"
      [] OTHER -> "application"

ruleOOMKilled(ev, s) ==
    LET Killed(cs) == cs.reason = "OOMKilled" \/ cs.lastReason = "OOMKilled"
        cs == Lookup(s.containers, Killed, NoContainer)
    IN Rule(cs # NoContainer,
            [Report(ev, "OOMKilled", "critical", "resources", ev.super)
               EXCEPT !.container = cs])

ruleNodeNotReady(ev, s) ==
    Rule(s.notReady, Report(ev, "NodeNotReady", "critical", "node", TRUE))

ruleNodePressure(ev, s) ==
    Rule(s.memory \/ s.disk, Report(ev, "NodePressure", "warning", "node", TRUE))

rulePVCStuckPending(ev, s) ==
    Rule(s.pvcPhase = "Pending" \/ ev.detector = "PVCStuckBinding",
         Report(ev, "PVCStuckPending", "warning", "storage", ev.super))

ruleSchedulingFailed(ev, s) ==
    Rule(FirstEvent(s, "FailedScheduling").message # "",
         Report(ev, "SchedulingFailed", "warning", "scheduling", ev.super))

ruleImagePullError(ev, s) ==
    LET Unpulled(cs) == cs.reason \in {"ImagePullBackOff", "ErrImagePull",
                                       "ErrImageNeverPull"}
        cs == Lookup(s.containers, Unpulled, NoContainer)
    IN Rule(cs # NoContainer,
            [Report(ev, "ImagePullError", "warning", "configuration", FALSE)
               EXCEPT !.container = cs])

rulePodStuckPending(ev, s) ==
    Rule(s.podPhase = "Pending" \/ ev.detector = "PodStuckPending",
         Report(ev, "PodStuckPending", "warning", "scheduling", ev.super))

ruleProbeFailure(ev, s) ==
    Rule(FirstEvent(s, "Unhealthy").message # "",
         Report(ev, "ProbeFailure", "warning", "application", FALSE))

ruleCrashLoopWithLogs(ev, s) ==
    LET fires == hasCrashLoop(s) /\ s.logErrors # <<>>
    IN Rule(fires,
            IF ~fires THEN {}
            ELSE [Report(ev, "CrashLoopWithLogs", ev.severity,
                         logPatternCategory(s.logErrors[1].pattern), ev.super)
                    EXCEPT !.container = Crashed(s),
                           !.quote = s.logErrors[1].quote])

ruleDeploymentRollout(ev, s) ==
    Rule(\/ s.rollout = "MinimumReplicasUnavailable"
         \/ s.deployment # "" /\ s.desired > 0 /\ s.ready < s.desired
         \/ ev.rule = "DeploymentRollout",
         Report(ev, "DeploymentRollout", ev.severity, "application", TRUE))

ruleJobDeadlineExceeded(ev, s) ==
    Rule(ev.detector = "JobDeadlineExceeded",
         Report(ev, "JobDeadlineExceeded", "warning", "application", FALSE))

(* Mutant of rulePodFailed: only the gathered phase counts.                  *)
rulePodFailedByPhase(ev, s) ==
    Rule(s.podPhase = "Failed",
         Report(ev, "PodFailed", ev.severity, "application", ev.super))

rulePodFailed(ev, s) ==
    Rule(s.podPhase = "Failed" \/ ev.detector = "PodFailed",
         Report(ev, "PodFailed", ev.severity, "application", ev.super))

ruleGenericCrashLoop(ev, s) ==
    Rule(hasCrashLoop(s),
         [Report(ev, "GenericCrashLoop", ev.severity, "application", ev.super)
            EXCEPT !.container = Crashed(s)])

ruleGenericFromLogs(ev, s) ==
    Rule(s.logErrors # <<>>,
         IF s.logErrors = <<>> THEN {}
         ELSE [Report(ev, "GenericFromLogs", ev.severity,
                      logPatternCategory(s.logErrors[1].pattern), ev.super)
                 EXCEPT !.quote = s.logErrors[1].quote])

ruleFallback(ev, s) ==
    Rule(TRUE, Report(ev, "Fallback", ev.severity, "unknown", ev.super))

(* Mutant of rulesChain: the storage rule is tried before the node's.        *)
rulesChainStorageFirst(ev, s) ==
    <<ruleOOMKilled(ev, s), rulePVCStuckPending(ev, s), ruleNodeNotReady(ev, s),
      ruleNodePressure(ev, s), ruleSchedulingFailed(ev, s),
      ruleImagePullError(ev, s), rulePodStuckPending(ev, s),
      ruleProbeFailure(ev, s), ruleCrashLoopWithLogs(ev, s),
      ruleDeploymentRollout(ev, s), ruleJobDeadlineExceeded(ev, s),
      rulePodFailed(ev, s), ruleGenericCrashLoop(ev, s),
      ruleGenericFromLogs(ev, s), ruleFallback(ev, s)>>

rulesChain(ev, s) ==
    <<ruleOOMKilled(ev, s), ruleNodeNotReady(ev, s), ruleNodePressure(ev, s),
      rulePVCStuckPending(ev, s), ruleSchedulingFailed(ev, s),
      ruleImagePullError(ev, s), rulePodStuckPending(ev, s),
      ruleProbeFailure(ev, s), ruleCrashLoopWithLogs(ev, s),
      ruleDeploymentRollout(ev, s), ruleJobDeadlineExceeded(ev, s),
      rulePodFailed(ev, s), ruleGenericCrashLoop(ev, s),
      ruleGenericFromLogs(ev, s), ruleFallback(ev, s)>>

AnalyzeBundle(ev, sections) ==
    LET chain == rulesChain(ev, extractSignals(sections))
    IN chain[SelectInSeq(chain, LAMBDA r : r.fires)].report
=============================================================================
