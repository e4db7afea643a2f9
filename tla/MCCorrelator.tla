---------------------------- MODULE MCCorrelator ----------------------------
(* A small cluster for Correlator: one node, two namespaces that both have a *)
(* deployment d, one claim, and pods that belong to several groups at once.  *)
EXTENDS Correlator

Pod(ns, name, sev, node, deploy, claim) ==
    [detector |-> "PodFailed", kind |-> "Pod", ns |-> ns, name |-> name,
     sev |-> sev, node |-> node, deploy |-> deploy, claim |-> claim]

Object(detector, kind, ns, name, sev) ==
    [detector |-> detector, kind |-> kind, ns |-> ns, name |-> name, sev |-> sev,
     node |-> "", deploy |-> "", claim |-> ""]

MCFaults ==
    {Object("NodeNotReady", "Node", "", "n1", "critical"),
     Object("PVCStuckBinding", "PersistentVolumeClaim", "a", "c1", "warning"),
     Pod("a", "p1", "warning", "n1", "d", ""),
     Pod("a", "p2", "info", "n1", "d", "c1"),
     Pod("a", "p3", "warning", "", "d", "c1"),
     Pod("b", "p4", "critical", "n1", "d", "")}

AllRules == RuleNames
=============================================================================
