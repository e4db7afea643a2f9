--------------------------- MODULE MCPriorityQueue ---------------------------
(* Small instances of PriorityQueue.                                         *)
EXTENDS PriorityQueue

CONSTANTS c1, w1, w2

(* A critical item and two warnings, so that both priority and FIFO order    *)
(* within a priority are exercised.                                          *)
MCSeverity == [i \in Items |->
                 IF i = c1 THEN "critical" ELSE "warning"]
=============================================================================
