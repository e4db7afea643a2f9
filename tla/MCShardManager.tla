--------------------------- MODULE MCShardManager ---------------------------
(* Small instances of ShardManager: two pods and two namespaces that hash    *)
(* to different buckets when there are two.                                  *)
EXTENDS ShardManager

CONSTANTS a, b, x

MCBucket == [n \in 1..2 |-> [ns \in Namespaces |-> IF n = 2 /\ ns = b THEN 1 ELSE 0]]
=============================================================================
