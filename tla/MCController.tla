---------------------------- MODULE MCController ----------------------------
(* Two replicas; the lease of 15 s, 10 s and 2 s and the heartbeat of 10 s   *)
(* and 30 s are kept in their order, not in their ratio.                     *)
EXTENDS Controller
=============================================================================
