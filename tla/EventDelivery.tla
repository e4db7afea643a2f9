---------------------------- MODULE EventDelivery ----------------------------
(* What the pipeline promises the detectors, without stages, queues or       *)
(* workers: an accepted fault event is eventually put before every sink;     *)
(* only a pipeline that is stopping may lose one.                            *)
CONSTANT Events

VARIABLES
    accepted,   \* events the pipeline took responsibility for
    settled,    \* events whose report every sink has been offered
    lost,       \* events given up
    stopping    \* TRUE once the pipeline is asked to stop

vars == <<accepted, settled, lost, stopping>>

Init ==
    /\ accepted = {}
    /\ settled = {}
    /\ lost = {}
    /\ stopping = FALSE

Open == accepted \ (settled \cup lost)

Accept(e) ==
    /\ e \notin accepted
    /\ accepted' = accepted \cup {e}
    /\ UNCHANGED <<settled, lost, stopping>>

(* One report settles all the events that were correlated into it.           *)
Settle ==
    /\ \E E \in SUBSET Open :
        /\ E # {}
        /\ settled' = settled \cup E
    /\ UNCHANGED <<accepted, lost, stopping>>

(* A late event may be lost the moment it is accepted.                       *)
Lose ==
    /\ stopping
    /\ \E E \in SUBSET Events :
        /\ E # {}
        /\ E \cap (settled \cup lost) = {}
        /\ lost' = lost \cup E
        /\ accepted' = accepted \cup E
    /\ UNCHANGED <<settled, stopping>>

StopRequested ==
    /\ stopping' = TRUE
    /\ UNCHANGED <<accepted, settled, lost>>

Next == (\E e \in Events : Accept(e)) \/ Settle \/ Lose \/ StopRequested

SafeSpec == Init /\ [][Next]_vars

(* While nobody asks it to stop, the pipeline settles every accepted event.  *)
ServesWhileRunning ==
    \A e \in Events : e \in accepted ~> (e \in settled \/ stopping)
=============================================================================
