--------------------------- MODULE CircuitBreaker ---------------------------
(* internal/analyzer/circuit_breaker.go, used by several analysis workers at *)
(* once.  The mutex is held while the state is read and while a result is    *)
(* recorded, not during the call to the backend: between the two, other      *)
(* callers move the breaker.                                                 *)
EXTENDS Integers

CONSTANTS
    Callers,        \* analysis workers sharing the breaker
    Threshold,      \* cfg.ConsecutiveFailures
    OpenDuration,   \* cfg.OpenDuration, in clock ticks
    MaxFailures     \* bound: the failure counter stops here; it is only ever
                    \* compared with Threshold

ASSUME BreakerAssumption ==
    /\ Threshold \in Nat \ {0}
    /\ OpenDuration \in Nat \ {0}
    /\ MaxFailures \in Nat /\ MaxFailures >= Threshold

VARIABLES
    state,      \* cb.state
    failures,   \* cb.consecutiveFailures
    elapsed,    \* now - cb.openedAt while open, up to OpenDuration
    call,       \* call[c]: the state caller c saw when it called the primary
    willFail,   \* willFail[c]: the backend was down when that call reached it
    up,         \* the backend works
    restLeft    \* history: the ticks of rest the backend is still owed

vars == <<state, failures, elapsed, call, willFail, up, restLeft>>

Init ==
    /\ state = "closed"
    /\ failures = 0
    /\ elapsed = 0
    /\ call = [c \in Callers |-> "none"]
    /\ willFail = [c \in Callers |-> FALSE]
    /\ up \in BOOLEAN
    /\ restLeft = 0

(* Mutant of currentState: the breaker never leaves open.                    *)
currentStateStuck == state

(* currentStateLocked: the time-based move happens when somebody looks.      *)
currentState ==
    IF state = "open" /\ elapsed >= OpenDuration THEN "half-open" ELSE state

(* Analyze, first critical section: an open breaker answers from the         *)
(* fallback, otherwise the primary is called with the mutex released.        *)
Analyze(c) ==
    /\ call[c] = "none"
    /\ state' = currentState
    /\ IF currentState = "open"
       THEN UNCHANGED <<call, willFail>>
       ELSE /\ call' = [call EXCEPT ![c] = currentState]
            /\ willFail' = [willFail EXCEPT ![c] = ~up]
    /\ UNCHANGED <<failures, elapsed, up, restLeft>>

(* The primary answers: recordSuccess.  A backend that answers is owed no    *)
(* more rest.                                                                *)
recordSuccess(c) ==
    /\ call[c] # "none"
    /\ ~willFail[c]
    /\ failures' = 0
    /\ state' = "closed"
    /\ call' = [call EXCEPT ![c] = "none"]
    /\ restLeft' = 0
    /\ UNCHANGED <<elapsed, willFail, up>>

(* A circuit that opens owes the backend a whole rest.                       *)
OpeningOwesRest ==
    restLeft' = IF state # "open" /\ state' = "open" THEN OpenDuration ELSE restLeft

(* Mutants of recordFailure: ">" instead of ">="; openedAt is not set when a *)
(* probe fails, so that the rest counts from the first opening.              *)
recordFailureLate(c) ==
    /\ call[c] # "none"
    /\ willFail[c]
    /\ failures' = IF failures < MaxFailures THEN failures + 1 ELSE failures
    /\ IF \/ state = "half-open"
          \/ state = "closed" /\ failures + 1 > Threshold
       THEN state' = "open" /\ elapsed' = 0
       ELSE UNCHANGED <<state, elapsed>>
    /\ call' = [call EXCEPT ![c] = "none"]
    /\ willFail' = [willFail EXCEPT ![c] = FALSE]
    /\ OpeningOwesRest
    /\ UNCHANGED up

recordFailureStale(c) ==
    /\ call[c] # "none"
    /\ willFail[c]
    /\ failures' = IF failures < MaxFailures THEN failures + 1 ELSE failures
    /\ IF \/ state = "half-open"
          \/ state = "closed" /\ failures + 1 >= Threshold
       THEN state' = "open" /\ elapsed' = (IF state = "half-open" THEN elapsed ELSE 0)
       ELSE UNCHANGED <<state, elapsed>>
    /\ call' = [call EXCEPT ![c] = "none"]
    /\ willFail' = [willFail EXCEPT ![c] = FALSE]
    /\ OpeningOwesRest
    /\ UNCHANGED up

(* The primary fails: recordFailure.  The caller that saw a closed breaker   *)
(* returns the error, the one that saw it half-open takes the fallback.      *)
recordFailure(c) ==
    /\ call[c] # "none"
    /\ willFail[c]
    /\ failures' = IF failures < MaxFailures THEN failures + 1 ELSE failures
    /\ IF \/ state = "half-open"
          \/ state = "closed" /\ failures + 1 >= Threshold
       THEN state' = "open" /\ elapsed' = 0
       ELSE UNCHANGED <<state, elapsed>>
    /\ call' = [call EXCEPT ![c] = "none"]
    /\ willFail' = [willFail EXCEPT ![c] = FALSE]
    /\ OpeningOwesRest
    /\ UNCHANGED up

(* Healthy and State look at the breaker too, and thereby move it.           *)
Healthy ==
    /\ state' = currentState
    /\ UNCHANGED <<failures, elapsed, call, willFail, up, restLeft>>

Resting == state = "open" /\ elapsed < OpenDuration

ClockTick ==
    /\ Resting \/ restLeft > 0
    /\ elapsed' = IF Resting THEN elapsed + 1 ELSE elapsed
    /\ restLeft' = IF restLeft > 0 THEN restLeft - 1 ELSE 0
    /\ UNCHANGED <<state, failures, call, willFail, up>>

BackendFlips ==
    /\ up' = ~up
    /\ UNCHANGED <<state, failures, elapsed, call, willFail, restLeft>>

Returns(c) == recordSuccess(c) \/ recordFailure(c)

Next ==
    \/ \E c \in Callers : Analyze(c) \/ Returns(c)
    \/ Healthy \/ ClockTick \/ BackendFlips

SafeSpec == Init /\ [][Next]_vars

-----------------------------------------------------------------------------
(* Correctness *)

States == {"closed", "open", "half-open"}

(* Every variable keeps its type.                                            *)
TypeOK ==
    /\ state \in States
    /\ failures \in 0..MaxFailures
    /\ elapsed \in 0..OpenDuration
    /\ call \in [Callers -> {"none", "closed", "half-open"}]
    /\ willFail \in [Callers -> BOOLEAN]
    /\ up \in BOOLEAN
    /\ restLeft \in 0..OpenDuration

(* Whatever calls were under way when it tripped, the breaker is away from   *)
(* closed exactly as long as at least Threshold failures were recorded since *)
(* the last success: late results of old calls can neither open it early nor *)
(* leave it closed past the threshold.                                       *)
TripsAtThreshold == (state = "closed") <=> (failures < Threshold)

(* Every time the circuit opens, at the threshold or by a failed probe, the  *)
(* backend gets a whole OpenDuration without new calls, whatever results of  *)
(* older calls come in meanwhile: only an answer of the backend itself (a    *)
(* success of a call that was still under way) ends the rest before its time.*)
RestIsRespected ==
    [][\A c \in Callers : (call[c] = "none" /\ call'[c] # "none")
        => restLeft = 0]_vars

(* Once the backend works for good, so does the breaker: stale failures are  *)
(* absorbed, a probe is let through and the breaker closes and stays closed. *)
RecoversWithBackend == <>[]up => <>[](state = "closed")
=============================================================================
