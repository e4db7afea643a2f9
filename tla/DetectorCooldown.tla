-------------------------- MODULE DetectorCooldown --------------------------
(* The cooldown gate of internal/detector/base.go, through which every       *)
(* built-in detector emits, as it is used by several goroutines.  What the   *)
(* goroutines look at is in DetectorBridge.                                  *)
(*                                                                           *)
(* Times are kept as ages, counted in ticks up to MaxAge: the code only      *)
(* compares differences with cooldown and 2 * cooldown.                      *)
EXTENDS Integers

CONSTANTS
    Keys,        \* keys of the table: a detector's name and a UID
    Checkers,    \* goroutines that call Check
    Cooldown     \* BaseDetector.cooldown, in ticks

ASSUME CooldownAssumption == Cooldown \in Nat \ {0}

MaxAge == 2 * Cooldown + 1   \* older than anything the code distinguishes
Never == MaxAge + 1          \* no entry in the map

VARIABLES
    lastFired,   \* age of the entry lastFired[f], or Never
    step,        \* step[g]: where goroutine g is inside Emit
    target,      \* target[g]: what it emits
    stamp,       \* stamp[g]: age of the time RecordFire read
    sinceStamp   \* history: age of the youngest firing of f, or Never

cooldownVars == <<lastFired, step, target, stamp, sinceStamp>>

CooldownInit ==
    /\ lastFired = [f \in Keys |-> Never]
    /\ step = [g \in Checkers |-> "idle"]
    /\ target = [g \in Checkers |-> "none"]
    /\ stamp = [g \in Checkers |-> 0]
    /\ sinceStamp = [f \in Keys |-> Never]

(* Mutants of CooledDown: one tick short; a fault fires only once.           *)
CooledDownEarly(f) == lastFired[f] + 1 >= Cooldown

CooledDownOnce(f) == lastFired[f] = Never

(* ShouldFire: suppressed while the last entry is younger than the cooldown. *)
CooledDown(f) == lastFired[f] >= Cooldown

(* Emit goes on if ShouldFire says so, and returns otherwise.                *)
ShouldFire(g, f) ==
    /\ step[g] = "idle"
    /\ IF CooledDown(f)
       THEN /\ step' = [step EXCEPT ![g] = "passed"]
            /\ target' = [target EXCEPT ![g] = f]
       ELSE UNCHANGED <<step, target>>
    /\ UNCHANGED <<lastFired, stamp, sinceStamp>>

(* RecordFire reads the clock before it takes the mutex ...                  *)
RecordFireNow(g) ==
    /\ step[g] = "passed"
    /\ step' = [step EXCEPT ![g] = "stamped"]
    /\ stamp' = [stamp EXCEPT ![g] = 0]
    /\ sinceStamp' = [sinceStamp EXCEPT ![target[g]] = 0]
    /\ UNCHANGED <<lastFired, target>>

(* ... and then writes the entry.                                            *)
RecordFire(g) ==
    /\ step[g] = "stamped"
    /\ lastFired' = [lastFired EXCEPT ![target[g]] = stamp[g]]
    /\ step' = [step EXCEPT ![g] = "recorded"]
    /\ UNCHANGED <<target, stamp, sinceStamp>>

(* Emit calls the detector's callback ...                                    *)
CallbackBegins(g) ==
    /\ step[g] = "recorded"
    /\ step' = [step EXCEPT ![g] = "calling"]
    /\ UNCHANGED <<lastFired, target, stamp, sinceStamp>>

(* ... and returns when the callback has returned.                           *)
Emitted(g) ==
    /\ step[g] = "calling"
    /\ step' = [step EXCEPT ![g] = "idle"]
    /\ target' = [target EXCEPT ![g] = "none"]
    /\ UNCHANGED <<lastFired, stamp, sinceStamp>>

Expired(f) == lastFired[f] # Never /\ lastFired[f] > 2 * Cooldown

(* CleanupExpiredEntries drops entries older than twice the cooldown.        *)
CleanupExpiredEntries ==
    /\ \E f \in Keys : Expired(f)
    /\ lastFired' = [f \in Keys |-> IF Expired(f) THEN Never ELSE lastFired[f]]
    /\ UNCHANGED <<step, target, stamp, sinceStamp>>

Older(a) == IF a < MaxAge THEN a + 1 ELSE a

CooldownAges ==
    /\ lastFired' = [f \in Keys |-> Older(lastFired[f])]
    /\ stamp' = [g \in Checkers |-> IF step[g] = "stamped" THEN Older(stamp[g]) ELSE 0]
    /\ sinceStamp' = [f \in Keys |-> Older(sinceStamp[f])]
    /\ UNCHANGED <<step, target>>
=============================================================================
