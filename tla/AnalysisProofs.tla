--------------------------- MODULE AnalysisProofs ---------------------------
(* Proofs about the analysis of a fault.                                     *)
(*                                                                           *)
(* CircuitBreaker and RateLimiter: the breaker trips and rests as it should, *)
(* behind the limiter too, and the budgets are overdrawn by a bounded amount *)
(* only, for any number of callers, any threshold, any budgets and any cost  *)
(* of a call.                                                                *)
(*                                                                           *)
(* Diagnosis: what the gatherers write and the rules read back, for any      *)
(* event, any states of the cluster and sections of any length.  DiagnosisInv*)
(* traces every section to its gatherer, a resource of the event and a state *)
(* the cluster was in; the lemmas on the parsers trace every signal to a     *)
(* section, and those on the chain of rules every report to a signal.        *)
EXTENDS RateLimiter, Diagnosis, TLAPS, FiniteSetTheorems

-----------------------------------------------------------------------------
(* The breaker alone.  TripsAtThreshold and RestInv are inductive together   *)
(* with TypeOK.                                                              *)

(* A rest that is owed is one that the open circuit is still waiting out.    *)
RestInv == restLeft > 0 => state = "open" /\ restLeft + elapsed = OpenDuration

BreakerInv == TypeOK /\ TripsAtThreshold /\ RestInv

(* The breaker starts closed with no failure counted.                        *)
LEMMA BreakerInit == Init => BreakerInv
BY BreakerAssumption DEF Init, BreakerInv, TypeOK, TripsAtThreshold, RestInv, States

(* Looking at the breaker moves it from open to half-open and never to or    *)
(* from closed.                                                              *)
LEMMA LookKeepsClosed ==
    ASSUME TypeOK
    PROVE  /\ currentState \in States
           /\ currentState = "closed" <=> state = "closed"
BY DEF TypeOK, States, currentState

(* Nor does it cut a rest short.                                             *)
LEMMA LookKeepsRest ==
    ASSUME TypeOK, RestInv, restLeft > 0
    PROVE  currentState = "open" /\ state = "open"
BY BreakerAssumption DEF TypeOK, RestInv, currentState

(* Every step of the callers, of the clock and of the backend keeps the      *)
(* types and the links of the failure counter and of the rest to the state.  *)
LEMMA BreakerStep == BreakerInv /\ [Next]_vars => BreakerInv'
<1> SUFFICES ASSUME BreakerInv, [Next]_vars PROVE BreakerInv'
  OBVIOUS
<1> USE BreakerAssumption DEF BreakerInv, TypeOK, TripsAtThreshold, RestInv
<1>1. ASSUME NEW c \in Callers, Analyze(c) PROVE BreakerInv'
  <2>1. state' \in States /\ (state' = "closed" <=> state = "closed")
    BY <1>1, LookKeepsClosed DEF Analyze
  <2>2. call' \in [Callers -> {"none", "closed", "half-open"}]
    <3>1. CASE currentState = "open"
      BY <1>1, <3>1 DEF Analyze
    <3>2. CASE currentState # "open"
      BY <1>1, <3>2, LookKeepsClosed DEF Analyze, States
    <3> QED BY <3>1, <3>2
  <2>3. willFail' \in [Callers -> BOOLEAN]
    BY <1>1 DEF Analyze
  <2>4. RestInv'
    BY <1>1, LookKeepsRest DEF Analyze
  <2> QED BY <1>1, <2>1, <2>2, <2>3, <2>4 DEF Analyze
<1>2. ASSUME NEW c \in Callers, recordSuccess(c) PROVE BreakerInv'
  BY <1>2 DEF recordSuccess, States
<1>3. ASSUME NEW c \in Callers, recordFailure(c) PROVE BreakerInv'
  <2>1. /\ failures' \in 0..MaxFailures
        /\ call' \in [Callers -> {"none", "closed", "half-open"}]
        /\ willFail' \in [Callers -> BOOLEAN]
        /\ up' = up
    BY <1>3 DEF recordFailure
  <2>5. restLeft' = IF state # "open" /\ state' = "open" THEN OpenDuration ELSE restLeft
    BY <1>3 DEF recordFailure, OpeningOwesRest
  <2>2. failures' = failures + 1 \/ (failures' = failures /\ failures = MaxFailures)
    BY <1>3 DEF recordFailure
  <2>3. CASE state = "half-open" \/ (state = "closed" /\ failures + 1 >= Threshold)
    <3>1. state' = "open" /\ elapsed' = 0
      BY <1>3, <2>3 DEF recordFailure
    <3>2. failures' >= Threshold
      BY <2>2, <2>3
    <3> QED BY <2>1, <2>3, <2>5, <3>1, <3>2 DEF States
  <2>4. CASE ~(state = "half-open" \/ (state = "closed" /\ failures + 1 >= Threshold))
    <3>1. state' = state /\ elapsed' = elapsed
      BY <1>3, <2>4 DEF recordFailure
    <3>2. (state = "closed") <=> (failures' < Threshold)
      BY <2>2, <2>4 DEF States
    <3> QED BY <2>1, <2>5, <3>1, <3>2
  <2> QED BY <2>3, <2>4
<1>4. CASE Healthy
  <2>1. RestInv'
    BY <1>4, LookKeepsRest DEF Healthy
  <2> QED BY <1>4, <2>1, LookKeepsClosed DEF Healthy
<1>5. CASE ClockTick
  BY <1>5 DEF ClockTick, Resting
<1>6. CASE BackendFlips
  BY <1>6 DEF BackendFlips
<1>7. CASE UNCHANGED vars
  BY <1>7 DEF vars
<1> QED BY <1>1, <1>2, <1>3, <1>4, <1>5, <1>6, <1>7 DEF Next, Returns

(* Type correctness of the breaker, whatever calls overlap.                  *)
THEOREM BreakerTypeCorrect == SafeSpec => []TypeOK
<1>1. Init => BreakerInv
  BY BreakerInit
<1>2. BreakerInv /\ [Next]_vars => BreakerInv'
  BY BreakerStep
<1>3. BreakerInv => TypeOK
  BY DEF BreakerInv
<1> QED BY <1>1, <1>2, <1>3, PTL DEF SafeSpec

(* The breaker is away from closed exactly while at least Threshold failures *)
(* have been recorded since the last success, for every number of callers.   *)
THEOREM TripsAtThresholdCorrect == SafeSpec => []TripsAtThreshold
<1>1. Init => BreakerInv
  BY BreakerInit
<1>2. BreakerInv /\ [Next]_vars => BreakerInv'
  BY BreakerStep
<1>3. BreakerInv => TripsAtThreshold
  BY DEF BreakerInv
<1> QED BY <1>1, <1>2, <1>3, PTL DEF SafeSpec

(* Every opening gives the backend a whole rest (currentStateLocked,         *)
(* recordFailure): by RestInv a rest that is owed finds the circuit open and *)
(* too young for a probe, and only a success clears what is owed.            *)
THEOREM RestIsRespectedCorrect == SafeSpec => RestIsRespected
<1> DEFINE Rested == \A c \in Callers : (call[c] = "none" /\ call'[c] # "none")
                        => restLeft = 0
<1>1. BreakerInv /\ [Next]_vars => [Rested]_vars
  <2> SUFFICES ASSUME BreakerInv, Next PROVE Rested
    OBVIOUS
  <2> USE DEF BreakerInv
  <2> SUFFICES ASSUME NEW c \in Callers, call[c] = "none", call'[c] # "none",
                      restLeft > 0
               PROVE  FALSE
    BY BreakerAssumption DEF TypeOK
  <2>1. ASSUME NEW d \in Callers, Analyze(d) PROVE FALSE
    <3>1. currentState = "open"
      BY LookKeepsRest
    <3> QED BY <2>1, <3>1 DEF Analyze
  <2>2. ASSUME NEW d \in Callers, Returns(d) PROVE FALSE
    BY <2>2 DEF Returns, recordSuccess, recordFailure, TypeOK
  <2>3. CASE Healthy \/ ClockTick \/ BackendFlips
    BY <2>3 DEF Healthy, ClockTick, BackendFlips
  <2> QED BY <2>1, <2>2, <2>3 DEF Next
<1>2. Init => BreakerInv
  BY BreakerInit
<1>3. BreakerInv /\ [Next]_vars => BreakerInv'
  BY BreakerStep
<1> QED BY <1>1, <1>2, <1>3, PTL DEF SafeSpec, RestIsRespected

-----------------------------------------------------------------------------
(* The breaker inside *)

(* Every step of the limiter is a step of the breaker or leaves it alone.    *)
LEMMA LimiterStepIsBreakerStep == [LimiterNext]_limiterVars => [Next]_vars
<1> SUFFICES ASSUME [LimiterNext]_limiterVars PROVE [Next]_vars
  OBVIOUS
<1>1. ASSUME NEW c \in Callers, Calls(c) PROVE [Next]_vars
  BY <1>1 DEF Calls, AnalyzeWithinBudget, AnalyzeOverBudget, CallPrimary,
              limiterVars, vars, Next
<1>2. ASSUME NEW c \in Callers, Answers(c) PROVE [Next]_vars
  BY <1>2 DEF Answers, PrimarySucceeds, PrimaryFails, ChargeTokens, Next, Returns
<1>3. CASE Looks \/ Ticks \/ Flips
  BY <1>3 DEF Looks, Ticks, Flips, Next
<1>4. CASE HourPasses
  BY <1>4 DEF HourPasses, vars
<1>5. CASE UNCHANGED limiterVars
  BY <1>5 DEF limiterVars, vars
<1> QED BY <1>1, <1>2, <1>3, <1>4, <1>5 DEF LimiterNext

(* A circuit breaker behind a rate limiter is a circuit breaker: the limiter *)
(* only withholds calls.                                                     *)
THEOREM LimiterImplementsBreaker == LimiterSafeSpec => SafeSpec
<1>1. LimiterInit => Init
  BY DEF LimiterInit
<1> QED BY <1>1, LimiterStepIsBreakerStep, PTL DEF LimiterSafeSpec, SafeSpec

(* So the breaker trips at its threshold (recordFailure) behind the limiter  *)
(* too.                                                                      *)
THEOREM LimitedBreakerTrips == LimiterSafeSpec => []TripsAtThreshold
  BY LimiterImplementsBreaker, TripsAtThresholdCorrect, PTL

(* And the backend gets a whole rest each time the circuit opens, unless it  *)
(* answers before.                                                           *)
THEOREM LimitedBreakerRests == LimiterSafeSpec => RestIsRespected
  BY LimiterImplementsBreaker, RestIsRespectedCorrect, PTL

-----------------------------------------------------------------------------
(* The budgets *)

Windows == [tokens : Nat, current : BOOLEAN]

(* What a window that is used up can still be charged with is what is under  *)
(* way, and of that there is never more than one call for each caller.       *)
Charged(w, budget, n) ==
    (budget > 0 /\ w.current /\ w.tokens >= budget) =>
      w.tokens + MaxTokens * n <= budget - 1 + MaxTokens * Cardinality(Callers)

LimiterInv ==
    /\ BreakerInv
    /\ stage \in [Callers -> {"none", "admitted", "owes"}]
    /\ \A c \in Callers : stage[c] # "none" => call[c] = "none"
    /\ daily \in Windows /\ hourly \in Windows
    /\ Charged(daily, DailyTokenBudget, Cardinality(UnderWay))
    /\ Charged(hourly, HourlyTokenBudget, Cardinality(UnderWay))

LEMMA Product ==
    ASSUME NEW m \in Nat, NEW k \in Nat, NEW n \in Nat, k <= n
    PROVE  m * k \in Nat /\ m * n \in Nat /\ m * k <= m * n
  OBVIOUS

LEMMA ProductStep ==
    ASSUME NEW m \in Nat, NEW k \in Nat
    PROVE  m * (k + 1) = m * k + m
  OBVIOUS

(* The calls under way are finitely many, at most one for each caller.       *)
LEMMA UnderWayBound ==
    ASSUME TypeOK
    PROVE  /\ IsFiniteSet(UnderWay)
           /\ Cardinality(UnderWay) \in Nat
           /\ Cardinality(Callers) \in Nat
           /\ Cardinality(UnderWay) <= Cardinality(Callers)
  BY LimiterAssumption, FS_Subset, FS_CardinalityType DEF UnderWay

(* A caller that is idle again is no longer under way.                       *)
LEMMA CallEnds ==
    ASSUME TypeOK, NEW c \in Callers, ~Idle(c), Idle(c)',
           \A d \in Callers \ {c} : Idle(d)' <=> Idle(d)
    PROVE  Cardinality(UnderWay') \in Nat
           /\ Cardinality(UnderWay) = Cardinality(UnderWay') + 1
<1>1. c \in UnderWay /\ UnderWay' = UnderWay \ {c}
  BY DEF UnderWay
<1>2. IsFiniteSet(UnderWay) /\ IsFiniteSet(UnderWay \ {c})
  BY UnderWayBound, FS_Subset
<1>3. Cardinality(UnderWay \ {c}) = Cardinality(UnderWay) - 1
  BY <1>1, <1>2, FS_RemoveElement
<1> QED BY <1>1, <1>2, <1>3, FS_CardinalityType, UnderWayBound

(* Charging a call that was under way keeps a window within its bound.       *)
LEMMA ChargeOne ==
    ASSUME NEW w \in Windows, NEW budget \in Int, NEW t \in 0..MaxTokens,
           NEW k \in Nat, k + 1 <= Cardinality(Callers),
           Cardinality(Callers) \in Nat,
           Charged(w, budget, k + 1)
    PROVE  /\ Charged(w, budget, k)
           /\ t > 0 => Charged(Add(w, t), budget, k) /\ Add(w, t) \in Windows
<1> DEFINE n == Cardinality(Callers)
<1>1. MaxTokens \in Nat /\ t \in Nat /\ t <= MaxTokens
  BY LimiterAssumption
<1>2. MaxTokens * (k + 1) = MaxTokens * k + MaxTokens /\ MaxTokens * k \in Nat
  BY <1>1, ProductStep, Product
<1>3. MaxTokens * (k + 1) <= MaxTokens * n /\ MaxTokens * n \in Nat
  BY <1>1, Product, k + 1 \in Nat
<1>4. Charged(w, budget, k)
  BY <1>1, <1>2, <1>3 DEF Charged, Windows
<1>5. ASSUME t > 0 PROVE Charged(Add(w, t), budget, k) /\ Add(w, t) \in Windows
  <2> DEFINE base == IF w.current THEN w.tokens ELSE 0
  <2>1. Add(w, t) = [tokens |-> base + t, current |-> TRUE] /\ base \in Nat
    BY <1>1 DEF Add, Windows
  <2>2. CASE budget > 0 /\ w.current /\ w.tokens >= budget
    BY <2>1, <2>2, <1>1, <1>2, <1>3 DEF Charged, Windows
  <2>3. CASE budget > 0 /\ base < budget
    BY <2>1, <2>3, <1>1, <1>2, <1>3 DEF Charged, Windows
  <2>4. CASE ~(budget > 0)
    BY <2>1, <2>4, <1>1 DEF Charged, Windows
  <2> QED BY <2>1, <2>2, <2>3, <2>4 DEF Windows
<1> QED BY <1>4, <1>5

LEMMA LimiterInitInv == LimiterInit => LimiterInv
<1> SUFFICES ASSUME LimiterInit PROVE LimiterInv
  OBVIOUS
<1>1. BreakerInv
  BY BreakerInit DEF LimiterInit
<1>2. daily \in Windows /\ hourly \in Windows /\ ~daily.current /\ ~hourly.current
  BY DEF LimiterInit, Windows
<1>3. stage = [c \in Callers |-> "none"]
  BY DEF LimiterInit
<1> QED BY <1>1, <1>2, <1>3 DEF LimiterInv, Charged

(* Every step of LimiterNext preserves the bound.                            *)
LEMMA LimiterInvStep == LimiterInv /\ [LimiterNext]_limiterVars => LimiterInv'
<1> SUFFICES ASSUME LimiterInv, [LimiterNext]_limiterVars PROVE LimiterInv'
  OBVIOUS
<1> USE DEF LimiterInv
<1>0. BreakerInv'
  BY LimiterStepIsBreakerStep, BreakerStep
<1>1. ASSUME NEW c \in Callers, AnalyzeWithinBudget(c) PROVE LimiterInv'
  BY <1>0, <1>1 DEF AnalyzeWithinBudget, limiter, vars, Idle, isOverBudget,
                    Exhausted, Charged, Windows
<1>2. ASSUME NEW c \in Callers, AnalyzeOverBudget(c) PROVE LimiterInv'
  BY <1>0, <1>2 DEF AnalyzeOverBudget, limiterVars, UnderWay, Idle, Charged
(* A caller that comes back, with tokens to charge or without.               *)
<1>3. ASSUME NEW c \in Callers, ~Idle(c), Idle(c)',
             \A d \in Callers \ {c} : Idle(d)' <=> Idle(d),
             \/ UNCHANGED <<daily, hourly>>
             \/ \E t \in 0..MaxTokens : recordTokens(t)
      PROVE  /\ daily' \in Windows /\ hourly' \in Windows
             /\ Charged(daily', DailyTokenBudget, Cardinality(UnderWay'))
             /\ Charged(hourly', HourlyTokenBudget, Cardinality(UnderWay'))
  <2> DEFINE k == Cardinality(UnderWay')
  <2>2. k \in Nat /\ Cardinality(UnderWay) = k + 1
    BY <1>3, CallEnds DEF BreakerInv
  <2>3. Cardinality(Callers) \in Nat /\ k + 1 <= Cardinality(Callers)
    BY <2>2, UnderWayBound DEF BreakerInv
  <2> HIDE DEF k
  <2>4. ASSUME NEW t \in 0..MaxTokens
        PROVE  /\ Charged(daily, DailyTokenBudget, k)
               /\ Charged(hourly, HourlyTokenBudget, k)
               /\ t > 0 => /\ Charged(Add(daily, t), DailyTokenBudget, k)
                           /\ Charged(Add(hourly, t), HourlyTokenBudget, k)
                           /\ Add(daily, t) \in Windows
                           /\ Add(hourly, t) \in Windows
    BY <2>2, <2>3, ChargeOne, LimiterAssumption
  <2>5. CASE \E t \in 0..MaxTokens : recordTokens(t)
    <3>1. PICK t \in 0..MaxTokens : recordTokens(t)
      BY <2>5
    <3>2. daily' \in Windows /\ hourly' \in Windows
      BY <3>1, <2>4 DEF recordTokens
    <3>3. Charged(daily', DailyTokenBudget, k) /\ Charged(hourly', HourlyTokenBudget, k)
      BY <3>1, <2>4 DEF recordTokens
    <3> QED BY <3>2, <3>3 DEF k
  <2>6. CASE UNCHANGED <<daily, hourly>>
    <3>2. Charged(daily, DailyTokenBudget, k) /\ Charged(hourly, HourlyTokenBudget, k)
      BY <2>4, LimiterAssumption, 0 \in 0..MaxTokens
    <3> QED BY <2>6, <3>2 DEF k
  <2> QED BY <1>3, <2>5, <2>6
<1>7. ASSUME NEW c \in Callers, CallPrimary(c) PROVE LimiterInv'
  <2>1. /\ stage[c] = "admitted" /\ stage' = [stage EXCEPT ![c] = "none"]
        /\ call[c] = "none" /\ daily' = daily /\ hourly' = hourly
        /\ call' = call \/ call' = [call EXCEPT ![c] = currentState]
    BY <1>7 DEF CallPrimary, Analyze, limiter
  <2>2. /\ stage' \in [Callers -> {"none", "admitted", "owes"}]
        /\ \A d \in Callers : stage'[d] # "none" => call'[d] = "none"
    BY <2>1 DEF BreakerInv, TypeOK
  <2>3. ~Idle(c) /\ \A d \in Callers \ {c} : Idle(d)' <=> Idle(d)
    BY <2>1 DEF Idle, BreakerInv, TypeOK
  <2>4. CASE Idle(c)'
    BY <1>0, <1>3, <2>1, <2>2, <2>3, <2>4
  <2>5. CASE ~Idle(c)'
    <3>1. UnderWay' = UnderWay
      BY <2>3, <2>5 DEF UnderWay
    <3> QED BY <1>0, <2>1, <2>2, <3>1 DEF Charged
  <2> QED BY <2>4, <2>5
<1>8. ASSUME NEW c \in Callers, PrimarySucceeds(c) PROVE LimiterInv'
  <2>1. /\ call[c] # "none" /\ call' = [call EXCEPT ![c] = "none"]
        /\ stage' = [stage EXCEPT ![c] = "owes"]
        /\ daily' = daily /\ hourly' = hourly
    BY <1>8 DEF PrimarySucceeds, recordSuccess, limiter
  <2>2. /\ stage' \in [Callers -> {"none", "admitted", "owes"}]
        /\ \A d \in Callers : stage'[d] # "none" => call'[d] = "none"
    BY <2>1 DEF BreakerInv, TypeOK
  <2>3. UnderWay' = UnderWay
    BY <2>1 DEF UnderWay, Idle, BreakerInv, TypeOK
  <2> QED BY <1>0, <2>1, <2>2, <2>3 DEF Charged
<1>9. ASSUME NEW c \in Callers, PrimaryFails(c) PROVE LimiterInv'
  <2>1. /\ call[c] # "none" /\ call' = [call EXCEPT ![c] = "none"]
        /\ stage' = stage /\ daily' = daily /\ hourly' = hourly
    BY <1>9 DEF PrimaryFails, recordFailure, limiter
  <2>2. /\ stage' \in [Callers -> {"none", "admitted", "owes"}]
        /\ \A d \in Callers : stage'[d] # "none" => call'[d] = "none"
    BY <2>1 DEF BreakerInv, TypeOK
  <2>3. ~Idle(c) /\ Idle(c)' /\ \A d \in Callers \ {c} : Idle(d)' <=> Idle(d)
    BY <2>1 DEF Idle, BreakerInv, TypeOK
  <2> QED BY <1>0, <1>3, <2>1, <2>2, <2>3
<1>10. ASSUME NEW c \in Callers, ChargeTokens(c) PROVE LimiterInv'
  <2>1. /\ stage[c] = "owes" /\ stage' = [stage EXCEPT ![c] = "none"]
        /\ call' = call
    BY <1>10 DEF ChargeTokens, vars
  <2>2. /\ stage' \in [Callers -> {"none", "admitted", "owes"}]
        /\ \A d \in Callers : stage'[d] # "none" => call'[d] = "none"
    BY <2>1
  <2>3. ~Idle(c) /\ Idle(c)' /\ \A d \in Callers \ {c} : Idle(d)' <=> Idle(d)
    BY <2>1 DEF Idle
  <2>4. \E t \in 0..MaxTokens : recordTokens(t)
    BY <1>10 DEF ChargeTokens
  <2> QED BY <1>0, <1>3, <2>2, <2>3, <2>4
<1>4. CASE Looks \/ Ticks \/ Flips
  <2>1. UNCHANGED <<call, daily, hourly, stage>>
    BY <1>4 DEF Looks, Ticks, Flips, Healthy, ClockTick, BackendFlips, limiter
  <2> QED BY <1>0, <2>1 DEF UnderWay, Idle, Charged
<1>5. CASE HourPasses
  <2>1. call' = call /\ stage' = stage /\ daily' \in Windows /\ hourly' \in Windows
    BY <1>5 DEF HourPasses, Windows
  <2>2. ~hourly'.current /\ daily'.tokens = daily.tokens
        /\ (daily'.current => daily.current)
    BY <1>5 DEF HourPasses, Windows
  <2> QED BY <1>0, <2>1, <2>2 DEF UnderWay, Idle, Charged
<1>6. CASE UNCHANGED limiterVars
  BY <1>0, <1>6 DEF limiterVars, UnderWay, Idle, Charged
<1> QED BY <1>1, <1>2, <1>4, <1>5, <1>6, <1>7, <1>8, <1>9, <1>10
        DEF LimiterNext, Calls, Answers

LEMMA ChargedIsBounded ==
    ASSUME LimiterInv, NEW w \in Windows, NEW budget \in Int,
           Charged(w, budget, Cardinality(UnderWay))
    PROVE  Bounded(w, budget)
<1>1. MaxTokens \in Nat
  BY LimiterAssumption
<1>2. /\ MaxTokens * Cardinality(UnderWay) \in Nat
      /\ MaxTokens * Cardinality(Callers) \in Nat
  BY <1>1, UnderWayBound, Product DEF LimiterInv, BreakerInv
<1> QED BY <1>1, <1>2 DEF Bounded, TokenUsage, Charged, Windows

(* The budgets of isOverBudget and recordTokens are overdrawn by less than   *)
(* one call for each caller, whatever is charged late.                       *)
THEOREM OvershootBound == LimiterSafeSpec => []OvershootIsBounded
<1>1. LimiterInit => LimiterInv
  BY LimiterInitInv
<1>2. LimiterInv /\ [LimiterNext]_limiterVars => LimiterInv'
  BY LimiterInvStep
<1>3. LimiterInv => OvershootIsBounded
  BY ChargedIsBounded, LimiterAssumption DEF LimiterInv, OvershootIsBounded
<1> QED BY <1>1, <1>2, <1>3, PTL DEF LimiterSafeSpec
-----------------------------------------------------------------------------
(* Diagnosis: positions and sequences.  Induction is done with sets: the     *)
(* positions at which a claim holds.                                         *)

(* A set of positions that is not empty has a first one.                     *)
LEMMA FirstPosition ==
    ASSUME NEW n \in Nat, NEW P \in SUBSET (1..n), P # {}
    PROVE  \E k \in P : \A j \in P : k <= j
<1> DEFINE UpTo(k) == {j \in P : j <= k}
           T == {UpTo(k) : k \in P}
           R == StrictSubsetOrdering(P)
<1>1. IsFiniteSet(P)
  <2>1. 1 \in Int /\ n \in Int
    OBVIOUS
  <2>2. IsFiniteSet(1..n)
    BY <2>1, FS_Interval
  <2> QED BY <2>2, FS_Subset
<1>2. IsWellFoundedOn(R, SUBSET P)
  BY <1>1, FS_StrictSubsetOrderingWellFounded, FS_FiniteSubsetsOfFinite
<1>3. T \subseteq SUBSET P /\ T # {}
  OBVIOUS
<1>4. PICK U \in T : \A V \in T : ~(<<V, U>> \in R)
  <2> HIDE DEF T, R
  <2> QED BY <1>2, <1>3, WFMin
<1>5. PICK k \in P : U = UpTo(k)
  OBVIOUS
<1>6. ASSUME NEW j \in P, j < k PROVE FALSE
  <2>0. j \in Int /\ k \in Int /\ P \subseteq Int
    OBVIOUS
  <2>1. \A i \in P : i <= j => i <= k
    BY ONLY <1>6, <2>0
  <2>2. ~(k <= j) /\ k <= k
    BY ONLY <1>6, <2>0
  <2>3. UpTo(j) \subseteq UpTo(k) /\ k \notin UpTo(j) /\ k \in UpTo(k)
    BY ONLY <2>1, <2>2, k \in P
  <2>4. UpTo(j) \in T /\ <<UpTo(j), U>> \in R
    BY <1>5, <2>3 DEF StrictSubsetOrdering
  <2> QED BY <1>4, <2>4
<1>7. \A j \in P : k <= j
  BY <1>6
<1> QED BY <1>7

(* Induction up to n, over a set M.                                          *)
LEMMA Induction ==
    ASSUME NEW n \in Nat, NEW M, 0 \in M,
           \A k \in 1..n : k - 1 \in M => k \in M
    PROVE  \A k \in 0..n : k \in M
<1> DEFINE P == {k \in 1..n : k \notin M}
<1> SUFFICES ASSUME P # {} PROVE FALSE
  OBVIOUS
<1>1. PICK k \in P : \A j \in P : k <= j
  <2> HIDE DEF P
  <2>1. P \in SUBSET (1..n)
    BY DEF P
  <2> QED BY <2>1, FirstPosition
<1>2. k - 1 \notin P /\ k - 1 \in 0..n
  BY <1>1
<1>3. k - 1 \in M
  BY <1>2
<1> QED BY <1>1, <1>3

(* The first element that passes a test is found if there is one.            *)
LEMMA MinPosition ==
    ASSUME NEW n \in Nat, NEW P \in SUBSET (1..n), P # {}
    PROVE  Min(P) \in P /\ \A j \in P : Min(P) <= j
BY FirstPosition DEF Min

LEMMA MaxPosition ==
    ASSUME NEW n \in Nat, NEW P \in SUBSET (1..n), P # {}
    PROVE  Max(P) \in P
<1> DEFINE Q == {n + 1 - k : k \in P}
<1>1. Q \in SUBSET (1..n) /\ Q # {}
  <2>1. \A k \in 1..n : n + 1 - k \in 1..n
    OBVIOUS
  <2> QED BY <2>1
<1>2. PICK q \in Q : \A j \in Q : q <= j
  <2> HIDE DEF Q
  <2> QED BY <1>1, FirstPosition
<1>3. PICK k \in P : q = n + 1 - k
  OBVIOUS
<1>4. ASSUME NEW j \in P PROVE k >= j
  <2>1. n + 1 - j \in Q
    OBVIOUS
  <2>2. q <= n + 1 - j
    BY <1>2, <2>1
  <2>3. j \in Int /\ k \in Int
    OBVIOUS
  <2> QED BY ONLY <1>3, <2>2, <2>3, n \in Nat
<1> QED BY <1>4 DEF Max

(* What it means to be a sequence.                                           *)
LEMMA SequenceFacts ==
    ASSUME NEW s, IsSeq(s)
    PROVE  /\ Len(s) \in Nat
           /\ DOMAIN s = 1..Len(s)
           /\ s = [k \in 1..Len(s) |-> s[k]]
BY DEF IsSeq

LEMMA FunctionIsSeq ==
    ASSUME NEW n \in Nat, NEW s, s = [k \in 1..n |-> s[k]]
    PROVE  IsSeq(s) /\ Len(s) = n
<1> DEFINE T == {s[k] : k \in DOMAIN s}
<1>1. DOMAIN s = 1..n
  OBVIOUS
<1>2. s \in [1..n -> T]
  BY <1>1
<1> QED BY <1>2 DEF IsSeq

LEMMA AppendFacts ==
    ASSUME NEW s, NEW e, IsSeq(s)
    PROVE  /\ IsSeq(Append(s, e))
           /\ Len(Append(s, e)) = Len(s) + 1
           /\ \A k \in 1..Len(s) : Append(s, e)[k] = s[k]
           /\ Append(s, e)[Len(s) + 1] = e
<1> DEFINE T == {s[k] : k \in DOMAIN s} \cup {e}
<1>1. s \in Seq(T) /\ e \in T
  BY DEF IsSeq
<1>2. Append(s, e) \in Seq(T)
  BY <1>1
<1>3. /\ Len(Append(s, e)) = Len(s) + 1
      /\ \A k \in 1..Len(s) : Append(s, e)[k] = s[k]
      /\ Append(s, e)[Len(s) + 1] = e
  BY <1>1
<1>4. IsSeq(Append(s, e))
  <2> DEFINE a == Append(s, e)
  <2>0. a \in Seq(T)
    BY <1>2
  <2> HIDE DEF a, T
  <2>1. Len(a) \in Nat /\ a \in [1..Len(a) -> T]
    BY <2>0
  <2>2. a = [k \in 1..Len(a) |-> a[k]]
    BY <2>1
  <2>3. IsSeq(a)
    BY <2>1, <2>2, FunctionIsSeq
  <2> QED BY <2>3 DEF a
<1> QED BY <1>3, <1>4

LEMMA ConcatFacts ==
    ASSUME NEW s, NEW t, IsSeq(s), IsSeq(t)
    PROVE  /\ IsSeq(s \o t)
           /\ Len(s) \in Nat /\ Len(t) \in Nat
           /\ Len(s \o t) = Len(s) + Len(t) /\ Len(s) <= Len(s \o t)
           /\ \A k \in 1..Len(s) : (s \o t)[k] = s[k]
           /\ \A k \in 1..Len(t) : /\ Len(s) + k \in 1..Len(s \o t)
                                   /\ (s \o t)[Len(s) + k] = t[k]
           /\ \A p \in 1..Len(s \o t) :
                p \in 1..Len(s) \/ \E k \in 1..Len(t) : p = Len(s) + k
<1> DEFINE T == {s[k] : k \in DOMAIN s} \cup {t[k] : k \in DOMAIN t}
<1>1. s \in Seq(T) /\ t \in Seq(T)
  BY DEF IsSeq
<1>2. s \o t \in Seq(T)
  BY <1>1
<1>3. /\ Len(s \o t) = Len(s) + Len(t)
      /\ \A k \in 1..Len(s) : (s \o t)[k] = s[k]
      /\ \A k \in 1..Len(t) : (s \o t)[Len(s) + k] = t[k]
  BY <1>1
<1>4. IsSeq(s \o t)
  <2> DEFINE a == s \o t
  <2>0. a \in Seq(T)
    BY <1>2
  <2> HIDE DEF a, T
  <2>1. Len(a) \in Nat /\ a \in [1..Len(a) -> T]
    BY <2>0
  <2>2. a = [k \in 1..Len(a) |-> a[k]]
    BY <2>1
  <2>3. IsSeq(a)
    BY <2>1, <2>2, FunctionIsSeq
  <2> QED BY <2>3 DEF a
<1>5. Len(s) \in Nat /\ Len(t) \in Nat
  BY <1>1
<1>6. Len(s) <= Len(s \o t) /\ \A k \in 1..Len(t) : Len(s) + k \in 1..Len(s \o t)
  BY <1>3, <1>5
<1>7. ASSUME NEW p \in 1..Len(s \o t), p \notin 1..Len(s)
      PROVE  \E k \in 1..Len(t) : p = Len(s) + k
  <2>1. p - Len(s) \in 1..Len(t) /\ p = Len(s) + (p - Len(s))
    BY <1>3, <1>5, <1>7
  <2> QED BY <2>1
<1> QED BY <1>3, <1>4, <1>5, <1>6, <1>7

LEMMA ShortSequences ==
    /\ IsSeq(<<>>) /\ Len(<<>>) = 0
    /\ \A e : IsSeq(<<e>>) /\ Len(<<e>>) = 1 /\ <<e>>[1] = e
    /\ \A d, e : IsSeq(<<d, e>>) /\ Len(<<d, e>>) = 2 /\ <<d, e>>[1] = d /\ <<d, e>>[2] = e
BY DEF IsSeq

(* Elements of a concatenation.                                              *)
LEMMA ConcatElements ==
    ASSUME NEW s, NEW t, IsSeq(s), IsSeq(t)
    PROVE  /\ IsSeq(s \o t)
           /\ \A k \in 1..Len(s) : \E p \in 1..Len(s \o t) : (s \o t)[p] = s[k]
           /\ \A k \in 1..Len(t) : \E p \in 1..Len(s \o t) : (s \o t)[p] = t[k]
           /\ \A p \in 1..Len(s \o t) :
                \/ \E k \in 1..Len(s) : (s \o t)[p] = s[k]
                \/ \E k \in 1..Len(t) : (s \o t)[p] = t[k]
<1> DEFINE a == s \o t
<1>1. /\ IsSeq(a)
      /\ Len(s) \in Nat /\ Len(t) \in Nat /\ Len(a) \in Nat
      /\ Len(s) <= Len(a)
      /\ \A k \in 1..Len(s) : a[k] = s[k]
      /\ \A k \in 1..Len(t) : Len(s) + k \in 1..Len(a) /\ a[Len(s) + k] = t[k]
      /\ \A p \in 1..Len(a) : p \in 1..Len(s) \/ \E k \in 1..Len(t) : p = Len(s) + k
  BY ConcatFacts
<1> HIDE DEF a
<1>2. \A k \in 1..Len(s) : k \in 1..Len(a)
  BY <1>1
<1>3. \A k \in 1..Len(s) : \E p \in 1..Len(a) : a[p] = s[k]
  BY <1>1, <1>2
<1>4. \A k \in 1..Len(t) : \E p \in 1..Len(a) : a[p] = t[k]
  BY <1>1
<1>5. \A p \in 1..Len(a) : \/ \E k \in 1..Len(s) : a[p] = s[k]
                          \/ \E k \in 1..Len(t) : a[p] = t[k]
  BY <1>1
<1> QED BY <1>1, <1>3, <1>4, <1>5 DEF a

(* FlattenSeq puts the sequences together one after another: h[k] is what it *)
(* has after k of them.                                                      *)
LEMMA FlattenSteps ==
    ASSUME NEW ss, IsSeq(ss), \A k \in 1..Len(ss) : IsSeq(ss[k])
    PROVE  \E h : /\ h[0] = <<>>
                  /\ \A k \in 1..Len(ss) : h[k] = h[k - 1] \o ss[k]
                  /\ FlattenSeq(ss) = h[Len(ss)]
<1> DEFINE n == Len(ss)
           Good(g, m) == g = [k \in 1..m |-> IF k = 1 THEN ss[k] ELSE g[k - 1] \o ss[k]]
           M == {m \in 0..n : \E g : Good(g, m)}
<1>1. n \in Nat
  BY SequenceFacts
<1>2. 0 \in M
  <2>1. Good([k \in 1..0 |-> <<>>], 0)
    OBVIOUS
  <2> HIDE DEF Good
  <2> QED BY <1>1, <2>1
<1>3. ASSUME NEW m \in 1..n, m - 1 \in M PROVE m \in M
  <2>1. PICK g : Good(g, m - 1)
    BY <1>3
  <2> DEFINE x == IF m = 1 THEN ss[m] ELSE g[m - 1] \o ss[m]
             f == [k \in 1..m |-> IF k = m THEN x ELSE g[k]]
  <2>2. ASSUME NEW k \in 1..m
        PROVE  f[k] = IF k = 1 THEN ss[k] ELSE f[k - 1] \o ss[k]
    <3>1. CASE k = m
      <4>1. f[k] = x
        BY <3>1
      <4>2. m # 1 => f[m - 1] = g[m - 1]
        BY <1>1
      <4> QED BY <3>1, <4>1, <4>2
    <3>2. CASE k # m
      <4>1. k \in 1..(m - 1) /\ (k # 1 => k - 1 \in 1..(m - 1))
        BY <1>1, <3>2
      <4>2. g[k] = IF k = 1 THEN ss[k] ELSE g[k - 1] \o ss[k]
        BY <2>1, <4>1
      <4>3. f[k] = g[k] /\ (k # 1 => f[k - 1] = g[k - 1])
        BY <3>2, <4>1
      <4> QED BY <4>2, <4>3
    <3> QED BY <3>1, <3>2
  <2> HIDE DEF x
  <2>3. Good(f, m)
    BY <2>2
  <2> HIDE DEF Good, f
  <2> QED BY <2>3
<1>4. n \in M
  <2> HIDE DEF M
  <2>1. \A k \in 0..n : k \in M
    BY <1>1, <1>2, <1>3, Induction
  <2> QED BY <1>1, <2>1
<1>5. PICK g : Good(g, n)
  BY <1>4
<1> DEFINE g0 == CHOOSE f : Good(f, n)
<1>6. Good(g0, n)
  BY <1>5
<1>7. n # 0 => FlattenSeq(ss) = g0[n]
  BY DEF FlattenSeq
<1> HIDE DEF g0
<1> DEFINE h == [k \in 0..n |-> IF k = 0 THEN <<>> ELSE g0[k]]
<1>8. /\ h[0] = <<>> /\ \A k \in 1..n : h[k] = g0[k]
  BY <1>1
<1> HIDE DEF h
<1>9. ASSUME NEW k \in 1..n PROVE h[k] = h[k - 1] \o ss[k]
  <2>1. g0[k] = IF k = 1 THEN ss[k] ELSE g0[k - 1] \o ss[k]
    BY <1>6
  <2>2. CASE k = 1
    <3>1. <<>> \o ss[k] = ss[k]
      BY DEF IsSeq
    <3>2. h[k - 1] = <<>>
      BY <1>8, <2>2
    <3> QED BY <1>8, <2>1, <2>2, <3>1, <3>2
  <2>3. CASE k # 1
    <3>1. k - 1 \in 1..n
      BY <1>1, <2>3
    <3>2. h[k - 1] = g0[k - 1]
      BY <1>8, <3>1
    <3> QED BY <1>8, <2>1, <2>3, <3>2
  <2> QED BY <2>2, <2>3
<1>10. FlattenSeq(ss) = h[n]
  <2>1. CASE n = 0
    <3>1. ss = <<>>
      BY <2>1 DEF IsSeq
    <3> QED BY <1>8, <2>1, <3>1 DEF FlattenSeq
  <2>2. CASE n # 0
    BY <1>1, <1>7, <1>8, <2>2
  <2> QED BY <2>1, <2>2
<1> QED BY <1>8, <1>9, <1>10

(* Where the k-th sequence is in the result: behind off[k].                  *)
LEMMA FlattenPositions ==
    ASSUME NEW ss, IsSeq(ss), \A k \in 1..Len(ss) : IsSeq(ss[k])
    PROVE  /\ IsSeq(FlattenSeq(ss))
           /\ \E off :
                /\ \A k \in 1..Len(ss) :
                     /\ off[k] \in Nat /\ off[k] + Len(ss[k]) <= Len(FlattenSeq(ss))
                     /\ \A i \in 1..Len(ss[k]) : FlattenSeq(ss)[off[k] + i] = ss[k][i]
                     /\ k < Len(ss) => off[k + 1] = off[k] + Len(ss[k])
                     /\ k = 1 => off[k] = 0
                     /\ k = Len(ss) => off[k] + Len(ss[k]) = Len(FlattenSeq(ss))
                /\ \A p \in 1..Len(FlattenSeq(ss)) :
                     \E k \in 1..Len(ss) : \E i \in 1..Len(ss[k]) :
                       FlattenSeq(ss)[p] = ss[k][i]
<1> DEFINE n == Len(ss)
<1>1. n \in Nat
  BY SequenceFacts
<1>2. PICK h : /\ h[0] = <<>>
               /\ \A k \in 1..n : h[k] = h[k - 1] \o ss[k]
               /\ FlattenSeq(ss) = h[n]
  BY FlattenSteps
<1> DEFINE Sound(m) ==
             /\ IsSeq(h[m])
             /\ \A k \in 0..m : /\ Len(h[k]) \in Nat /\ Len(h[k]) <= Len(h[m])
                                /\ \A p \in 1..Len(h[k]) : h[m][p] = h[k][p]
             /\ \A p \in 1..Len(h[m]) : \E k \in 1..m : \E i \in 1..Len(ss[k]) :
                  h[m][p] = ss[k][i]
           M == {m \in 0..n : Sound(m)}
<1>3. 0 \in M
  <2>1. IsSeq(<<>>) /\ Len(<<>>) = 0
    BY DEF IsSeq
  <2>2. Sound(0)
    BY <1>2, <2>1
  <2> QED BY <1>1, <2>2
<1>4. ASSUME NEW m \in 1..n, m - 1 \in M PROVE m \in M
  <2> DEFINE a == h[m - 1]
             b == ss[m]
             c == h[m]
  <2>1. /\ IsSeq(a) /\ IsSeq(b) /\ c = a \o b
        /\ \A k \in 0..(m - 1) : /\ Len(h[k]) \in Nat /\ Len(h[k]) <= Len(a)
                                 /\ \A p \in 1..Len(h[k]) : a[p] = h[k][p]
        /\ \A p \in 1..Len(a) : \E k \in 1..(m - 1) : \E i \in 1..Len(ss[k]) :
             a[p] = ss[k][i]
    BY <1>2, <1>4
  <2>2. m \in Nat /\ \A k \in 0..m : k = m \/ k \in 0..(m - 1)
    BY <1>1
  <2>3. \A k \in 1..(m - 1) : k \in 1..m
    BY <1>1
  <2>4. m \in 1..m
    BY <1>1
  <2> SUFFICES /\ IsSeq(c)
               /\ \A k \in 0..m : /\ Len(h[k]) \in Nat /\ Len(h[k]) <= Len(c)
                                  /\ \A p \in 1..Len(h[k]) : c[p] = h[k][p]
               /\ \A p \in 1..Len(c) : \E k \in 1..m : \E i \in 1..Len(ss[k]) :
                    c[p] = ss[k][i]
    OBVIOUS
  <2>5. h[m] = c /\ ss[m] = b
    OBVIOUS
  <2> HIDE DEF a, b, c, M, Sound
  <2>6. /\ IsSeq(c) /\ Len(a) \in Nat /\ Len(b) \in Nat /\ Len(c) \in Nat
        /\ Len(a) <= Len(c)
        /\ \A p \in 1..Len(a) : c[p] = a[p]
        /\ \A i \in 1..Len(b) : c[Len(a) + i] = b[i]
        /\ \A p \in 1..Len(c) : p \in 1..Len(a) \/ \E i \in 1..Len(b) : p = Len(a) + i
    <3>1. IsSeq(a) /\ IsSeq(b) /\ c = a \o b
      BY <2>1
    <3> QED BY ONLY <3>1, ConcatFacts
  <2>7. ASSUME NEW k \in 0..m
        PROVE  /\ Len(h[k]) \in Nat /\ Len(h[k]) <= Len(c)
               /\ \A p \in 1..Len(h[k]) : c[p] = h[k][p]
    <3>1. CASE k = m
      BY <2>5, <2>6, <3>1
    <3>2. CASE k \in 0..(m - 1)
      <4> DEFINE d == h[k]
      <4>1. /\ Len(d) \in Nat /\ Len(d) <= Len(a)
            /\ \A p \in 1..Len(d) : a[p] = d[p]
        BY <2>1, <3>2
      <4> HIDE DEF d
      <4>2. Len(d) <= Len(c) /\ \A p \in 1..Len(d) : p \in 1..Len(a)
        BY <2>6, <4>1
      <4>3. \A p \in 1..Len(d) : c[p] = d[p]
        BY <2>6, <4>1, <4>2
      <4> QED BY <4>1, <4>2, <4>3 DEF d
    <3> QED BY <2>2, <3>1, <3>2
  <2>8. ASSUME NEW p \in 1..Len(c)
        PROVE  \E k \in 1..m : \E i \in 1..Len(ss[k]) : c[p] = ss[k][i]
    <3>1. CASE p \in 1..Len(a)
      <4>1. PICK k \in 1..(m - 1) : \E i \in 1..Len(ss[k]) : a[p] = ss[k][i]
        BY <2>1, <3>1
      <4> QED BY <2>3, <2>6, <3>1, <4>1
    <3>2. ASSUME NEW i \in 1..Len(b), p = Len(a) + i
          PROVE  \E k \in 1..m : \E j \in 1..Len(ss[k]) : c[p] = ss[k][j]
      BY <2>4, <2>5, <2>6, <3>2
    <3> QED BY <2>6, <3>1, <3>2
  <2> QED BY <2>6, <2>7, <2>8
<1>5. \A m \in 0..n : Sound(m)
  <2>1. \A m \in 0..n : m \in M
    <3> HIDE DEF M
    <3> QED BY <1>1, <1>3, <1>4, Induction
  <2> QED BY <2>1
<1> DEFINE off == [k \in 1..n |-> Len(h[k - 1])]
<1>6. ASSUME NEW k \in 1..n
      PROVE  /\ off[k] \in Nat /\ off[k] + Len(ss[k]) <= Len(h[n])
             /\ \A i \in 1..Len(ss[k]) : h[n][off[k] + i] = ss[k][i]
             /\ k < n => off[k + 1] = off[k] + Len(ss[k])
             /\ k = 1 => off[k] = 0
             /\ k = n => off[k] + Len(ss[k]) = Len(h[n])
  <2> DEFINE a == h[k - 1]
             b == ss[k]
             c == h[k]
             z == h[n]
  <2>1. k - 1 \in 0..n /\ k \in 0..n /\ n \in 0..n /\ k - 1 \in 0..(k - 1) /\ k \in 0..n
    BY <1>1
  <2>2. IsSeq(a) /\ IsSeq(b) /\ c = a \o b /\ Len(c) <= Len(z)
        /\ \A p \in 1..Len(c) : z[p] = c[p]
    BY <1>2, <1>5, <2>1
  <2>3. /\ off[k] = Len(a)
        /\ k < n => off[k + 1] = Len(c)
        /\ k = 1 => Len(a) = 0
        /\ k = n => c = z
    <3>1. k < n => k + 1 \in 1..n /\ (k + 1) - 1 = k
      BY <1>1
    <3> QED BY <1>2, <3>1
  <2>4. ss[k] = b /\ h[n] = z
    OBVIOUS
  <2> HIDE DEF a, b, c, z, off
  <2>5. /\ Len(a) \in Nat /\ Len(b) \in Nat /\ Len(c) = Len(a) + Len(b)
        /\ \A i \in 1..Len(b) : Len(a) + i \in 1..Len(c) /\ c[Len(a) + i] = b[i]
    <3>1. IsSeq(a) /\ IsSeq(b) /\ c = a \o b
      BY <2>2
    <3> QED BY ONLY <3>1, ConcatFacts
  <2>6. \A i \in 1..Len(b) : z[Len(a) + i] = b[i]
    BY <2>2, <2>5
  <2>7. Len(a) + Len(b) <= Len(z)
    BY <2>2, <2>5
  <2>8. /\ k < n => off[k + 1] = Len(a) + Len(b)
        /\ k = n => Len(a) + Len(b) = Len(z)
    BY <2>3, <2>5
  <2> QED BY ONLY <2>3, <2>4, <2>5, <2>6, <2>7, <2>8
<1>7. n \in 0..n
  BY <1>1
<1>8. IsSeq(h[n]) /\ \A p \in 1..Len(h[n]) : \E k \in 1..n : \E i \in 1..Len(ss[k]) :
        h[n][p] = ss[k][i]
  BY <1>5, <1>7
<1> HIDE DEF off
<1> QED BY <1>2, <1>6, <1>8

(* What comes out is what went in.                                           *)
LEMMA FlattenElements ==
    ASSUME NEW ss, IsSeq(ss), \A k \in 1..Len(ss) : IsSeq(ss[k])
    PROVE  /\ IsSeq(FlattenSeq(ss))
           /\ \A k \in 1..Len(ss) : \A i \in 1..Len(ss[k]) :
                \E p \in 1..Len(FlattenSeq(ss)) : FlattenSeq(ss)[p] = ss[k][i]
           /\ \A p \in 1..Len(FlattenSeq(ss)) :
                \E k \in 1..Len(ss) : \E i \in 1..Len(ss[k]) :
                  FlattenSeq(ss)[p] = ss[k][i]
<1> DEFINE f == FlattenSeq(ss)
<1>1. PICK off :
        /\ \A k \in 1..Len(ss) :
             /\ off[k] \in Nat /\ off[k] + Len(ss[k]) <= Len(f)
             /\ \A i \in 1..Len(ss[k]) : f[off[k] + i] = ss[k][i]
             /\ k < Len(ss) => off[k + 1] = off[k] + Len(ss[k])
             /\ k = 1 => off[k] = 0
             /\ k = Len(ss) => off[k] + Len(ss[k]) = Len(f)
        /\ \A p \in 1..Len(f) :
             \E k \in 1..Len(ss) : \E i \in 1..Len(ss[k]) : f[p] = ss[k][i]
  <2>1. \A t : (IsSeq(t) /\ \A k \in 1..Len(t) : IsSeq(t[k])) =>
          \E off :
             /\ \A k \in 1..Len(t) :
                  /\ off[k] \in Nat /\ off[k] + Len(t[k]) <= Len(FlattenSeq(t))
                  /\ \A i \in 1..Len(t[k]) : FlattenSeq(t)[off[k] + i] = t[k][i]
                  /\ k < Len(t) => off[k + 1] = off[k] + Len(t[k])
                  /\ k = 1 => off[k] = 0
                  /\ k = Len(t) => off[k] + Len(t[k]) = Len(FlattenSeq(t))
             /\ \A p \in 1..Len(FlattenSeq(t)) :
                  \E k \in 1..Len(t) : \E i \in 1..Len(t[k]) : FlattenSeq(t)[p] = t[k][i]
    BY ONLY FlattenPositions, Zenon
  <2>2. IsSeq(ss) /\ \A k \in 1..Len(ss) : IsSeq(ss[k])
    OBVIOUS
  <2> QED BY ONLY <2>1, <2>2
<1>2. IsSeq(f)
  BY FlattenPositions
<1>3. ASSUME NEW k \in 1..Len(ss), NEW i \in 1..Len(ss[k])
      PROVE  \E p \in 1..Len(f) : f[p] = ss[k][i]
  <2> DEFINE o == off[k]
             n == Len(ss[k])
             m == Len(f)
  <2>1. o \in Nat /\ o + n <= m /\ f[o + i] = ss[k][i]
    BY <1>1
  <2>2. n \in Nat /\ m \in Nat
    BY <1>2, SequenceFacts
  <2>3. i \in 1..n
    OBVIOUS
  <2> HIDE DEF o, n, m
  <2>4. o + i \in 1..m
    BY ONLY <2>1, <2>2, <2>3
  <2> QED BY <2>1, <2>4 DEF m
<1> HIDE DEF f
<1>4. /\ IsSeq(f)
      /\ \A k \in 1..Len(ss) : \A i \in 1..Len(ss[k]) :
           \E p \in 1..Len(f) : f[p] = ss[k][i]
      /\ \A p \in 1..Len(f) : \E k \in 1..Len(ss) : \E i \in 1..Len(ss[k]) :
           f[p] = ss[k][i]
  BY <1>1, <1>2, <1>3
<1> QED BY <1>4 DEF f

-----------------------------------------------------------------------------
(* The inductive invariant of the diagnosis.  Until the worker is cancelled, *)
(* every section is what its gatherer writes about a resource of the event   *)
(* if its calls are answered, in order, as the cluster was at some moments   *)
(* of the gathering, and the report is made of them.                         *)

Known == UNION {{gs[k] : k \in 1..Len(gs)} : gs \in GathererLists}

Observed(x, ev, h) ==
    \E g \in Known : \E r \in ResourcesOf(ev) : \E m \in Moments(h, 1) :
      x = GatherSection(g, r, AnswersAt(h, m))

BatchOf(b, ev) ==
    /\ IsSeq(b.gatherers)
    /\ \A k \in 1..Len(b.gatherers) : b.gatherers[k] \in Known
    /\ b.ref \in ResourcesOf(ev)

(* A goroutine of RunAll has not answered yet, or with the section that its  *)
(* gatherer writes if it is called at moments since from.                    *)
AnswerOf(x, b, k, h, from) ==
    \/ x = NotYet
    \/ \E m \in Moments(h, from) : x = GatherSection(b.gatherers[k], b.ref, AnswersAt(h, m))

DiagnosisInv ==
    /\ event \in Events
    /\ IsSeq(answers) /\ launched \in 1..Len(answers)
    /\ IsSeq(batches) /\ \A k \in 1..Len(batches) : BatchOf(batches[k], event)
    /\ DOMAIN running = IF batches = <<>> THEN {} ELSE 1..Len(batches[1].gatherers)
    /\ IsSeq(running) /\ IsSeq(sections)
    /\ \/ cancelled
       \/ /\ \A i \in 1..Len(answers) : answers[i] \in Clusters
          /\ \A k \in DOMAIN running : AnswerOf(running[k], batches[1], k, answers, launched)
          /\ \A k \in 1..Len(sections) : Observed(sections[k], event, answers)
    /\ \/ report = NoReport \/ report = Refused
       \/ /\ ~cancelled /\ batches = <<>>
          /\ report = AnalyzeBundle(event, sections)

(* The calls of a gatherer see moments of the history in their order.        *)
InOrder(at, h) ==
    \A i, j \in Nat \ {0} :
      i <= j => \E p, q \in 1..Len(h) : p <= q /\ at[i] = h[p] /\ at[j] = h[q]

LEMMA MomentFacts ==
    ASSUME NEW h, IsSeq(h), NEW from \in 1..Len(h), NEW m \in Moments(h, from)
    PROVE  LET at == AnswersAt(h, m)
           IN /\ \A i \in Nat \ {0} : \E p \in from..Len(h) : at[i] = h[p]
              /\ InOrder(at, h)
              /\ m \in Moments(h, 1)
<1> DEFINE at == AnswersAt(h, m)
           C(i) == IF i < MaxCalls THEN i ELSE MaxCalls
<1>1. Len(h) \in Nat /\ MaxCalls \in Nat \ {0}
  BY MaxCallsAssumption, SequenceFacts
<1>2. /\ m \in [1..MaxCalls -> from..Len(h)]
      /\ \A i, j \in 1..MaxCalls : i <= j => m[i] <= m[j]
  BY DEF Moments
<1>3. \A i \in Nat \ {0} : at[i] = h[m[C(i)]]
  BY DEF AnswersAt
<1>4. \A i \in Nat \ {0} : C(i) \in 1..MaxCalls
  BY <1>1
<1>5. \A i, j \in Nat \ {0} : i <= j => C(i) <= C(j)
  BY <1>1
<1>6. from..Len(h) \subseteq 1..Len(h)
  BY <1>1
<1> HIDE DEF at, C
<1>7. \A i \in Nat \ {0} : m[C(i)] \in from..Len(h)
  BY <1>2, <1>4
<1>8. \A i, j \in Nat \ {0} : i <= j => m[C(i)] <= m[C(j)]
  BY <1>2, <1>4, <1>5
<1>9. InOrder(at, h)
  <2> SUFFICES ASSUME NEW i \in Nat \ {0}, NEW j \in Nat \ {0}, i <= j
               PROVE  \E p, q \in 1..Len(h) : p <= q /\ at[i] = h[p] /\ at[j] = h[q]
    BY DEF InOrder
  <2>1. /\ m[C(i)] \in 1..Len(h) /\ m[C(j)] \in 1..Len(h) /\ m[C(i)] <= m[C(j)]
        /\ at[i] = h[m[C(i)]] /\ at[j] = h[m[C(j)]]
    BY <1>3, <1>6, <1>7, <1>8
  <2> QED BY <2>1
<1>10. m \in Moments(h, 1)
  BY <1>2, <1>6 DEF Moments
<1> QED BY <1>3, <1>7, <1>9, <1>10 DEF at

(* What was answered stays answered.                                         *)
LEMMA HistoryGrows ==
    ASSUME NEW h, IsSeq(h), NEW c, NEW from \in 1..Len(h)
    PROVE  LET g == Append(h, c)
           IN /\ IsSeq(g) /\ from \in 1..Len(g)
              /\ \A i \in 1..Len(g) : (i \in 1..Len(h) /\ g[i] = h[i]) \/ g[i] = c
              /\ \A m \in Moments(h, from) :
                   m \in Moments(g, from) /\ AnswersAt(g, m) = AnswersAt(h, m)
<1> DEFINE T == {h[k] : k \in DOMAIN h} \cup {c}
           g == Append(h, c)
<1>1. Len(h) \in Nat /\ MaxCalls \in Nat \ {0}
  BY MaxCallsAssumption, SequenceFacts
<1>2. h \in Seq(T) /\ c \in T
  BY DEF IsSeq
<1> HIDE DEF T
<1>3. /\ g \in Seq(T) /\ Len(g) = Len(h) + 1
      /\ \A i \in 1..Len(h) : g[i] = h[i]
      /\ g[Len(h) + 1] = c
  BY <1>2
<1> HIDE DEF g
<1>4. IsSeq(g)
  <2>1. g = [k \in 1..Len(g) |-> g[k]] /\ Len(g) \in Nat
    BY <1>3
  <2> QED BY <2>1, FunctionIsSeq
<1>5. from \in 1..Len(g) /\ from..Len(h) \subseteq from..Len(g)
  BY <1>1, <1>3
<1>6. \A i \in 1..Len(g) : (i \in 1..Len(h) /\ g[i] = h[i]) \/ g[i] = c
  BY <1>1, <1>3
<1>7. ASSUME NEW m \in Moments(h, from)
      PROVE  m \in Moments(g, from) /\ AnswersAt(g, m) = AnswersAt(h, m)
  <2>1. /\ m \in [1..MaxCalls -> from..Len(h)]
        /\ \A i, j \in 1..MaxCalls : i <= j => m[i] <= m[j]
    BY DEF Moments
  <2>2. m \in Moments(g, from)
    BY <1>5, <2>1 DEF Moments
  <2>3. \A i \in 1..MaxCalls : g[m[i]] = h[m[i]]
    BY <1>1, <1>3, <2>1
  <2>4. \A n \in Nat \ {0} : (IF n < MaxCalls THEN n ELSE MaxCalls) \in 1..MaxCalls
    BY <1>1
  <2>5. AnswersAt(g, m) = AnswersAt(h, m)
    BY <2>3, <2>4 DEF AnswersAt
  <2> QED BY <2>2, <2>5
<1> QED BY <1>4, <1>5, <1>6, <1>7 DEF g

(* The gatherers a trigger lets through are some of those it was given.      *)
LEMMA FilterFacts ==
    ASSUME NEW gs \in GathererLists, NEW kind, NEW detector
    PROVE  LET f == FilterByTrigger(gs, kind, detector)
           IN IsSeq(f) /\ \A k \in 1..Len(f) : f[k] \in Known
<1> DEFINE Kept(g) == IF MatchesTrigger(g, kind, detector) THEN <<g>> ELSE <<>>
           ss == [k \in 1..Len(gs) |-> Kept(gs[k])]
           f == FlattenSeq(ss)
<1>1. IsSeq(gs) /\ Len(gs) \in Nat
  BY GathererListsAssumption, SequenceFacts
<1>2. \A k \in 1..Len(gs) : ss[k] = Kept(gs[k])
  OBVIOUS
<1>3. IsSeq(ss) /\ Len(ss) = Len(gs)
  <2>1. ss = [k \in 1..Len(gs) |-> ss[k]]
    BY <1>2
  <2> HIDE DEF ss
  <2> QED BY <1>1, <2>1, FunctionIsSeq
<1>4. \A g : IsSeq(Kept(g)) /\ \A i \in 1..Len(Kept(g)) : Kept(g)[i] = g
  <2> SUFFICES ASSUME NEW g
               PROVE  IsSeq(Kept(g)) /\ \A i \in 1..Len(Kept(g)) : Kept(g)[i] = g
    OBVIOUS
  <2>1. CASE MatchesTrigger(g, kind, detector)
    BY <2>1, ShortSequences
  <2>2. CASE ~MatchesTrigger(g, kind, detector)
    BY <2>2, ShortSequences
  <2> QED BY <2>1, <2>2
<1>5. FilterByTrigger(gs, kind, detector) = f
  BY DEF FilterByTrigger, Each
<1> HIDE DEF ss, Kept
<1>6. \A k \in 1..Len(ss) : IsSeq(ss[k])
  BY <1>2, <1>3, <1>4
<1>7. /\ IsSeq(f)
      /\ \A p \in 1..Len(f) : \E k \in 1..Len(ss) : \E i \in 1..Len(ss[k]) : f[p] = ss[k][i]
  BY <1>3, <1>6, FlattenElements
<1> HIDE DEF f
<1>8. ASSUME NEW p \in 1..Len(f) PROVE f[p] \in Known
  <2>1. PICK k \in 1..Len(ss) : \E i \in 1..Len(ss[k]) : f[p] = ss[k][i]
    BY <1>7
  <2>2. f[p] = gs[k] /\ k \in 1..Len(gs)
    BY <1>2, <1>3, <1>4, <2>1
  <2> QED BY <2>2 DEF Known
<1> QED BY <1>5, <1>7, <1>8

(* What is sampled of a super-event are faults of it.                        *)
LEMMA SampleFacts ==
    ASSUME NEW ev \in Events
    PROVE  LET f == SampledFaults(ev)
           IN /\ IsSeq(f)
              /\ \A p \in 1..Len(f) : \E k \in 1..Len(ev.faults) : f[p] = ev.faults[k]
<1> DEFINE KeyOf(k) == SampleKey(ev.faults[k].resource)
           New(k) == /\ KeyOf(k) # SampleKey(ev.resource)
                     /\ \A j \in 1..(k - 1) : KeyOf(j) # KeyOf(k)
           Sample(k) ==
             IF New(k) /\ Cardinality({j \in 1..(k - 1) : New(j)}) < MaxAffected
             THEN <<ev.faults[k]>> ELSE <<>>
           ss == [k \in 1..Len(ev.faults) |-> Sample(k)]
           f == FlattenSeq(ss)
<1>1. IsSeq(ev.faults) /\ Len(ev.faults) \in Nat
  BY EventsAssumption, SequenceFacts
<1>4. \A k : IsSeq(Sample(k)) /\ \A i \in 1..Len(Sample(k)) : Sample(k)[i] = ev.faults[k]
  <2> HIDE DEF New
  <2> QED BY ShortSequences
<1>5. SampledFaults(ev) = f
  BY DEF SampledFaults
<1> HIDE DEF Sample
<1>2. \A k \in 1..Len(ev.faults) : ss[k] = Sample(k)
  OBVIOUS
<1>3. IsSeq(ss) /\ Len(ss) = Len(ev.faults)
  <2>1. ss = [k \in 1..Len(ev.faults) |-> ss[k]]
    BY <1>2
  <2> HIDE DEF ss
  <2> QED BY <1>1, <2>1, FunctionIsSeq
<1> HIDE DEF ss
<1>6. \A k \in 1..Len(ss) : IsSeq(ss[k])
  BY <1>2, <1>3, <1>4
<1>7. /\ IsSeq(f)
      /\ \A p \in 1..Len(f) : \E k \in 1..Len(ss) : \E i \in 1..Len(ss[k]) : f[p] = ss[k][i]
  BY <1>3, <1>6, FlattenElements
<1> HIDE DEF f
<1>8. ASSUME NEW p \in 1..Len(f) PROVE \E k \in 1..Len(ev.faults) : f[p] = ev.faults[k]
  <2>1. PICK k \in 1..Len(ss) : \E i \in 1..Len(ss[k]) : f[p] = ss[k][i]
    BY <1>7
  <2>2. f[p] = ev.faults[k] /\ k \in 1..Len(ev.faults)
    BY <1>2, <1>3, <1>4, <2>1
  <2> QED BY <2>2
<1> QED BY <1>5, <1>7, <1>8

(* Every RunAll call that is planned runs known gatherers on a resource of   *)
(* the event.                                                                *)
LEMMA PlanFacts ==
    ASSUME NEW ev \in Events, NEW how, NEW gs \in GathererLists
    PROVE  LET bs == Plan(ev, how, gs)
           IN IsSeq(bs) /\ \A k \in 1..Len(bs) : BatchOf(bs[k], ev)
<1> DEFINE Planned(bs) == IsSeq(bs) /\ \A k \in 1..Len(bs) : BatchOf(bs[k], ev)
           Filtered(r, d) == Batch(FilterByTrigger(gs, r.kind, d), r)
<1>1. \A b : BatchOf(b, ev) => Planned(<<b>>)
  BY DEF IsSeq
<1>2. ASSUME NEW r \in ResourcesOf(ev), NEW d PROVE BatchOf(Filtered(r, d), ev)
  BY FilterFacts DEF BatchOf, Batch
<1>3. BatchOf(Batch(gs, ev.resource), ev)
  <2>1. \A k \in 1..Len(gs) : gs[k] \in Known
    BY DEF Known
  <2> QED BY <2>1, GathererListsAssumption DEF BatchOf, Batch, ResourcesOf
<1>4. ev.resource \in ResourcesOf(ev)
  BY DEF ResourcesOf
<1>5. Planned(GatherForSuperEvent(ev, gs))
  <2> DEFINE sample == SampledFaults(ev)
             n == Len(sample)
             first == <<Filtered(ev.resource, ev.faults[1].detector)>>
             rest == [k \in 1..n |-> Filtered(sample[k].resource, sample[k].detector)]
  <2>1. /\ IsSeq(sample) /\ n \in Nat
        /\ \A p \in 1..n : \E k \in 1..Len(ev.faults) : sample[p] = ev.faults[k]
    BY SampleFacts, SequenceFacts
  <2>2. GatherForSuperEvent(ev, gs) = first \o rest
    BY DEF GatherForSuperEvent
  <2> HIDE DEF sample, Filtered
  <2>3. Planned(first)
    BY <1>1, <1>2, <1>4
  <2>4. IsSeq(rest) /\ Len(rest) = n
    <3>1. rest = [k \in 1..n |-> rest[k]]
      OBVIOUS
    <3> HIDE DEF rest, n
    <3> QED BY <2>1, <3>1, FunctionIsSeq
  <2>5. ASSUME NEW k \in 1..n PROVE BatchOf(rest[k], ev)
    <3>1. sample[k].resource \in ResourcesOf(ev)
      BY <2>1 DEF ResourcesOf
    <3>2. rest[k] = Filtered(sample[k].resource, sample[k].detector)
      OBVIOUS
    <3> QED BY <1>2, <3>1, <3>2
  <2> HIDE DEF rest, first, n
  <2>6. /\ IsSeq(first) /\ IsSeq(rest)
        /\ \A k \in 1..Len(first) : BatchOf(first[k], ev)
        /\ \A k \in 1..Len(rest) : BatchOf(rest[k], ev)
    BY <2>3, <2>4, <2>5
  <2> DEFINE all == first \o rest
  <2>7. /\ IsSeq(all)
        /\ \A p \in 1..Len(all) : \/ \E k \in 1..Len(first) : all[p] = first[k]
                                  \/ \E k \in 1..Len(rest) : all[p] = rest[k]
    BY <2>6, ConcatElements
  <2> HIDE DEF all
  <2>8. Planned(all)
    BY <2>6, <2>7
  <2> QED BY <2>2, <2>8 DEF all
<1> HIDE DEF Planned
<1>6. Planned(Plan(ev, how, gs))
  <2>1. CASE how = "processGatherItem"
    BY <1>1, <1>3, <2>1 DEF Plan
  <2>2. CASE how # "processGatherItem" /\ ev.super
    BY <1>5, <2>2 DEF Plan
  <2>3. CASE how # "processGatherItem" /\ ~ev.super
    <3>1. Plan(ev, how, gs) = <<Filtered(ev.resource, ev.detector)>>
      BY <2>3 DEF Plan
    <3> QED BY <1>1, <1>2, <1>4, <3>1
  <2> QED BY <2>1, <2>2, <2>3
<1> QED BY <1>6 DEF Planned

(* RunAll starts with a goroutine for each gatherer and no answer.           *)
LEMMA LaunchFacts ==
    ASSUME NEW bs, NEW ev, IsSeq(bs), \A k \in 1..Len(bs) : BatchOf(bs[k], ev)
    PROVE  /\ DOMAIN Launch(bs) = IF bs = <<>> THEN {} ELSE 1..Len(bs[1].gatherers)
           /\ IsSeq(Launch(bs))
           /\ \A k \in DOMAIN Launch(bs) : Launch(bs)[k] = NotYet
<1>1. CASE bs = <<>>
  BY <1>1, ShortSequences DEF Launch
<1>2. CASE bs # <<>>
  <2> DEFINE n == Len(bs[1].gatherers)
             f == [k \in 1..n |-> NotYet]
  <2>1. 1 \in 1..Len(bs)
    BY <1>2 DEF IsSeq
  <2>2. n \in Nat
    BY <2>1, SequenceFacts DEF BatchOf
  <2>3. Launch(bs) = f
    BY <1>2 DEF Launch
  <2>4. DOMAIN f = 1..n /\ \A k \in 1..n : f[k] = NotYet
    OBVIOUS
  <2>5. f = [k \in 1..n |-> f[k]]
    OBVIOUS
  <2> HIDE DEF f, n
  <2>6. IsSeq(f)
    BY <2>2, <2>5, FunctionIsSeq
  <2> QED BY <1>2, <2>3, <2>4, <2>6 DEF n
<1> QED BY <1>1, <1>2

(* A work item starts with the plan of its event.                            *)
LEMMA DiagnosisInitInv == DiagnosisInit => DiagnosisInv
<1> SUFFICES ASSUME DiagnosisInit PROVE DiagnosisInv
  OBVIOUS
<1>1. IsSeq(batches) /\ \A k \in 1..Len(batches) : BatchOf(batches[k], event)
  BY PlanFacts DEF DiagnosisInit
<1>2. /\ DOMAIN running = IF batches = <<>> THEN {} ELSE 1..Len(batches[1].gatherers)
      /\ IsSeq(running)
      /\ \A k \in DOMAIN running : running[k] = NotYet
  BY <1>1, LaunchFacts DEF DiagnosisInit
<1>3. IsSeq(sections) /\ Len(sections) = 0
  BY ShortSequences DEF DiagnosisInit
<1>4. \A k \in 1..Len(sections) : Observed(sections[k], event, answers)
  BY <1>3
<1>5. \A k \in DOMAIN running : AnswerOf(running[k], batches[1], k, answers, launched)
  BY <1>2 DEF AnswerOf
<1>6. event \in Events /\ report = NoReport
  BY DEF DiagnosisInit
<1>7. /\ IsSeq(answers) /\ launched \in 1..Len(answers)
      /\ \A i \in 1..Len(answers) : answers[i] \in Clusters
  <2>1. answers = <<cluster>> /\ launched = 1 /\ cluster \in Clusters
    BY DEF DiagnosisInit
  <2> QED BY <2>1, ShortSequences
<1> QED BY <1>7, <1>1, <1>2, <1>3, <1>4, <1>5, <1>6 DEF DiagnosisInv

(* A gatherer answers.                                                       *)
LEMMA GatherKeeps ==
    ASSUME DiagnosisInv, NEW k \in DOMAIN running, Gather(k)
    PROVE  DiagnosisInv'
<1>1. /\ batches' = batches /\ event' = event /\ answers' = answers /\ launched' = launched
      /\ sections' = sections /\ cancelled' = cancelled /\ report' = report
      /\ batches # <<>>
  BY DEF Gather
<1>a. PICK m \in Moments(answers, launched) :
        running' = [running EXCEPT ![k] =
          GatherSection(batches[1].gatherers[k], batches[1].ref, AnswersAt(answers, m))]
  BY DEF Gather
<1> DEFINE n == Len(running)
           x == GatherSection(batches[1].gatherers[k], batches[1].ref, AnswersAt(answers, m))
<1>2. n \in Nat /\ DOMAIN running = 1..n
  BY SequenceFacts DEF DiagnosisInv
<1>3. /\ DOMAIN running' = DOMAIN running
      /\ \A j \in DOMAIN running : running'[j] = IF j = k THEN x ELSE running[j]
  <2> HIDE DEF x
  <2> QED BY <1>a DEF x
<1>4. IsSeq(running')
  <2>1. running' = [j \in 1..n |-> running'[j]]
    BY <1>a, <1>2
  <2> QED BY <1>2, <2>1, FunctionIsSeq
<1>5. ASSUME ~cancelled, NEW j \in DOMAIN running
      PROVE  AnswerOf(running'[j], batches[1], j, answers, launched)
  <2>1. AnswerOf(running[j], batches[1], j, answers, launched)
    BY <1>5 DEF DiagnosisInv
  <2>2. CASE j = k
    <3>1. running'[j] = x
      BY <1>3, <2>2
    <3> QED BY <2>2, <3>1 DEF AnswerOf
  <2>3. CASE j # k
    BY <1>3, <2>1, <2>3
  <2> QED BY <2>2, <2>3
<1> HIDE DEF x
<1>6. report = NoReport \/ report = Refused
  BY <1>1 DEF DiagnosisInv
<1> QED BY <1>1, <1>3, <1>4, <1>5, <1>6 DEF DiagnosisInv

(* RunAll returns what its goroutines answered.                              *)
LEMMA WaitKeeps ==
    ASSUME DiagnosisInv, Wait
    PROVE  DiagnosisInv'
<1>1. /\ batches' = Tail(batches) /\ event' = event /\ answers' = answers
      /\ cancelled' = cancelled /\ report' = report /\ launched' = Len(answers)
      /\ batches # <<>> /\ \A k \in DOMAIN running : running[k] # NotYet
      /\ sections' = sections \o running /\ running' = Launch(Tail(batches))
  BY DEF Wait
<1>2. /\ IsSeq(batches) /\ IsSeq(sections) /\ IsSeq(running)
      /\ \A k \in 1..Len(batches) : BatchOf(batches[k], event)
  BY DEF DiagnosisInv
<1>3. 1 \in 1..Len(batches)
  BY <1>1, <1>2 DEF IsSeq
<1>4. IsSeq(batches') /\ \A k \in 1..Len(batches') : BatchOf(batches'[k], event)
  <2> DEFINE T == {batches[k] : k \in DOMAIN batches}
             t == Tail(batches)
  <2>1. batches \in Seq(T) /\ DOMAIN batches = 1..Len(batches)
    BY <1>2 DEF IsSeq
  <2>2. t \in Seq(T)
    <3> HIDE DEF T
    <3> QED BY <1>1, <2>1
  <2>3. \A b \in T : BatchOf(b, event)
    BY <1>2, <2>1
  <2> HIDE DEF t, T
  <2>4. Len(t) \in Nat /\ t \in [1..Len(t) -> T]
    BY <2>2
  <2>5. t = [k \in 1..Len(t) |-> t[k]]
    BY <2>4
  <2>6. IsSeq(t)
    BY <2>4, <2>5, FunctionIsSeq
  <2>7. \A k \in 1..Len(t) : BatchOf(t[k], event)
    BY <2>3, <2>4
  <2> QED BY <1>1, <2>6, <2>7 DEF t
<1>5. /\ DOMAIN running' = IF batches' = <<>> THEN {} ELSE 1..Len(batches'[1].gatherers)
      /\ IsSeq(running')
      /\ \A k \in DOMAIN running' : running'[k] = NotYet
  <2> DEFINE t == Tail(batches)
  <2>1. IsSeq(t) /\ \A k \in 1..Len(t) : BatchOf(t[k], event)
    BY <1>1, <1>4
  <2> HIDE DEF t
  <2>2. /\ DOMAIN Launch(t) = IF t = <<>> THEN {} ELSE 1..Len(t[1].gatherers)
        /\ IsSeq(Launch(t))
        /\ \A k \in DOMAIN Launch(t) : Launch(t)[k] = NotYet
    BY <2>1, LaunchFacts
  <2> QED BY <1>1, <2>2 DEF t
<1>6. /\ IsSeq(sections')
      /\ \A p \in 1..Len(sections') : \/ \E k \in 1..Len(sections) : sections'[p] = sections[k]
                                      \/ \E k \in 1..Len(running) : sections'[p] = running[k]
  <2> DEFINE a == sections \o running
  <2>1. /\ IsSeq(a)
        /\ \A p \in 1..Len(a) : \/ \E k \in 1..Len(sections) : a[p] = sections[k]
                                \/ \E k \in 1..Len(running) : a[p] = running[k]
    BY <1>2, ConcatElements
  <2>2. sections' = a
    BY <1>1
  <2> HIDE DEF a
  <2> QED BY <2>1, <2>2
<1>7. ASSUME ~cancelled, NEW p \in 1..Len(sections')
      PROVE  Observed(sections'[p], event, answers)
  <2>1. CASE \E k \in 1..Len(sections) : sections'[p] = sections[k]
    BY <1>7, <2>1 DEF DiagnosisInv
  <2>2. ASSUME NEW k \in 1..Len(running), sections'[p] = running[k]
        PROVE  Observed(sections'[p], event, answers)
    <3>1. k \in DOMAIN running /\ DOMAIN running = 1..Len(batches[1].gatherers)
      BY <1>1, <1>2, SequenceFacts DEF DiagnosisInv
    <3>2. AnswerOf(running[k], batches[1], k, answers, launched) /\ running[k] # NotYet
      BY <1>1, <1>7, <3>1 DEF DiagnosisInv
    <3>3. PICK m \in Moments(answers, launched) :
            running[k] = GatherSection(batches[1].gatherers[k], batches[1].ref,
                                       AnswersAt(answers, m))
      BY <3>2 DEF AnswerOf
    <3>5. m \in Moments(answers, 1)
      BY MomentFacts DEF DiagnosisInv
    <3>4. batches[1].gatherers[k] \in Known /\ batches[1].ref \in ResourcesOf(event)
      BY <1>2, <1>3, <3>1 DEF BatchOf
    <3> QED BY <2>2, <3>3, <3>4, <3>5 DEF Observed
  <2> QED BY <1>6, <2>1, <2>2
<1>8. report = NoReport \/ report = Refused
  BY <1>1 DEF DiagnosisInv
<1>9. \A k \in DOMAIN running' : AnswerOf(running'[k], batches'[1], k, answers, Len(answers))
  BY <1>5 DEF AnswerOf
<1>10. /\ event \in Events /\ IsSeq(answers) /\ Len(answers) \in 1..Len(answers)
       /\ cancelled \/ \A i \in 1..Len(answers) : answers[i] \in Clusters
  BY SequenceFacts DEF DiagnosisInv
<1> QED BY <1>1, <1>4, <1>5, <1>6, <1>7, <1>8, <1>9, <1>10 DEF DiagnosisInv

(* No step of the worker, of its goroutines or of the cluster leaves the     *)
(* invariant.                                                                *)
LEMMA DiagnosisStep == DiagnosisInv /\ [DiagnosisNext]_diagnosisVars => DiagnosisInv'
<1> SUFFICES ASSUME DiagnosisInv, [DiagnosisNext]_diagnosisVars PROVE DiagnosisInv'
  OBVIOUS
<1>1. ASSUME NEW k \in DOMAIN running, Gather(k) PROVE DiagnosisInv'
  BY <1>1, GatherKeeps
<1>2. CASE Wait
  BY <1>2, WaitKeeps
<1>3. CASE AnalyzeSections
  BY <1>3 DEF AnalyzeSections, DiagnosisInv
<1>4. CASE ClusterChanges
  <2>1. /\ batches' = batches /\ event' = event /\ running' = running
        /\ sections' = sections /\ cancelled' = cancelled /\ report' = report
        /\ launched' = launched /\ answers' = Append(answers, cluster')
        /\ cluster' \in Clusters /\ batches # <<>> /\ ~cancelled
    BY <1>4 DEF ClusterChanges
  <2>2. IsSeq(answers) /\ launched \in 1..Len(answers) /\ 1 \in 1..Len(answers)
    BY SequenceFacts DEF DiagnosisInv
  <2>3. /\ IsSeq(answers') /\ launched \in 1..Len(answers')
        /\ \A i \in 1..Len(answers') :
             (i \in 1..Len(answers) /\ answers'[i] = answers[i]) \/ answers'[i] = cluster'
        /\ \A m \in Moments(answers, launched) :
             m \in Moments(answers', launched) /\ AnswersAt(answers', m) = AnswersAt(answers, m)
    BY <2>1, <2>2, HistoryGrows
  <2>4. \A m \in Moments(answers, 1) :
          m \in Moments(answers', 1) /\ AnswersAt(answers', m) = AnswersAt(answers, m)
    BY <2>1, <2>2, HistoryGrows
  <2>5. \A x, b, k : AnswerOf(x, b, k, answers, launched) => AnswerOf(x, b, k, answers', launched)
    BY <2>3 DEF AnswerOf
  <2>6. \A x : Observed(x, event, answers) => Observed(x, event, answers')
    BY <2>4 DEF Observed
  <2>7. \A i \in 1..Len(answers') : answers'[i] \in Clusters
    BY <2>1, <2>3 DEF DiagnosisInv
  <2> QED BY <2>1, <2>3, <2>5, <2>6, <2>7 DEF DiagnosisInv
<1>5. CASE Cancel
  <2>1. /\ batches' = batches /\ event' = event /\ running' = running
        /\ sections' = sections /\ cancelled' /\ report' = report /\ report = NoReport
        /\ launched' = launched /\ answers' = Append(answers, Unreachable(cluster))
    BY <1>5 DEF Cancel
  <2>2. IsSeq(answers') /\ launched \in 1..Len(answers')
    BY <2>1, HistoryGrows DEF DiagnosisInv
  <2> QED BY <2>1, <2>2 DEF DiagnosisInv
<1>6. CASE UNCHANGED diagnosisVars
  BY <1>6 DEF diagnosisVars, DiagnosisInv
<1> QED BY <1>1, <1>2, <1>3, <1>4, <1>5, <1>6 DEF DiagnosisNext

(* Every section is what its gatherer wrote when its calls were answered, in *)
(* order, as the cluster was at moments of the gathering, and the report was *)
(* made of these sections, for any events, clusters and gatherers, however   *)
(* often the cluster changes and between whichever calls.                    *)
THEOREM DiagnosisInvariant == DiagnosisSpec => []DiagnosisInv
BY DiagnosisInitInv, DiagnosisStep, PTL DEF DiagnosisSpec

-----------------------------------------------------------------------------
(* A failure is contained.                                                   *)

(* What an action of a custom gatherer collects is a sequence of lines that  *)
(* no parser but that of the logs can mistake for its own.                   *)
LEMMA ActionLines ==
    ASSUME NEW c \in Clusters, NEW a, NEW r
    PROVE  LET ls == executeAction(a, r, c).lines
           IN IsSeq(ls) /\ \A k \in 1..Len(ls) : ls[k][1] \in {"json", "log"}
<1> DEFINE Plain(ls) == IsSeq(ls) /\ \A k \in 1..Len(ls) : ls[k][1] \in {"json", "log"}
<1>1. Plain(<<>>)
  BY ShortSequences
<1>2. \A x, y : Plain(<<<<"json", x, y>>>>)
  BY ShortSequences
<1>3. ASSUME NEW ls, IsSeq(ls) PROVE Plain([k \in 1..Len(ls) |-> <<"log", ls[k]>>])
  <2> DEFINE f == [k \in 1..Len(ls) |-> <<"log", ls[k]>>]
  <2>1. Len(ls) \in Nat /\ f = [k \in 1..Len(ls) |-> f[k]]
    BY <1>3, SequenceFacts
  <2>2. \A k \in 1..Len(ls) : f[k][1] = "log"
    OBVIOUS
  <2> HIDE DEF f
  <2>3. IsSeq(f) /\ Len(f) = Len(ls)
    BY <2>1, FunctionIsSeq
  <2>4. Plain(f)
    BY <2>2, <2>3
  <2> QED BY <2>4 DEF f
<1> HIDE DEF Plain
<1>4. Plain(CollectFailed.lines)
  BY <1>1 DEF CollectFailed
<1>5. \A shape, path : Plain(extractJSONPath(shape, path).lines)
  BY <1>2, <1>4 DEF extractJSONPath, Collected
<1>6. Plain(collectResource(a, r, c).lines)
  BY <1>4, <1>5 DEF collectResource
<1>7. Plain(collectLogs(a, r, c).lines)
  <2> DEFINE key == <<ExpandTemplate(a.container, r), a.previous>>
             lines == IF key \in DOMAIN c.logs THEN c.logs[key] ELSE <<>>
  <2>1. IsSeq(lines)
    BY ShortSequences, ClustersAssumption
  <2>2. \/ collectLogs(a, r, c) = CollectFailed
        \/ collectLogs(a, r, c) = Collected([k \in 1..Len(lines) |-> <<"log", lines[k]>>])
    BY DEF collectLogs
  <2> HIDE DEF lines
  <2> QED BY <1>3, <1>4, <2>1, <2>2 DEF Collected
<1> QED BY <1>6, <1>7 DEF executeAction, Plain

(* The content of a custom gatherer's section: everything that its actions   *)
(* collected and nothing else.                                               *)
LEMMA CustomContent ==
    ASSUME NEW at, \A i \in Nat \ {0} : at[i] \in Clusters,
           NEW g \in DOMAIN CustomGatherers, NEW r
    PROVE  LET x == GatherSection(g, r, at)
               collect == CustomGatherers[g].collect
           IN /\ x.gatherer = g /\ IsSeq(x.content)
              /\ \A p \in 1..Len(x.content) : x.content[p][1] \in {"json", "log"}
              /\ \A k \in 1..Len(collect) :
                   LinesOf(executeAction(collect[k], r, at[k]).lines) \subseteq LinesOf(x.content)
<1> DEFINE collect == CustomGatherers[g].collect
           Lines(k) == executeAction(collect[k], r, at[k]).lines
           ss == [k \in 1..Len(collect) |-> Lines(k)]
           f == FlattenSeq(ss)
<1>1. IsSeq(collect) /\ Len(collect) \in Nat
  BY GatherersAssumption, SequenceFacts
<1>2. \A k \in 1..Len(collect) : ss[k] = Lines(k)
  OBVIOUS
<1>3. IsSeq(ss) /\ Len(ss) = Len(collect)
  <2>1. ss = [k \in 1..Len(collect) |-> ss[k]]
    BY <1>2
  <2> HIDE DEF ss
  <2> QED BY <1>1, <2>1, FunctionIsSeq
<1>4. \A k \in 1..Len(collect) :
        IsSeq(Lines(k)) /\ \A i \in 1..Len(Lines(k)) : Lines(k)[i][1] \in {"json", "log"}
  <2> SUFFICES ASSUME NEW k \in 1..Len(collect)
               PROVE  /\ IsSeq(Lines(k))
                      /\ \A i \in 1..Len(Lines(k)) : Lines(k)[i][1] \in {"json", "log"}
    OBVIOUS
  <2>1. at[k] \in Clusters
    BY <1>1
  <2> QED BY <2>1, ActionLines
<1>5. GatherSection(g, r, at).content = f /\ GatherSection(g, r, at).gatherer = g
  <2>1. g \notin BuiltinGatherers
    BY GatherersAssumption
  <2>2. GatherSection(g, r, at) = CustomGather(g, r, at)
    BY <2>1 DEF GatherSection, BuiltinGatherers
  <2> QED BY <2>2 DEF CustomGather
<1> HIDE DEF ss
<1>6. \A k \in 1..Len(ss) : IsSeq(ss[k])
  BY <1>2, <1>3, <1>4
<1>7. /\ IsSeq(f)
      /\ \A k \in 1..Len(ss) : \A i \in 1..Len(ss[k]) : \E p \in 1..Len(f) : f[p] = ss[k][i]
      /\ \A p \in 1..Len(f) : \E k \in 1..Len(ss) : \E i \in 1..Len(ss[k]) : f[p] = ss[k][i]
  BY <1>3, <1>6, FlattenElements
<1> HIDE DEF f
<1>8. ASSUME NEW p \in 1..Len(f) PROVE f[p][1] \in {"json", "log"}
  <2>1. PICK k \in 1..Len(ss) : \E i \in 1..Len(ss[k]) : f[p] = ss[k][i]
    BY <1>7
  <2>2. PICK i \in 1..Len(ss[k]) : f[p] = ss[k][i]
    BY <2>1
  <2>3. ss[k] = Lines(k) /\ k \in 1..Len(collect)
    BY <1>2, <1>3
  <2> QED BY <1>4, <2>2, <2>3
<1>9. ASSUME NEW k \in 1..Len(collect)
      PROVE  LinesOf(Lines(k)) \subseteq LinesOf(f)
  <2>1. k \in 1..Len(ss) /\ ss[k] = Lines(k)
    BY <1>2, <1>3
  <2>2. \A i \in 1..Len(ss[k]) : ss[k][i] \in LinesOf(f)
    BY <1>7, <2>1 DEF LinesOf
  <2> QED BY <2>1, <2>2 DEF LinesOf
<1> QED BY <1>5, <1>7, <1>8, <1>9

(* One failure costs only its own part of the bundle, whichever gatherers    *)
(* run and whatever they ask for.                                            *)
LEMMA InvContainsFailures == DiagnosisInv => FailureIsContained
<1> SUFFICES ASSUME DiagnosisInv, NEW k \in DOMAIN running, running[k] # NotYet, ~cancelled
             PROVE  LET g == batches[1].gatherers[k]
                        ref == batches[1].ref
                        now == launched..Len(answers)
                        Collects(a) ==
                          (\A i \in now : ~executeAction(a, ref, answers[i]).error) =>
                            \E i \in now :
                              LinesOf(executeAction(a, ref, answers[i]).lines) \subseteq
                                LinesOf(running[k].content)
                    IN /\ running[k].error =>
                            \E m \in Moments(answers, launched) :
                              GatherSection(g, ref, AnswersAt(answers, m)).error
                       /\ g \in DOMAIN CustomGatherers =>
                            \A i \in 1..Len(CustomGatherers[g].collect) :
                              Collects(CustomGatherers[g].collect[i])
  BY DEF FailureIsContained
<1> DEFINE g == batches[1].gatherers[k]
           ref == batches[1].ref
<1>1. PICK m \in Moments(answers, launched) :
        running[k] = GatherSection(g, ref, AnswersAt(answers, m))
  BY DEF DiagnosisInv, AnswerOf
<1> DEFINE at == AnswersAt(answers, m)
<1>2. \A i \in Nat \ {0} : \E p \in launched..Len(answers) : at[i] = answers[p]
  BY MomentFacts DEF DiagnosisInv
<1>3. \A p \in launched..Len(answers) : answers[p] \in Clusters
  <2>1. Len(answers) \in Nat /\ launched \in 1..Len(answers)
    BY SequenceFacts DEF DiagnosisInv
  <2>2. \A p \in launched..Len(answers) : p \in 1..Len(answers)
    BY <2>1
  <2> QED BY <2>2 DEF DiagnosisInv
<1> HIDE DEF g, ref, at
<1>4. \A i \in Nat \ {0} : at[i] \in Clusters
  BY <1>2, <1>3
<1>5. running[k].error =>
        \E l \in Moments(answers, launched) : GatherSection(g, ref, AnswersAt(answers, l)).error
  BY <1>1
<1>6. ASSUME g \in DOMAIN CustomGatherers, NEW i \in 1..Len(CustomGatherers[g].collect)
      PROVE  \E p \in launched..Len(answers) :
               LinesOf(executeAction(CustomGatherers[g].collect[i], ref, answers[p]).lines)
                 \subseteq LinesOf(running[k].content)
  <2>1. i \in Nat \ {0}
    BY <1>6, GatherersAssumption, SequenceFacts
  <2>2. PICK p \in launched..Len(answers) : at[i] = answers[p]
    BY <1>2, <2>1
  <2>3. LinesOf(executeAction(CustomGatherers[g].collect[i], ref, at[i]).lines)
          \subseteq LinesOf(running[k].content)
    BY <1>1, <1>4, <1>6, CustomContent DEF at
  <2> QED BY <2>2, <2>3
<1> QED BY <1>5, <1>6 DEF g, ref

(* RunAll and the custom gatherers contain failures.                         *)
THEOREM FailureIsContainedCorrect == DiagnosisSpec => []FailureIsContained
BY DiagnosisInvariant, InvContainsFailures, PTL

-----------------------------------------------------------------------------
(* What the sections say that the rules on nodes, memory and storage read.   *)

(* A section with the title of one of these parsers is of its gatherer or of *)
(* a custom one, and a section of a built-in gatherer is what it wrote.      *)
LEMMA BuiltinSections ==
    ASSUME NEW g, g \notin DOMAIN CustomGatherers, NEW r, NEW at
    PROVE  LET x == GatherSection(g, r, at)
           IN /\ x.title = "Pod Description" \/ x.gatherer = "PodDescribe"
                   => x = PodDescribe(r, at)
              /\ x.title = "PVC Status" => x = PVCStatus(r, at)
              /\ x.title = "Node Conditions" \/ x.gatherer = "NodeConditions"
                   => x = NodeConditions(r, at)
<1> DEFINE x == GatherSection(g, r, at)
<1>1. CASE g = "PodDescribe"
  <2>1. x = PodDescribe(r, at)
    BY <1>1 DEF GatherSection
  <2>2. LET y == PodDescribe(r, at)
        IN y.title \in {"Pod Description", "PodDescribe"} /\ y.gatherer = "PodDescribe"
    BY DEF PodDescribe, Section, ErrorSection
  <2> QED BY <2>1, <2>2
<1>2. CASE g = "PVCStatus"
  <2>1. x = PVCStatus(r, at)
    BY <1>2 DEF GatherSection
  <2>2. LET y == PVCStatus(r, at)
        IN y.title \in {"PVC Status", "PVCStatus"} /\ y.gatherer = "PVCStatus"
    BY DEF PVCStatus, Section, ErrorSection
  <2> QED BY <2>1, <2>2
<1>3. CASE g = "NodeConditions"
  <2>1. x = NodeConditions(r, at)
    BY <1>3 DEF GatherSection
  <2>2. LET y == NodeConditions(r, at)
        IN y.title \in {"Node Conditions", "NodeConditions"} /\ y.gatherer = "NodeConditions"
    BY DEF NodeConditions, DescribeNode, Section, ErrorSection
  <2> QED BY <2>1, <2>2
<1>4. CASE g \notin {"PodDescribe", "PVCStatus", "NodeConditions"}
  <2> DEFINE Other(y) == /\ y.title \notin {"Pod Description", "PVC Status", "Node Conditions"}
                         /\ y.gatherer \notin {"PodDescribe", "NodeConditions"}
  <2>1. Other(PodEvents(r, at))
    BY DEF PodEvents, Section, ErrorSection
  <2>2. Other(PodLogs(r, at))
    BY DEF PodLogs, Section, ErrorSection
  <2>3. Other(OwnerChain(r, at))
    BY DEF OwnerChain, Section, ErrorSection
  <2>4. Other(ReplicaSetStatus(r, at))
    BY DEF ReplicaSetStatus, Section, ErrorSection
  <2>5. Other(NamespaceEvents(r, at))
    BY DEF NamespaceEvents, Section, ErrorSection
  <2>6. Other(KarpenterState(r, at))
    BY DEF KarpenterState, Section
  <2> HIDE DEF Other
  <2>7. Other(x)
    BY <1>4, <2>1, <2>2, <2>3, <2>4, <2>5, <2>6 DEF GatherSection
  <2> QED BY <2>7 DEF Other
<1> QED BY <1>1, <1>2, <1>3, <1>4

(* The lines say that a condition has a status.                              *)
Says(lines, type, status) ==
    \E p \in 1..Len(lines) : lines[p] = <<"nodeCondition", type, status>>

(* What is written of a node are its conditions, all of them.                *)
LEMMA NodeLines ==
    ASSUME NEW c \in Clusters, NEW n, NEW bad
    PROVE  LET x == DescribeNode(c, n)
           IN /\ \A t, st : Says(x.content, t, st) /\ <<t, st>> \in bad => NodeIn(c, n, bad)
              /\ ~x.error /\ NodeIn(c, n, bad)
                   => /\ x.title = "Node Conditions"
                      /\ \E t, st : Says(x.content, t, st) /\ <<t, st>> \in bad
<1> DEFINE x == DescribeNode(c, n)
           conds == c.Node[n]
           lines == [k \in 1..Len(conds) |-> <<"nodeCondition", conds[k][1], conds[k][2]>>]
           There == n \in DOMAIN c.Node
<1>1. x.content = <<>> \/ (There /\ x.content = lines)
  BY DEF DescribeNode, Section, ErrorSection, Found
<1>2. ~x.error => x.content = lines /\ x.title = "Node Conditions"
  BY DEF DescribeNode, Section, ErrorSection
<1>3. There => conds \in Seq(STRING \X STRING)
  BY ClustersAssumption
<1>4. There => /\ Len(conds) \in Nat /\ Len(lines) = Len(conds)
               /\ \A k \in 1..Len(conds) : conds[k] = <<conds[k][1], conds[k][2]>>
  <2> SUFFICES ASSUME There
               PROVE  /\ Len(conds) \in Nat /\ Len(lines) = Len(conds)
                      /\ \A k \in 1..Len(conds) : conds[k] = <<conds[k][1], conds[k][2]>>
    OBVIOUS
  <2>1. conds \in Seq(STRING \X STRING)
    BY <1>3
  <2> HIDE DEF conds
  <2>2. Len(conds) \in Nat /\ \A k \in 1..Len(conds) : conds[k] \in STRING \X STRING
    BY <2>1
  <2>3. lines = [k \in 1..Len(conds) |-> lines[k]]
    OBVIOUS
  <2>4. Len(lines) = Len(conds)
    <3> HIDE DEF lines
    <3> QED BY <2>2, <2>3, FunctionIsSeq
  <2> QED BY <2>2, <2>4
<1>5. NodeIn(c, n, bad) <=> There /\ \E k \in 1..Len(conds) : conds[k] \in bad
  BY DEF NodeIn
<1> HIDE DEF There, conds
<1>8. ASSUME NEW t, NEW st, NEW p \in 1..Len(x.content),
             x.content[p] = <<"nodeCondition", t, st>>, <<t, st>> \in bad
      PROVE  NodeIn(c, n, bad)
  <2>1. There /\ x.content = lines
    BY <1>1, <1>8, ShortSequences
  <2>2. p \in 1..Len(conds)
    BY <1>4, <1>8, <2>1
  <2>3. conds[p][1] = t /\ conds[p][2] = st
    BY <1>8, <2>1, <2>2
  <2>4. conds[p] \in bad
    BY <1>4, <1>8, <2>1, <2>2, <2>3
  <2> QED BY <1>5, <2>1, <2>2, <2>4
<1>9. ASSUME ~x.error, NodeIn(c, n, bad)
      PROVE  /\ x.title = "Node Conditions"
             /\ \E t, st : Says(x.content, t, st) /\ <<t, st>> \in bad
  <2>1. There
    BY <1>5, <1>9
  <2>2. PICK k \in 1..Len(conds) : conds[k] \in bad
    BY <1>5, <1>9
  <2>3. x.content = lines /\ x.title = "Node Conditions"
    BY <1>2, <1>9
  <2>4. k \in 1..Len(x.content)
    BY <1>4, <2>1, <2>3
  <2>5. x.content[k] = <<"nodeCondition", conds[k][1], conds[k][2]>>
    BY <2>3
  <2>6. <<conds[k][1], conds[k][2]>> \in bad
    BY <1>4, <2>1, <2>2
  <2>7. Says(x.content, conds[k][1], conds[k][2])
    BY <2>4, <2>5 DEF Says
  <2> QED BY <2>3, <2>6, <2>7
<1> HIDE DEF x
<1>10. \A t, st : Says(x.content, t, st) /\ <<t, st>> \in bad => NodeIn(c, n, bad)
  BY <1>8 DEF Says
<1> QED BY <1>9, <1>10 DEF x

(* All calls are answered as the cluster was at moments of the history.      *)
LEMMA AnswersFacts ==
    ASSUME NEW h, \A i \in 1..Len(h) : h[i] \in Clusters, NEW at, InOrder(at, h)
    PROVE  \A i \in Nat \ {0} : at[i] \in Clusters /\ \E p \in 1..Len(h) : at[i] = h[p]
<1> SUFFICES ASSUME NEW i \in Nat \ {0}
             PROVE  at[i] \in Clusters /\ \E p \in 1..Len(h) : at[i] = h[p]
  OBVIOUS
<1>1. i <= i
  OBVIOUS
<1>2. \E p, q \in 1..Len(h) : p <= q /\ at[i] = h[p] /\ at[i] = h[q]
  BY <1>1 DEF InOrder
<1> QED BY <1>2

(* The section on nodes speaks of a node that a resource of the event was on *)
(* before, and a node that was down all along is in it.                      *)
LEMMA NodeSection ==
    ASSUME NEW h, \A i \in 1..Len(h) : h[i] \in Clusters, NEW at, InOrder(at, h),
           NEW ev, NEW r \in ResourcesOf(ev), NEW bad
    PROVE  LET x == NodeConditions(r, at)
           IN /\ \A t, st : Says(x.content, t, st) /\ <<t, st>> \in bad => NodeTrouble(h, ev, bad)
              /\ ~x.error /\ ResourcesOf(ev) = {r} /\ DeadNode(h, ev)
                   => /\ x.title = "Node Conditions"
                      /\ \E t, st : Says(x.content, t, st) /\ <<t, st>> \in NotReady
<1> DEFINE x == NodeConditions(r, at)
           Blames == \E t, st : Says(x.content, t, st) /\ <<t, st>> \in bad
           Shows == /\ x.title = "Node Conditions"
                    /\ \E t, st : Says(x.content, t, st) /\ <<t, st>> \in NotReady
           Dead(n) == \A i \in 1..Len(h) : OnNode(h[i], r, n) /\ NodeIn(h[i], n, NotReady)
<1>1. /\ at[1] \in Clusters /\ at[2] \in Clusters
      /\ \E p, q \in 1..Len(h) : p <= q /\ at[1] = h[p] /\ at[1] = h[q]
      /\ \E p, q \in 1..Len(h) : p <= q /\ at[1] = h[p] /\ at[2] = h[q]
  <2>1. 1 \in Nat \ {0} /\ 2 \in Nat \ {0} /\ 1 <= 1 /\ 1 <= 2
    OBVIOUS
  <2>2. \A i, j \in Nat \ {0} :
          i <= j => \E p, q \in 1..Len(h) : p <= q /\ at[i] = h[p] /\ at[j] = h[q]
    BY DEF InOrder
  <2> QED BY <2>1, <2>2, AnswersFacts
<1>2. ResourcesOf(ev) = {r} /\ DeadNode(h, ev) => \E n : Dead(n)
  BY DEF ResourcesOf, DeadNode
<1>3. ASSUME NEW c \in Clusters, NEW n, x = DescribeNode(c, n), OnNode(at[1], r, n),
             \E p, q \in 1..Len(h) : p <= q /\ at[1] = h[p] /\ c = h[q]
      PROVE  /\ Blames => NodeTrouble(h, ev, bad)
             /\ ~x.error /\ Dead(n) => Shows
  <2>1. PICK p \in 1..Len(h), q \in 1..Len(h) : p <= q /\ at[1] = h[p] /\ c = h[q]
    BY <1>3
  <2>2. Blames => NodeIn(c, n, bad)
    BY <1>3, NodeLines
  <2>3. ~x.error /\ NodeIn(c, n, NotReady) => Shows
    BY <1>3, NodeLines
  <2>4. Dead(n) => NodeIn(c, n, NotReady)
    BY <2>1
  <2>5. NodeIn(c, n, bad) => n \in DOMAIN c.Node
    BY DEF NodeIn
  <2> HIDE DEF x, Blames, Shows, Dead
  <2>6. NodeIn(c, n, bad) => NodeTrouble(h, ev, bad)
    BY <1>3, <2>1, <2>5 DEF NodeTrouble
  <2> QED BY <2>2, <2>3, <2>4, <2>6
<1>4. CASE r.kind = "Node"
  <2>1. x = DescribeNode(at[1], r.name) /\ OnNode(at[1], r, r.name)
    BY <1>4 DEF NodeConditions, OnNode
  <2>2. \A n : Dead(n) => n = r.name
    BY <1>1, <1>4 DEF OnNode
  <2> HIDE DEF x, Blames, Shows, Dead
  <2>3. /\ Blames => NodeTrouble(h, ev, bad)
        /\ ~x.error /\ Dead(r.name) => Shows
    BY <1>1, <1>3, <2>1
  <2>4. /\ Blames => NodeTrouble(h, ev, bad)
        /\ ~x.error /\ ResourcesOf(ev) = {r} /\ DeadNode(h, ev) => Shows
    BY <1>2, <2>2, <2>3
  <2> QED BY <2>4 DEF x, Blames, Shows
<1>5. CASE r.kind = "Pod" /\ Found(at[1], "Pod", r.name)
  <2> DEFINE node == at[1].Pod[r.name].node
             Named == node # ""
  <2>1. r.name \in DOMAIN at[1].Pod
    BY <1>5 DEF Found
  <2>2. \A n : Dead(n) => n = node /\ n \in DOMAIN at[1].Node
    BY <1>1, <1>5 DEF OnNode, NodeIn
  <2>3. node \in DOMAIN at[1].Node => Named
    BY <1>1, ClustersAssumption
  <2>4. Named => x = DescribeNode(at[2], node)
    BY <1>5 DEF NodeConditions
  <2>5. ~Named => x.content = <<>>
    BY <1>5 DEF NodeConditions, Section
  <2>6. OnNode(at[1], r, node)
    BY <1>5, <2>1 DEF OnNode
  <2>7. x.content = <<>> => ~Blames
    BY ShortSequences DEF Says
  <2> HIDE DEF x, Blames, Shows, Dead, node, Named
  <2>8. Named => /\ Blames => NodeTrouble(h, ev, bad)
                 /\ ~x.error /\ Dead(node) => Shows
    BY <1>1, <1>3, <2>4, <2>6
  <2>9. /\ Blames => NodeTrouble(h, ev, bad)
        /\ ~x.error /\ ResourcesOf(ev) = {r} /\ DeadNode(h, ev) => Shows
    BY <1>2, <2>2, <2>3, <2>5, <2>7, <2>8
  <2> QED BY <2>9 DEF x, Blames, Shows
<1>6. CASE r.kind # "Node" /\ ~(r.kind = "Pod" /\ Found(at[1], "Pod", r.name))
  <2>1. x = ErrorSection("NodeConditions")
    BY <1>6 DEF NodeConditions
  <2>2. x.error /\ x.content = <<>>
    BY <2>1 DEF ErrorSection
  <2>3. ~Blames
    BY <2>2, ShortSequences DEF Says
  <2> HIDE DEF x
  <2> QED BY <2>2, <2>3 DEF x
<1> QED BY <1>4, <1>5, <1>6

(* A claim is written as pending only if it was.                             *)
LEMMA ClaimLines ==
    ASSUME NEW c, NEW name
    PROVE  /\ IsSeq(gatherPVC(c, name))
           /\ \A i \in 1..Len(gatherPVC(c, name)) :
                gatherPVC(c, name)[i][1] = "phase" /\ gatherPVC(c, name)[i][2] = "Pending"
                  => c.PersistentVolumeClaim[name].phase = "Pending"
<1> DEFINE pvc == c.PersistentVolumeClaim[name]
           first == <<<<"phase", pvc.phase>>>>
           rest == IF pvc.class = "" THEN <<>> ELSE <<<<"storageClass", pvc.class>>>>
           all == first \o rest
<1>1. gatherPVC(c, name) = all
  BY DEF gatherPVC
<1>2. IsSeq(first) /\ \A k \in 1..Len(first) : first[k] = <<"phase", pvc.phase>>
  BY ShortSequences
<1>3. IsSeq(rest) /\ \A k \in 1..Len(rest) : rest[k] = <<"storageClass", pvc.class>>
  <2>1. CASE pvc.class = ""
    <3>1. rest = <<>>
      BY <2>1
    <3> HIDE DEF rest, pvc
    <3> QED BY <3>1, ShortSequences
  <2>2. CASE pvc.class # ""
    <3> DEFINE l == <<"storageClass", pvc.class>>
    <3>1. rest = <<l>>
      BY <2>2
    <3> HIDE DEF l, rest
    <3>2. IsSeq(rest) /\ \A k \in 1..Len(rest) : rest[k] = l
      BY <3>1, ShortSequences
    <3> QED BY <3>2 DEF l
  <2> QED BY <2>1, <2>2
<1> HIDE DEF first, rest, pvc
<1>4. /\ IsSeq(all)
      /\ \A p \in 1..Len(all) : \/ \E k \in 1..Len(first) : all[p] = first[k]
                                \/ \E k \in 1..Len(rest) : all[p] = rest[k]
  BY <1>2, <1>3, ConcatElements
<1> HIDE DEF all
<1>5. \A p \in 1..Len(all) : all[p] = <<"phase", pvc.phase>> \/ all[p] = <<"storageClass", pvc.class>>
  BY <1>2, <1>3, <1>4
<1>6. \A p \in 1..Len(all) : (all[p][1] = "phase" /\ all[p][2] = "Pending") => pvc.phase = "Pending"
  BY <1>5
<1> QED BY <1>1, <1>4, <1>6 DEF pvc

(* A claim is written as pending only if it was, and a resource of the event *)
(* had it before.                                                            *)
LEMMA ClaimSection ==
    ASSUME NEW h, \A i \in 1..Len(h) : h[i] \in Clusters, NEW at, InOrder(at, h),
           NEW ev, NEW r \in ResourcesOf(ev)
    PROVE  LET x == PVCStatus(r, at)
           IN /\ IsSeq(x.content)
              /\ \A p \in 1..Len(x.content) :
                   x.content[p][1] = "phase" /\ x.content[p][2] = "Pending"
                     => ClaimPending(h, ev)
<1> DEFINE x == PVCStatus(r, at)
           c == at[1]
           Pending(l) == l[1] = "phase" /\ l[2] = "Pending"
           Sound == /\ IsSeq(x.content)
                    /\ \A p \in 1..Len(x.content) : Pending(x.content[p]) => ClaimPending(h, ev)
<1> SUFFICES Sound
  OBVIOUS
<1>0. at[1] \in Clusters
  BY AnswersFacts
<1>1. \A d, name : /\ IsSeq(gatherPVC(d, name))
                   /\ \A i \in 1..Len(gatherPVC(d, name)) :
                        Pending(gatherPVC(d, name)[i])
                          => d.PersistentVolumeClaim[name].phase = "Pending"
  BY ClaimLines
<1>a. ASSUME NEW k \in Nat \ {0}, NEW name, WithClaim(at[1], r, name),
             name \in DOMAIN at[k].PersistentVolumeClaim,
             at[k].PersistentVolumeClaim[name].phase = "Pending"
      PROVE  ClaimPending(h, ev)
  <2>1. PICK p \in 1..Len(h), q \in 1..Len(h) : p <= q /\ at[1] = h[p] /\ at[k] = h[q]
    BY DEF InOrder
  <2> QED BY <1>a, <2>1 DEF ClaimPending
<1>2. CASE r.kind = "PersistentVolumeClaim" /\ Found(c, r.kind, r.name)
  <2>1. x.content = gatherPVC(c, r.name)
    BY <1>2 DEF PVCStatus, Section
  <2>2. r.name \in DOMAIN c.PersistentVolumeClaim
    BY <1>2 DEF Found
  <2>3. c.PersistentVolumeClaim[r.name].phase = "Pending" => ClaimPending(h, ev)
    <3>1. WithClaim(at[1], r, r.name)
      BY <1>2 DEF WithClaim
    <3> QED BY <1>a, <2>2, <3>1
  <2> HIDE DEF x
  <2> QED BY <1>1, <2>1, <2>3
<1>3. CASE r.kind = "Pod" /\ Found(c, "Pod", r.name)
  <2> DEFINE claims == c.Pod[r.name].claims
             Claim(d, name) == IF Found(d, "PersistentVolumeClaim", name)
                               THEN gatherPVC(d, name) ELSE <<>>
             ss == [k \in 1..Len(claims) |-> Claim(at[k + 1], claims[k])]
             f == FlattenSeq(ss)
  <2>1. x.content = f
    BY <1>3 DEF PVCStatus, Section
  <2>2. r.name \in DOMAIN c.Pod
    BY <1>3 DEF Found
  <2>3. IsSeq(claims) /\ Len(claims) \in Nat
    BY <1>0, <2>2, ClustersAssumption, SequenceFacts
  <2>4. ASSUME NEW d, NEW name
        PROVE  /\ IsSeq(Claim(d, name))
               /\ \A i \in 1..Len(Claim(d, name)) :
                    Pending(Claim(d, name)[i]) =>
                      /\ name \in DOMAIN d.PersistentVolumeClaim
                      /\ d.PersistentVolumeClaim[name].phase = "Pending"
    <3>1. CASE Found(d, "PersistentVolumeClaim", name)
      BY <1>1, <3>1 DEF Found
    <3>2. CASE ~Found(d, "PersistentVolumeClaim", name)
      BY <3>2, ShortSequences
    <3> QED BY <3>1, <3>2
  <2>b. \A k \in 1..Len(claims) : WithClaim(at[1], r, claims[k])
    BY <1>3, <2>2 DEF WithClaim
  <2> HIDE DEF Claim, claims
  <2>5. /\ ss = [k \in 1..Len(claims) |-> ss[k]]
        /\ \A k \in 1..Len(claims) : ss[k] = Claim(at[k + 1], claims[k])
    OBVIOUS
  <2> HIDE DEF ss
  <2>6. IsSeq(ss) /\ Len(ss) = Len(claims)
    BY <2>3, <2>5, FunctionIsSeq
  <2>7. \A k \in 1..Len(ss) : IsSeq(ss[k])
    BY <2>4, <2>5, <2>6
  <2>8. /\ IsSeq(f)
        /\ \A q \in 1..Len(f) : \E k \in 1..Len(ss) : \E i \in 1..Len(ss[k]) : f[q] = ss[k][i]
    BY <2>6, <2>7, FlattenElements
  <2> HIDE DEF f
  <2>9. ASSUME NEW p \in 1..Len(f), Pending(f[p]) PROVE ClaimPending(h, ev)
    <3>1. PICK k \in 1..Len(ss) : \E i \in 1..Len(ss[k]) : f[p] = ss[k][i]
      BY <2>8
    <3>2. k \in 1..Len(claims) /\ ss[k] = Claim(at[k + 1], claims[k])
      BY <2>5, <2>6
    <3>3. /\ claims[k] \in DOMAIN at[k + 1].PersistentVolumeClaim
          /\ at[k + 1].PersistentVolumeClaim[claims[k]].phase = "Pending"
      BY <2>4, <2>9, <3>1, <3>2
    <3>4. k + 1 \in Nat \ {0}
      BY <2>3, <3>2
    <3> QED BY <1>a, <2>b, <3>2, <3>3, <3>4
  <2> HIDE DEF x
  <2> QED BY <2>1, <2>8, <2>9
<1>4. CASE /\ ~(r.kind = "PersistentVolumeClaim" /\ Found(c, r.kind, r.name))
           /\ ~(r.kind = "Pod" /\ Found(c, "Pod", r.name))
  <2>1. x.content = <<>>
    BY <1>4 DEF PVCStatus, ErrorSection
  <2> HIDE DEF x
  <2> QED BY <2>1, ShortSequences
<1> HIDE DEF Sound
<1> QED BY <1>2, <1>3, <1>4

(* A state in a pod's description follows the status line of its container,  *)
(* and no state or last termination is an OOM kill unless oom.               *)
StateLine(l) == l[1] \in {"waiting", "terminated"}

KillLine(l) ==
    \/ l[1] = "waiting" /\ l[2] = "OOMKilled"
    \/ l[1] \in {"terminated", "lastTermination"} /\ l[3] = "OOMKilled"

Sane(ls, oom) ==
    /\ IsSeq(ls)
    /\ \A p \in 1..Len(ls) :
         /\ StateLine(ls[p]) => p > 1 /\ ls[p - 1][1] = "status"
         /\ KillLine(ls[p]) => oom

LEMMA SaneEmpty == \A oom : Sane(<<>>, oom)
BY ShortSequences DEF Sane

LEMMA SaneLine ==
    ASSUME NEW l, NEW oom, ~StateLine(l), KillLine(l) => oom
    PROVE  Sane(<<l>>, oom)
BY ShortSequences DEF Sane

LEMMA SaneState ==
    ASSUME NEW l, NEW m, NEW oom, l[1] = "status", KillLine(m) => oom
    PROVE  Sane(<<l>> \o <<m>>, oom)
<1> DEFINE s == <<l>> \o <<m>>
<1>1. IsSeq(<<l>>) /\ IsSeq(<<m>>)
  BY ShortSequences
<1>2. IsSeq(s) /\ Len(s) = 2 /\ s[1] = l /\ s[2] = m
  <2> DEFINE u == <<l>>
             v == <<m>>
  <2>1. IsSeq(u) /\ Len(u) = 1 /\ u[1] = l /\ IsSeq(v) /\ Len(v) = 1 /\ v[1] = m
    BY ShortSequences
  <2>2. s = u \o v
    OBVIOUS
  <2> HIDE DEF s, u, v
  <2>3. /\ IsSeq(s) /\ Len(s) = Len(u) + Len(v)
        /\ \A k \in 1..Len(u) : s[k] = u[k]
        /\ \A k \in 1..Len(v) : s[Len(u) + k] = v[k]
    <3>1. IsSeq(u) /\ IsSeq(v)
      BY <2>1
    <3> QED BY ONLY <2>2, <3>1, ConcatFacts
  <2>4. Len(s) = 2 /\ s[1] = u[1] /\ s[1 + 1] = v[1]
    BY <2>1, <2>3
  <2> QED BY <2>1, <2>3, <2>4
<1> HIDE DEF s
<1>3. ASSUME NEW p \in 1..Len(s)
      PROVE  /\ StateLine(s[p]) => p > 1 /\ s[p - 1][1] = "status"
             /\ KillLine(s[p]) => oom
  <2>1. p = 1 \/ p = 2
    BY <1>2
  <2>2. ~StateLine(l) /\ ~KillLine(l)
    BY DEF StateLine, KillLine
  <2>3. CASE p = 1
    BY <1>2, <2>2, <2>3
  <2>4. CASE p = 2
    BY <1>2, <2>4
  <2> QED BY <2>1, <2>3, <2>4
<1>4. Sane(s, oom)
  BY <1>2, <1>3 DEF Sane
<1> QED BY <1>4 DEF s

LEMMA SaneConcat ==
    ASSUME NEW s, NEW t, NEW oom, Sane(s, oom), Sane(t, oom)
    PROVE  Sane(s \o t, oom)
<1> DEFINE a == s \o t
<1>1. IsSeq(s) /\ IsSeq(t)
  BY DEF Sane
<1>2. /\ IsSeq(a)
      /\ Len(s) \in Nat /\ Len(t) \in Nat /\ Len(a) \in Nat
      /\ Len(s) <= Len(a)
      /\ \A k \in 1..Len(s) : a[k] = s[k]
      /\ \A k \in 1..Len(t) : Len(s) + k \in 1..Len(a) /\ a[Len(s) + k] = t[k]
      /\ \A p \in 1..Len(a) : p \in 1..Len(s) \/ \E k \in 1..Len(t) : p = Len(s) + k
  BY <1>1, ConcatFacts
<1> HIDE DEF a
<1>3. ASSUME NEW p \in 1..Len(s)
      PROVE  /\ StateLine(a[p]) => p > 1 /\ a[p - 1][1] = "status"
             /\ KillLine(a[p]) => oom
  <2>1. a[p] = s[p]
    BY <1>2
  <2>2. p > 1 => p - 1 \in 1..Len(s)
    BY <1>2
  <2>3. p > 1 => a[p - 1] = s[p - 1]
    BY <1>2, <2>2
  <2> QED BY <2>1, <2>3 DEF Sane
<1>4. ASSUME NEW k \in 1..Len(t), NEW p, p = Len(s) + k
      PROVE  /\ StateLine(a[p]) => p > 1 /\ a[p - 1][1] = "status"
             /\ KillLine(a[p]) => oom
  <2>1. a[p] = t[k]
    BY <1>2, <1>4
  <2>2. k > 1 => k - 1 \in 1..Len(t) /\ p - 1 = Len(s) + (k - 1) /\ p > 1
    BY <1>2, <1>4
  <2>3. k > 1 => a[p - 1] = t[k - 1]
    BY <1>2, <2>2
  <2> QED BY <2>1, <2>2, <2>3 DEF Sane
<1>5. Sane(a, oom)
  BY <1>2, <1>3, <1>4 DEF Sane
<1> QED BY <1>5 DEF a

LEMMA SaneFlatten ==
    ASSUME NEW ss, NEW oom, IsSeq(ss), \A k \in 1..Len(ss) : Sane(ss[k], oom)
    PROVE  Sane(FlattenSeq(ss), oom)
<1> DEFINE n == Len(ss)
<1>1. n \in Nat /\ \A k \in 1..n : IsSeq(ss[k])
  BY SequenceFacts DEF Sane
<1>2. PICK h : /\ h[0] = <<>>
               /\ \A k \in 1..n : h[k] = h[k - 1] \o ss[k]
               /\ FlattenSeq(ss) = h[n]
  BY <1>1, FlattenSteps
<1> DEFINE M == {m \in 0..n : Sane(h[m], oom)}
<1>3. 0 \in M
  BY <1>1, <1>2, SaneEmpty
<1>4. ASSUME NEW m \in 1..n, m - 1 \in M PROVE m \in M
  <2>1. Sane(h[m - 1], oom) /\ Sane(ss[m], oom) /\ h[m] = h[m - 1] \o ss[m]
    BY <1>2, <1>4
  <2>2. Sane(h[m], oom)
    BY <2>1, SaneConcat
  <2> QED BY <1>1, <2>2
<1>5. n \in M
  <2> HIDE DEF M
  <2>1. \A m \in 0..n : m \in M
    BY <1>1, <1>3, <1>4, Induction
  <2> QED BY <1>1, <2>1
<1> QED BY <1>2, <1>5

(* What one container was killed by.                                         *)
Killed(cs) == "OOMKilled" \in {cs.state.reason, cs.last.reason}

(* A state is one line, and says OOMKilled only if the state does.           *)
LEMMA StateLinesFacts ==
    ASSUME NEW st
    PROVE  \E l : /\ StateLines(st) = <<l>>
                  /\ KillLine(l) => st.reason = "OOMKilled"
                  /\ st.type = "Waiting" => l = <<"waiting", st.reason>>
<1>1. CASE st.type = "Waiting"
  <2> DEFINE l == <<"waiting", st.reason>>
  <2>1. StateLines(st) = <<l>>
    BY <1>1 DEF StateLines
  <2>2. KillLine(l) => st.reason = "OOMKilled"
    BY DEF KillLine
  <2> QED BY <2>1, <2>2
<1>2. CASE st.type = "Terminated"
  <2> DEFINE l == <<"terminated", st.code, st.reason>>
  <2>1. StateLines(st) = <<l>>
    BY <1>2 DEF StateLines
  <2>2. KillLine(l) => st.reason = "OOMKilled"
    BY DEF KillLine
  <2> QED BY <1>2, <2>1, <2>2
<1>3. CASE st.type \notin {"Waiting", "Terminated"}
  <2> DEFINE l == <<"running">>
  <2>1. StateLines(st) = <<l>>
    BY <1>3 DEF StateLines
  <2>2. ~KillLine(l)
    BY DEF KillLine
  <2> QED BY <1>3, <2>1, <2>2
<1> QED BY <1>1, <1>2, <1>3

(* The description of a pod is sane, it says OOMKilled only if a container   *)
(* was killed, and it has a line for every container that waits.             *)
Describes(ls, pod) ==
    /\ Sane(ls, \E css \in {pod.statuses, pod.inits} : \E k \in 1..Len(css) : Killed(css[k]))
    /\ \A k \in 1..Len(pod.statuses) :
         pod.statuses[k].state.type = "Waiting" =>
           \E p \in 1..Len(ls) : ls[p] = <<"waiting", pod.statuses[k].state.reason>>

LEMMA DescribeContent ==
    ASSUME NEW at, at[1] \in Clusters, NEW r, r.name \in DOMAIN at[1].Pod,
           Found(at[1], "Pod", r.name)
    PROVE  Describes(PodDescribe(r, at).content, at[1].Pod[r.name])
<1> DEFINE pod == at[1].Pod[r.name]
           ms == pod.statuses
           is == pod.inits
           oom == \E css \in {ms, is} : \E k \in 1..Len(css) : Killed(css[k])
           Spec1(cs) == <<<<"container", cs.name>>, <<"image", cs.name>>>>
           InitSpec(cs) == <<<<"initContainer", cs.name>>, <<"image", cs.name>>>>
           LastLine(cs) == IF cs.last.reason = "" THEN <<>>
                           ELSE <<<<"lastTermination", cs.last.code, cs.last.reason>>>>
           Head1(cs) == <<<<"status", cs.name, cs.ready, cs.restarts>>>>
           Status(cs) == Head1(cs) \o StateLines(cs.state) \o LastLine(cs)
           InitStatus(cs) ==
             Head1(cs) \o (IF cs.state.type = "Terminated" THEN StateLines(cs.state) ELSE <<>>)
           s0 == <<<<"phase", pod.phase>>>>
           s1 == [k \in 1..Len(ms) |-> Spec1(ms[k])]
           s2 == [k \in 1..Len(is) |-> InitSpec(is[k])]
           s3 == [k \in 1..Len(ms) |-> Status(ms[k])]
           s4 == [k \in 1..Len(is) |-> InitStatus(is[k])]
           t0 == s0 \o FlattenSeq(s1)
           t1 == t0 \o FlattenSeq(s2)
           t2 == t1 \o FlattenSeq(s3)
           t3 == t2 \o FlattenSeq(s4)
<1>1. PodDescribe(r, at).content = t3
  BY DEF PodDescribe, Section, Each
<1>2. IsSeq(ms) /\ Len(ms) \in Nat /\ IsSeq(is) /\ Len(is) \in Nat
  BY ClustersAssumption, SequenceFacts
<1>3. /\ \A k \in 1..Len(ms) : Killed(ms[k]) => oom
      /\ \A k \in 1..Len(is) : Killed(is[k]) => oom
  OBVIOUS
<1> HIDE DEF oom, ms, is, pod
<1>4. \A cs : Sane(Spec1(cs), oom) /\ Sane(InitSpec(cs), oom)
  <2>1. ASSUME NEW l, NEW m, ~StateLine(l), ~StateLine(m), ~KillLine(l), ~KillLine(m)
        PROVE  Sane(<<l, m>>, oom)
    <3> DEFINE s == <<l, m>>
    <3>1. IsSeq(s) /\ Len(s) = 2 /\ s[1] = l /\ s[2] = m
      BY ShortSequences
    <3> HIDE DEF s
    <3>2. \A p \in 1..Len(s) : s[p] = l \/ s[p] = m
      BY <3>1
    <3>3. Sane(s, oom)
      BY <2>1, <3>1, <3>2 DEF Sane
    <3> QED BY <3>3 DEF s
  <2>2. \A x, y : x \in {"container", "image", "initContainer"} =>
          ~StateLine(<<x, y>>) /\ ~KillLine(<<x, y>>)
    BY DEF StateLine, KillLine
  <2> QED BY <2>1, <2>2
<1>5. ASSUME NEW cs, Killed(cs) => oom PROVE Sane(LastLine(cs), oom)
  <2>1. CASE cs.last.reason = ""
    <3>1. LastLine(cs) = <<>>
      BY <2>1
    <3> HIDE DEF LastLine
    <3> QED BY <3>1, SaneEmpty
  <2>2. CASE cs.last.reason # ""
    <3> DEFINE l == <<"lastTermination", cs.last.code, cs.last.reason>>
    <3>1. LastLine(cs) = <<l>>
      BY <2>2
    <3>2. ~StateLine(l) /\ (KillLine(l) => Killed(cs))
      BY DEF StateLine, KillLine, Killed
    <3> HIDE DEF l, LastLine
    <3>3. Sane(<<l>>, oom)
      BY <1>5, <3>2, SaneLine
    <3> QED BY <3>1, <3>3
  <2> QED BY <2>1, <2>2
<1>6. ASSUME NEW cs, Killed(cs) => oom
      PROVE  /\ Sane(Head1(cs) \o StateLines(cs.state), oom)
             /\ cs.state.type = "Waiting" =>
                  \E p \in 1..Len(Head1(cs) \o StateLines(cs.state)) :
                    (Head1(cs) \o StateLines(cs.state))[p] = <<"waiting", cs.state.reason>>
  <2> DEFINE h == <<"status", cs.name, cs.ready, cs.restarts>>
  <2>1. h[1] = "status"
    OBVIOUS
  <2>2. Head1(cs) = <<h>>
    OBVIOUS
  <2>3. PICK l : /\ StateLines(cs.state) = <<l>>
                 /\ KillLine(l) => cs.state.reason = "OOMKilled"
                 /\ cs.state.type = "Waiting" => l = <<"waiting", cs.state.reason>>
    BY StateLinesFacts
  <2>4. KillLine(l) => oom
    BY <1>6, <2>3 DEF Killed
  <2> HIDE DEF h, Head1
  <2>5. Sane(<<h>> \o <<l>>, oom)
    BY <2>1, <2>4, SaneState
  <2>6. \E p \in 1..Len(<<h>> \o <<l>>) : (<<h>> \o <<l>>)[p] = l
    <3>1. IsSeq(<<h>>) /\ IsSeq(<<l>>) /\ Len(<<l>>) = 1 /\ <<l>>[1] = l
      BY ShortSequences
    <3>2. \A k \in 1..Len(<<l>>) : \E p \in 1..Len(<<h>> \o <<l>>) : (<<h>> \o <<l>>)[p] = <<l>>[k]
      BY ONLY <3>1, ConcatElements
    <3> QED BY <3>1, <3>2
  <2> QED BY <2>2, <2>3, <2>5, <2>6
<1>7. ASSUME NEW cs, Killed(cs) => oom
      PROVE  /\ Sane(Status(cs), oom)
             /\ cs.state.type = "Waiting" =>
                  \E p \in 1..Len(Status(cs)) : Status(cs)[p] = <<"waiting", cs.state.reason>>
  <2> DEFINE a == Head1(cs) \o StateLines(cs.state)
             b == LastLine(cs)
             w == <<"waiting", cs.state.reason>>
  <2>1. Sane(a, oom) /\ Sane(b, oom)
    BY <1>5, <1>6, <1>7
  <2>2. cs.state.type = "Waiting" => \E p \in 1..Len(a) : a[p] = w
    BY <1>6, <1>7
  <2>3. Status(cs) = a \o b
    OBVIOUS
  <2> HIDE DEF a, b, Status, w
  <2>4. Sane(a \o b, oom)
    BY <2>1, SaneConcat
  <2>5. \A k \in 1..Len(a) : \E p \in 1..Len(a \o b) : (a \o b)[p] = a[k]
    BY <2>1, ConcatElements DEF Sane
  <2>6. cs.state.type = "Waiting" => \E p \in 1..Len(a \o b) : (a \o b)[p] = w
    BY <2>2, <2>5
  <2> QED BY <2>3, <2>4, <2>6 DEF w
<1>8. ASSUME NEW cs, Killed(cs) => oom PROVE Sane(InitStatus(cs), oom)
  <2>1. CASE cs.state.type = "Terminated"
    <3>1. InitStatus(cs) = Head1(cs) \o StateLines(cs.state)
      BY <2>1
    <3> HIDE DEF InitStatus, Head1
    <3> QED BY <1>6, <1>8, <3>1
  <2>2. CASE cs.state.type # "Terminated"
    <3> DEFINE h == <<"status", cs.name, cs.ready, cs.restarts>>
    <3>1. InitStatus(cs) = <<h>> \o <<>>
      BY <2>2
    <3>2. ~StateLine(h) /\ ~KillLine(h)
      BY DEF StateLine, KillLine
    <3> HIDE DEF h, InitStatus
    <3>3. Sane(<<h>>, oom) /\ Sane(<<>>, oom)
      BY <3>2, SaneLine, SaneEmpty
    <3>4. Sane(<<h>> \o <<>>, oom)
      BY <3>3, SaneConcat
    <3> QED BY <3>1, <3>4
  <2> QED BY <2>1, <2>2
<1> HIDE DEF Spec1, InitSpec, Status, InitStatus
<1>9. /\ IsSeq(s1) /\ Len(s1) = Len(ms) /\ \A k \in 1..Len(ms) : s1[k] = Spec1(ms[k])
      /\ IsSeq(s2) /\ Len(s2) = Len(is) /\ \A k \in 1..Len(is) : s2[k] = InitSpec(is[k])
      /\ IsSeq(s3) /\ Len(s3) = Len(ms) /\ \A k \in 1..Len(ms) : s3[k] = Status(ms[k])
      /\ IsSeq(s4) /\ Len(s4) = Len(is) /\ \A k \in 1..Len(is) : s4[k] = InitStatus(is[k])
  <2>1. /\ s1 = [k \in 1..Len(ms) |-> s1[k]] /\ \A k \in 1..Len(ms) : s1[k] = Spec1(ms[k])
        /\ s2 = [k \in 1..Len(is) |-> s2[k]] /\ \A k \in 1..Len(is) : s2[k] = InitSpec(is[k])
        /\ s3 = [k \in 1..Len(ms) |-> s3[k]] /\ \A k \in 1..Len(ms) : s3[k] = Status(ms[k])
        /\ s4 = [k \in 1..Len(is) |-> s4[k]] /\ \A k \in 1..Len(is) : s4[k] = InitStatus(is[k])
    OBVIOUS
  <2> HIDE DEF s1, s2, s3, s4
  <2>2. IsSeq(s1) /\ Len(s1) = Len(ms)
    BY <1>2, <2>1, FunctionIsSeq
  <2>3. IsSeq(s2) /\ Len(s2) = Len(is)
    BY <1>2, <2>1, FunctionIsSeq
  <2>4. IsSeq(s3) /\ Len(s3) = Len(ms)
    BY <1>2, <2>1, FunctionIsSeq
  <2>5. IsSeq(s4) /\ Len(s4) = Len(is)
    BY <1>2, <2>1, FunctionIsSeq
  <2> QED BY <2>1, <2>2, <2>3, <2>4, <2>5
<1> HIDE DEF s1, s2, s3, s4
<1>10. Sane(FlattenSeq(s1), oom)
  <2>1. \A k \in 1..Len(s1) : Sane(s1[k], oom)
    BY <1>4, <1>9
  <2> QED BY <1>9, <2>1, SaneFlatten
<1>11. Sane(FlattenSeq(s2), oom)
  <2>1. \A k \in 1..Len(s2) : Sane(s2[k], oom)
    BY <1>4, <1>9
  <2> QED BY <1>9, <2>1, SaneFlatten
<1>12. \A k \in 1..Len(s3) : Sane(s3[k], oom)
  BY <1>3, <1>7, <1>9
<1>13. Sane(FlattenSeq(s3), oom)
  BY <1>9, <1>12, SaneFlatten
<1>14. Sane(FlattenSeq(s4), oom)
  <2>1. \A k \in 1..Len(s4) : Sane(s4[k], oom)
    BY <1>3, <1>8, <1>9
  <2> QED BY <1>9, <2>1, SaneFlatten
<1>15. Sane(s0, oom)
  <2> DEFINE l == <<"phase", pod.phase>>
  <2>1. ~StateLine(l) /\ ~KillLine(l)
    BY DEF StateLine, KillLine
  <2> HIDE DEF l
  <2>2. Sane(<<l>>, oom)
    BY <2>1, SaneLine
  <2> QED BY <2>2 DEF l
<1> HIDE DEF s0
<1>16. Sane(t0, oom)
  BY <1>10, <1>15, SaneConcat
<1> HIDE DEF t0
<1>17. Sane(t1, oom)
  BY <1>11, <1>16, SaneConcat
<1> HIDE DEF t1
<1>18. Sane(t2, oom) /\ \A k \in 1..Len(FlattenSeq(s3)) : \E p \in 1..Len(t2) : t2[p] = FlattenSeq(s3)[k]
  <2>1. Sane(t2, oom)
    BY <1>13, <1>17, SaneConcat
  <2>2. IsSeq(t1) /\ IsSeq(FlattenSeq(s3))
    BY <1>13, <1>17 DEF Sane
  <2> QED BY <2>1, <2>2, ConcatElements
<1> HIDE DEF t2
<1>19. Sane(t3, oom) /\ \A k \in 1..Len(t2) : \E p \in 1..Len(t3) : t3[p] = t2[k]
  <2>1. Sane(t3, oom)
    BY <1>14, <1>18, SaneConcat
  <2>2. IsSeq(t2) /\ IsSeq(FlattenSeq(s4))
    BY <1>14, <1>18 DEF Sane
  <2> QED BY <2>1, <2>2, ConcatElements
<1> HIDE DEF t3
<1>20. ASSUME NEW k \in 1..Len(ms), ms[k].state.type = "Waiting"
       PROVE  \E p \in 1..Len(t3) : t3[p] = <<"waiting", ms[k].state.reason>>
  <2> DEFINE w == <<"waiting", ms[k].state.reason>>
             f == FlattenSeq(s3)
             b == s3[k]
  <2>1. b = Status(ms[k])
    BY <1>9
  <2>2. \E i \in 1..Len(b) : b[i] = w
    <3> HIDE DEF b, w
    <3>1. \E p \in 1..Len(Status(ms[k])) : Status(ms[k])[p] = w
      BY <1>3, <1>7, <1>20 DEF w
    <3> QED BY <2>1, <3>1
  <2>3. PICK i \in 1..Len(b) : b[i] = w
    BY <2>2
  <2>4. \A j \in 1..Len(s3) : IsSeq(s3[j])
    BY <1>12 DEF Sane
  <2>5. \A j \in 1..Len(s3) : \A m \in 1..Len(s3[j]) : \E p \in 1..Len(f) : f[p] = s3[j][m]
    BY <1>9, <2>4, FlattenElements
  <2>6. \E p \in 1..Len(f) : f[p] = b[i]
    BY <1>9, <2>5
  <2> HIDE DEF f, b, w
  <2>7. PICK p1 \in 1..Len(f) : f[p1] = w
    BY <2>3, <2>6
  <2>8. PICK p2 \in 1..Len(t2) : t2[p2] = w
    BY <1>18, <2>7 DEF f
  <2>9. \E p \in 1..Len(t3) : t3[p] = w
    BY <1>19, <2>8
  <2> QED BY <2>9 DEF w
<1> QED BY <1>1, <1>19, <1>20 DEF pod, ms, is, oom, Describes

-----------------------------------------------------------------------------
(* What the parser of descriptions does with the lines.                      *)

ContainerFields == {"name", "type", "reason", "code", "lastReason", "lastCode", "image"}

SignalFields ==
    {"podPhase", "containers", "events", "logErrors", "deployment", "desired", "ready",
     "rollout", "pvcPhase", "class", "notReady", "memory", "disk"}

Containers(cs) == IsSeq(cs) /\ \A k \in 1..Len(cs) : ContainerFields \subseteq DOMAIN cs[k]

Signals(s) == SignalFields \subseteq DOMAIN s /\ Containers(s.containers)

Crashing(x) == x.reason = "CrashLoopBackOff"

OOMKilled(x) == x.reason = "OOMKilled" \/ x.lastReason = "OOMKilled"

SameNodeAndClaim(s, t) ==
    /\ t.notReady = s.notReady /\ t.memory = s.memory /\ t.disk = s.disk
    /\ t.pvcPhase = s.pvcPhase

(* The parser's state: the signals, and a current container if there is one. *)
Reading(a) ==
    /\ {"s", "spec", "current"} \subseteq DOMAIN a
    /\ Signals(a.s)
    /\ a.current \in BOOLEAN
    /\ a.current => Len(a.s.containers) >= 1

(* The containers after a line, from those before it.                        *)
LEMMA DescriptionLine ==
    ASSUME NEW a, NEW l, Reading(a)
    PROVE  LET b == PodDescriptionLine(a, l)
               cs == a.s.containers
               ds == b.s.containers
           IN /\ Reading(b) /\ SameNodeAndClaim(a.s, b.s)
              /\ Len(ds) = IF l[1] = "status" THEN Len(cs) + 1 ELSE Len(cs)
              /\ b.current <=> (a.current \/ l[1] = "status")
              /\ \A k \in 1..Len(cs) :
                   (a.current /\ k = Len(cs) /\ StateLine(l)) \/ ds[k].reason = cs[k].reason
              /\ \A k \in 1..Len(ds) :
                   OOMKilled(ds[k]) => KillLine(l) \/ (k \in 1..Len(cs) /\ OOMKilled(cs[k]))
              /\ a.current /\ l = <<"waiting", "CrashLoopBackOff">> => Crashing(ds[Len(cs)])
<1> DEFINE b == PodDescriptionLine(a, l)
           cs == a.s.containers
           n == Len(cs)
           ds == b.s.containers
           With(xs) == [a EXCEPT !.s = [@ EXCEPT !.containers = xs]]
           Current(x) == With([cs EXCEPT ![n] = x])
           Goal == /\ Reading(b) /\ SameNodeAndClaim(a.s, b.s)
                   /\ Len(ds) = IF l[1] = "status" THEN n + 1 ELSE n
                   /\ b.current <=> (a.current \/ l[1] = "status")
                   /\ \A k \in 1..n :
                        (a.current /\ k = n /\ StateLine(l)) \/ ds[k].reason = cs[k].reason
                   /\ \A k \in 1..Len(ds) :
                        OOMKilled(ds[k]) => KillLine(l) \/ (k \in 1..n /\ OOMKilled(cs[k]))
                   /\ a.current /\ l = <<"waiting", "CrashLoopBackOff">> => Crashing(ds[n])
<1> SUFFICES Goal
  OBVIOUS
<1>0. l = <<"waiting", "CrashLoopBackOff">> =>
        l[1] = "waiting" /\ l[2] = "CrashLoopBackOff" /\ l[2] # ""
  OBVIOUS
<1>1. /\ IsSeq(cs) /\ n \in Nat /\ \A k \in 1..n : ContainerFields \subseteq DOMAIN cs[k]
      /\ a.current \in BOOLEAN
      /\ SignalFields \subseteq DOMAIN a.s /\ {"s", "spec", "current"} \subseteq DOMAIN a
      /\ DOMAIN cs = 1..n /\ cs = [k \in 1..n |-> cs[k]]
  BY SequenceFacts DEF Reading, Signals, Containers
<1>2. a.current => n \in 1..n
  BY <1>1 DEF Reading
<1>3. ASSUME NEW xs, Containers(xs)
      PROVE  LET w == With(xs)
             IN /\ w.s.containers = xs /\ w.current = a.current
                /\ SameNodeAndClaim(a.s, w.s) /\ Signals(w.s)
                /\ {"s", "spec", "current"} \subseteq DOMAIN w
  <2> DEFINE w == With(xs)
             t == [a.s EXCEPT !.containers = xs]
  <2>1. w = [a EXCEPT !.s = t]
    OBVIOUS
  <2>2. t.containers = xs /\ DOMAIN t = DOMAIN a.s /\ SameNodeAndClaim(a.s, t)
    BY <1>1 DEF SignalFields, SameNodeAndClaim
  <2> HIDE DEF t
  <2>3. w.s = t /\ w.current = a.current /\ DOMAIN w = DOMAIN a
    BY <1>1, <2>1
  <2> HIDE DEF w
  <2> QED BY <1>1, <1>3, <2>2, <2>3 DEF Signals, w
<1>4. ASSUME NEW x, ContainerFields \subseteq DOMAIN x, a.current,
             b = Current(x), l[1] # "status",
             StateLine(l) \/ x.reason = cs[n].reason,
             OOMKilled(x) => KillLine(l) \/ OOMKilled(cs[n]),
             l = <<"waiting", "CrashLoopBackOff">> => Crashing(x)
      PROVE  Goal
  <2> DEFINE xs == [cs EXCEPT ![n] = x]
  <2>1. /\ DOMAIN xs = 1..n /\ xs = [k \in 1..n |-> xs[k]]
        /\ \A k \in 1..n : xs[k] = IF k = n THEN x ELSE cs[k]
    BY <1>1
  <2>2. b = With(xs)
    BY <1>4
  <2> HIDE DEF xs
  <2>3. IsSeq(xs) /\ Len(xs) = n
    BY <1>1, <2>1, FunctionIsSeq
  <2>4. Containers(xs)
    BY <1>1, <1>4, <2>1, <2>3 DEF Containers
  <2>5. /\ ds = xs /\ b.current = a.current
        /\ SameNodeAndClaim(a.s, b.s) /\ Signals(b.s)
        /\ {"s", "spec", "current"} \subseteq DOMAIN b
    <3> HIDE DEF With, b
    <3> QED BY <1>3, <2>2, <2>4
  <2> HIDE DEF b, Current, With
  <2>6. Reading(b)
    BY <1>2, <1>4, <2>3, <2>5 DEF Reading
  <2>7. \A k \in 1..n : (k = n /\ StateLine(l)) \/ ds[k].reason = cs[k].reason
    BY <1>4, <2>1, <2>5
  <2>8. \A k \in 1..n : OOMKilled(ds[k]) => KillLine(l) \/ (k \in 1..n /\ OOMKilled(cs[k]))
    BY <1>4, <2>1, <2>5
  <2>9. l = <<"waiting", "CrashLoopBackOff">> => Crashing(ds[n])
    BY <1>2, <1>4, <2>1, <2>5
  <2> QED BY <1>4, <2>3, <2>5, <2>6, <2>7, <2>8, <2>9
<1>5. ASSUME NEW xs, Containers(xs), Len(xs) = n, b = With(xs),
             l[1] # "status", ~(l[1] \in {"waiting"} /\ a.current),
             \A k \in 1..n : xs[k].reason = cs[k].reason /\ (OOMKilled(xs[k]) <=> OOMKilled(cs[k]))
      PROVE  Goal
  <2>1. /\ ds = xs /\ b.current = a.current
        /\ SameNodeAndClaim(a.s, b.s) /\ Signals(b.s)
        /\ {"s", "spec", "current"} \subseteq DOMAIN b
    <3> HIDE DEF With, b
    <3> QED BY <1>3, <1>5
  <2> HIDE DEF b, With
  <2>2. Reading(b)
    BY <1>5, <2>1 DEF Reading
  <2>3. l # <<"waiting", "CrashLoopBackOff">> \/ ~a.current
    BY <1>0, <1>5
  <2> QED BY <1>5, <2>1, <2>2, <2>3
<1>6. ASSUME b = a, l[1] # "status",
             ~(l[1] = "waiting" /\ a.current /\ l[2] # "")
      PROVE  Goal
  <2> HIDE DEF b
  <2>1. l # <<"waiting", "CrashLoopBackOff">> \/ ~a.current
    BY <1>0, <1>6
  <2> QED BY <1>6, <2>1 DEF SameNodeAndClaim
<1>7. CASE l[1] = "phase"
  <2> DEFINE t == [a.s EXCEPT !.podPhase = l[2]]
  <2>1. b = [a EXCEPT !.s = t]
    BY <1>7 DEF PodDescriptionLine
  <2>2. t.containers = cs /\ DOMAIN t = DOMAIN a.s /\ SameNodeAndClaim(a.s, t)
    BY <1>1 DEF SignalFields, SameNodeAndClaim
  <2> HIDE DEF t
  <2>3. b.s = t /\ b.current = a.current /\ DOMAIN b = DOMAIN a
    BY <1>1, <2>1
  <2> HIDE DEF b
  <2>4. Reading(b)
    BY <2>2, <2>3 DEF Reading, Signals
  <2>5. l # <<"waiting", "CrashLoopBackOff">>
    BY <1>0, <1>7
  <2>6. ds = cs
    BY <2>2, <2>3
  <2> HIDE DEF cs, ds
  <2> QED BY <1>7, <2>2, <2>3, <2>4, <2>5, <2>6
<1>8. CASE l[1] = "container"
  <2>1. b = [a EXCEPT !.spec = l[2]]
    BY <1>8 DEF PodDescriptionLine
  <2>2. b.s = a.s /\ b.current = a.current /\ DOMAIN b = DOMAIN a
    BY <1>1, <2>1
  <2> HIDE DEF b
  <2>3. Reading(b) /\ SameNodeAndClaim(a.s, b.s)
    BY <2>2 DEF Reading, SameNodeAndClaim
  <2>4. l # <<"waiting", "CrashLoopBackOff">>
    BY <1>0, <1>8
  <2>5. ds = cs
    BY <2>2
  <2> HIDE DEF cs, ds
  <2> QED BY <1>8, <2>2, <2>3, <2>4, <2>5
<1>9. CASE l[1] = "image" /\ a.spec # ""
  <2> DEFINE Img(k) == IF cs[k].name = a.spec THEN [cs[k] EXCEPT !.image = l[2]] ELSE cs[k]
             xs == [k \in 1..n |-> Img(k)]
  <2>1. b = With(xs)
    BY <1>9 DEF PodDescriptionLine
  <2>2. ASSUME NEW k \in 1..n
        PROVE  /\ ContainerFields \subseteq DOMAIN Img(k)
               /\ Img(k).reason = cs[k].reason /\ Img(k).lastReason = cs[k].lastReason
    BY <1>1 DEF ContainerFields
  <2>3. xs = [k \in 1..n |-> xs[k]] /\ \A k \in 1..n : xs[k] = Img(k)
    OBVIOUS
  <2> HIDE DEF Img, xs
  <2>4. IsSeq(xs) /\ Len(xs) = n
    BY <1>1, <2>3, FunctionIsSeq
  <2>5. Containers(xs)
    BY <2>2, <2>3, <2>4 DEF Containers
  <2>6. \A k \in 1..n : xs[k].reason = cs[k].reason /\ (OOMKilled(xs[k]) <=> OOMKilled(cs[k]))
    BY <2>2, <2>3 DEF OOMKilled
  <2> HIDE DEF b, With, Goal, cs, n
  <2> QED BY <1>5, <1>9, <2>1, <2>4, <2>5, <2>6
<1>10. CASE l[1] = "status"
  <2> DEFINE x == [NoContainer EXCEPT !.name = l[2]]
             xs == Append(cs, x)
             w == With(xs)
  <2>1. b = [w EXCEPT !.current = TRUE]
    BY <1>10 DEF PodDescriptionLine
  <2>2. ContainerFields \subseteq DOMAIN x /\ x.reason = "" /\ x.lastReason = ""
    BY DEF NoContainer, ContainerFields
  <2> HIDE DEF x
  <2>3. /\ IsSeq(xs) /\ Len(xs) = n + 1 /\ xs[n + 1] = x
        /\ \A k \in 1..n : xs[k] = cs[k]
    BY <1>1, AppendFacts
  <2> HIDE DEF xs
  <2>4. \A k \in 1..Len(xs) : xs[k] = x \/ (k \in 1..n /\ xs[k] = cs[k])
    BY <1>1, <2>3
  <2>5. Containers(xs)
    BY <1>1, <2>2, <2>3, <2>4 DEF Containers
  <2>6. /\ w.s.containers = xs
        /\ SameNodeAndClaim(a.s, w.s) /\ Signals(w.s)
        /\ {"s", "spec", "current"} \subseteq DOMAIN w
    <3> HIDE DEF With
    <3> QED BY <1>3, <2>5
  <2> HIDE DEF w
  <2>7. b.s = w.s /\ b.current = TRUE /\ DOMAIN b = DOMAIN w
    BY <2>1, <2>6
  <2> HIDE DEF b
  <2>8. ds = xs
    BY <2>6, <2>7
  <2>9. Reading(b) /\ SameNodeAndClaim(a.s, b.s)
    <3>1. Len(xs) >= 1
      BY <1>1, <2>3
    <3>2. Len(b.s.containers) >= 1
      BY <2>8, <3>1
    <3> HIDE DEF ds, cs, n
    <3> QED BY <2>6, <2>7, <3>2 DEF Reading
  <2>10. l # <<"waiting", "CrashLoopBackOff">>
    BY <1>0, <1>10
  <2>11. ~OOMKilled(x)
    BY <2>2 DEF OOMKilled
  <2> HIDE DEF ds, cs
  <2>12. \A k \in 1..Len(ds) : OOMKilled(ds[k]) => k \in 1..n /\ OOMKilled(cs[k])
    BY <2>4, <2>8, <2>11
  <2> QED BY <1>10, <2>3, <2>7, <2>8, <2>9, <2>10, <2>12
<1>11. CASE l[1] = "waiting" /\ a.current /\ l[2] # ""
  <2> DEFINE x == [cs[n] EXCEPT !.type = "Waiting", !.reason = l[2]]
  <2>1. b = Current(x)
    BY <1>11 DEF PodDescriptionLine
  <2>2. /\ ContainerFields \subseteq DOMAIN x
        /\ x.reason = l[2] /\ x.lastReason = cs[n].lastReason
    BY <1>1, <1>2, <1>11 DEF ContainerFields
  <2>3. StateLine(l) /\ (l[2] = "OOMKilled" => KillLine(l))
    BY <1>11 DEF StateLine, KillLine
  <2>4. OOMKilled(x) => KillLine(l) \/ OOMKilled(cs[n])
    BY <2>2, <2>3 DEF OOMKilled
  <2>5. l = <<"waiting", "CrashLoopBackOff">> => Crashing(x)
    BY <2>2 DEF Crashing
  <2> HIDE DEF x, b, Current, Goal, cs, n
  <2> QED BY <1>4, <1>11, <2>1, <2>2, <2>3, <2>4, <2>5
<1>12. CASE l[1] = "terminated" /\ a.current /\ l[3] # ""
  <2> DEFINE x == [cs[n] EXCEPT !.type = "Terminated", !.reason = l[3], !.code = l[2]]
  <2>1. b = Current(x)
    BY <1>12 DEF PodDescriptionLine
  <2>2. /\ ContainerFields \subseteq DOMAIN x
        /\ x.reason = l[3] /\ x.lastReason = cs[n].lastReason
    BY <1>1, <1>2, <1>12 DEF ContainerFields
  <2>3. StateLine(l) /\ (l[3] = "OOMKilled" => KillLine(l))
    BY <1>12 DEF StateLine, KillLine
  <2>4. OOMKilled(x) => KillLine(l) \/ OOMKilled(cs[n])
    BY <2>2, <2>3 DEF OOMKilled
  <2>5. l # <<"waiting", "CrashLoopBackOff">>
    BY <1>0, <1>12
  <2> HIDE DEF x, b, Current, Goal, cs, n
  <2> QED BY <1>4, <1>12, <2>1, <2>2, <2>3, <2>4, <2>5
<1>13. CASE l[1] = "lastTermination" /\ a.current
  <2> DEFINE x == [cs[n] EXCEPT !.lastReason = l[3], !.lastCode = l[2]]
  <2>1. b = Current(x)
    BY <1>13 DEF PodDescriptionLine
  <2>2. /\ ContainerFields \subseteq DOMAIN x
        /\ x.reason = cs[n].reason /\ x.lastReason = l[3]
    BY <1>1, <1>2, <1>13 DEF ContainerFields
  <2>3. l[3] = "OOMKilled" => KillLine(l)
    BY <1>13 DEF KillLine
  <2>4. OOMKilled(x) => KillLine(l) \/ OOMKilled(cs[n])
    BY <2>2, <2>3 DEF OOMKilled
  <2>5. l # <<"waiting", "CrashLoopBackOff">>
    BY <1>0, <1>13
  <2> HIDE DEF x, b, Current, Goal, cs, n
  <2> QED BY <1>4, <1>13, <2>1, <2>2, <2>4, <2>5
<1>14. CASE /\ l[1] \notin {"phase", "container", "status"}
            /\ ~(l[1] = "image" /\ a.spec # "")
            /\ ~(l[1] = "waiting" /\ a.current /\ l[2] # "")
            /\ ~(l[1] = "terminated" /\ a.current /\ l[3] # "")
            /\ ~(l[1] = "lastTermination" /\ a.current)
  <2>1. b = a
    BY <1>14 DEF PodDescriptionLine
  <2> HIDE DEF b, Goal
  <2> QED BY <1>6, <1>14, <2>1
<1> HIDE DEF Goal
<1> QED BY <1>7, <1>8, <1>9, <1>10, <1>11, <1>12, <1>13, <1>14

(* The parser goes through the lines one by one.                             *)
LEMMA DescriptionSteps ==
    ASSUME NEW lines, NEW s, IsSeq(lines)
    PROVE  \E h : /\ h[0] = [s |-> s, spec |-> "", current |-> FALSE]
                  /\ \A k \in 1..Len(lines) : h[k] = PodDescriptionLine(h[k - 1], lines[k])
                  /\ parsePodDescription(lines, s) = h[Len(lines)].s
<1> DEFINE n == Len(lines)
           z == [s |-> s, spec |-> "", current |-> FALSE]
           Good(g, m) == g = [k \in 0..m |-> IF k = 0 THEN z
                                             ELSE PodDescriptionLine(g[k - 1], lines[k])]
           M == {m \in 0..n : \E g : Good(g, m)}
<1>1. n \in Nat
  BY SequenceFacts
<1> HIDE DEF z
<1>2. 0 \in M
  <2>1. Good([k \in 0..0 |-> z], 0)
    OBVIOUS
  <2> HIDE DEF Good
  <2> QED BY <1>1, <2>1
<1>3. ASSUME NEW m \in 1..n, m - 1 \in M PROVE m \in M
  <2>1. PICK g : Good(g, m - 1)
    BY <1>3
  <2> DEFINE x == PodDescriptionLine(g[m - 1], lines[m])
             f == [k \in 0..m |-> IF k = m THEN x ELSE g[k]]
  <2>2. ASSUME NEW k \in 0..m
        PROVE  f[k] = IF k = 0 THEN z ELSE PodDescriptionLine(f[k - 1], lines[k])
    <3>1. CASE k = m
      <4>1. f[k] = x
        BY <3>1
      <4>2. f[m - 1] = g[m - 1] /\ m # 0
        BY <1>1
      <4> QED BY <3>1, <4>1, <4>2
    <3>2. CASE k # m
      <4>1. k \in 0..(m - 1) /\ (k # 0 => k - 1 \in 0..(m - 1))
        BY <1>1, <3>2
      <4>2. g[k] = IF k = 0 THEN z ELSE PodDescriptionLine(g[k - 1], lines[k])
        BY <2>1, <4>1
      <4>3. f[k] = g[k] /\ (k # 0 => f[k - 1] = g[k - 1])
        BY <3>2, <4>1
      <4> QED BY <4>2, <4>3
    <3> QED BY <3>1, <3>2
  <2> HIDE DEF x
  <2>3. Good(f, m)
    BY <2>2
  <2> HIDE DEF Good, f
  <2> QED BY <2>3
<1>4. \E g : Good(g, n)
  <2> HIDE DEF M
  <2>1. \A m \in 0..n : m \in M
    BY <1>1, <1>2, <1>3, Induction
  <2> QED BY <1>1, <2>1 DEF M
<1> DEFINE h == CHOOSE f : Good(f, n)
<1>5. Good(h, n)
  BY <1>4
<1>6. parsePodDescription(lines, s) = h[n].s
  BY DEF parsePodDescription, z
<1> HIDE DEF h
<1>7. h[0] = z /\ \A k \in 1..n : h[k] = PodDescriptionLine(h[k - 1], lines[k])
  BY <1>1, <1>5
<1> QED BY <1>6, <1>7 DEF z

(* After a description: what was known about nodes, claims and crash loops   *)
(* is still known, nobody was OOM-killed who was not before or is in the     *)
(* text, and a container that waits in a crash loop was found.               *)
LEMMA DescriptionEffects ==
    ASSUME NEW lines, NEW oom, Sane(lines, oom), NEW s, Signals(s)
    PROVE  LET t == parsePodDescription(lines, s)
           IN /\ Signals(t) /\ SameNodeAndClaim(s, t)
              /\ \A k \in 1..Len(t.containers) :
                   OOMKilled(t.containers[k]) =>
                     oom \/ \E j \in 1..Len(s.containers) : OOMKilled(s.containers[j])
              /\ hasCrashLoop(s) => hasCrashLoop(t)
              /\ (\E p \in 1..Len(lines) : lines[p] = <<"waiting", "CrashLoopBackOff">>)
                   => hasCrashLoop(t)
<1> DEFINE n == Len(lines)
           t == parsePodDescription(lines, s)
           old == s.containers
           Before == \E j \in 1..Len(old) : OOMKilled(old[j])
<1>1. PICK h : /\ h[0] = [s |-> s, spec |-> "", current |-> FALSE]
               /\ \A k \in 1..n : h[k] = PodDescriptionLine(h[k - 1], lines[k])
               /\ t = h[n].s
  BY DescriptionSteps DEF Sane
<1>2. n \in Nat /\ Len(old) \in Nat
  BY SequenceFacts DEF Sane, Signals, Containers
<1> DEFINE Cs(k) == h[k].s.containers
           Sound(k) == /\ Reading(h[k]) /\ SameNodeAndClaim(s, h[k].s)
                       /\ Len(old) <= Len(Cs(k))
                       /\ \A j \in 1..Len(old) : Cs(k)[j].reason = old[j].reason
                       /\ h[k].current => Len(old) < Len(Cs(k))
                       /\ \A j \in 1..Len(Cs(k)) : OOMKilled(Cs(k)[j]) => oom \/ Before
<1>3. ASSUME NEW k \in 1..n, Reading(h[k - 1])
      PROVE  LET a == h[k - 1]
                 l == lines[k]
                 cs == a.s.containers
                 ds == h[k].s.containers
             IN /\ Reading(h[k]) /\ SameNodeAndClaim(a.s, h[k].s)
                /\ Len(cs) \in Nat
                /\ Len(ds) = IF l[1] = "status" THEN Len(cs) + 1 ELSE Len(cs)
                /\ h[k].current <=> (a.current \/ l[1] = "status")
                /\ \A j \in 1..Len(cs) :
                     (a.current /\ j = Len(cs) /\ StateLine(l)) \/ ds[j].reason = cs[j].reason
                /\ \A j \in 1..Len(ds) :
                     OOMKilled(ds[j]) => KillLine(l) \/ (j \in 1..Len(cs) /\ OOMKilled(cs[j]))
                /\ a.current /\ l = <<"waiting", "CrashLoopBackOff">> => Crashing(ds[Len(cs)])
  <2> DEFINE a == h[k - 1]
             l == lines[k]
  <2>1. h[k] = PodDescriptionLine(a, l)
    BY <1>1
  <2>2. Len(a.s.containers) \in Nat
    BY <1>3, SequenceFacts DEF Reading, Signals, Containers
  <2>3. Reading(a)
    BY <1>3
  <2> HIDE DEF a, l
  <2>4. LET b == PodDescriptionLine(a, l)
            cs == a.s.containers
            ds == b.s.containers
        IN /\ Reading(b) /\ SameNodeAndClaim(a.s, b.s)
           /\ Len(ds) = IF l[1] = "status" THEN Len(cs) + 1 ELSE Len(cs)
           /\ b.current <=> (a.current \/ l[1] = "status")
           /\ \A j \in 1..Len(cs) :
                (a.current /\ j = Len(cs) /\ StateLine(l)) \/ ds[j].reason = cs[j].reason
           /\ \A j \in 1..Len(ds) :
                OOMKilled(ds[j]) => KillLine(l) \/ (j \in 1..Len(cs) /\ OOMKilled(cs[j]))
           /\ a.current /\ l = <<"waiting", "CrashLoopBackOff">> => Crashing(ds[Len(cs)])
    BY <2>3, DescriptionLine
  <2> QED BY <2>1, <2>2, <2>4 DEF a, l
<1>4. Sound(0)
  <2>1. /\ h[0].s = s /\ h[0].current = FALSE
        /\ {"s", "spec", "current"} \subseteq DOMAIN h[0]
    <3>1. PICK e : h[0] = [s |-> s, spec |-> e, current |-> FALSE]
      BY <1>1, Zenon
    <3> QED BY ONLY <3>1
  <2>2. Reading(h[0])
    BY <2>1 DEF Reading
  <2>3. Cs(0) = old
    BY <2>1
  <2> HIDE DEF old, Cs
  <2>4. \A j \in 1..Len(old) : OOMKilled(old[j]) => oom \/ Before
    OBVIOUS
  <2> HIDE DEF Before
  <2> QED BY <1>2, <2>1, <2>2, <2>3, <2>4 DEF SameNodeAndClaim
<1>5. ASSUME NEW k \in 1..n, Sound(k - 1) PROVE Sound(k)
  <2> DEFINE a == h[k - 1]
             b == h[k]
             l == lines[k]
             cs == a.s.containers
             ds == b.s.containers
  <2>1. /\ Reading(b) /\ SameNodeAndClaim(a.s, b.s)
        /\ Len(cs) \in Nat
        /\ Len(ds) = IF l[1] = "status" THEN Len(cs) + 1 ELSE Len(cs)
        /\ b.current <=> (a.current \/ l[1] = "status")
        /\ \A j \in 1..Len(cs) :
             (a.current /\ j = Len(cs) /\ StateLine(l)) \/ ds[j].reason = cs[j].reason
        /\ \A j \in 1..Len(ds) :
             OOMKilled(ds[j]) => KillLine(l) \/ (j \in 1..Len(cs) /\ OOMKilled(cs[j]))
    BY <1>3, <1>5
  <2>2. /\ SameNodeAndClaim(s, a.s)
        /\ Len(old) <= Len(cs)
        /\ \A j \in 1..Len(old) : cs[j].reason = old[j].reason
        /\ a.current => Len(old) < Len(cs)
        /\ \A j \in 1..Len(cs) : OOMKilled(cs[j]) => oom \/ Before
    BY <1>5
  <2>3. KillLine(l) => oom
    BY DEF Sane
  <2> SUFFICES /\ Reading(b) /\ SameNodeAndClaim(s, b.s)
               /\ Len(old) <= Len(ds)
               /\ \A j \in 1..Len(old) : ds[j].reason = old[j].reason
               /\ b.current => Len(old) < Len(ds)
               /\ \A j \in 1..Len(ds) : OOMKilled(ds[j]) => oom \/ Before
    OBVIOUS
  <2>4. SameNodeAndClaim(s, b.s)
    BY <2>1, <2>2 DEF SameNodeAndClaim
  <2> HIDE DEF a, b, l, cs, ds, old, Before, Sound, Cs
  <2>5. Len(old) <= Len(ds) /\ (b.current => Len(old) < Len(ds))
    BY <1>2, <2>1, <2>2
  <2>6. ASSUME NEW j \in 1..Len(old) PROVE ds[j].reason = old[j].reason
    <3>1. j \in 1..Len(cs) /\ ~(a.current /\ j = Len(cs))
      BY <1>2, <2>1, <2>2
    <3> QED BY <2>1, <2>2, <3>1
  <2>7. \A j \in 1..Len(ds) : OOMKilled(ds[j]) => oom \/ Before
    BY <2>1, <2>2, <2>3
  <2> QED BY <2>1, <2>4, <2>5, <2>6, <2>7
<1>6. \A k \in 0..n : Sound(k)
  <2> DEFINE M == {k \in 0..n : Sound(k)}
  <2> HIDE DEF Sound
  <2>1. 0 \in M
    BY <1>2, <1>4
  <2>2. \A k \in 1..n : k - 1 \in M => k \in M
    BY <1>2, <1>5
  <2> HIDE DEF M
  <2>3. \A k \in 0..n : k \in M
    BY <1>2, <2>1, <2>2, Induction
  <2> QED BY <2>3 DEF M
<1>7. Sound(n)
  BY <1>2, <1>6
<1>8. /\ Signals(t) /\ SameNodeAndClaim(s, t)
      /\ \A k \in 1..Len(t.containers) : OOMKilled(t.containers[k]) => oom \/ Before
  BY <1>1, <1>7 DEF Reading
<1>9. hasCrashLoop(s) => hasCrashLoop(t)
  <2> SUFFICES ASSUME NEW j \in 1..Len(old), old[j].reason = "CrashLoopBackOff"
               PROVE  hasCrashLoop(t)
    BY DEF hasCrashLoop
  <2>1. j \in 1..Len(t.containers) /\ t.containers[j].reason = "CrashLoopBackOff"
    <3>1. t.containers = Cs(n)
      BY <1>1
    <3>2. Len(Cs(n)) \in Nat
      BY <1>7, SequenceFacts DEF Reading, Signals, Containers
    <3>3. Len(old) <= Len(Cs(n)) /\ Cs(n)[j].reason = old[j].reason
      BY <1>7
    <3> HIDE DEF old, Cs
    <3> QED BY <1>2, <3>1, <3>2, <3>3
  <2> QED BY <2>1 DEF hasCrashLoop
<1>10. ASSUME NEW p \in 1..n, lines[p] = <<"waiting", "CrashLoopBackOff">>
       PROVE  hasCrashLoop(t)
  <2> DEFINE i == Len(Cs(p - 1))
             Found1(k) == /\ i \in 1..Len(Cs(k)) /\ Crashing(Cs(k)[i])
                          /\ k > p /\ lines[k][1] = "status" => i < Len(Cs(k))
             M == {k \in 0..n : k < p \/ Found1(k)}
  <2>0. \A k \in 0..n : Reading(h[k]) /\ Len(Cs(k)) \in Nat
    BY <1>6, SequenceFacts DEF Reading, Signals, Containers
  <2>1. /\ p > 1 /\ lines[p - 1][1] = "status"
        /\ lines[p][1] # "status"
    <3>1. lines[p][1] = "waiting"
      BY <1>10
    <3> QED BY <3>1 DEF Sane, StateLine
  <2>2. p - 1 \in 1..n /\ p - 1 \in 0..n /\ (p - 1) - 1 \in 0..n
    BY <1>2, <2>1
  <2>3. h[p - 1].current /\ i \in Nat /\ i >= 1
    <3>1. Reading(h[(p - 1) - 1]) /\ Reading(h[p - 1])
      BY <2>0, <2>2
    <3>2. h[p - 1].current
      BY <1>3, <2>1, <2>2, <3>1
    <3>3. i >= 1
      BY <3>1, <3>2 DEF Reading
    <3> QED BY <2>0, <2>2, <3>2, <3>3
  <2>4. Found1(p)
    <3>1. Crashing(Cs(p)[i]) /\ Len(Cs(p)) = i
      BY <1>3, <1>10, <2>0, <2>1, <2>2, <2>3
    <3> HIDE DEF i, Cs
    <3> QED BY <1>2, <2>3, <3>1
  <2>5. ASSUME NEW k \in 1..n, k - 1 \in M PROVE k \in M
    <3>1. CASE k < p
      BY <3>1
    <3>2. CASE k = p
      <4> HIDE DEF Found1
      <4> QED BY <2>4, <3>2
    <3>3. CASE k > p
      <4> DEFINE a == h[k - 1]
                 l == lines[k]
                 cs == Cs(k - 1)
                 ds == Cs(k)
      <4>1. k - 1 \in 0..n /\ ~(k - 1 < p) /\ k - 1 \in Nat
        BY <1>2, <3>3
      <4>2. Reading(a)
        BY <2>0, <4>1
      <4>3. /\ Len(cs) \in Nat
            /\ Len(ds) = IF l[1] = "status" THEN Len(cs) + 1 ELSE Len(cs)
            /\ \A j \in 1..Len(cs) :
                 (a.current /\ j = Len(cs) /\ StateLine(l)) \/ ds[j].reason = cs[j].reason
        BY <1>3, <4>2
      <4>4. Found1(k - 1)
        <5> HIDE DEF Found1
        <5> QED BY <2>5, <4>1
      <4>5. i \in 1..Len(cs) /\ Crashing(cs[i])
        BY <4>4
      <4>6. ASSUME i = Len(cs), StateLine(l) PROVE FALSE
        <5>1. lines[k - 1][1] = "status"
          BY <4>6 DEF Sane
        <5>2. k - 1 # p
          BY <2>1, <5>1
        <5>3. k - 1 > p
          BY <1>2, <4>1, <5>2
        <5>4. i < Len(cs)
          BY <4>4, <5>1, <5>3
        <5> HIDE DEF i, cs
        <5> QED BY <2>3, <4>3, <4>6, <5>4
      <4>7. ds[i].reason = cs[i].reason
        <5> HIDE DEF i, cs, ds, l, a
        <5> QED BY <4>3, <4>5, <4>6
      <4>8. i \in 1..Len(ds) /\ (l[1] = "status" => i < Len(ds))
        <5> HIDE DEF i, cs, ds, l, a
        <5> QED BY <2>3, <4>3, <4>5
      <4>9. Found1(k)
        BY <4>5, <4>7, <4>8 DEF Crashing
      <4> HIDE DEF Found1
      <4> QED BY <4>9
    <3> QED BY <1>2, <3>1, <3>2, <3>3
  <2>6. 0 \in M
    <3> HIDE DEF Found1
    <3> QED BY <1>2, <2>1
  <2>7. Found1(n)
    <3> HIDE DEF M
    <3>1. \A k \in 0..n : k \in M
      BY <1>2, <2>5, <2>6, Induction
    <3> HIDE DEF Found1
    <3> QED BY <1>2, <3>1 DEF M
  <2> QED BY <1>1, <2>7 DEF hasCrashLoop, Crashing
<1> QED BY <1>8, <1>9, <1>10

-----------------------------------------------------------------------------
(* What reading one section does to the signals.                             *)

AnyKilled(s) == \E k \in 1..Len(s.containers) : OOMKilled(s.containers[k])

(* The signals t are s and what the resources of ev in the history h account *)
(* for, and nothing is forgotten about nodes and crash loops.                *)
Explained(s, t, h, ev) ==
    /\ Signals(t)
    /\ s.notReady => t.notReady
    /\ hasCrashLoop(s) => hasCrashLoop(t)
    /\ t.notReady => s.notReady \/ NodeTrouble(h, ev, NotReady)
    /\ t.memory \/ t.disk => s.memory \/ s.disk \/ NodeTrouble(h, ev, Pressure)
    /\ t.pvcPhase = "Pending" => s.pvcPhase = "Pending" \/ ClaimPending(h, ev)
    /\ AnyKilled(t) => AnyKilled(s) \/ OOM(h, ev)

(* Signals that keep these fields are explained.                             *)
LEMMA UnchangedIsExplained ==
    ASSUME NEW s, NEW t, NEW h, NEW ev,
           Signals(t), SameNodeAndClaim(s, t), t.containers = s.containers
    PROVE  Explained(s, t, h, ev)
<1>1. AnyKilled(t) <=> AnyKilled(s)
  BY DEF AnyKilled
<1>2. hasCrashLoop(t) <=> hasCrashLoop(s)
  BY DEF hasCrashLoop
<1> QED BY <1>1, <1>2 DEF Explained, SameNodeAndClaim

(* The description of a pod.                                                 *)
LEMMA ReadDescription ==
    ASSUME NEW h, \A i \in 1..Len(h) : h[i] \in Clusters, NEW at, InOrder(at, h),
           NEW ev, NEW r \in ResourcesOf(ev), NEW s, Signals(s)
    PROVE  LET x == PodDescribe(r, at)
               t == parsePodDescription(x.content, s)
           IN /\ Explained(s, t, h, ev)
              /\ ~x.error /\ ResourcesOf(ev) = {r} /\ CrashLoop(at[1], ev)
                   => x.title = "Pod Description" /\ hasCrashLoop(t)
<1> DEFINE x == PodDescribe(r, at)
           c == at[1]
           pod == c.Pod[r.name]
           oom == \E css \in {pod.statuses, pod.inits} : \E k \in 1..Len(css) : Killed(css[k])
           t == parsePodDescription(x.content, s)
           Crash == \E p \in 1..Len(x.content) : x.content[p] = <<"waiting", "CrashLoopBackOff">>
<1>0. at[1] \in Clusters /\ \E i \in 1..Len(h) : at[1] = h[i]
  <2>1. 1 \in Nat \ {0}
    OBVIOUS
  <2> QED BY <2>1, AnswersFacts
<1>1. CASE Found(c, "Pod", r.name)
  <2>1. r.name \in DOMAIN c.Pod
    BY <1>1 DEF Found
  <2>2. /\ Sane(x.content, oom)
        /\ \A k \in 1..Len(pod.statuses) :
             pod.statuses[k].state.type = "Waiting" =>
               \E p \in 1..Len(x.content) :
                 x.content[p] = <<"waiting", pod.statuses[k].state.reason>>
    <3>1. at[1] \in Clusters /\ r.name \in DOMAIN at[1].Pod /\ Found(at[1], "Pod", r.name)
      BY <1>0, <1>1, <2>1
    <3>2. Describes(PodDescribe(r, at).content, at[1].Pod[r.name])
      BY ONLY <3>1, DescribeContent
    <3> QED BY <3>2 DEF Describes
  <2>3. oom => OOM(h, ev)
    <3>1. r.name \in PodsOf(c, ev)
      BY <2>1 DEF PodsOf
    <3> QED BY <1>0, <3>1 DEF OOM, Killed
  <2>4. ResourcesOf(ev) = {r} /\ CrashLoop(c, ev) => Crash
    <3> SUFFICES ASSUME ResourcesOf(ev) = {r}, CrashLoop(c, ev) PROVE Crash
      OBVIOUS
    <3>1. PodsOf(c, ev) \subseteq {r.name}
      BY DEF PodsOf
    <3>2. PICK k \in 1..Len(pod.statuses) :
            /\ pod.statuses[k].state.type = "Waiting"
            /\ pod.statuses[k].state.reason = "CrashLoopBackOff"
      BY <3>1 DEF CrashLoop
    <3> HIDE DEF pod, x
    <3> QED BY <2>2, <3>2
  <2>5. x.title = "Pod Description"
    BY <1>1 DEF PodDescribe, Section
  <2> HIDE DEF oom, x
  <2>6. /\ Signals(t) /\ SameNodeAndClaim(s, t)
        /\ \A k \in 1..Len(t.containers) :
             OOMKilled(t.containers[k]) =>
               oom \/ \E j \in 1..Len(s.containers) : OOMKilled(s.containers[j])
        /\ hasCrashLoop(s) => hasCrashLoop(t)
        /\ Crash => hasCrashLoop(t)
    <3>1. Sane(x.content, oom) /\ Signals(s)
      BY <2>2
    <3> QED BY ONLY <3>1, DescriptionEffects
  <2> HIDE DEF t, Crash
  <2>7. AnyKilled(t) => AnyKilled(s) \/ OOM(h, ev)
    BY <2>3, <2>6 DEF AnyKilled
  <2>8. Explained(s, t, h, ev)
    BY <2>6, <2>7 DEF Explained, SameNodeAndClaim
  <2> QED BY <2>4, <2>5, <2>6, <2>8 DEF t, x
<1>2. CASE ~Found(c, "Pod", r.name)
  <2>1. x.error /\ x.content = <<>>
    BY <1>2 DEF PodDescribe, ErrorSection
  <2>2. Sane(x.content, FALSE)
    BY <2>1, SaneEmpty
  <2> HIDE DEF x
  <2>3. /\ Signals(t) /\ SameNodeAndClaim(s, t)
        /\ \A k \in 1..Len(t.containers) :
             OOMKilled(t.containers[k]) =>
               FALSE \/ \E j \in 1..Len(s.containers) : OOMKilled(s.containers[j])
        /\ hasCrashLoop(s) => hasCrashLoop(t)
    BY <2>2, DescriptionEffects
  <2> HIDE DEF t
  <2>4. AnyKilled(t) => AnyKilled(s)
    BY <2>3 DEF AnyKilled
  <2>5. Explained(s, t, h, ev)
    BY <2>3, <2>4 DEF Explained, SameNodeAndClaim
  <2> QED BY <2>1, <2>5 DEF t, x
<1> QED BY <1>1, <1>2

(* The status of the claims.                                                 *)
LEMMA ReadClaims ==
    ASSUME NEW h, NEW ev, NEW s, Signals(s), NEW lines, IsSeq(lines),
           \A p \in 1..Len(lines) :
             lines[p][1] = "phase" /\ lines[p][2] = "Pending" => ClaimPending(h, ev)
    PROVE  Explained(s, parsePVCStatus(lines, s), h, ev)
<1> DEFINE t == parsePVCStatus(lines, s)
           I == {i \in 1..Len(lines) : lines[i][1] = "phase"}
           J == {i \in 1..Len(lines) : lines[i][1] = "storageClass"}
           k == IF I # {} THEN Max(I) ELSE 0
           m == IF J # {} THEN Max(J) ELSE 0
           phase == IF k = 0 THEN s.pvcPhase ELSE lines[k][2]
           class == IF m = 0 THEN s.class ELSE lines[m][2]
<1>1. t = [s EXCEPT !.pvcPhase = phase, !.class = class]
  BY DEF parsePVCStatus, Latest, SelectLastInSeq
<1>2. phase = "Pending" => s.pvcPhase = "Pending" \/ ClaimPending(h, ev)
  <2>1. Len(lines) \in Nat
    BY SequenceFacts
  <2>2. I \in SUBSET (1..Len(lines))
    OBVIOUS
  <2>3. I # {} => Max(I) \in I
    <3> HIDE DEF I
    <3> QED BY <2>1, <2>2, MaxPosition
  <2>4. k = 0 \/ (k \in 1..Len(lines) /\ lines[k][1] = "phase")
    BY <2>3
  <2> HIDE DEF k
  <2> QED BY <2>4
<1> HIDE DEF phase, class, t
<1>3. /\ t.pvcPhase = phase /\ t.containers = s.containers
      /\ t.notReady = s.notReady /\ t.memory = s.memory /\ t.disk = s.disk
      /\ DOMAIN t = DOMAIN s
  BY <1>1 DEF Signals, SignalFields
<1>4. Signals(t)
  BY <1>3 DEF Signals
<1>5. (AnyKilled(t) <=> AnyKilled(s)) /\ (hasCrashLoop(t) <=> hasCrashLoop(s))
  BY <1>3 DEF AnyKilled, hasCrashLoop
<1>6. Explained(s, t, h, ev)
  BY <1>2, <1>3, <1>4, <1>5 DEF Explained
<1> QED BY <1>6 DEF t

(* The conditions of a node.                                                 *)
LEMMA ReadConditions ==
    ASSUME NEW h, NEW ev, NEW s, Signals(s), NEW lines,
           \A t, st : Says(lines, t, st) =>
             /\ <<t, st>> \in NotReady => NodeTrouble(h, ev, NotReady)
             /\ <<t, st>> \in Pressure => NodeTrouble(h, ev, Pressure)
    PROVE  LET u == parseNodeConditions(lines, s)
           IN /\ Explained(s, u, h, ev)
              /\ (\E t, st : Says(lines, t, st) /\ <<t, st>> \in NotReady) => u.notReady
<1> DEFINE u == parseNodeConditions(lines, s)
           Has(type, statuses) ==
             \E k \in 1..Len(lines) : \E st \in statuses : lines[k] = <<"nodeCondition", type, st>>
           Said(type, statuses) == \E st \in statuses : Says(lines, type, st)
           nr == s.notReady \/ Has("Ready", {"False", "Unknown"})
           mem == s.memory \/ Has("MemoryPressure", {"True"})
           dsk == s.disk \/ Has("DiskPressure", {"True"})
<1>1. u = [s EXCEPT !.notReady = nr, !.memory = mem, !.disk = dsk]
  BY DEF parseNodeConditions
<1>0. \A type, statuses : Has(type, statuses) <=> Said(type, statuses)
  BY DEF Says
<1> HIDE DEF Has
<1>2. Has("Ready", {"False", "Unknown"}) <=>
        \E t, st : Says(lines, t, st) /\ <<t, st>> \in NotReady
  BY <1>0 DEF NotReady
<1>3. Has("MemoryPressure", {"True"}) => NodeTrouble(h, ev, Pressure)
  BY <1>0 DEF Pressure
<1>4. Has("DiskPressure", {"True"}) => NodeTrouble(h, ev, Pressure)
  BY <1>0 DEF Pressure
<1>5. Has("Ready", {"False", "Unknown"}) => NodeTrouble(h, ev, NotReady)
  <2> HIDE DEF Has
  <2> QED BY <1>2
<1> HIDE DEF Has, u
<1>6. /\ u.notReady = nr /\ u.memory = mem /\ u.disk = dsk
      /\ u.containers = s.containers /\ u.pvcPhase = s.pvcPhase /\ DOMAIN u = DOMAIN s
  <2> HIDE DEF nr, mem, dsk
  <2> QED BY <1>1 DEF Signals, SignalFields
<1>7. Signals(u)
  BY <1>6 DEF Signals
<1>8. (AnyKilled(u) <=> AnyKilled(s)) /\ (hasCrashLoop(u) <=> hasCrashLoop(s))
  <2> HIDE DEF nr, mem, dsk
  <2> QED BY <1>6 DEF AnyKilled, hasCrashLoop
<1>9. Explained(s, u, h, ev)
  BY <1>3, <1>4, <1>5, <1>6, <1>7, <1>8 DEF Explained
<1> QED BY <1>2, <1>6, <1>9 DEF u

(* Lines that only an action of a custom gatherer writes change none of      *)
(* these signals, whatever the title of their section.                       *)
LEMMA ReadPlain ==
    ASSUME NEW h, NEW ev, NEW s, Signals(s), NEW lines, IsSeq(lines),
           \A p \in 1..Len(lines) : lines[p][1] \in {"json", "log"}
    PROVE  /\ Explained(s, parsePodDescription(lines, s), h, ev)
           /\ Explained(s, parsePVCStatus(lines, s), h, ev)
           /\ Explained(s, parseNodeConditions(lines, s), h, ev)
<1>1. Explained(s, parsePVCStatus(lines, s), h, ev)
  BY ReadClaims
<1>2. Explained(s, parseNodeConditions(lines, s), h, ev)
  <2>1. \A t, st : ~Says(lines, t, st)
    BY DEF Says
  <2> QED BY <2>1, ReadConditions
<1>3. Explained(s, parsePodDescription(lines, s), h, ev)
  <2> DEFINE t == parsePodDescription(lines, s)
  <2>1. Sane(lines, FALSE)
    BY DEF Sane, StateLine, KillLine
  <2>2. /\ Signals(t) /\ SameNodeAndClaim(s, t)
        /\ \A k \in 1..Len(t.containers) :
             OOMKilled(t.containers[k]) =>
               FALSE \/ \E j \in 1..Len(s.containers) : OOMKilled(s.containers[j])
        /\ hasCrashLoop(s) => hasCrashLoop(t)
    BY <2>1, DescriptionEffects
  <2> HIDE DEF t
  <2>3. AnyKilled(t) => AnyKilled(s)
    BY <2>2 DEF AnyKilled
  <2>4. Explained(s, t, h, ev)
    BY <2>2, <2>3 DEF Explained, SameNodeAndClaim
  <2> QED BY <2>4 DEF t
<1> QED BY <1>1, <1>2, <1>3

(* The other parsers do not touch them.                                      *)
LEMMA ReadOthers ==
    ASSUME NEW h, NEW ev, NEW s, Signals(s), NEW lines
    PROVE  /\ Explained(s, parsePodEvents(lines, s), h, ev)
           /\ Explained(s, parsePodLogs(lines, s), h, ev)
           /\ Explained(s, parseOwnerChain(lines, s), h, ev)
           /\ Explained(s, parseReplicaSetStatus(lines, s), h, ev)
<1>1. ASSUME NEW t, DOMAIN t = DOMAIN s, t.containers = s.containers, SameNodeAndClaim(s, t)
      PROVE  Explained(s, t, h, ev)
  <2>1. Signals(t)
    BY <1>1 DEF Signals
  <2> QED BY <1>1, <2>1, UnchangedIsExplained
<1>2. \A v : Explained(s, [s EXCEPT !.events = v], h, ev)
  <2> SUFFICES ASSUME NEW v PROVE Explained(s, [s EXCEPT !.events = v], h, ev)
    OBVIOUS
  <2> DEFINE t == [s EXCEPT !.events = v]
  <2>1. DOMAIN t = DOMAIN s /\ t.containers = s.containers /\ SameNodeAndClaim(s, t)
    BY DEF Signals, SignalFields, SameNodeAndClaim
  <2> HIDE DEF t
  <2>2. Explained(s, t, h, ev)
    BY <1>1, <2>1
  <2> QED BY <2>2 DEF t
<1>3. \A v : Explained(s, [s EXCEPT !.logErrors = v], h, ev)
  <2> SUFFICES ASSUME NEW v PROVE Explained(s, [s EXCEPT !.logErrors = v], h, ev)
    OBVIOUS
  <2> DEFINE t == [s EXCEPT !.logErrors = v]
  <2>1. DOMAIN t = DOMAIN s /\ t.containers = s.containers /\ SameNodeAndClaim(s, t)
    BY DEF Signals, SignalFields, SameNodeAndClaim
  <2> HIDE DEF t
  <2>2. Explained(s, t, h, ev)
    BY <1>1, <2>1
  <2> QED BY <2>2 DEF t
<1>4. \A v, w, x : Explained(s, [s EXCEPT !.deployment = v, !.desired = w, !.ready = x], h, ev)
  <2> SUFFICES ASSUME NEW v, NEW w, NEW x
               PROVE  Explained(s, [s EXCEPT !.deployment = v, !.desired = w, !.ready = x], h, ev)
    OBVIOUS
  <2> DEFINE t == [s EXCEPT !.deployment = v, !.desired = w, !.ready = x]
  <2>1. DOMAIN t = DOMAIN s /\ t.containers = s.containers /\ SameNodeAndClaim(s, t)
    BY DEF Signals, SignalFields, SameNodeAndClaim
  <2> HIDE DEF t
  <2>2. Explained(s, t, h, ev)
    BY <1>1, <2>1
  <2> QED BY <2>2 DEF t
<1>5. \A v, w, x, y :
        Explained(s, [s EXCEPT !.deployment = v, !.desired = w, !.ready = x, !.rollout = y], h, ev)
  <2> SUFFICES ASSUME NEW v, NEW w, NEW x, NEW y
               PROVE  Explained(s, [s EXCEPT !.deployment = v, !.desired = w, !.ready = x,
                                            !.rollout = y], h, ev)
    OBVIOUS
  <2> DEFINE t == [s EXCEPT !.deployment = v, !.desired = w, !.ready = x, !.rollout = y]
  <2>1. DOMAIN t = DOMAIN s /\ t.containers = s.containers /\ SameNodeAndClaim(s, t)
    BY DEF Signals, SignalFields, SameNodeAndClaim
  <2> HIDE DEF t
  <2>2. Explained(s, t, h, ev)
    BY <1>1, <2>1
  <2> QED BY <2>2 DEF t
<1>6. Explained(s, parsePodEvents(lines, s), h, ev)
  BY <1>2 DEF parsePodEvents
<1>7. Explained(s, parsePodLogs(lines, s), h, ev)
  BY <1>3 DEF parsePodLogs
<1>8. Explained(s, parseOwnerChain(lines, s), h, ev)
  BY <1>4 DEF parseOwnerChain
<1>9. Explained(s, parseReplicaSetStatus(lines, s), h, ev)
  BY <1>5 DEF parseReplicaSetStatus
<1> QED BY <1>6, <1>7, <1>8, <1>9

(* A section read: everything new comes from the states of the cluster that  *)
(* it was gathered in, and a dead node or a crash loop that it shows is      *)
(* seen.                                                                     *)
LEMMA ReadEffects ==
    ASSUME NEW h, \A i \in 1..Len(h) : h[i] \in Clusters, NEW at, InOrder(at, h),
           NEW ev, NEW r \in ResourcesOf(ev), NEW g, NEW s, Signals(s)
    PROVE  LET x == GatherSection(g, r, at)
               t == ReadSection(s, x)
           IN /\ Explained(s, t, h, ev)
              /\ ~x.error /\ ResourcesOf(ev) = {r} =>
                   /\ x.gatherer = "NodeConditions" /\ DeadNode(h, ev) => t.notReady
                   /\ x.gatherer = "PodDescribe" /\ CrashLoop(at[1], ev) => hasCrashLoop(t)
<1> DEFINE x == GatherSection(g, r, at)
           lines == x.content
           t == ReadSection(s, x)
           ByTitle(w) ==
             /\ Explained(s, w, h, ev)
             /\ ~x.error /\ ResourcesOf(ev) = {r} =>
                  /\ x.gatherer = "NodeConditions" /\ DeadNode(h, ev) => w.notReady
                  /\ x.gatherer = "PodDescribe" /\ CrashLoop(at[1], ev) => hasCrashLoop(w)
<1>1. CASE g \in DOMAIN CustomGatherers
  <2>1. /\ x.gatherer \notin {"NodeConditions", "PodDescribe"} /\ IsSeq(lines)
        /\ \A p \in 1..Len(lines) : lines[p][1] \in {"json", "log"}
    <3>1. g \notin BuiltinGatherers
      BY <1>1, GatherersAssumption
    <3>2. x.gatherer = g /\ IsSeq(lines)
          /\ \A p \in 1..Len(lines) : lines[p][1] \in {"json", "log"}
      <4>1. \A i \in Nat \ {0} : at[i] \in Clusters
        BY AnswersFacts
      <4> QED BY <1>1, <4>1, CustomContent
    <3> HIDE DEF x
    <3> QED BY <3>1, <3>2 DEF BuiltinGatherers
  <2> HIDE DEF x
  <2>2. /\ Explained(s, parsePodDescription(lines, s), h, ev)
        /\ Explained(s, parsePVCStatus(lines, s), h, ev)
        /\ Explained(s, parseNodeConditions(lines, s), h, ev)
    BY <2>1, ReadPlain
  <2>3. /\ Explained(s, parsePodEvents(lines, s), h, ev)
        /\ Explained(s, parsePodLogs(lines, s), h, ev)
        /\ Explained(s, parseOwnerChain(lines, s), h, ev)
        /\ Explained(s, parseReplicaSetStatus(lines, s), h, ev)
    BY ReadOthers
  <2>4. Explained(s, s, h, ev)
    BY UnchangedIsExplained DEF SameNodeAndClaim
  <2>5. Explained(s, t, h, ev)
    BY <2>2, <2>3, <2>4 DEF ReadSection
  <2> QED BY <2>1, <2>5 DEF x
<1>2. CASE g \notin DOMAIN CustomGatherers
  <2>1. /\ x.title = "Pod Description" \/ x.gatherer = "PodDescribe" => x = PodDescribe(r, at)
        /\ x.title = "PVC Status" => x = PVCStatus(r, at)
        /\ x.title = "Node Conditions" \/ x.gatherer = "NodeConditions" => x = NodeConditions(r, at)
    BY <1>2, BuiltinSections
  <2>2. ASSUME x = PodDescribe(r, at)
        PROVE  /\ Explained(s, parsePodDescription(lines, s), h, ev)
               /\ ~x.error /\ ResourcesOf(ev) = {r} /\ CrashLoop(at[1], ev)
                    => x.title = "Pod Description" /\ hasCrashLoop(parsePodDescription(lines, s))
    <3> HIDE DEF x
    <3> QED BY <2>2, ReadDescription
  <2>3. ASSUME x = PVCStatus(r, at) PROVE Explained(s, parsePVCStatus(lines, s), h, ev)
    <3> HIDE DEF x
    <3>1. IsSeq(lines) /\ \A p \in 1..Len(lines) :
            lines[p][1] = "phase" /\ lines[p][2] = "Pending" => ClaimPending(h, ev)
      BY <2>3, ClaimSection
    <3> QED BY <3>1, ReadClaims
  <2>4. ASSUME x = NodeConditions(r, at)
        PROVE  /\ Explained(s, parseNodeConditions(lines, s), h, ev)
               /\ ~x.error /\ ResourcesOf(ev) = {r} /\ DeadNode(h, ev)
                    => x.title = "Node Conditions" /\ parseNodeConditions(lines, s).notReady
    <3> HIDE DEF x
    <3>1. \A u, st : Says(lines, u, st) /\ <<u, st>> \in NotReady => NodeTrouble(h, ev, NotReady)
      BY <2>4, NodeSection
    <3>2. \A u, st : Says(lines, u, st) /\ <<u, st>> \in Pressure => NodeTrouble(h, ev, Pressure)
      BY <2>4, NodeSection
    <3>3. ~x.error /\ ResourcesOf(ev) = {r} /\ DeadNode(h, ev)
            => /\ x.title = "Node Conditions"
               /\ \E u, st : Says(lines, u, st) /\ <<u, st>> \in NotReady
      BY <2>4, NodeSection
    <3>4. LET u == parseNodeConditions(lines, s)
          IN /\ Explained(s, u, h, ev)
             /\ (\E y, st : Says(lines, y, st) /\ <<y, st>> \in NotReady) => u.notReady
      BY <3>1, <3>2, ReadConditions
    <3> QED BY <3>3, <3>4
  <2> HIDE DEF x
  <2>5. /\ Explained(s, parsePodEvents(lines, s), h, ev)
        /\ Explained(s, parsePodLogs(lines, s), h, ev)
        /\ Explained(s, parseOwnerChain(lines, s), h, ev)
        /\ Explained(s, parseReplicaSetStatus(lines, s), h, ev)
    BY ReadOthers
  <2>6. Explained(s, s, h, ev)
    BY UnchangedIsExplained DEF SameNodeAndClaim
  <2>7. Explained(s, t, h, ev)
    BY <2>1, <2>2, <2>3, <2>4, <2>5, <2>6 DEF ReadSection
  <2>8. ASSUME ~x.error, ResourcesOf(ev) = {r}, x.gatherer = "NodeConditions",
               DeadNode(h, ev)
        PROVE  t.notReady
    <3>0. x = NodeConditions(r, at)
      BY <2>1, <2>8
    <3>1. x.title = "Node Conditions" /\ parseNodeConditions(lines, s).notReady
      BY <2>4, <2>8, <3>0
    <3>2. t = parseNodeConditions(lines, s)
      BY <2>8, <3>1 DEF ReadSection
    <3> QED BY <3>1, <3>2
  <2>9. ASSUME ~x.error, ResourcesOf(ev) = {r}, x.gatherer = "PodDescribe", CrashLoop(at[1], ev)
        PROVE  hasCrashLoop(t)
    <3>0. x = PodDescribe(r, at)
      BY <2>1, <2>9
    <3>1. x.title = "Pod Description" /\ hasCrashLoop(parsePodDescription(lines, s))
      BY <2>2, <2>9, <3>0
    <3>2. t = parsePodDescription(lines, s)
      BY <2>9, <3>1 DEF ReadSection
    <3> QED BY <3>1, <3>2
  <2> HIDE DEF t
  <2> QED BY <2>7, <2>8, <2>9 DEF x, t
<1> QED BY <1>1, <1>2

(* The sections are read one by one.                                         *)
LEMMA SignalSteps ==
    ASSUME NEW secs, IsSeq(secs)
    PROVE  \E h : /\ h[0] = NoSignals
                  /\ \A k \in 1..Len(secs) : h[k] = ReadSection(h[k - 1], secs[k])
                  /\ extractSignals(secs) = h[Len(secs)]
<1> DEFINE n == Len(secs)
           Good(g, m) == g = [k \in 0..m |-> IF k = 0 THEN NoSignals
                                             ELSE ReadSection(g[k - 1], secs[k])]
           M == {m \in 0..n : \E g : Good(g, m)}
<1>1. n \in Nat
  BY SequenceFacts
<1>2. 0 \in M
  <2>1. Good([k \in 0..0 |-> NoSignals], 0)
    OBVIOUS
  <2> HIDE DEF Good
  <2> QED BY <1>1, <2>1
<1>3. ASSUME NEW m \in 1..n, m - 1 \in M PROVE m \in M
  <2>1. PICK g : Good(g, m - 1)
    BY <1>3
  <2> DEFINE x == ReadSection(g[m - 1], secs[m])
             f == [k \in 0..m |-> IF k = m THEN x ELSE g[k]]
  <2>2. ASSUME NEW k \in 0..m
        PROVE  f[k] = IF k = 0 THEN NoSignals ELSE ReadSection(f[k - 1], secs[k])
    <3>1. CASE k = m
      <4>1. f[k] = x
        BY <3>1
      <4>2. f[m - 1] = g[m - 1] /\ m # 0
        BY <1>1
      <4> QED BY <3>1, <4>1, <4>2
    <3>2. CASE k # m
      <4>1. k \in 0..(m - 1) /\ (k # 0 => k - 1 \in 0..(m - 1))
        BY <1>1, <3>2
      <4>2. g[k] = IF k = 0 THEN NoSignals ELSE ReadSection(g[k - 1], secs[k])
        BY <2>1, <4>1
      <4>3. f[k] = g[k] /\ (k # 0 => f[k - 1] = g[k - 1])
        BY <3>2, <4>1
      <4> QED BY <4>2, <4>3
    <3> QED BY <3>1, <3>2
  <2> HIDE DEF x
  <2>3. Good(f, m)
    BY <2>2
  <2> HIDE DEF Good, f
  <2> QED BY <2>3
<1>4. \E g : Good(g, n)
  <2> HIDE DEF M
  <2>1. \A m \in 0..n : m \in M
    BY <1>1, <1>2, <1>3, Induction
  <2> QED BY <1>1, <2>1 DEF M
<1> DEFINE h == CHOOSE f : Good(f, n)
<1>5. Good(h, n)
  BY <1>4
<1>6. extractSignals(secs) = h[n]
  BY DEF extractSignals
<1> HIDE DEF h
<1>7. h[0] = NoSignals /\ \A k \in 1..n : h[k] = ReadSection(h[k - 1], secs[k])
  BY <1>1, <1>5
<1> QED BY <1>6, <1>7

(* Before the first section nothing is known.                                *)
LEMMA NothingKnown ==
    /\ Signals(NoSignals) /\ ~AnyKilled(NoSignals)
    /\ ~NoSignals.notReady /\ ~NoSignals.memory /\ ~NoSignals.disk
    /\ NoSignals.pvcPhase # "Pending"
<1>1. PICK e : /\ e # "Pending"
               /\ NoSignals =
                    [podPhase |-> e, containers |-> <<>>, events |-> <<>>, logErrors |-> <<>>,
                     deployment |-> e, desired |-> 0, ready |-> 0, rollout |-> e,
                     pvcPhase |-> e, class |-> e,
                     notReady |-> FALSE, memory |-> FALSE, disk |-> FALSE]
  <2>1. "" # "Pending"
    BY Zenon
  <2> QED BY <2>1, Zenon DEF NoSignals
<1>2. /\ NoSignals.notReady = FALSE /\ NoSignals.memory = FALSE /\ NoSignals.disk = FALSE
      /\ NoSignals.containers = <<>> /\ NoSignals.pvcPhase = e
      /\ DOMAIN NoSignals = SignalFields
  BY <1>1 DEF SignalFields
<1>3. Signals(NoSignals) /\ ~AnyKilled(NoSignals)
  BY <1>2, ShortSequences DEF Signals, Containers, AnyKilled
<1> QED BY <1>1, <1>2, <1>3

(* The signals of observed sections: everything bad was there in the history *)
(* a of the cluster, and what was there all along is among the signals if    *)
(* the gatherer that shows it did not fail.                                  *)
LEMMA SignalFacts ==
    ASSUME NEW ev \in Events, NEW a, IsSeq(a), 1 \in 1..Len(a),
           \A i \in 1..Len(a) : a[i] \in Clusters,
           NEW secs, IsSeq(secs), \A k \in 1..Len(secs) : Observed(secs[k], ev, a)
    PROVE  LET s == extractSignals(secs)
               Shown(name) == \E k \in 1..Len(secs) : secs[k].gatherer = name /\ ~secs[k].error
           IN /\ s.notReady => NodeTrouble(a, ev, NotReady)
              /\ s.memory \/ s.disk => NodeTrouble(a, ev, Pressure)
              /\ s.pvcPhase = "Pending" => ClaimPending(a, ev)
              /\ AnyKilled(s) => OOM(a, ev)
              /\ ~ev.super /\ Shown("NodeConditions") /\ DeadNode(a, ev)
                   => s.notReady
              /\ ~ev.super /\ Shown("PodDescribe") /\ (\A i \in 1..Len(a) : CrashLoop(a[i], ev))
                   => hasCrashLoop(s)
<1> DEFINE n == Len(secs)
<1>1. n \in Nat
  BY SequenceFacts
<1>2. PICK h : /\ h[0] = NoSignals
               /\ \A k \in 1..n : h[k] = ReadSection(h[k - 1], secs[k])
               /\ extractSignals(secs) = h[n]
  BY SignalSteps
<1> DEFINE Down == NodeTrouble(a, ev, NotReady)
           Pressed == NodeTrouble(a, ev, Pressure)
           Pending == ClaimPending(a, ev)
           Oom == OOM(a, ev)
           ShowsNode(k) == /\ ~ev.super /\ secs[k].gatherer = "NodeConditions" /\ ~secs[k].error
                           /\ DeadNode(a, ev)
           ShowsPod(k) == /\ ~ev.super /\ secs[k].gatherer = "PodDescribe" /\ ~secs[k].error
                          /\ \A i \in 1..Len(a) : CrashLoop(a[i], ev)
           Sound(k) == /\ Signals(h[k])
                       /\ h[k].notReady => Down
                       /\ h[k].memory \/ h[k].disk => Pressed
                       /\ h[k].pvcPhase = "Pending" => Pending
                       /\ AnyKilled(h[k]) => Oom
                       /\ (\E j \in 1..k : ShowsNode(j)) => h[k].notReady
                       /\ (\E j \in 1..k : ShowsPod(j)) => hasCrashLoop(h[k])
           M == {k \in 0..n : Sound(k)}
<1>3. 0 \in M
  <2>1. Sound(0)
    <3> HIDE DEF ShowsNode, ShowsPod, Down, Pressed, Pending, Oom
    <3> QED BY <1>2, NothingKnown
  <2> QED BY <1>1, <2>1
<1>4. ASSUME NEW k \in 1..n, k - 1 \in M PROVE k \in M
  <2> DEFINE s == h[k - 1]
             t == h[k]
             x == secs[k]
  <2>1. PICK g \in Known, r \in ResourcesOf(ev), m \in Moments(a, 1) :
          x = GatherSection(g, r, AnswersAt(a, m))
    BY DEF Observed
  <2>a. InOrder(AnswersAt(a, m), a)
    BY MomentFacts
  <2> DEFINE at == AnswersAt(a, m)
  <2>b. \E i \in 1..Len(a) : at[1] = a[i]
    BY <2>a, AnswersFacts
  <2>2. /\ Signals(s) /\ t = ReadSection(s, x)
        /\ s.notReady => Down
        /\ s.memory \/ s.disk => Pressed
        /\ s.pvcPhase = "Pending" => Pending
        /\ AnyKilled(s) => Oom
        /\ (\E j \in 1..(k - 1) : ShowsNode(j)) => s.notReady
        /\ (\E j \in 1..(k - 1) : ShowsPod(j)) => hasCrashLoop(s)
    BY <1>2, <1>4
  <2>3. ~ev.super => ResourcesOf(ev) = {r}
    <3>1. ~ev.super => ev.faults = <<>>
      BY EventsAssumption
    <3>2. ~ev.super => ResourcesOf(ev) = {ev.resource}
      BY <3>1, ShortSequences DEF ResourcesOf
    <3> QED BY <3>2
  <2>4. \A j \in 1..k : j = k \/ j \in 1..(k - 1)
    BY <1>1
  <2>5. h[k] = t /\ secs[k] = x
    OBVIOUS
  <2> SUFFICES Sound(k)
    BY <1>1
  <2> HIDE DEF s, t, x, M, at
  <2>6. /\ Explained(s, t, a, ev)
        /\ ~x.error /\ ResourcesOf(ev) = {r} =>
             /\ x.gatherer = "NodeConditions" /\ DeadNode(a, ev) => t.notReady
             /\ x.gatherer = "PodDescribe" /\ CrashLoop(at[1], ev) => hasCrashLoop(t)
    BY <2>1, <2>2, <2>a, ReadEffects DEF at
  <2>7. ShowsNode(k) => t.notReady
    BY <2>3, <2>5, <2>6
  <2>8. ShowsPod(k) => hasCrashLoop(t)
    BY <2>3, <2>5, <2>6, <2>b
  <2>9. /\ t.notReady => s.notReady \/ Down
        /\ t.memory \/ t.disk => s.memory \/ s.disk \/ Pressed
        /\ t.pvcPhase = "Pending" => s.pvcPhase = "Pending" \/ Pending
        /\ AnyKilled(t) => AnyKilled(s) \/ Oom
        /\ Signals(t) /\ (s.notReady => t.notReady) /\ (hasCrashLoop(s) => hasCrashLoop(t))
    BY <2>6 DEF Explained
  <2> HIDE DEF ShowsNode, ShowsPod, Down, Pressed, Pending, Oom
  <2>10. (\E j \in 1..k : ShowsNode(j)) => t.notReady
    BY <2>2, <2>4, <2>7, <2>9
  <2>11. (\E j \in 1..k : ShowsPod(j)) => hasCrashLoop(t)
    BY <2>2, <2>4, <2>8, <2>9
  <2> QED BY <2>2, <2>5, <2>9, <2>10, <2>11
<1>5. Sound(n)
  <2> HIDE DEF M
  <2>1. \A k \in 0..n : k \in M
    BY <1>1, <1>3, <1>4, Induction
  <2> HIDE DEF Sound
  <2> QED BY <1>1, <2>1 DEF M
<1> HIDE DEF M
<1> QED BY <1>2, <1>5

-----------------------------------------------------------------------------
(* The chain of rules.                                                       *)

(* The report is that of the first rule that fires; the fallback always      *)
(* does.                                                                     *)
LEMMA FirstRule ==
    ASSUME NEW ev, NEW secs
    PROVE  LET chain == rulesChain(ev, extractSignals(secs))
           IN \E k \in 1..15 : /\ chain[k].fires /\ AnalyzeBundle(ev, secs) = chain[k].report
                               /\ \A j \in 1..(k - 1) : ~chain[j].fires
<1> DEFINE chain == rulesChain(ev, extractSignals(secs))
           I == {i \in 1..Len(chain) : chain[i].fires}
<1>1. Len(chain) = 15 /\ chain[15] = ruleFallback(ev, extractSignals(secs))
  BY DEF rulesChain
<1>2. chain[15].fires
  <2>1. ruleFallback(ev, extractSignals(secs)).fires = TRUE
    BY DEF ruleFallback, Rule
  <2> QED BY <1>1, <2>1
<1> HIDE DEF chain
<1>3. I \in SUBSET (1..15) /\ 15 \in I
  BY <1>1, <1>2
<1>4. Min(I) \in I /\ \A j \in I : Min(I) <= j
  <2> HIDE DEF I
  <2> QED BY <1>3, MinPosition
<1>5. AnalyzeBundle(ev, secs) = chain[Min(I)].report
  <2>1. I # {}
    BY <1>3
  <2> QED BY <2>1 DEF AnalyzeBundle, SelectInSeq, chain
<1> DEFINE k == Min(I)
<1>6. k \in 1..15 /\ chain[k].fires /\ \A j \in I : k <= j
  BY <1>1, <1>4
<1>7. k \in Nat
  BY <1>6
<1> HIDE DEF k
<1>8. \A j \in 1..(k - 1) : ~chain[j].fires
  BY <1>1, <1>6, <1>7
<1> QED BY <1>5, <1>6, <1>8 DEF k, chain

(* Every rule of the chain by its place: its name, and that only the last    *)
(* reports an unknown category.                                              *)
RuleNames ==
    <<"OOMKilled", "NodeNotReady", "NodePressure", "PVCStuckPending", "SchedulingFailed",
      "ImagePullError", "PodStuckPending", "ProbeFailure", "CrashLoopWithLogs",
      "DeploymentRollout", "JobDeadlineExceeded", "PodFailed", "GenericCrashLoop",
      "GenericFromLogs", "Fallback">>

LEMMA LogCategories == \A p : logPatternCategory(p) # "unknown"
BY DEF logPatternCategory

LEMMA RuleReports ==
    ASSUME NEW ev, NEW s, NEW k \in 1..15, rulesChain(ev, s)[k].fires
    PROVE  /\ rulesChain(ev, s)[k].report.rule = RuleNames[k]
           /\ k # 15 => rulesChain(ev, s)[k].report.category # "unknown"
           /\ k = 2 => rulesChain(ev, s)[k].report.systemic = TRUE
<1> DEFINE chain == rulesChain(ev, s)
           Good(x, j) == /\ x.report.rule = RuleNames[j]
                         /\ j # 15 => x.report.category # "unknown"
                         /\ j = 2 => x.report.systemic = TRUE
<1>1. Good(ruleOOMKilled(ev, s), 1)
  BY DEF ruleOOMKilled, Rule, Report, RuleNames
<1>2. Good(ruleNodeNotReady(ev, s), 2)
  BY DEF ruleNodeNotReady, Rule, Report, RuleNames
<1>3. Good(ruleNodePressure(ev, s), 3)
  BY DEF ruleNodePressure, Rule, Report, RuleNames
<1>4. Good(rulePVCStuckPending(ev, s), 4)
  BY DEF rulePVCStuckPending, Rule, Report, RuleNames
<1>5. Good(ruleSchedulingFailed(ev, s), 5)
  BY DEF ruleSchedulingFailed, Rule, Report, RuleNames
<1>6. Good(ruleImagePullError(ev, s), 6)
  BY DEF ruleImagePullError, Rule, Report, RuleNames
<1>7. Good(rulePodStuckPending(ev, s), 7)
  BY DEF rulePodStuckPending, Rule, Report, RuleNames
<1>8. Good(ruleProbeFailure(ev, s), 8)
  BY DEF ruleProbeFailure, Rule, Report, RuleNames
<1>9. ruleCrashLoopWithLogs(ev, s).fires => Good(ruleCrashLoopWithLogs(ev, s), 9)
  <2> DEFINE f == hasCrashLoop(s) /\ s.logErrors # <<>>
             cat == logPatternCategory(s.logErrors[1].pattern)
             r == [Report(ev, "CrashLoopWithLogs", ev.severity, cat, ev.super)
                     EXCEPT !.container = Crashed(s), !.quote = s.logErrors[1].quote]
  <2>1. ruleCrashLoopWithLogs(ev, s) = [fires |-> f, report |-> IF ~f THEN {} ELSE r]
    BY DEF ruleCrashLoopWithLogs, Rule
  <2>2. cat # "unknown"
    BY LogCategories
  <2> HIDE DEF f, cat
  <2>3. r.rule = "CrashLoopWithLogs" /\ r.category = cat
    BY DEF Report
  <2> HIDE DEF r
  <2>4. ruleCrashLoopWithLogs(ev, s).fires = f
    BY ONLY <2>1
  <2>5. f => ruleCrashLoopWithLogs(ev, s).report = r
    BY ONLY <2>1
  <2>6. RuleNames[9] = "CrashLoopWithLogs"
    BY DEF RuleNames
  <2> QED BY <2>2, <2>3, <2>4, <2>5, <2>6
<1>10. Good(ruleDeploymentRollout(ev, s), 10)
  BY DEF ruleDeploymentRollout, Rule, Report, RuleNames
<1>11. Good(ruleJobDeadlineExceeded(ev, s), 11)
  BY DEF ruleJobDeadlineExceeded, Rule, Report, RuleNames
<1>12. Good(rulePodFailed(ev, s), 12)
  BY DEF rulePodFailed, Rule, Report, RuleNames
<1>13. Good(ruleGenericCrashLoop(ev, s), 13)
  BY DEF ruleGenericCrashLoop, Rule, Report, RuleNames
<1>14. ruleGenericFromLogs(ev, s).fires => Good(ruleGenericFromLogs(ev, s), 14)
  <2> DEFINE f == s.logErrors # <<>>
             cat == logPatternCategory(s.logErrors[1].pattern)
             r == [Report(ev, "GenericFromLogs", ev.severity, cat, ev.super)
                     EXCEPT !.quote = s.logErrors[1].quote]
  <2>1. ruleGenericFromLogs(ev, s) = [fires |-> f, report |-> IF ~f THEN {} ELSE r]
    BY DEF ruleGenericFromLogs, Rule
  <2>2. cat # "unknown"
    BY LogCategories
  <2> HIDE DEF f, cat
  <2>3. r.rule = "GenericFromLogs" /\ r.category = cat
    BY DEF Report
  <2> HIDE DEF r
  <2>4. ruleGenericFromLogs(ev, s).fires = f
    BY ONLY <2>1
  <2>5. f => ruleGenericFromLogs(ev, s).report = r
    BY ONLY <2>1
  <2>6. RuleNames[14] = "GenericFromLogs"
    BY DEF RuleNames
  <2> QED BY <2>2, <2>3, <2>4, <2>5, <2>6
<1>15. Good(ruleFallback(ev, s), 15)
  BY DEF ruleFallback, Rule, Report, RuleNames
<1>16. /\ chain[1] = ruleOOMKilled(ev, s) /\ chain[2] = ruleNodeNotReady(ev, s)
       /\ chain[3] = ruleNodePressure(ev, s) /\ chain[4] = rulePVCStuckPending(ev, s)
       /\ chain[5] = ruleSchedulingFailed(ev, s) /\ chain[6] = ruleImagePullError(ev, s)
       /\ chain[7] = rulePodStuckPending(ev, s) /\ chain[8] = ruleProbeFailure(ev, s)
       /\ chain[9] = ruleCrashLoopWithLogs(ev, s) /\ chain[10] = ruleDeploymentRollout(ev, s)
       /\ chain[11] = ruleJobDeadlineExceeded(ev, s) /\ chain[12] = rulePodFailed(ev, s)
       /\ chain[13] = ruleGenericCrashLoop(ev, s) /\ chain[14] = ruleGenericFromLogs(ev, s)
       /\ chain[15] = ruleFallback(ev, s)
  BY DEF rulesChain
<1>17. k \in {1, 2, 3, 4, 5, 6, 7, 8, 9, 10, 11, 12, 13, 14, 15}
  OBVIOUS
<1>18. chain[k].fires
  OBVIOUS
<1> HIDE DEF chain, Good
<1>19. Good(chain[k], k)
  BY <1>1, <1>2, <1>3, <1>4, <1>5, <1>6, <1>7, <1>8, <1>9, <1>10, <1>11, <1>12, <1>13,
     <1>14, <1>15, <1>16, <1>17, <1>18
<1> QED BY <1>19 DEF Good, chain

(* When the rules that the properties are about fire.                        *)
LEMMA RuleConditions ==
    ASSUME NEW ev, NEW s
    PROVE  LET chain == rulesChain(ev, s)
           IN /\ chain[1].fires => AnyKilled(s)
              /\ chain[2].fires <=> s.notReady
              /\ chain[3].fires => s.memory \/ s.disk
              /\ chain[4].fires <=> s.pvcPhase = "Pending" \/ ev.detector = "PVCStuckBinding"
              /\ ev.detector = "PodStuckPending" => chain[7].fires
              /\ ev.detector = "JobDeadlineExceeded" => chain[11].fires
              /\ ev.detector = "PodFailed" => chain[12].fires
              /\ chain[13].fires <=> hasCrashLoop(s)
<1> DEFINE chain == rulesChain(ev, s)
<1>1. chain[1].fires => AnyKilled(s)
  <2> DEFINE K(x) == x.reason = "OOMKilled" \/ x.lastReason = "OOMKilled"
             I == {i \in 1..Len(s.containers) : K(s.containers[i])}
             i0 == IF I # {} THEN Min(I) ELSE 0
             x0 == IF i0 = 0 THEN NoContainer ELSE s.containers[i0]
  <2>1. ruleOOMKilled(ev, s).fires = (x0 # NoContainer)
    BY DEF ruleOOMKilled, Rule, Lookup, SelectInSeq
  <2>2. chain[1] = ruleOOMKilled(ev, s)
    BY DEF rulesChain
  <2>3. chain[1].fires => I # {}
    BY <2>1, <2>2
  <2> QED BY <2>3 DEF AnyKilled, OOMKilled
<1>2. chain[2].fires <=> s.notReady
  <2>1. chain[2] = ruleNodeNotReady(ev, s)
    BY DEF rulesChain
  <2> QED BY <2>1 DEF ruleNodeNotReady, Rule
<1>3. chain[3].fires => s.memory \/ s.disk
  <2>1. chain[3] = ruleNodePressure(ev, s)
    BY DEF rulesChain
  <2> DEFINE f == s.memory \/ s.disk
  <2>2. ruleNodePressure(ev, s).fires = f
    BY ZenonT(30) DEF ruleNodePressure, Rule
  <2> QED BY ONLY <2>1, <2>2
<1>4. chain[4].fires <=> s.pvcPhase = "Pending" \/ ev.detector = "PVCStuckBinding"
  <2>1. chain[4] = rulePVCStuckPending(ev, s)
    BY DEF rulesChain
  <2> DEFINE f == s.pvcPhase = "Pending" \/ ev.detector = "PVCStuckBinding"
  <2>2. rulePVCStuckPending(ev, s).fires = f
    BY ZenonT(30) DEF rulePVCStuckPending, Rule
  <2> QED BY ONLY <2>1, <2>2
<1>5. ev.detector = "PodStuckPending" => chain[7].fires
  <2>1. chain[7] = rulePodStuckPending(ev, s)
    BY DEF rulesChain
  <2> DEFINE f == s.podPhase = "Pending" \/ ev.detector = "PodStuckPending"
  <2>2. rulePodStuckPending(ev, s).fires = f
    BY ZenonT(30) DEF rulePodStuckPending, Rule
  <2> QED BY ONLY <2>1, <2>2
<1>6. ev.detector = "JobDeadlineExceeded" => chain[11].fires
  <2>1. chain[11] = ruleJobDeadlineExceeded(ev, s)
    BY DEF rulesChain
  <2> DEFINE f == ev.detector = "JobDeadlineExceeded"
  <2>2. ruleJobDeadlineExceeded(ev, s).fires = f
    BY ZenonT(30) DEF ruleJobDeadlineExceeded, Rule
  <2> QED BY ONLY <2>1, <2>2
<1>7. ev.detector = "PodFailed" => chain[12].fires
  <2>1. chain[12] = rulePodFailed(ev, s)
    BY DEF rulesChain
  <2> DEFINE f == s.podPhase = "Failed" \/ ev.detector = "PodFailed"
  <2>2. rulePodFailed(ev, s).fires = f
    BY ZenonT(30) DEF rulePodFailed, Rule
  <2> QED BY ONLY <2>1, <2>2
<1>8. chain[13].fires <=> hasCrashLoop(s)
  <2>1. chain[13] = ruleGenericCrashLoop(ev, s)
    BY DEF rulesChain
  <2>2. ruleGenericCrashLoop(ev, s).fires = hasCrashLoop(s)
    BY DEF ruleGenericCrashLoop, Rule
  <2> QED BY <2>1, <2>2
<1> HIDE DEF chain
<1> QED BY <1>1, <1>2, <1>3, <1>4, <1>5, <1>6, <1>7, <1>8 DEF chain

(* What the report says of the signals and what the signals say of it.       *)
LEMMA ReportFacts ==
    ASSUME NEW ev, NEW secs
    PROVE  LET s == extractSignals(secs)
               rep == AnalyzeBundle(ev, secs)
           IN /\ rep.rule = "OOMKilled" => AnyKilled(s)
              /\ rep.rule = "NodeNotReady" => s.notReady
              /\ rep.rule = "NodePressure" => s.memory \/ s.disk
              /\ rep.rule = "PVCStuckPending" =>
                   s.pvcPhase = "Pending" \/ ev.detector = "PVCStuckBinding"
              /\ s.notReady /\ ~AnyKilled(s) => rep.rule = "NodeNotReady" /\ rep.systemic
              /\ ev.detector \in KnownToRules \/ hasCrashLoop(s) => rep.category # "unknown"
<1> DEFINE s == extractSignals(secs)
           rep == AnalyzeBundle(ev, secs)
           chain == rulesChain(ev, s)
<1>1. PICK k \in 1..15 : /\ chain[k].fires /\ rep = chain[k].report
                         /\ \A j \in 1..(k - 1) : ~chain[j].fires
  BY FirstRule
<1>2. /\ rep.rule = RuleNames[k]
      /\ k # 15 => rep.category # "unknown"
      /\ k = 2 => rep.systemic = TRUE
  <2> HIDE DEF s
  <2>1. /\ rulesChain(ev, s)[k].report.rule = RuleNames[k]
        /\ k # 15 => rulesChain(ev, s)[k].report.category # "unknown"
        /\ k = 2 => rulesChain(ev, s)[k].report.systemic = TRUE
    <3>1. k \in 1..15 /\ rulesChain(ev, s)[k].fires
      BY ONLY <1>1
    <3> QED BY ONLY <3>1, RuleReports
  <2> HIDE DEF rep
  <2>2. rep = rulesChain(ev, s)[k].report
    BY <1>1
  <2> QED BY ONLY <2>1, <2>2
<1>3. /\ chain[1].fires => AnyKilled(s)
      /\ chain[2].fires <=> s.notReady
      /\ chain[3].fires => s.memory \/ s.disk
      /\ chain[4].fires <=> s.pvcPhase = "Pending" \/ ev.detector = "PVCStuckBinding"
      /\ ev.detector = "PodStuckPending" => chain[7].fires
      /\ ev.detector = "JobDeadlineExceeded" => chain[11].fires
      /\ ev.detector = "PodFailed" => chain[12].fires
      /\ chain[13].fires <=> hasCrashLoop(s)
  <2> HIDE DEF s
  <2> QED BY ONLY RuleConditions
<1> HIDE DEF s, rep, chain
<1>4. /\ RuleNames[k] = "OOMKilled" => k = 1
      /\ RuleNames[k] = "NodeNotReady" => k = 2
      /\ RuleNames[k] = "NodePressure" => k = 3
      /\ RuleNames[k] = "PVCStuckPending" => k = 4
      /\ RuleNames[2] = "NodeNotReady"
  <2>1. k \in {1, 2, 3, 4, 5, 6, 7, 8, 9, 10, 11, 12, 13, 14, 15}
    OBVIOUS
  <2> QED BY <2>1 DEF RuleNames
<1>5. s.notReady /\ ~AnyKilled(s) => k = 2
  <2> SUFFICES ASSUME s.notReady, ~AnyKilled(s) PROVE k = 2
    OBVIOUS
  <2>1. k # 1
    BY <1>1, <1>3
  <2>2. ~(2 \in 1..(k - 1))
    BY <1>1, <1>3
  <2> QED BY <2>1, <2>2
<1>6. \A j \in 1..14 : chain[j].fires => k # 15
  BY <1>1
<1>7. ev.detector \in KnownToRules \/ hasCrashLoop(s) => k # 15
  <2>1. /\ 4 \in 1..14 /\ 7 \in 1..14 /\ 11 \in 1..14 /\ 12 \in 1..14 /\ 13 \in 1..14
    OBVIOUS
  <2> QED BY <1>3, <1>6, <2>1 DEF KnownToRules
<1> QED BY <1>1, <1>2, <1>3, <1>4, <1>5, <1>7 DEF s, rep

-----------------------------------------------------------------------------
(* What a report is worth.                                                   *)

(* A report that was written is that of the sections gathered, each observed *)
(* in states that the cluster was in.                                        *)
LEMMA DoneFacts ==
    ASSUME DiagnosisInv, Done
    PROVE  /\ report = AnalyzeBundle(event, sections) /\ event \in Events
           /\ IsSeq(answers) /\ 1 \in 1..Len(answers)
           /\ \A i \in 1..Len(answers) : answers[i] \in Clusters
           /\ IsSeq(sections)
           /\ \A k \in 1..Len(sections) : Observed(sections[k], event, answers)
BY SequenceFacts DEF DiagnosisInv, Done

(* Whatever is blamed was there.                                             *)
LEMMA InvBlames == DiagnosisInv => BlameIsObserved
<1> SUFFICES ASSUME DiagnosisInv, Done
             PROVE  /\ report.rule = "NodeNotReady" => NodeTrouble(answers, event, NotReady)
                    /\ report.rule = "NodePressure" => NodeTrouble(answers, event, Pressure)
                    /\ report.rule = "OOMKilled" => OOM(answers, event)
                    /\ report.rule = "PVCStuckPending" =>
                         event.detector = "PVCStuckBinding" \/ ClaimPending(answers, event)
  BY DEF BlameIsObserved
<1> DEFINE s == extractSignals(sections)
<1>1. /\ s.notReady => NodeTrouble(answers, event, NotReady)
      /\ s.memory \/ s.disk => NodeTrouble(answers, event, Pressure)
      /\ s.pvcPhase = "Pending" => ClaimPending(answers, event)
      /\ AnyKilled(s) => OOM(answers, event)
  BY DoneFacts, SignalFacts
<1>2. /\ report.rule = "OOMKilled" => AnyKilled(s)
      /\ report.rule = "NodeNotReady" => s.notReady
      /\ report.rule = "NodePressure" => s.memory \/ s.disk
      /\ report.rule = "PVCStuckPending" =>
           s.pvcPhase = "Pending" \/ event.detector = "PVCStuckBinding"
  BY DoneFacts, ReportFacts
<1> HIDE DEF s
<1> QED BY <1>1, <1>2

(* A node that was down all along is blamed.                                 *)
LEMMA InvDeadNode == DiagnosisInv => DeadNodeIsBlamed
<1> SUFFICES ASSUME DiagnosisInv, Done, ~event.super, Gathered("NodeConditions"),
                    DeadNode(answers, event), ~OOM(answers, event)
             PROVE  report.rule = "NodeNotReady" /\ report.systemic
  BY DEF DeadNodeIsBlamed
<1> DEFINE s == extractSignals(sections)
           Shown(name) == \E k \in 1..Len(sections) :
                            sections[k].gatherer = name /\ ~sections[k].error
<1>1. Shown("NodeConditions")
  BY DEF Gathered
<1>2. /\ AnyKilled(s) => OOM(answers, event)
      /\ ~event.super /\ Shown("NodeConditions") /\ DeadNode(answers, event)
           => s.notReady
  BY DoneFacts, SignalFacts
<1>3. s.notReady /\ ~AnyKilled(s) => report.rule = "NodeNotReady" /\ report.systemic
  BY DoneFacts, ReportFacts
<1> HIDE DEF s, Shown
<1> QED BY <1>1, <1>2, <1>3

(* What a detector saw is not reported as unknown.                           *)
LEMMA InvRemembers == DiagnosisInv => DetectionIsNotForgotten
<1> SUFFICES ASSUME DiagnosisInv, Done
             PROVE  /\ event.detector \in KnownToRules => report.category # "unknown"
                    /\ (/\ event.detector = "PodCrashLoop"
                        /\ Gathered("PodDescribe")
                        /\ \A i \in 1..Len(answers) : CrashLoop(answers[i], event)) => report.category # "unknown"
  BY DEF DetectionIsNotForgotten
<1> DEFINE s == extractSignals(sections)
           Shown(name) == \E k \in 1..Len(sections) :
                            sections[k].gatherer = name /\ ~sections[k].error
<1>1. ~event.super /\ Shown("PodDescribe") /\ (\A i \in 1..Len(answers) : CrashLoop(answers[i], event))
        => hasCrashLoop(s)
  BY DoneFacts, SignalFacts
<1>2. event.detector \in KnownToRules \/ hasCrashLoop(s) => report.category # "unknown"
  BY DoneFacts, ReportFacts
<1>3. event.detector = "PodCrashLoop" => ~event.super
  <2>1. event \in Events
    BY DEF DiagnosisInv
  <2>2. event.super => event.detector # "PodCrashLoop"
    BY <2>1, EventsAssumption, Zenon
  <2> QED BY <2>2
<1>4. Gathered("PodDescribe") => Shown("PodDescribe")
  BY DEF Gathered
<1> HIDE DEF s, Shown
<1> QED BY <1>1, <1>2, <1>3, <1>4

(* The analyzer blames nothing that was not there, for any events, clusters, *)
(* gatherers and however often the cluster changes while they run, between   *)
(* two gatherers or between two calls of one.                                *)
THEOREM BlameIsObservedCorrect == DiagnosisSpec => []BlameIsObserved
BY DiagnosisInvariant, InvBlames, PTL

(* A dead node is blamed, and as systemic, whatever else the sections show   *)
(* and whichever gatherers fail.                                             *)
THEOREM DeadNodeIsBlamedCorrect == DiagnosisSpec => []DeadNodeIsBlamed
BY DiagnosisInvariant, InvDeadNode, PTL

(* No fault that a detector of these saw is reported as unknown.             *)
THEOREM DetectionIsNotForgottenCorrect == DiagnosisSpec => []DetectionIsNotForgotten
BY DiagnosisInvariant, InvRemembers, PTL
=============================================================================
