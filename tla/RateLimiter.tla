----------------------------- MODULE RateLimiter -----------------------------
(* internal/analyzer/rate_limiter.go around a circuit breaker: the two       *)
(* decorators of an analyzer, called by several analysis workers at once.    *)
(*                                                                           *)
(* The budget is looked at before the primary is called and charged after it *)
(* has answered, in critical sections of their own: the calls under way in   *)
(* between are in nobody's books, one that began in an hour may be charged   *)
(* to the next, and the breaker may move between the look at the budget and  *)
(* the look at the breaker, and between its record and the charge.           *)
(*                                                                           *)
(* A window's key is only ever compared with the key of the present hour or  *)
(* day, and keys do not recur: a window is current or it is not.             *)
EXTENDS CircuitBreaker, FiniteSets

CONSTANTS
    DailyTokenBudget,
    HourlyTokenBudget,
    HoursPerDay,
    MaxTokens       \* the most tokens one analysis uses

ASSUME LimiterAssumption ==
    /\ DailyTokenBudget \in Int /\ HourlyTokenBudget \in Int
    /\ HoursPerDay \in Nat \ {0}
    /\ MaxTokens \in Nat
    /\ IsFiniteSet(Callers)

VARIABLES
    hour,       \* the hour of the day
    daily,      \* rl.daily
    hourly,     \* rl.hourly
    stage       \* stage[c]: "admitted" by the budget and not yet at the
                \* breaker, or "owes" the tokens of a report

limiter == <<hour, daily, hourly>>

limiterVars == <<state, failures, elapsed, call, willFail, up, restLeft,
                 hour, daily, hourly, stage>>

LimiterInit ==
    /\ Init
    /\ hour = 0
    /\ daily = [tokens |-> 0, current |-> FALSE]
    /\ hourly = [tokens |-> 0, current |-> FALSE]
    /\ stage = [c \in Callers |-> "none"]

(* Mutant of Exhausted: a budget that is just used up still admits calls.    *)
ExhaustedLate(w, budget) ==
    budget > 0 /\ w.current /\ w.tokens > budget

(* A budget of zero or less does not limit.                                  *)
Exhausted(w, budget) ==
    budget > 0 /\ w.current /\ w.tokens >= budget

isOverBudget ==
    \/ Exhausted(daily, DailyTokenBudget)
    \/ Exhausted(hourly, HourlyTokenBudget)

(* A window that has rolled over starts again from zero.                     *)
Add(w, tokens) ==
    [tokens |-> (IF w.current THEN w.tokens ELSE 0) + tokens, current |-> TRUE]

recordTokens(tokens) ==
    /\ daily' = IF tokens > 0 THEN Add(daily, tokens) ELSE daily
    /\ hourly' = IF tokens > 0 THEN Add(hourly, tokens) ELSE hourly
    /\ UNCHANGED hour

Idle(c) == stage[c] = "none" /\ call[c] = "none"

(* Analyze, the first critical section: the budget admits the call.          *)
AnalyzeWithinBudget(c) ==
    /\ Idle(c)
    /\ ~isOverBudget
    /\ stage' = [stage EXCEPT ![c] = "admitted"]
    /\ UNCHANGED vars
    /\ UNCHANGED limiter

(* Analyze with the budget used up: the fallback answers.                    *)
AnalyzeOverBudget(c) ==
    /\ Idle(c)
    /\ isOverBudget
    /\ UNCHANGED limiterVars

(* The primary is the breaker.  One that is open answers from its own        *)
(* fallback, whose report has no tokens.                                     *)
CallPrimary(c) ==
    /\ stage[c] = "admitted"
    /\ Analyze(c)
    /\ stage' = [stage EXCEPT ![c] = "none"]
    /\ UNCHANGED limiter

(* The breaker records the primary's answer ...                              *)
PrimarySucceeds(c) ==
    /\ recordSuccess(c)
    /\ stage' = [stage EXCEPT ![c] = "owes"]
    /\ UNCHANGED limiter

PrimaryFails(c) ==
    /\ recordFailure(c)
    /\ UNCHANGED stage
    /\ UNCHANGED limiter

(* ... and the limiter charges the report's tokens, in its own section.      *)
ChargeTokens(c) ==
    /\ stage[c] = "owes"
    /\ \E tokens \in 0..MaxTokens : recordTokens(tokens)
    /\ stage' = [stage EXCEPT ![c] = "none"]
    /\ UNCHANGED vars

(* Healthy is passed on, and the world goes on.                              *)
Looks == Healthy /\ UNCHANGED limiter /\ UNCHANGED stage

Ticks == ClockTick /\ UNCHANGED limiter /\ UNCHANGED stage

Flips == BackendFlips /\ UNCHANGED limiter /\ UNCHANGED stage

HourPasses ==
    /\ hour' = (hour + 1) % HoursPerDay
    /\ hourly' = [hourly EXCEPT !.current = FALSE]
    /\ daily' = [daily EXCEPT !.current = @ /\ hour' # 0]
    /\ UNCHANGED <<state, failures, elapsed, call, willFail, up, restLeft, stage>>

Calls(c) == AnalyzeWithinBudget(c) \/ AnalyzeOverBudget(c) \/ CallPrimary(c)

Answers(c) == PrimarySucceeds(c) \/ PrimaryFails(c) \/ ChargeTokens(c)

LimiterNext ==
    \/ \E c \in Callers : Calls(c) \/ Answers(c)
    \/ Looks \/ Ticks \/ Flips \/ HourPasses

LimiterSafeSpec == LimiterInit /\ [][LimiterNext]_limiterVars

(* Time passes, calls return, and every worker keeps finding work to do.     *)
LimiterSpec ==
    /\ LimiterSafeSpec
    /\ WF_limiterVars(Ticks)
    /\ WF_limiterVars(HourPasses)
    /\ \A c \in Callers : /\ WF_limiterVars(AnalyzeWithinBudget(c))
                          /\ WF_limiterVars(CallPrimary(c))
                          /\ WF_limiterVars(Answers(c))

-----------------------------------------------------------------------------
(* Correctness *)

TokenUsage(w) == IF w.current THEN w.tokens ELSE 0

UnderWay == {c \in Callers : ~Idle(c)}

Bounded(w, budget) ==
    budget > 0 =>
      TokenUsage(w) <= budget - 1 + MaxTokens * Cardinality(Callers)

(* Budget checks and charges are far apart, but the budgets of the day and   *)
(* of the hour are never overdrawn by more than what the workers can have    *)
(* under way at once, not even when calls of the last hour are charged to    *)
(* this one.                                                                 *)
OvershootIsBounded ==
    /\ Bounded(daily, DailyTokenBudget)
    /\ Bounded(hourly, HourlyTokenBudget)
=============================================================================
