---------------------------- MODULE PriorityQueue ----------------------------
(* The severity-ordered analysis queue of internal/pipeline/queue/queues.go. *)
(*                                                                           *)
(* Every method runs under one mutex, so a method body is one action; the    *)
(* only place where the mutex is released inside a body is cond.Wait, which  *)
(* splits Get, WaitForDrain and WaitForInflight into "test the condition"    *)
(* steps taken while awake and a parked state left only by Signal/Broadcast. *)
(* All of them share the one sync.Cond: Signal wakes any one parked          *)
(* goroutine, whether or not it is a worker.                                 *)
EXTENDS Integers, Sequences, FiniteSets

CONSTANTS
    Items,            \* analysis items; each is offered to Add at most once
    Severity,         \* Severity[i]: the severity string the item carries
    Workers,          \* analysis worker goroutines (runAnalysisWorker)
    DrainWaiters,     \* goroutines of WaitForDrain calls
    InflightWaiters,  \* goroutines of WaitForInflight calls
    NoItem            \* the zero AnalysisItem

Waiters == DrainWaiters \cup InflightWaiters
Procs == Workers \cup Waiters

ASSUME WorkersAssumption ==
    /\ IsFiniteSet(Workers)
    /\ Workers # {}
    /\ Workers \cap Waiters = {}
ASSUME WaitersAssumption == DrainWaiters \cap InflightWaiters = {}
ASSUME ItemsAssumption ==
    /\ NoItem \notin Items
    /\ Severity \in [Items -> STRING]

Priorities == 0..2

severityIndex(s) ==
    CASE s = "critical" -> 0
      [] s = "warning"  -> 1
      [] OTHER          -> 2

Rank == [i \in Items |-> severityIndex(Severity[i])]

VARIABLES
    queues,     \* queues[p]: FIFO of the pending items of priority p
    shutdown,   \* pq.shutdown
    inflight,   \* pq.inflight
    pc,         \* where each goroutine is
    holds,      \* holds[w]: the item Get returned to worker w
    result,     \* result[d]: what the WaitFor* call returned ("none" before)
    arrived,    \* history: the items Add accepted, in order
    refused,    \* history: the items Add dropped because of shutdown
    finished,   \* history: the items whose worker called Done
    drained,    \* history: the items Drain returned
    covers      \* history: what had been accepted when waiter d was called

vars == <<queues, shutdown, inflight, pc, holds, result,
          arrived, refused, finished, drained, covers>>

history == <<arrived, refused, finished, drained, covers>>

RangeOf(s) == {s[k] : k \in 1..Len(s)}

Pending == UNION {RangeOf(queues[p]) : p \in Priorities}

totalLen == Len(queues[0]) + Len(queues[1]) + Len(queues[2])

PCs == {"awake", "waiting", "processing", "stopped", "uncalled", "closed"}

Parked == {p \in Procs : pc[p] = "waiting"}

(* sync.Cond.Signal: one parked goroutine, if any, becomes runnable.         *)
Signal ==
    IF Parked = {}
    THEN pc' = pc
    ELSE \E p \in Parked : pc' = [pc EXCEPT ![p] = "awake"]

(* sync.Cond.Broadcast applied to the program counters f.                    *)
Broadcast(f) ==
    [p \in Procs |-> IF f[p] = "waiting" THEN "awake" ELSE f[p]]

Init ==
    /\ queues = [p \in Priorities |-> << >>]
    /\ shutdown = FALSE
    /\ inflight = 0
    /\ pc = [p \in Procs |-> IF p \in Workers THEN "awake" ELSE "uncalled"]
    /\ holds = [w \in Workers |-> NoItem]
    /\ result = [d \in Waiters |-> "none"]
    /\ arrived = << >>
    /\ refused = {}
    /\ finished = {}
    /\ drained = {}
    /\ covers = [d \in Waiters |-> {}]

-----------------------------------------------------------------------------
(* Producers *)

(* Mutant of Add: the signal is missing.                                     *)
AddQuietly(i) ==
    /\ i \notin RangeOf(arrived) \cup refused
    /\ ~shutdown
    /\ queues' = [queues EXCEPT ![Rank[i]] = Append(@, i)]
    /\ arrived' = Append(arrived, i)
    /\ UNCHANGED <<shutdown, inflight, pc, holds, result,
                   refused, finished, drained, covers>>

Add(i) ==
    /\ i \notin RangeOf(arrived) \cup refused
    /\ ~shutdown
    /\ queues' = [queues EXCEPT ![Rank[i]] = Append(@, i)]
    /\ arrived' = Append(arrived, i)
    /\ Signal
    /\ UNCHANGED <<shutdown, inflight, holds, result,
                   refused, finished, drained, covers>>

AddAfterShutdown(i) ==
    /\ i \notin RangeOf(arrived) \cup refused
    /\ shutdown
    /\ refused' = refused \cup {i}
    /\ UNCHANGED <<queues, shutdown, inflight, pc, holds, result,
                   arrived, finished, drained, covers>>

-----------------------------------------------------------------------------
(* Workers: Get, then Done *)

GetWait(w) ==
    /\ pc[w] = "awake"
    /\ totalLen = 0
    /\ ~shutdown
    /\ pc' = [pc EXCEPT ![w] = "waiting"]
    /\ UNCHANGED <<queues, shutdown, inflight, holds, result, history>>

(* Mutant of GetShutdown: Get looks at shutdown before it looks at the       *)
(* queues.                                                                   *)
GetShutdownFirst(w) ==
    /\ pc[w] = "awake"
    /\ shutdown
    /\ pc' = [pc EXCEPT ![w] = "stopped"]
    /\ UNCHANGED <<queues, shutdown, inflight, holds, result, history>>

GetShutdown(w) ==
    /\ pc[w] = "awake"
    /\ totalLen = 0
    /\ shutdown
    /\ pc' = [pc EXCEPT ![w] = "stopped"]
    /\ UNCHANGED <<queues, shutdown, inflight, holds, result, history>>

(* Mutant of FirstNonEmpty: the loop runs from the mildest queue.            *)
LastNonEmpty(p) == /\ queues[p] # << >>
                   /\ \A q \in Priorities : q > p => queues[q] = << >>

(* The loop over pq.queues stops at the first non-empty queue.               *)
FirstNonEmpty(p) == /\ queues[p] # << >>
                    /\ \A q \in Priorities : q < p => queues[q] = << >>

(* Mutant of GetItem: the head is returned but not cut off.                  *)
GetItemPeeks(w) ==
    /\ pc[w] = "awake"
    /\ \E p \in Priorities :
        /\ FirstNonEmpty(p)
        /\ holds' = [holds EXCEPT ![w] = Head(queues[p])]
    /\ inflight' = inflight + 1
    /\ pc' = [pc EXCEPT ![w] = "processing"]
    /\ UNCHANGED <<queues, shutdown, result, history>>

GetItem(w) ==
    /\ pc[w] = "awake"
    /\ \E p \in Priorities :
        /\ FirstNonEmpty(p)
        /\ holds' = [holds EXCEPT ![w] = Head(queues[p])]
        /\ queues' = [queues EXCEPT ![p] = Tail(@)]
    /\ inflight' = inflight + 1
    /\ pc' = [pc EXCEPT ![w] = "processing"]
    /\ UNCHANGED <<shutdown, result, history>>

(* Mutant of Done: the broadcast is missing.                                 *)
DoneQuietly(w) ==
    /\ pc[w] = "processing"
    /\ inflight' = IF inflight > 0 THEN inflight - 1 ELSE inflight
    /\ pc' = [pc EXCEPT ![w] = "awake"]
    /\ finished' = finished \cup {holds[w]}
    /\ holds' = [holds EXCEPT ![w] = NoItem]
    /\ UNCHANGED <<queues, shutdown, result, arrived, refused, drained, covers>>

Done(w) ==
    /\ pc[w] = "processing"
    /\ inflight' = IF inflight > 0 THEN inflight - 1 ELSE inflight
    /\ pc' = [Broadcast(pc) EXCEPT ![w] = "awake"]
    /\ finished' = finished \cup {holds[w]}
    /\ holds' = [holds EXCEPT ![w] = NoItem]
    /\ UNCHANGED <<queues, shutdown, result, arrived, refused, drained, covers>>

-----------------------------------------------------------------------------
(* Shutdown: ShutDown, Drain, WaitForDrain, WaitForInflight *)

(* Mutant of ShutDown: the broadcast is missing.                             *)
ShutDownQuietly ==
    /\ shutdown' = TRUE
    /\ UNCHANGED <<queues, inflight, pc, holds, result, history>>

ShutDown ==
    /\ shutdown' = TRUE
    /\ pc' = Broadcast(pc)
    /\ UNCHANGED <<queues, inflight, holds, result, history>>

(* Drain empties the queues without waking anyone.                           *)
Drain ==
    /\ queues' = [p \in Priorities |-> << >>]
    /\ drained' = drained \cup Pending
    /\ UNCHANGED <<shutdown, inflight, pc, holds, result,
                   arrived, refused, finished, covers>>

(* A WaitFor* call starts its goroutine.                                     *)
StartWait(d) ==
    /\ pc[d] = "uncalled"
    /\ pc' = [pc EXCEPT ![d] = "awake"]
    /\ covers' = [covers EXCEPT ![d] = RangeOf(arrived)]
    /\ UNCHANGED <<queues, shutdown, inflight, holds, result,
                   arrived, refused, finished, drained>>

(* Mutant of DrainPending: WaitForDrain looks at the queues only, as the     *)
(* drains of the other two stages do.                                        *)
DrainPendingQueuedOnly == totalLen > 0

DrainPending == inflight > 0 \/ totalLen > 0
InflightPending == inflight > 0

MustWait(d) == IF d \in DrainWaiters THEN DrainPending ELSE InflightPending

WaitCheck(d) ==
    /\ pc[d] = "awake"
    /\ pc' = [pc EXCEPT ![d] = IF MustWait(d) THEN "waiting" ELSE "closed"]
    /\ UNCHANGED <<queues, shutdown, inflight, holds, result, history>>

(* select: the done channel is closed ...                                    *)
WaitReturnsTrue(d) ==
    /\ pc[d] = "closed"
    /\ result[d] = "none"
    /\ result' = [result EXCEPT ![d] = "true"]
    /\ UNCHANGED <<queues, shutdown, inflight, pc, holds, history>>

(* ... or the timer fires first; the goroutine stays behind, and stays       *)
(* parked on the shared condition variable if it was parked.                 *)
WaitTimesOut(d) ==
    /\ pc[d] # "uncalled"
    /\ result[d] = "none"
    /\ result' = [result EXCEPT ![d] = "false"]
    /\ UNCHANGED <<queues, shutdown, inflight, pc, holds, history>>

-----------------------------------------------------------------------------
WorkerStep(w) == GetWait(w) \/ GetShutdown(w) \/ GetItem(w) \/ Done(w)

WaiterStep(d) == WaitCheck(d) \/ WaitReturnsTrue(d)

Next ==
    \/ \E i \in Items : Add(i) \/ AddAfterShutdown(i)
    \/ \E w \in Workers : WorkerStep(w)
    \/ \E d \in Waiters : StartWait(d) \/ WaiterStep(d) \/ WaitTimesOut(d)
    \/ ShutDown
    \/ Drain

SafeSpec == Init /\ [][Next]_vars

(* An awake goroutine gets the mutex (Go's mutex prevents starvation) and a  *)
(* worker's analysis call ends (backends use bounded HTTP timeouts).         *)
Fairness ==
    /\ \A w \in Workers : WF_vars(WorkerStep(w))
    /\ \A d \in Waiters : WF_vars(WaiterStep(d))

Spec == SafeSpec /\ Fairness

-----------------------------------------------------------------------------
(* Correctness *)

(* Every variable keeps its type; a worker holds an item exactly while it is *)
(* between Get and Done.                                                     *)
TypeOK ==
    /\ queues \in [Priorities -> Seq(Items)]
    /\ shutdown \in BOOLEAN
    /\ inflight \in Nat
    /\ pc \in [Procs -> PCs]
    /\ holds \in [Workers -> Items \cup {NoItem}]
    /\ \A w \in Workers : /\ pc[w] \notin {"uncalled", "closed"}
                          /\ pc[w] = "processing" <=> holds[w] # NoItem
    /\ \A d \in Waiters : pc[d] \notin {"processing", "stopped"}
    /\ result \in [Waiters -> {"none", "true", "false"}]
    /\ arrived \in Seq(Items)
    /\ refused \in SUBSET Items
    /\ finished \in SUBSET Items
    /\ drained \in SUBSET Items
    /\ covers \in [Waiters -> SUBSET Items]

(* pq.inflight counts exactly the workers between Get and Done, so the       *)
(* "if pq.inflight > 0" guard in Done never hides a miscount and a waiter    *)
(* that sees 0 knows that no item is being processed.                        *)
InflightExact == inflight = Cardinality({w \in Workers : pc[w] = "processing"})

(* An accepted item is in exactly one place: queued once, held by one        *)
(* worker, finished, or returned by Drain; and pq.inflight counts those that *)
(* are held.                                                                 *)
ExactlyOnePlace ==
    /\ InflightExact
    /\ RangeOf(arrived)
         = Pending \cup finished \cup drained
             \cup ({holds[w] : w \in Workers} \ {NoItem})
    /\ totalLen = Cardinality(Pending)
    /\ Pending \cap finished = {}
    /\ Pending \cap drained = {}
    /\ finished \cap drained = {}
    /\ \A w \in Workers :
        /\ holds[w] \notin Pending \cup finished \cup drained
        /\ \A v \in Workers : holds[w] = holds[v] => w = v \/ holds[w] = NoItem

(* No lost wakeup in Add/Get: whenever items are pending while a worker is   *)
(* parked in Get, either another worker is already awake and will look at    *)
(* the queue, or an item is in flight whose Done will broadcast.  Signal may *)
(* wake a WaitForDrain goroutine instead of a worker and still not strand    *)
(* the item.  Drain breaks this: it takes away what a WaitForDrain goroutine *)
(* sleeps for and wakes nobody.                                              *)
NoLostWakeup ==
    (drained = {} /\ totalLen > 0 /\ \E w \in Workers : pc[w] = "waiting")
        => (inflight > 0 \/ \E w \in Workers : pc[w] = "awake")

(* Nobody sleeps without a reason that a later Broadcast or Signal removes:  *)
(* no worker sleeps through ShutDown, WaitForInflight sleeps only while      *)
(* something is in flight, and, unless Drain took items away, WaitForDrain   *)
(* only while something is queued or in flight.                              *)
SleepIsJustified ==
    /\ \A w \in Workers : pc[w] = "waiting" => ~shutdown
    /\ \A d \in InflightWaiters : pc[d] = "waiting" => InflightPending
    /\ drained = {} => \A d \in DrainWaiters : pc[d] = "waiting" => DrainPending

(* WaitForDrain tells the truth: when it returns true, everything accepted   *)
(* before the call is finished (or was taken out by Drain).                  *)
DrainCoversAccepted ==
    \A d \in DrainWaiters :
        result[d] = "true" => covers[d] \subseteq finished \cup drained

Position(i) == CHOOSE k \in 1..Len(arrived) : arrived[k] = i

(* Get hands out the most severe pending item, and the oldest one of that    *)
(* severity: a step that gives i to a worker leaves nothing pending that     *)
(* should have gone first.                                                   *)
SeverityThenAge ==
    [][\A w \in Workers :
        (holds[w] = NoItem /\ holds'[w] # NoItem) =>
            LET i == holds'[w] IN
            \A j \in Pending \ {i} :
                \/ Rank[i] < Rank[j]
                \/ Rank[i] = Rank[j] /\ Position(i) < Position(j)]_vars

(* Nobody waits for ever on the one condition variable: every pending item   *)
(* is taken by a worker ("Get blocks until an item is available") and the    *)
(* goroutine a timed-out WaitFor* call leaves behind ends, both as long as   *)
(* Drain has not taken items away; and after ShutDown every worker leaves    *)
(* its loop, with or without Drain.                                          *)
NobodyWaitsForever ==
    /\ \A i \in Items : i \in Pending ~> (i \notin Pending \/ drained # {})
    /\ \A d \in Waiters : pc[d] = "awake" ~> (pc[d] = "closed" \/ drained # {})
    /\ shutdown ~> \A w \in Workers : pc[w] = "stopped"

(* The queue implements the abstract pool.                                   *)
Pool == INSTANCE WorkPool WITH
    pending <- Pending,
    held <- holds,
    evicted <- drained,
    closed <- shutdown,
    exited <- {w \in Workers : pc[w] = "stopped"}

(* Seen through the pool, the condition-variable queue takes only pool       *)
(* steps.                                                                    *)
ImplementsPool == Pool!SafeSpec
=============================================================================
