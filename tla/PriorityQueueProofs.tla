------------------------- MODULE PriorityQueueProofs -------------------------
(* Proofs about PriorityQueue, for any sets of items, workers and waiters.   *)
EXTENDS PriorityQueue, FiniteSetTheorems, TLAPS

(* severityIndex always names one of the three queues.                       *)
LEMMA RankType == Rank \in [Items -> Priorities]
<1>1. ASSUME NEW i \in Items PROVE severityIndex(Severity[i]) \in Priorities
  <2>1. CASE Severity[i] = "critical"
    BY <2>1 DEF severityIndex, Priorities
  <2>2. CASE Severity[i] = "warning"
    BY <2>2 DEF severityIndex, Priorities
  <2>3. CASE Severity[i] # "critical" /\ Severity[i] # "warning"
    BY <2>3 DEF severityIndex, Priorities
  <2> QED BY <2>1, <2>2, <2>3
<1> QED BY <1>1 DEF Rank

(* A new queue is well typed; no worker holds an item.                       *)
LEMMA TypeInit == Init => TypeOK
<1> SUFFICES ASSUME Init PROVE TypeOK
  OBVIOUS
<1> USE DEF Init, Procs, Waiters
<1>1. queues \in [Priorities -> Seq(Items)] /\ arrived \in Seq(Items)
  OBVIOUS
<1>2. pc \in [Procs -> PCs]
  BY DEF PCs
<1>3. \A w \in Workers : /\ pc[w] \notin {"uncalled", "closed"}
                         /\ pc[w] = "processing" <=> holds[w] # NoItem
  OBVIOUS
<1>4. \A d \in Waiters : pc[d] \notin {"processing", "stopped"}
  BY WorkersAssumption
<1> QED BY <1>1, <1>2, <1>3, <1>4 DEF TypeOK

(* Every method keeps every variable in its type, and a worker holds an item *)
(* exactly between Get and Done.                                             *)
LEMMA TypeStep == TypeOK /\ [Next]_vars => TypeOK'
<1> SUFFICES ASSUME TypeOK, [Next]_vars PROVE TypeOK'
  OBVIOUS
<1> USE RankType, WorkersAssumption, ItemsAssumption DEF TypeOK, PCs, history, Procs, Waiters
<1>1. ASSUME NEW i \in Items, Add(i) PROVE TypeOK'
  <2>1. queues' \in [Priorities -> Seq(Items)] /\ arrived' \in Seq(Items)
    BY <1>1 DEF Add
  <2>2. /\ pc' \in [Procs -> PCs]
        /\ \A p \in Procs : pc'[p] = pc[p] \/ (pc[p] = "waiting" /\ pc'[p] = "awake")
    BY <1>1 DEF Add, Signal, Parked
  <2> QED BY <1>1, <2>1, <2>2 DEF Add
<1>2. ASSUME NEW i \in Items, AddAfterShutdown(i) PROVE TypeOK'
  BY <1>2 DEF AddAfterShutdown
<1>3. ASSUME NEW w \in Workers, GetWait(w) PROVE TypeOK'
  BY <1>3 DEF GetWait
<1>4. ASSUME NEW w \in Workers, GetShutdown(w) PROVE TypeOK'
  BY <1>4 DEF GetShutdown
<1>5. ASSUME NEW w \in Workers, GetItem(w) PROVE TypeOK'
  <2>1. PICK p \in Priorities :
          /\ FirstNonEmpty(p)
          /\ holds' = [holds EXCEPT ![w] = Head(queues[p])]
          /\ queues' = [queues EXCEPT ![p] = Tail(@)]
    BY <1>5 DEF GetItem
  <2>2. Head(queues[p]) \in Items /\ Tail(queues[p]) \in Seq(Items)
    BY <2>1 DEF FirstNonEmpty
  <2>3. queues' \in [Priorities -> Seq(Items)]
    BY <2>1, <2>2
  <2>4. holds' \in [Workers -> Items \cup {NoItem}] /\ holds'[w] # NoItem
    BY <2>1, <2>2
  <2>5. \A v \in Workers \ {w} : holds'[v] = holds[v] /\ pc'[v] = pc[v]
    BY <1>5, <2>1 DEF GetItem
  <2>6. pc' \in [Procs -> PCs] /\ pc'[w] = "processing" /\ inflight' \in Nat
    BY <1>5 DEF GetItem
  <2>7. \A d \in Waiters : pc'[d] = pc[d]
    BY <1>5 DEF GetItem
  <2>8. UNCHANGED <<shutdown, result, history>>
    BY <1>5 DEF GetItem
  <2> QED BY <2>3, <2>4, <2>5, <2>6, <2>7, <2>8
<1>6. ASSUME NEW w \in Workers, Done(w) PROVE TypeOK'
  <2>1. holds[w] \in Items
    BY <1>6 DEF Done
  <2> QED BY <1>6, <2>1 DEF Done, Broadcast
<1>7. CASE ShutDown
  BY <1>7 DEF ShutDown, Broadcast
<1>8. CASE Drain
  <2>1. Pending \in SUBSET Items
    BY DEF Pending, RangeOf
  <2> QED BY <1>8, <2>1 DEF Drain
<1>9. ASSUME NEW d \in Waiters, StartWait(d) PROVE TypeOK'
  <2>1. RangeOf(arrived) \in SUBSET Items
    BY DEF RangeOf
  <2> QED BY <1>9, <2>1 DEF StartWait
<1>10. ASSUME NEW d \in Waiters, WaitCheck(d) PROVE TypeOK'
  BY <1>10 DEF WaitCheck
<1>11. ASSUME NEW d \in Waiters, WaitReturnsTrue(d) \/ WaitTimesOut(d) PROVE TypeOK'
  BY <1>11 DEF WaitReturnsTrue, WaitTimesOut
<1>12. CASE UNCHANGED vars
  BY <1>12 DEF vars
<1> QED
  BY <1>1, <1>2, <1>3, <1>4, <1>5, <1>6, <1>7, <1>8, <1>9, <1>10, <1>11, <1>12
     DEF Next, WorkerStep, WaiterStep

(* Type correctness of the queue, for any sets of items, workers and waiters. *)
THEOREM TypeCorrect == SafeSpec => []TypeOK
BY TypeInit, TypeStep, PTL DEF SafeSpec

-----------------------------------------------------------------------------
(* pq.inflight *)

Processing == {w \in Workers : pc[w] = "processing"}

(* The workers between Get and Done are finitely many, so they can be counted. *)
LEMMA ProcessingFinite == IsFiniteSet(Processing)
BY FS_Subset, WorkersAssumption DEF Processing

(* Get counts up and Done counts down by exactly the worker that moved.      *)
LEMMA InflightStep ==
    TypeOK /\ TypeOK' /\ InflightExact /\ [Next]_vars => InflightExact'
<1> SUFFICES ASSUME TypeOK, TypeOK', InflightExact, [Next]_vars
             PROVE  InflightExact'
  OBVIOUS
<1> USE WorkersAssumption DEF Processing
<1>0. InflightExact <=> inflight = Cardinality(Processing)
  BY DEF InflightExact
<1>1. CASE Processing' = Processing /\ inflight' = inflight
  BY <1>0, <1>1 DEF InflightExact
<1>2. ASSUME NEW i \in Items, Add(i) PROVE InflightExact'
  <2>1. \A p \in Procs : pc'[p] = pc[p] \/ (pc[p] = "waiting" /\ pc'[p] = "awake")
    BY <1>2 DEF Add, Signal, Parked, TypeOK
  <2> QED BY <1>1, <1>2, <2>1 DEF Add, Procs
<1>3. ASSUME NEW w \in Workers, GetWait(w) \/ GetShutdown(w) PROVE InflightExact'
  BY <1>1, <1>3 DEF GetWait, GetShutdown, TypeOK, Procs
<1>4. ASSUME NEW w \in Workers, GetItem(w) PROVE InflightExact'
  <2>1. Processing' = Processing \cup {w} /\ w \notin Processing
    BY <1>4 DEF GetItem, TypeOK, Procs
  <2>2. Cardinality(Processing') = Cardinality(Processing) + 1
    BY <2>1, ProcessingFinite, FS_AddElement
  <2> QED BY <1>0, <1>4, <2>2 DEF GetItem, InflightExact
<1>5. ASSUME NEW w \in Workers, Done(w) PROVE InflightExact'
  <2>1. Processing' = Processing \ {w} /\ w \in Processing
    BY <1>5 DEF Done, Broadcast, TypeOK, Procs
  <2>2. Cardinality(Processing') = Cardinality(Processing) - 1
    BY <2>1, ProcessingFinite, FS_RemoveElement
  <2>3. Cardinality(Processing) # 0
    BY <2>1, ProcessingFinite, FS_EmptySet
  <2>4. inflight > 0
    BY <1>0, <2>3 DEF TypeOK
  <2> QED BY <1>0, <1>5, <2>2, <2>4 DEF Done, InflightExact
<1>6. CASE ShutDown
  BY <1>1, <1>6 DEF ShutDown, Broadcast, TypeOK, Procs
<1>7. CASE Drain
  BY <1>1, <1>7 DEF Drain
<1>8. ASSUME NEW d \in Waiters, StartWait(d) \/ WaitCheck(d) PROVE InflightExact'
  BY <1>1, <1>8 DEF StartWait, WaitCheck, TypeOK, Procs
<1>9. ASSUME NEW d \in Waiters, WaitReturnsTrue(d) \/ WaitTimesOut(d)
      PROVE  InflightExact'
  BY <1>1, <1>9 DEF WaitReturnsTrue, WaitTimesOut
<1>10. ASSUME NEW i \in Items, AddAfterShutdown(i) PROVE InflightExact'
  BY <1>1, <1>10 DEF AddAfterShutdown
<1>11. CASE UNCHANGED vars
  BY <1>1, <1>11 DEF vars
<1> QED
  BY <1>2, <1>3, <1>4, <1>5, <1>6, <1>7, <1>8, <1>9, <1>10, <1>11
     DEF Next, WorkerStep, WaiterStep

(* For any number of workers, pq.inflight is the number of workers between   *)
(* Get and Done, so the guard in Done never absorbs a miscount.              *)
THEOREM InflightCorrect == SafeSpec => []InflightExact
<1>1. Init => InflightExact
  <2> SUFFICES ASSUME Init PROVE InflightExact
    OBVIOUS
  <2>1. {w \in Workers : pc[w] = "processing"} = {}
    BY DEF Init, Procs
  <2> QED BY <2>1, FS_EmptySet DEF Init, InflightExact
<1> QED BY <1>1, InflightStep, TypeCorrect, PTL DEF SafeSpec

-----------------------------------------------------------------------------
(* The condition variable *)

(* The inductive invariant behind NoLostWakeup.  NoLostWakeup alone is not   *)
(* inductive: Add may spend its Signal on a WaitForDrain goroutine, and it   *)
(* is the reason that goroutine sleeps that shows a worker will still come.  *)
WakeupInv == NoLostWakeup /\ SleepIsJustified

(* A queue without pending items has length zero.                            *)
LEMMA NothingPending == TypeOK /\ Pending = {} => totalLen = 0
<1> SUFFICES ASSUME TypeOK, Pending = {} PROVE totalLen = 0
  OBVIOUS
<1>1. ASSUME NEW p \in Priorities PROVE Len(queues[p]) = 0
  <2>1. queues[p] \in Seq(Items)
    BY DEF TypeOK
  <2>2. RangeOf(queues[p]) \subseteq Pending
    BY DEF Pending
  <2>3. \A k \in 1..Len(queues[p]) : queues[p][k] \in Pending
    BY <2>2 DEF RangeOf
  <2> QED BY <2>1, <2>3
<1>2. 0 \in Priorities /\ 1 \in Priorities /\ 2 \in Priorities
  BY DEF Priorities
<1>3. Len(queues[0]) = 0 /\ Len(queues[1]) = 0 /\ Len(queues[2]) = 0
  BY <1>1, <1>2
<1> QED BY <1>3 DEF totalLen

(* Every method preserves the wakeup invariant: Add's Signal may go to a     *)
(* waiter, whose reason to sleep names a worker that will come.              *)
LEMMA WakeupStep == TypeOK /\ TypeOK' /\ WakeupInv /\ [Next]_vars => WakeupInv'
<1> SUFFICES ASSUME TypeOK, TypeOK', WakeupInv, [Next]_vars PROVE WakeupInv'
  OBVIOUS
<1> USE WorkersAssumption DEF WakeupInv, NoLostWakeup, SleepIsJustified, MustWait,
        DrainPending, InflightPending, Procs, Waiters, history
<1>1. /\ Len(queues[0]) \in Nat /\ Len(queues[1]) \in Nat /\ Len(queues[2]) \in Nat
      /\ totalLen \in Nat /\ totalLen' \in Nat
  BY DEF TypeOK, Priorities, totalLen
<1>2. ASSUME NEW i \in Items, Add(i) PROVE WakeupInv'
  <2>1. totalLen' > 0
    <3>1. PICK p \in Priorities : p = Rank[i] /\ queues'[p] = Append(queues[p], i)
      BY <1>2, RankType DEF Add, TypeOK
    <3>2. Len(queues'[p]) > 0
      BY <3>1 DEF TypeOK
    <3> QED BY <1>1, <3>2 DEF TypeOK, Priorities, totalLen
  <2>2. CASE Parked = {}
    BY <1>2, <2>2 DEF Add, Signal, Parked
  <2>3. CASE Parked # {}
    <3>1. PICK q \in Parked : pc' = [pc EXCEPT ![q] = "awake"]
      BY <1>2, <2>3 DEF Add, Signal
    <3>2. SleepIsJustified'
      BY <1>2, <2>1, <3>1 DEF Add, Parked, TypeOK
    <3>3. CASE q \in Workers
      BY <3>1, <3>2, <3>3 DEF TypeOK, Parked
    <3>4. CASE q \in Waiters
      <4>1. drained = {} => inflight > 0 \/ totalLen > 0
        BY <3>1, <3>4 DEF Parked
      <4>2. \A w \in Workers : pc'[w] = pc[w]
        BY <3>1, <3>4 DEF TypeOK
      <4> QED BY <1>2, <3>2, <4>1, <4>2 DEF Add
    <3> QED BY <3>1, <3>3, <3>4 DEF Parked
  <2> QED BY <2>2, <2>3
<1>3. ASSUME NEW i \in Items, AddAfterShutdown(i) PROVE WakeupInv'
  BY <1>3 DEF AddAfterShutdown, totalLen
<1>4. ASSUME NEW w \in Workers, GetWait(w) PROVE WakeupInv'
  <2>1. totalLen' = totalLen /\ totalLen = 0
    BY <1>4 DEF GetWait, totalLen
  <2> QED BY <1>4, <2>1 DEF GetWait, TypeOK
<1>5. ASSUME NEW w \in Workers, GetShutdown(w) PROVE WakeupInv'
  BY <1>5 DEF GetShutdown, totalLen, TypeOK
<1>6. ASSUME NEW w \in Workers, GetItem(w) PROVE WakeupInv'
  <2>1. inflight' > 0
    BY <1>6 DEF GetItem, TypeOK
  <2> QED BY <1>6, <2>1 DEF GetItem, TypeOK
<1>7. ASSUME NEW w \in Workers, Done(w) PROVE WakeupInv'
  BY <1>7 DEF Done, Broadcast, TypeOK
<1>8. CASE ShutDown
  BY <1>8 DEF ShutDown, Broadcast, TypeOK
<1>9. CASE Drain
  <2>1. CASE drained' = {}
    <3>1. drained = {} /\ totalLen = 0
      BY <1>9, <2>1, NothingPending DEF Drain
    <3>2. totalLen' = 0
      BY <1>9 DEF Drain, totalLen, Priorities
    <3> QED BY <1>9, <3>1, <3>2 DEF Drain
  <2>2. CASE drained' # {}
    BY <1>9, <2>2 DEF Drain
  <2> QED BY <2>1, <2>2
<1>10. ASSUME NEW d \in Waiters, StartWait(d) PROVE WakeupInv'
  <2>1. totalLen' = totalLen
    BY <1>10 DEF StartWait, totalLen
  <2>2. \A w \in Workers : pc'[w] = pc[w]
    BY <1>10 DEF StartWait, TypeOK
  <2> QED BY <1>10, <2>1, <2>2 DEF StartWait, TypeOK
<1>11. ASSUME NEW d \in Waiters, WaitCheck(d) PROVE WakeupInv'
  <2>1. totalLen' = totalLen
    BY <1>11 DEF WaitCheck, totalLen
  <2>2. \A w \in Workers : pc'[w] = pc[w]
    BY <1>11 DEF WaitCheck, TypeOK
  <2>3. SleepIsJustified'
    BY <1>11, <2>1, <2>2, WaitersAssumption DEF WaitCheck, TypeOK
  <2> QED BY <1>11, <2>1, <2>2, <2>3 DEF WaitCheck
<1>12. ASSUME NEW d \in Waiters, WaitReturnsTrue(d) \/ WaitTimesOut(d)
       PROVE  WakeupInv'
  <2>1. /\ totalLen' = totalLen /\ pc' = pc /\ inflight' = inflight
        /\ shutdown' = shutdown /\ drained' = drained
    BY <1>12 DEF WaitReturnsTrue, WaitTimesOut, totalLen
  <2> QED BY <2>1
<1>13. CASE UNCHANGED vars
  BY <1>13 DEF vars, totalLen
<1> QED
  BY <1>2, <1>3, <1>4, <1>5, <1>6, <1>7, <1>8, <1>9, <1>10, <1>11, <1>12,
     <1>13 DEF Next, WorkerStep, WaiterStep

(* Initially nobody sleeps.                                                  *)
LEMMA WakeupInit == Init => WakeupInv
BY WorkersAssumption
   DEF Init, WakeupInv, NoLostWakeup, SleepIsJustified, totalLen, Procs, Waiters,
       Priorities

(* Until Drain takes an item (no code outside the tests calls it), Add/Get   *)
(* never strand a pending item: if a worker sleeps in Get while items wait,  *)
(* another worker is awake or a Done, with its Broadcast, is still to come.  *)
THEOREM NoLostWakeupCorrect == SafeSpec => []NoLostWakeup
<1>1. WakeupInv => NoLostWakeup
  BY DEF WakeupInv
<1> QED BY <1>1, WakeupInit, WakeupStep, TypeCorrect, PTL DEF SafeSpec

(* No goroutine sleeps on the condition variable without a cause that ends   *)
(* in a wakeup: no worker sleeps through ShutDown, no WaitForInflight call   *)
(* on an idle queue and, until Drain takes an item, no WaitForDrain call on  *)
(* an idle, empty one.                                                       *)
THEOREM SleepIsJustifiedCorrect == SafeSpec => []SleepIsJustified
<1>1. WakeupInv => SleepIsJustified
  BY DEF WakeupInv
<1> QED BY <1>1, WakeupInit, WakeupStep, TypeCorrect, PTL DEF SafeSpec

-----------------------------------------------------------------------------
(* Sequences and their ranges *)

(* What a queue holds after Append.                                          *)
LEMMA AppendRange ==
    ASSUME NEW S, NEW s \in Seq(S), NEW x \in S
    PROVE  RangeOf(Append(s, x)) = RangeOf(s) \cup {x}
<1>1. /\ Len(Append(s, x)) = Len(s) + 1 /\ Len(s) \in Nat
      /\ \A k \in 1..Len(s) : Append(s, x)[k] = s[k]
      /\ Append(s, x)[Len(s) + 1] = x
  OBVIOUS
<1>2. 1..(Len(s) + 1) = (1..Len(s)) \cup {Len(s) + 1}
  BY <1>1
<1> QED BY <1>1, <1>2 DEF RangeOf

(* A queue without its head holds what it held but the head.                 *)
LEMMA TailRange ==
    ASSUME NEW S, NEW s \in Seq(S), s # << >>,
           \A j, k \in 1..Len(s) : s[j] = s[k] => j = k
    PROVE  /\ Head(s) = s[1] /\ Head(s) \in RangeOf(s)
           /\ RangeOf(Tail(s)) = RangeOf(s) \ {Head(s)}
<1>1. /\ Len(s) \in Nat \ {0} /\ Head(s) = s[1]
      /\ Len(Tail(s)) = Len(s) - 1
      /\ \A k \in 1..Len(Tail(s)) : Tail(s)[k] = s[k + 1]
  OBVIOUS
<1>2. 1 \in 1..Len(s) /\ \A k \in 1..Len(Tail(s)) : k + 1 \in 1..Len(s) /\ k + 1 # 1
  BY <1>1
<1>3. \A k \in 1..Len(s) : k = 1 \/ (k - 1 \in 1..Len(Tail(s)) /\ (k - 1) + 1 = k)
  BY <1>1
<1>4. RangeOf(Tail(s)) \subseteq RangeOf(s) \ {Head(s)}
  <2> SUFFICES ASSUME NEW k \in 1..Len(Tail(s))
               PROVE  Tail(s)[k] \in RangeOf(s) \ {Head(s)}
    BY DEF RangeOf
  <2>1. Tail(s)[k] = s[k + 1] /\ s[k + 1] # s[1]
    BY <1>1, <1>2
  <2> QED BY <1>1, <1>2, <2>1 DEF RangeOf
<1>5. ASSUME NEW k \in 1..Len(s), s[k] # Head(s)
      PROVE  s[k] \in RangeOf(Tail(s))
  <2>1. k - 1 \in 1..Len(Tail(s)) /\ (k - 1) + 1 = k
    BY <1>1, <1>3, <1>5
  <2>2. Tail(s)[k - 1] = s[k]
    BY <1>1, <2>1
  <2> QED BY <2>1, <2>2 DEF RangeOf
<1> QED BY <1>1, <1>2, <1>4, <1>5 DEF RangeOf

(* A queue without repetitions is as long as the set of its items is large.  *)
LEMMA DistinctLength ==
    ASSUME NEW S, NEW s \in Seq(S),
           \A j, k \in 1..Len(s) : s[j] = s[k] => j = k
    PROVE  IsFiniteSet(RangeOf(s)) /\ Cardinality(RangeOf(s)) = Len(s)
<1> DEFINE f == [k \in 1..Len(s) |-> s[k]]
<1>1. Len(s) \in Nat
  OBVIOUS
<1>2. IsFiniteSet(1..Len(s)) /\ Cardinality(1..Len(s)) = Len(s)
  <2>1. ASSUME NEW n \in Nat PROVE IsFiniteSet(1..n) /\ Cardinality(1..n) = n
    <3>1. /\ IsFiniteSet(1..n)
          /\ Cardinality(1..n) = IF 1 > n THEN 0 ELSE n - 1 + 1
      BY FS_Interval
    <3> QED BY <3>1
  <2> QED BY <1>1, <2>1
<1>3. f \in Injection(1..Len(s), RangeOf(s))
  BY DEF Injection, IsInjective, RangeOf
<1>4. f \in Surjection(1..Len(s), RangeOf(s))
  BY DEF Surjection, RangeOf
<1>5. ExistsBijection(1..Len(s), RangeOf(s))
  <2> HIDE DEF f
  <2> QED BY <1>3, <1>4 DEF ExistsBijection, Bijection
<1> QED BY <1>2, <1>5, FS_Bijection

-----------------------------------------------------------------------------
(* Where an item is *)

Held == {holds[w] : w \in Workers} \ {NoItem}

(* The queues hold distinct items, each in the queue of its severity and in  *)
(* the order in which Add accepted them.                                     *)
OrderInv ==
    /\ \A j, k \in 1..Len(arrived) : arrived[j] = arrived[k] => j = k
    /\ \A p \in Priorities : \A k \in 1..Len(queues[p]) : Rank[queues[p][k]] = p
    /\ \A p \in Priorities : \A j, k \in 1..Len(queues[p]) : j < k =>
            \E m, n \in 1..Len(arrived) :
                m < n /\ arrived[m] = queues[p][j] /\ arrived[n] = queues[p][k]

(* ExactlyOnePlace without the counts, which follow from it.                 *)
PlaceInv ==
    /\ RangeOf(arrived) = Pending \cup finished \cup drained \cup Held
    /\ Pending \cap finished = {}
    /\ Pending \cap drained = {}
    /\ finished \cap drained = {}
    /\ Held \cap (Pending \cup finished \cup drained) = {}
    /\ \A w, v \in Workers : holds[w] = holds[v] => w = v \/ holds[w] = NoItem

QueueInv == TypeOK /\ OrderInv /\ PlaceInv

(* No item is in a queue twice: arrival would have two positions for it.     *)
LEMMA QueuesDistinct ==
    ASSUME TypeOK, OrderInv, NEW p \in Priorities
    PROVE  \A j, k \in 1..Len(queues[p]) : queues[p][j] = queues[p][k] => j = k
<1> SUFFICES ASSUME NEW j \in 1..Len(queues[p]), NEW k \in 1..Len(queues[p]),
                    queues[p][j] = queues[p][k], j < k
             PROVE  FALSE
  BY DEF TypeOK
<1>1. PICK m \in 1..Len(arrived), n \in 1..Len(arrived) :
         m < n /\ arrived[m] = queues[p][j] /\ arrived[n] = queues[p][k]
  BY DEF OrderInv
<1>2. m = n
  BY <1>1 DEF OrderInv
<1> QED BY <1>1, <1>2 DEF TypeOK

(* An item waits in the queue of its severity, and in no other.              *)
LEMMA PendingByRank ==
    ASSUME TypeOK, OrderInv, NEW p \in Priorities, NEW i \in RangeOf(queues[p])
    PROVE  i \in Items /\ i \in Pending /\ Rank[i] = p
<1>1. PICK k \in 1..Len(queues[p]) : i = queues[p][k]
  BY DEF RangeOf
<1> QED BY <1>1 DEF TypeOK, OrderInv, Pending

(* A pending item is in one of the queues.                                   *)
LEMMA PendingInQueue ==
    ASSUME TypeOK, OrderInv, NEW i \in Pending
    PROVE  i \in Items /\ Rank[i] \in Priorities /\ i \in RangeOf(queues[Rank[i]])
  BY PendingByRank DEF Pending

(* Sets with nothing in common are counted one after the other.              *)
LEMMA DisjointCount ==
    ASSUME NEW S, NEW T, IsFiniteSet(S), IsFiniteSet(T), S \cap T = {}
    PROVE  /\ IsFiniteSet(S \cup T)
           /\ Cardinality(S \cup T) = Cardinality(S) + Cardinality(T)
<1>1. /\ IsFiniteSet(S \cup T)
      /\ Cardinality(S \cup T) = Cardinality(S) + Cardinality(T) - Cardinality(S \cap T)
  BY FS_Union
<1>2. Cardinality(S \cap T) = 0
  BY FS_EmptySet
<1>3. Cardinality(S) \in Nat /\ Cardinality(T) \in Nat
  BY FS_CardinalityType
<1> QED BY <1>1, <1>2, <1>3

(* totalLen counts the pending items.                                        *)
LEMMA LengthIsCount == TypeOK /\ OrderInv => totalLen = Cardinality(Pending)
<1> SUFFICES ASSUME TypeOK, OrderInv PROVE totalLen = Cardinality(Pending)
  OBVIOUS
<1> DEFINE R(p) == RangeOf(queues[p])
<1>1. ASSUME NEW p \in Priorities
      PROVE  IsFiniteSet(R(p)) /\ Cardinality(R(p)) = Len(queues[p]) /\ Len(queues[p]) \in Nat
  <2>1. queues[p] \in Seq(Items)
    BY DEF TypeOK
  <2> QED BY <2>1, QueuesDistinct, DistinctLength
<1>2. 0 \in Priorities /\ 1 \in Priorities /\ 2 \in Priorities
      /\ \A p \in Priorities : p = 0 \/ p = 1 \/ p = 2
  BY DEF Priorities
<1>3. Pending = (R(0) \cup R(1)) \cup R(2)
  BY <1>2 DEF Pending
<1>4. R(0) \cap R(1) = {} /\ (R(0) \cup R(1)) \cap R(2) = {}
  <2>1. \A p, q \in Priorities : \A i \in R(p) \cap R(q) : p = q
    BY PendingByRank
  <2> QED BY <1>2, <2>1
<1>5. /\ IsFiniteSet(R(0)) /\ Cardinality(R(0)) = Len(queues[0]) /\ Len(queues[0]) \in Nat
      /\ IsFiniteSet(R(1)) /\ Cardinality(R(1)) = Len(queues[1]) /\ Len(queues[1]) \in Nat
      /\ IsFiniteSet(R(2)) /\ Cardinality(R(2)) = Len(queues[2]) /\ Len(queues[2]) \in Nat
  BY <1>1, <1>2
<1> DEFINE R0 == R(0)
           R1 == R(1)
           R2 == R(2)
<1> HIDE DEF R0, R1, R2, R
<1>6. /\ IsFiniteSet(R0 \cup R1)
      /\ Cardinality(R0 \cup R1) = Cardinality(R0) + Cardinality(R1)
  <2>1. IsFiniteSet(R0) /\ IsFiniteSet(R1) /\ R0 \cap R1 = {}
    BY <1>4, <1>5 DEF R0, R1
  <2> QED BY <2>1, DisjointCount
<1>7. Cardinality((R0 \cup R1) \cup R2) = Cardinality(R0 \cup R1) + Cardinality(R2)
  <2>1. IsFiniteSet(R2) /\ (R0 \cup R1) \cap R2 = {}
    BY <1>4, <1>5 DEF R0, R1, R2
  <2> QED BY <1>6, <2>1, DisjointCount
<1>8. Cardinality(Pending) = (Cardinality(R0) + Cardinality(R1)) + Cardinality(R2)
  BY <1>3, <1>6, <1>7 DEF R0, R1, R2
<1>9. /\ Cardinality(R0) = Len(queues[0]) /\ Cardinality(R1) = Len(queues[1])
      /\ Cardinality(R2) = Len(queues[2])
  BY <1>5 DEF R0, R1, R2
<1> QED BY <1>8, <1>9 DEF totalLen

(* Add puts the item among the pending ones.                                 *)
LEMMA AddPending ==
    ASSUME TypeOK, NEW i \in Items, Add(i)
    PROVE  /\ Pending' = Pending \cup {i}
           /\ RangeOf(arrived') = RangeOf(arrived) \cup {i}
<1>1. /\ Rank[i] \in Priorities
      /\ queues' = [queues EXCEPT ![Rank[i]] = Append(queues[Rank[i]], i)]
      /\ \A p \in Priorities : queues[p] \in Seq(Items)
      /\ arrived \in Seq(Items) /\ arrived' = Append(arrived, i)
  BY RankType DEF Add, TypeOK
<1>2. RangeOf(Append(queues[Rank[i]], i)) = RangeOf(queues[Rank[i]]) \cup {i}
  BY <1>1, AppendRange
<1>3. /\ RangeOf(queues'[Rank[i]]) = RangeOf(queues[Rank[i]]) \cup {i}
      /\ \A p \in Priorities : p # Rank[i] => RangeOf(queues'[p]) = RangeOf(queues[p])
  BY <1>1, <1>2 DEF TypeOK
<1>4. Pending' = UNION {RangeOf(queues'[p]) : p \in Priorities}
  BY DEF Pending
<1>5. Pending' = Pending \cup {i}
  <2>1. \A x : x \in Pending' <=> \E p \in Priorities : x \in RangeOf(queues'[p])
    BY <1>4
  <2>2. \A x : x \in Pending <=> \E p \in Priorities : x \in RangeOf(queues[p])
    BY DEF Pending
  <2>3. \A x : x \in Pending' <=> x \in Pending \cup {i}
    BY <1>1, <1>3, <2>1, <2>2
  <2> QED BY <2>3
<1>6. RangeOf(arrived') = RangeOf(arrived) \cup {i}
  BY <1>1, AppendRange
<1> QED BY <1>5, <1>6

(* Get takes the head of the first queue that is not empty.                  *)
LEMMA GetTakes ==
    ASSUME TypeOK, OrderInv, NEW w \in Workers, GetItem(w)
    PROVE  \E p \in Priorities :
              /\ FirstNonEmpty(p)
              /\ queues' = [queues EXCEPT ![p] = Tail(queues[p])]
              /\ holds' = [holds EXCEPT ![w] = queues[p][1]]
              /\ queues[p][1] \in Pending
              /\ Rank[queues[p][1]] = p
              /\ Pending' = Pending \ {queues[p][1]}
<1>1. PICK p \in Priorities :
         /\ FirstNonEmpty(p)
         /\ holds' = [holds EXCEPT ![w] = Head(queues[p])]
         /\ queues' = [queues EXCEPT ![p] = Tail(queues[p])]
  BY DEF GetItem
<1>2. queues[p] \in Seq(Items) /\ queues[p] # << >>
  BY <1>1 DEF FirstNonEmpty, TypeOK
<1>3. /\ Head(queues[p]) = queues[p][1] /\ Head(queues[p]) \in RangeOf(queues[p])
      /\ RangeOf(Tail(queues[p])) = RangeOf(queues[p]) \ {Head(queues[p])}
  BY <1>2, QueuesDistinct, TailRange
<1>4. Head(queues[p]) \in Pending /\ Rank[Head(queues[p])] = p
  BY <1>3, PendingByRank
<1>5. \A q \in Priorities : RangeOf(queues'[q]) = RangeOf(queues[q]) \ {Head(queues[p])}
  <2> TAKE q \in Priorities
  <2>1. CASE q = p
    BY <1>1, <1>3, <2>1 DEF TypeOK
  <2>2. CASE q # p
    <3>1. Head(queues[p]) \notin RangeOf(queues[q])
      BY <1>4, <2>2, PendingByRank
    <3> QED BY <1>1, <2>2, <3>1 DEF TypeOK
  <2> QED BY <2>1, <2>2
<1>6. Pending' = UNION {RangeOf(queues'[q]) : q \in Priorities}
  BY DEF Pending
<1>7. Pending' = Pending \ {Head(queues[p])}
  BY <1>5, <1>6 DEF Pending
<1> QED BY <1>1, <1>3, <1>4, <1>7

(* A step that leaves the queues alone leaves the pending items alone.       *)
LEMMA SameQueues == queues' = queues => Pending' = Pending
BY DEF Pending

(* Initially there is nothing anywhere.                                      *)
LEMMA QueueInit == Init => QueueInv
<1> SUFFICES ASSUME Init PROVE QueueInv
  OBVIOUS
<1>1. OrderInv
  BY DEF Init, OrderInv
<1>2. RangeOf(<< >>) = {}
  BY DEF RangeOf
<1>3. Pending = {}
  BY <1>2 DEF Init, Pending
<1>4. Held = {}
  BY DEF Init, Held
<1>5. PlaceInv
  BY <1>2, <1>3, <1>4 DEF Init, PlaceInv
<1> QED BY <1>1, <1>5, TypeInit DEF QueueInv

(* Add appends to one queue and to the arrivals; Get cuts off a head; every  *)
(* other method leaves the order alone.                                      *)
LEMMA OrderStep == QueueInv /\ [Next]_vars => OrderInv'
<1> SUFFICES ASSUME QueueInv, [Next]_vars PROVE OrderInv'
  OBVIOUS
<1> USE DEF QueueInv
<1>1. ASSUME NEW i \in Items, Add(i) PROVE OrderInv'
  <2> DEFINE n == Len(arrived)
  <2>1. /\ arrived \in Seq(Items) /\ n \in Nat
        /\ Len(arrived') = n + 1 /\ arrived'[n + 1] = i
        /\ \A k \in 1..n : arrived'[k] = arrived[k] /\ k \in 1..(n + 1) /\ k < n + 1
        /\ \A k \in 1..(n + 1) : k \in 1..n \/ k = n + 1
        /\ n + 1 \in 1..(n + 1)
    BY <1>1 DEF Add, TypeOK
  <2>2. \A k \in 1..n : arrived[k] # i
    BY <1>1 DEF Add, RangeOf
  <2>3. \A j, k \in 1..Len(arrived') : arrived'[j] = arrived'[k] => j = k
    BY <2>1, <2>2 DEF OrderInv
  <2>4. ASSUME NEW p \in Priorities, p # Rank[i]
        PROVE  queues'[p] = queues[p]
    BY <1>1, <2>4 DEF Add, TypeOK
  <2>5. \A p \in Priorities : \A k \in 1..Len(queues[p]) :
           \E m \in 1..n : arrived[m] = queues[p][k]
    <3>1. \A p \in Priorities : RangeOf(queues[p]) \subseteq RangeOf(arrived)
      BY DEF PlaceInv, Pending
    <3> QED BY <3>1 DEF RangeOf
  <2> DEFINE q == queues[Rank[i]]
             l == Len(q)
  <2>6. /\ Rank[i] \in Priorities /\ q \in Seq(Items) /\ l \in Nat
        /\ Len(queues'[Rank[i]]) = l + 1 /\ queues'[Rank[i]][l + 1] = i
        /\ \A k \in 1..l : queues'[Rank[i]][k] = q[k]
        /\ \A k \in 1..(l + 1) : k \in 1..l \/ k = l + 1
    BY <1>1, RankType DEF Add, TypeOK
  <2> HIDE DEF q, l, n
  <2>7. \A p \in Priorities : \A k \in 1..Len(queues'[p]) : Rank[queues'[p][k]] = p
    <3> SUFFICES ASSUME NEW p \in Priorities, NEW k \in 1..Len(queues'[p])
                 PROVE  Rank[queues'[p][k]] = p
      OBVIOUS
    <3>1. CASE p = Rank[i]
      <4>1. CASE k \in 1..l
        BY <2>6, <3>1, <4>1 DEF OrderInv, q, l
      <4> QED BY <2>6, <3>1, <4>1
    <3>2. CASE p # Rank[i]
      BY <2>4, <3>2 DEF OrderInv
    <3> QED BY <3>1, <3>2
  <2>8. ASSUME NEW p \in Priorities, NEW j \in 1..Len(queues'[p]),
               NEW k \in 1..Len(queues'[p]), j < k
        PROVE  \E a, b \in 1..Len(arrived') :
                  a < b /\ arrived'[a] = queues'[p][j] /\ arrived'[b] = queues'[p][k]
    <3>1. CASE /\ j \in 1..Len(queues[p]) /\ queues'[p][j] = queues[p][j]
               /\ k \in 1..Len(queues[p]) /\ queues'[p][k] = queues[p][k]
      <4>1. PICK a \in 1..n, b \in 1..n :
               a < b /\ arrived[a] = queues[p][j] /\ arrived[b] = queues[p][k]
        BY <2>8, <3>1 DEF OrderInv, n
      <4> QED BY <2>1, <3>1, <4>1
    <3>2. CASE p = Rank[i] /\ k = l + 1
      <4>1. j \in 1..l /\ queues'[p][j] = queues[p][j] /\ j \in 1..Len(queues[p])
        BY <2>6, <2>8, <3>2 DEF q, l
      <4>2. PICK a \in 1..n : arrived[a] = queues[p][j]
        BY <2>5, <4>1
      <4> QED BY <2>1, <2>6, <3>2, <4>1, <4>2
    <3>3. CASE p = Rank[i] /\ k \in 1..l
      <4>1. j \in 1..l
        BY <2>6, <2>8, <3>3
      <4> QED BY <2>6, <3>1, <3>3, <4>1 DEF q, l
    <3> QED BY <2>4, <2>6, <3>1, <3>2, <3>3
  <2> QED BY <2>3, <2>7, <2>8 DEF OrderInv
<1>2. ASSUME NEW w \in Workers, GetItem(w) PROVE OrderInv'
  <2>1. PICK p \in Priorities :
           FirstNonEmpty(p) /\ queues' = [queues EXCEPT ![p] = Tail(queues[p])]
    BY <1>2, GetTakes
  <2>2. arrived' = arrived
    BY <1>2 DEF GetItem, history
  <2>3. /\ queues[p] \in Seq(Items) /\ Len(queues[p]) \in Nat
        /\ Len(queues'[p]) = Len(queues[p]) - 1
        /\ \A k \in 1..Len(queues'[p]) : queues'[p][k] = queues[p][k + 1]
    BY <2>1 DEF FirstNonEmpty, TypeOK
  <2>4. \A k \in 1..Len(queues'[p]) : k + 1 \in 1..Len(queues[p])
    BY <2>3
  <2>5. \A o \in Priorities \ {p} : queues'[o] = queues[o]
    BY <2>1 DEF TypeOK
  <2>6. ASSUME NEW k \in 1..Len(queues'[p]) PROVE Rank[queues'[p][k]] = p
    <3>1. k + 1 \in 1..Len(queues[p]) /\ queues'[p][k] = queues[p][k + 1]
      BY <2>3, <2>4
    <3> QED BY <3>1 DEF OrderInv
  <2>7. ASSUME NEW j \in 1..Len(queues'[p]), NEW k \in 1..Len(queues'[p]), j < k
        PROVE  \E m, n \in 1..Len(arrived) :
                  m < n /\ arrived[m] = queues'[p][j] /\ arrived[n] = queues'[p][k]
    <3>1. j + 1 \in 1..Len(queues[p]) /\ k + 1 \in 1..Len(queues[p]) /\ j + 1 < k + 1
      BY <2>3, <2>4, <2>7
    <3>2. PICK m \in 1..Len(arrived), n \in 1..Len(arrived) :
             m < n /\ arrived[m] = queues[p][j + 1] /\ arrived[n] = queues[p][k + 1]
      BY <3>1 DEF OrderInv
    <3> QED BY <2>3, <3>2
  <2>8. \A o \in Priorities : \A k \in 1..Len(queues'[o]) : Rank[queues'[o][k]] = o
    BY <2>5, <2>6 DEF OrderInv
  <2>9. ASSUME NEW o \in Priorities, NEW j \in 1..Len(queues'[o]),
               NEW k \in 1..Len(queues'[o]), j < k
        PROVE  \E m, n \in 1..Len(arrived) :
                  m < n /\ arrived[m] = queues'[o][j] /\ arrived[n] = queues'[o][k]
    <3>1. CASE o = p
      BY <2>7, <2>9, <3>1
    <3>2. CASE o # p
      <4>1. queues'[o] = queues[o]
        BY <2>5, <3>2
      <4>2. j \in 1..Len(queues[o]) /\ k \in 1..Len(queues[o])
        BY <4>1
      <4> QED BY <2>9, <4>1, <4>2 DEF OrderInv
    <3> QED BY <3>1, <3>2
  <2> QED BY <2>2, <2>8, <2>9 DEF OrderInv
<1>3. CASE Drain
  <2>1. arrived' = arrived /\ \A p \in Priorities : 1..Len(queues'[p]) = {}
    BY <1>3 DEF Drain
  <2> QED BY <2>1 DEF OrderInv
<1>4. CASE UNCHANGED <<queues, arrived>>
  BY <1>4 DEF OrderInv
<1> QED
  BY <1>1, <1>2, <1>3, <1>4
  DEF Next, WorkerStep, WaiterStep, AddAfterShutdown, GetWait, GetShutdown, Done,
      ShutDown, StartWait, WaitCheck, WaitReturnsTrue, WaitTimesOut, vars, history

(* An item moves from one place to the next, and nothing else moves.         *)
LEMMA PlaceStep == QueueInv /\ [Next]_vars => PlaceInv'
<1> SUFFICES ASSUME QueueInv, [Next]_vars PROVE PlaceInv'
  OBVIOUS
<1> USE DEF QueueInv
<1>1. ASSUME NEW i \in Items, Add(i) PROVE PlaceInv'
  <2>1. Held' = Held /\ UNCHANGED <<finished, drained, holds>>
    BY <1>1 DEF Add, Held
  <2>2. i \notin RangeOf(arrived)
    BY <1>1 DEF Add
  <2> QED BY <1>1, <2>1, <2>2, AddPending DEF PlaceInv
<1>2. ASSUME NEW w \in Workers, GetItem(w) PROVE PlaceInv'
  <2>1. PICK p \in Priorities :
           /\ holds' = [holds EXCEPT ![w] = queues[p][1]]
           /\ queues[p][1] \in Pending
           /\ Pending' = Pending \ {queues[p][1]}
    BY <1>2, GetTakes
  <2> DEFINE i == queues[p][1]
  <2>2. holds[w] = NoItem /\ i # NoItem
    BY <1>2, <2>1, PendingInQueue, ItemsAssumption DEF GetItem, TypeOK
  <2>3. UNCHANGED <<arrived, finished, drained>>
    BY <1>2 DEF GetItem, history
  <2>4. /\ holds'[w] = i
        /\ \A v \in Workers \ {w} : holds'[v] = holds[v]
    BY <2>1 DEF TypeOK
  <2> HIDE DEF i
  <2>5. Held' = Held \cup {i}
    <3>1. Held' = {holds'[v] : v \in Workers} \ {NoItem}
      BY DEF Held
    <3> QED BY <2>2, <2>4, <3>1 DEF Held
  <2>6. \A v \in Workers : holds[v] # i
    BY <2>1, <2>2 DEF PlaceInv, Held, i
  <2>7. \A u, v \in Workers : holds'[u] = holds'[v] => u = v \/ holds'[u] = NoItem
    BY <2>4, <2>6 DEF PlaceInv
  <2> QED BY <2>1, <2>3, <2>5, <2>7 DEF PlaceInv, i
<1>3. ASSUME NEW w \in Workers, Done(w) PROVE PlaceInv'
  <2>1. /\ holds[w] # NoItem /\ finished' = finished \cup {holds[w]}
        /\ UNCHANGED <<queues, arrived, drained>>
    BY <1>3 DEF Done, TypeOK
  <2>2. holds'[w] = NoItem /\ \A v \in Workers \ {w} : holds'[v] = holds[v]
    BY <1>3 DEF Done, TypeOK
  <2>3. holds[w] \in Held
    BY <2>1 DEF Held
  <2>4. Held' = Held \ {holds[w]}
    <3>1. Held' = {holds'[v] : v \in Workers} \ {NoItem}
      BY DEF Held
    <3>2. \A v \in Workers \ {w} : holds[v] # holds[w]
      BY <2>1 DEF PlaceInv
    <3> QED BY <2>1, <2>2, <3>1, <3>2 DEF Held
  <2>5. \A u, v \in Workers : holds'[u] = holds'[v] => u = v \/ holds'[u] = NoItem
    BY <2>2 DEF PlaceInv
  <2> QED BY <2>1, <2>3, <2>4, <2>5, SameQueues DEF PlaceInv
<1>4. CASE Drain
  <2>1. Pending' = {}
    <3>1. Pending' = UNION {RangeOf(queues'[p]) : p \in Priorities}
      BY DEF Pending
    <3>2. \A p \in Priorities : RangeOf(queues'[p]) = {}
      BY <1>4 DEF Drain, RangeOf
    <3> QED BY <3>1, <3>2
  <2>2. drained' = drained \cup Pending /\ UNCHANGED <<arrived, finished, holds>>
    BY <1>4 DEF Drain
  <2>3. Held' = Held
    BY <2>2 DEF Held
  <2> QED BY <2>1, <2>2, <2>3 DEF PlaceInv
<1>5. CASE UNCHANGED <<queues, arrived, finished, drained, holds>>
  <2>1. Held' = Held
    BY <1>5 DEF Held
  <2> QED BY <1>5, <2>1, SameQueues DEF PlaceInv
<1> QED
  BY <1>1, <1>2, <1>3, <1>4, <1>5
  DEF Next, WorkerStep, WaiterStep, AddAfterShutdown, GetWait, GetShutdown,
      ShutDown, StartWait, WaitCheck, WaitReturnsTrue, WaitTimesOut, vars, history

(* The inductive invariant about order and places.                           *)
THEOREM QueueInvCorrect == SafeSpec => []QueueInv
<1>1. QueueInv /\ [Next]_vars => QueueInv'
  BY TypeStep, OrderStep, PlaceStep DEF QueueInv
<1> QED BY <1>1, QueueInit, PTL DEF SafeSpec

(* Whatever Add, Get, Done, Drain and ShutDown do in whatever order, an      *)
(* accepted item is queued once, held by one worker, finished or drained,    *)
(* and the two counters of the queue are exact.                              *)
THEOREM ExactlyOnePlaceCorrect == SafeSpec => []ExactlyOnePlace
<1>1. QueueInv /\ InflightExact => ExactlyOnePlace
  <2> SUFFICES ASSUME QueueInv, InflightExact PROVE ExactlyOnePlace
    OBVIOUS
  <2>1. totalLen = Cardinality(Pending)
    BY LengthIsCount DEF QueueInv
  <2>2. NoItem \notin Pending \cup finished \cup drained
    BY PendingInQueue, ItemsAssumption DEF QueueInv, TypeOK
  <2>3. \A w \in Workers : holds[w] \notin Pending \cup finished \cup drained
    BY <2>2 DEF QueueInv, PlaceInv, Held
  <2> QED BY <2>1, <2>3 DEF ExactlyOnePlace, QueueInv, PlaceInv, Held
<1> QED BY <1>1, QueueInvCorrect, InflightCorrect, PTL

-----------------------------------------------------------------------------
(* WaitForDrain *)

(* Whoever has seen the queue empty and nothing in flight saw everything     *)
(* done that had been accepted before.                                       *)
CoverInv ==
    \A d \in Waiters :
        /\ covers[d] \subseteq RangeOf(arrived)
        /\ result[d] = "true" => pc[d] = "closed"
        /\ d \in DrainWaiters /\ pc[d] = "closed" => covers[d] \subseteq finished \cup drained

(* An idle, empty queue has finished or drained all it accepted.             *)
LEMMA IdleMeansFinished ==
    ASSUME QueueInv, InflightExact, ~DrainPending
    PROVE  RangeOf(arrived) = finished \cup drained
<1>1. totalLen = 0 /\ inflight = 0
  <2>1. inflight \in Nat /\ totalLen \in Nat
    BY DEF QueueInv, TypeOK, Priorities, totalLen
  <2>2. ~(inflight > 0) /\ ~(totalLen > 0)
    BY DEF DrainPending
  <2> QED BY <2>1, <2>2
<1>2. Pending = {}
  <2>1. \A p \in Priorities : Len(queues[p]) = 0
    BY <1>1 DEF QueueInv, TypeOK, Priorities, totalLen
  <2> QED BY <2>1 DEF Pending, RangeOf
<1>3. Processing = {}
  BY <1>1, ProcessingFinite, FS_EmptySet DEF InflightExact, Processing
<1>4. Held = {}
  BY <1>3 DEF Processing, Held, QueueInv, TypeOK
<1> QED BY <1>2, <1>4 DEF QueueInv, PlaceInv

(* Nothing that was finished or drained becomes unfinished, and covers is    *)
(* taken before the goroutine first looks.                                   *)
LEMMA CoverStep ==
    QueueInv /\ InflightExact /\ CoverInv /\ [Next]_vars => CoverInv'
<1> SUFFICES ASSUME QueueInv, InflightExact, CoverInv, [Next]_vars PROVE CoverInv'
  OBVIOUS
<1> USE DEF history, Procs
<1>1. TypeOK
  BY DEF QueueInv
<1>2. RangeOf(arrived) \subseteq RangeOf(arrived')
  <2>1. ASSUME NEW i \in Items, Add(i) PROVE RangeOf(arrived) \subseteq RangeOf(arrived')
    BY <1>1, <2>1, AddPending
  <2> QED BY <2>1 DEF Next, WorkerStep, WaiterStep, AddAfterShutdown, GetWait,
        GetShutdown, GetItem, Done, ShutDown, Drain, StartWait, WaitCheck,
        WaitReturnsTrue, WaitTimesOut, vars
<1>3. finished \subseteq finished' /\ drained \subseteq drained'
  BY DEF Next, WorkerStep, WaiterStep, Add, AddAfterShutdown, GetWait,
        GetShutdown, GetItem, Done, ShutDown, Drain, StartWait, WaitCheck,
        WaitReturnsTrue, WaitTimesOut, vars
<1>4. CASE /\ UNCHANGED <<covers, result>>
           /\ \A d \in Waiters : pc'[d] = "closed" <=> pc[d] = "closed"
  BY <1>2, <1>3, <1>4 DEF CoverInv
<1>5. ASSUME NEW i \in Items, Add(i) PROVE CoverInv'
  BY <1>1, <1>4, <1>5 DEF Add, Signal, Parked, TypeOK
<1>6. ASSUME NEW w \in Workers, WorkerStep(w) PROVE CoverInv'
  BY <1>1, <1>4, <1>6, WorkersAssumption
  DEF WorkerStep, GetWait, GetShutdown, GetItem, Done, Broadcast, TypeOK
<1>7. CASE ShutDown
  BY <1>1, <1>4, <1>7 DEF ShutDown, Broadcast, TypeOK
<1>8. ASSUME NEW d \in Waiters, StartWait(d) PROVE CoverInv'
  BY <1>1, <1>2, <1>3, <1>8 DEF StartWait, CoverInv, TypeOK
<1>9. ASSUME NEW d \in Waiters, WaitCheck(d) PROVE CoverInv'
  <2>1. d \in DrainWaiters /\ ~MustWait(d) => RangeOf(arrived) = finished \cup drained
    BY IdleMeansFinished DEF MustWait
  <2>2. \A c \in Waiters \ {d} : pc'[c] = pc[c]
    BY <1>1, <1>9 DEF WaitCheck, TypeOK
  <2>3. pc'[d] = "closed" => ~MustWait(d)
    BY <1>1, <1>9 DEF WaitCheck, TypeOK
  <2>4. UNCHANGED <<covers, result, arrived, finished, drained>> /\ pc[d] = "awake"
    BY <1>9 DEF WaitCheck
  <2> QED BY <2>1, <2>2, <2>3, <2>4 DEF CoverInv
<1>10. ASSUME NEW d \in Waiters, WaitReturnsTrue(d) \/ WaitTimesOut(d) PROVE CoverInv'
  BY <1>1, <1>2, <1>3, <1>10 DEF WaitReturnsTrue, WaitTimesOut, CoverInv, TypeOK
<1> QED
  BY <1>4, <1>5, <1>6, <1>7, <1>8, <1>9, <1>10
  DEF Next, WaiterStep, AddAfterShutdown, Drain, vars

(* When WaitForDrain returns true, everything accepted before the call is    *)
(* finished or was taken out by Drain, for any number of workers and calls.  *)
THEOREM DrainCoversAcceptedCorrect == SafeSpec => []DrainCoversAccepted
<1>1. Init => CoverInv
  BY WorkersAssumption DEF Init, CoverInv, Procs, Waiters
<1>2. CoverInv => DrainCoversAccepted
  BY DEF CoverInv, DrainCoversAccepted, Waiters
<1> QED
  BY <1>1, <1>2, CoverStep, QueueInvCorrect, InflightCorrect, PTL DEF SafeSpec

-----------------------------------------------------------------------------
(* The order of Get *)

(* Items have one position among the arrivals.                               *)
LEMMA PositionIs ==
    ASSUME QueueInv, NEW m \in 1..Len(arrived)
    PROVE  Position(arrived[m]) = m
BY DEF QueueInv, OrderInv, Position

(* The head of the first queue that is not empty goes before everything      *)
(* else that is pending.                                                     *)
LEMMA HeadGoesFirst ==
    ASSUME QueueInv, NEW p \in Priorities, FirstNonEmpty(p),
           NEW j \in Pending, j # queues[p][1]
    PROVE  \/ p < Rank[j]
           \/ p = Rank[j] /\ Position(queues[p][1]) < Position(j)
<1>1. TypeOK /\ OrderInv
  BY DEF QueueInv
<1>2. j \in Items /\ Rank[j] \in Priorities /\ j \in RangeOf(queues[Rank[j]])
  BY <1>1, PendingInQueue
<1>3. PICK k \in 1..Len(queues[Rank[j]]) : queues[Rank[j]][k] = j
  BY <1>2 DEF RangeOf
<1>4. queues[Rank[j]] # << >>
  BY <1>1, <1>2, <1>3 DEF TypeOK
<1>5. p <= Rank[j]
  BY <1>2, <1>4 DEF FirstNonEmpty, Priorities
<1>6. CASE p = Rank[j]
  <2>1. 1 \in 1..Len(queues[p]) /\ k \in 1..Len(queues[p]) /\ queues[p][k] = j /\ 1 < k
    BY <1>1, <1>3, <1>6 DEF TypeOK
  <2>2. PICK m \in 1..Len(arrived), n \in 1..Len(arrived) :
           m < n /\ arrived[m] = queues[p][1] /\ arrived[n] = queues[p][k]
    BY <1>1, <2>1 DEF OrderInv
  <2>3. Position(queues[p][1]) = m /\ Position(j) = n
    BY <2>1, <2>2, PositionIs
  <2> QED BY <1>6, <2>2, <2>3
<1> QED BY <1>2, <1>5, <1>6 DEF Priorities

(* Get hands out the most severe pending item and, of that severity, the one *)
(* that Add accepted first, for any workers and any severities.              *)
THEOREM SeverityThenAgeCorrect == SafeSpec => SeverityThenAge
<1> DEFINE Fair(w) ==
        (holds[w] = NoItem /\ holds'[w] # NoItem) =>
            \A j \in Pending \ {holds'[w]} :
                \/ Rank[holds'[w]] < Rank[j]
                \/ Rank[holds'[w]] = Rank[j] /\ Position(holds'[w]) < Position(j)
<1>1. ASSUME QueueInv, [Next]_vars
      PROVE  [\A w \in Workers : Fair(w)]_vars
  <2> SUFFICES ASSUME NEW w \in Workers, holds[w] = NoItem, holds'[w] # NoItem,
                      NEW j \in Pending \ {holds'[w]}
               PROVE  \/ Rank[holds'[w]] < Rank[j]
                      \/ Rank[holds'[w]] = Rank[j] /\ Position(holds'[w]) < Position(j)
    OBVIOUS
  <2>1. TypeOK /\ OrderInv
    BY <1>1 DEF QueueInv
  <2>2. ASSUME NEW v \in Workers, Done(v) PROVE FALSE
    BY <2>1, <2>2 DEF Done, TypeOK
  <2>3. PICK v \in Workers : GetItem(v)
    BY <1>1, <2>2 DEF Next, WorkerStep, WaiterStep, Add, AddAfterShutdown, GetWait,
        GetShutdown, ShutDown, Drain, StartWait, WaitCheck, WaitReturnsTrue,
        WaitTimesOut, vars
  <2>4. PICK p \in Priorities :
           /\ FirstNonEmpty(p)
           /\ holds' = [holds EXCEPT ![v] = queues[p][1]]
           /\ Rank[queues[p][1]] = p
    BY <2>1, <2>3, GetTakes
  <2>5. v = w /\ holds'[w] = queues[p][1]
    BY <2>1, <2>4 DEF TypeOK
  <2>6. j \in Pending /\ j # queues[p][1]
    BY <2>5
  <2> QED BY <1>1, <2>4, <2>5, <2>6, HeadGoesFirst
<1>2. SeverityThenAge <=> [][\A w \in Workers : Fair(w)]_vars
  BY DEF SeverityThenAge
<1> HIDE DEF Fair
<1> QED BY <1>1, <1>2, QueueInvCorrect, PTL DEF SafeSpec

-----------------------------------------------------------------------------
(* The abstract pool *)

Stopped == {w \in Workers : pc[w] = "stopped"}

(* Steps that change neither an item's place nor who has left are stutters.  *)
LEMMA PoolStutter ==
    /\ UNCHANGED <<queues, holds, finished, drained, refused, shutdown>>
    /\ Stopped' = Stopped
    => UNCHANGED Pool!vars
BY SameQueues DEF Pool!vars, Stopped

(* Every method of the queue is a pool operation or changes nothing the pool *)
(* shows.                                                                    *)
LEMMA PoolStep ==
    ASSUME QueueInv, [Next]_vars
    PROVE  [Pool!Next]_(Pool!vars)
<1>1. TypeOK /\ OrderInv /\ PlaceInv
  BY DEF QueueInv
<1> USE DEF Stopped, history, Procs
<1>2. ASSUME NEW i \in Items, i \notin RangeOf(arrived) \cup refused PROVE i \notin Pool!Known
  <2>1. i \notin Pending \cup finished \cup drained \cup Held \cup refused
    BY <1>1, <1>2 DEF PlaceInv
  <2>2. \A w \in Workers : holds[w] # i
    BY <2>1, ItemsAssumption DEF Held
  <2> QED BY <2>1, <2>2 DEF Pool!Known
<1>3. ASSUME NEW i \in Items, Add(i) PROVE Pool!Accept(i)
  <2>1. i \notin Pool!Known
    BY <1>2, <1>3 DEF Add
  <2>2. Pending' = Pending \cup {i}
    BY <1>1, <1>3, AddPending
  <2>3. \A p \in Procs : pc'[p] = "stopped" <=> pc[p] = "stopped"
    BY <1>1, <1>3 DEF Add, Signal, Parked, TypeOK
  <2>4. Stopped' = Stopped
    BY <2>3
  <2> QED BY <1>3, <2>1, <2>2, <2>4 DEF Add, Pool!Accept
<1>4. ASSUME NEW i \in Items, AddAfterShutdown(i) PROVE Pool!Refuse(i)
  <2>1. i \notin Pool!Known
    BY <1>2, <1>4 DEF AddAfterShutdown
  <2> QED BY <1>4, <2>1, SameQueues DEF AddAfterShutdown, Pool!Refuse
<1>5. ASSUME NEW w \in Workers, GetWait(w) PROVE UNCHANGED Pool!vars
  <2>1. Stopped' = Stopped
    BY <1>1, <1>5 DEF GetWait, TypeOK
  <2> QED BY <1>5, <2>1, PoolStutter DEF GetWait
<1>6. ASSUME NEW w \in Workers, GetShutdown(w) PROVE Pool!Exit(w)
  <2>1. Pending = {}
    <3>1. \A p \in Priorities : Len(queues[p]) = 0
      BY <1>1, <1>6 DEF GetShutdown, TypeOK, Priorities, totalLen
    <3> QED BY <3>1 DEF Pending, RangeOf
  <2>2. Stopped' = Stopped \cup {w} /\ w \notin Stopped
    BY <1>1, <1>6 DEF GetShutdown, TypeOK
  <2>3. holds[w] = NoItem
    BY <1>1, <1>6 DEF GetShutdown, TypeOK
  <2> QED BY <1>6, <2>1, <2>2, <2>3, SameQueues DEF GetShutdown, Pool!Exit
<1>7. ASSUME NEW w \in Workers, GetItem(w) PROVE Pool!Take(w)
  <2>1. PICK p \in Priorities :
           /\ FirstNonEmpty(p)
           /\ holds' = [holds EXCEPT ![w] = queues[p][1]]
           /\ queues[p][1] \in Pending
           /\ Rank[queues[p][1]] = p
           /\ Pending' = Pending \ {queues[p][1]}
    BY <1>1, <1>7, GetTakes
  <2>2. \A j \in Pending : Rank[queues[p][1]] <= Rank[j]
    <3> SUFFICES ASSUME NEW j \in Pending PROVE p <= Rank[j]
      BY <2>1
    <3>1. Rank[j] \in Priorities
      BY <1>1, PendingInQueue
    <3>2. j # queues[p][1] => p < Rank[j] \/ p = Rank[j]
      BY <2>1, HeadGoesFirst
    <3> QED BY <2>1, <3>1, <3>2 DEF Priorities
  <2>3. Stopped' = Stopped /\ w \notin Stopped /\ holds[w] = NoItem
    BY <1>1, <1>7 DEF GetItem, TypeOK
  <2>4. UNCHANGED <<finished, drained, refused, shutdown>>
    BY <1>7 DEF GetItem
  <2> QED BY <2>1, <2>2, <2>3, <2>4 DEF Pool!Take, Pool!MostSevere
<1>8. ASSUME NEW w \in Workers, Done(w) PROVE Pool!Finish(w)
  <2>1. Stopped' = Stopped /\ holds[w] # NoItem
    BY <1>1, <1>8 DEF Done, Broadcast, TypeOK
  <2> QED BY <1>8, <2>1, SameQueues DEF Done, Pool!Finish
<1>9. CASE ShutDown
  <2>1. Stopped' = Stopped
    BY <1>1, <1>9, WorkersAssumption DEF ShutDown, Broadcast, TypeOK
  <2>2. Pool!Close
    BY <1>9, <2>1, SameQueues DEF ShutDown, Pool!Close
  <2> QED BY <2>2 DEF Pool!Next
<1>10. CASE Drain
  <2>1. Pending' = {}
    <3>1. Pending' = UNION {RangeOf(queues'[p]) : p \in Priorities}
      BY DEF Pending
    <3>2. \A p \in Priorities : queues'[p] = << >>
      BY <1>10 DEF Drain
    <3>3. RangeOf(<< >>) = {}
      BY DEF RangeOf
    <3> QED BY <3>1, <3>2, <3>3
  <2>2. drained' = drained \cup Pending /\ UNCHANGED <<holds, finished, refused, shutdown, pc>>
    BY <1>10 DEF Drain
  <2>3. CASE Pending = {}
    BY <2>1, <2>2, <2>3 DEF Pool!vars
  <2>4. CASE Pending # {}
    <3>1. Pool!Evict
      BY <2>1, <2>2, <2>4 DEF Pool!Evict
    <3> QED BY <3>1 DEF Pool!Next
  <2> QED BY <2>3, <2>4
<1>11. ASSUME NEW d \in Waiters, StartWait(d) \/ WaitCheck(d) PROVE UNCHANGED Pool!vars
  <2>1. Stopped' = Stopped
    BY <1>1, <1>11, WorkersAssumption DEF StartWait, WaitCheck, TypeOK
  <2> QED BY <1>11, <2>1, PoolStutter DEF StartWait, WaitCheck
<1>12. ASSUME NEW d \in Waiters, WaitReturnsTrue(d) \/ WaitTimesOut(d)
       PROVE  UNCHANGED Pool!vars
  BY <1>12, PoolStutter DEF WaitReturnsTrue, WaitTimesOut
<1>13. CASE UNCHANGED vars
  BY <1>13, PoolStutter DEF vars
<1> QED
  BY <1>3, <1>4, <1>5, <1>6, <1>7, <1>8, <1>9, <1>10, <1>11, <1>12, <1>13
  DEF Next, WorkerStep, WaiterStep, Pool!Next

(* The condition-variable queue implements the abstract pool, for any items, *)
(* workers and waiters: what its callers see is a pool that accepts, hands   *)
(* out most severe first, and finishes each item once.                       *)
THEOREM ImplementsPoolCorrect == SafeSpec => ImplementsPool
<1>1. Init => Pool!Init
  <2> SUFFICES ASSUME Init PROVE Pool!Init
    OBVIOUS
  <2>1. Pending = {}
    BY DEF Init, Pending, RangeOf
  <2>2. Stopped = {}
    BY DEF Init, Stopped, Procs
  <2> QED BY <2>1, <2>2 DEF Init, Pool!Init, Stopped
<1>2. QueueInv /\ [Next]_vars => [Pool!Next]_(Pool!vars)
  BY PoolStep
<1> QED BY <1>1, <1>2, QueueInvCorrect, PTL DEF SafeSpec, ImplementsPool, Pool!SafeSpec
=============================================================================
