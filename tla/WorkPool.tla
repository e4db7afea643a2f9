------------------------------ MODULE WorkPool ------------------------------
(* What the analysis queue promises its callers, with no mutex and no        *)
(* condition variable: an accepted item waits in a pool until a free worker  *)
(* takes it, most severe first, and is finished by the worker that took it.  *)
(* PriorityQueue implements this specification; the pipeline relies on it.   *)
EXTENDS Integers

CONSTANTS
    Items,       \* the work items that may be offered to the pool
    Rank,        \* Rank[i]: 0 for the most severe items, larger for milder ones
    Workers,     \* the goroutines that take items
    NoItem       \* what an idle worker holds

VARIABLES
    pending,     \* accepted items no worker has taken yet
    held,        \* held[w]: the item worker w is processing
    finished,    \* items whose worker reported completion
    evicted,     \* pending items handed back to the caller that emptied the pool
    refused,     \* items offered after the pool was closed
    closed,      \* TRUE once the pool takes no more items
    exited       \* workers that have left after the pool closed

vars == <<pending, held, finished, evicted, refused, closed, exited>>

Known == pending \cup finished \cup evicted \cup refused
            \cup {held[w] : w \in Workers}

Init ==
    /\ pending = {}
    /\ held = [w \in Workers |-> NoItem]
    /\ finished = {}
    /\ evicted = {}
    /\ refused = {}
    /\ closed = FALSE
    /\ exited = {}

Accept(i) ==
    /\ ~closed
    /\ i \notin Known
    /\ pending' = pending \cup {i}
    /\ UNCHANGED <<held, finished, evicted, refused, closed, exited>>

Refuse(i) ==
    /\ closed
    /\ i \notin Known
    /\ refused' = refused \cup {i}
    /\ UNCHANGED <<pending, held, finished, evicted, closed, exited>>

MostSevere(i) == \A j \in pending : Rank[i] <= Rank[j]

Take(w) ==
    /\ w \notin exited
    /\ held[w] = NoItem
    /\ \E i \in pending :
        /\ MostSevere(i)
        /\ pending' = pending \ {i}
        /\ held' = [held EXCEPT ![w] = i]
    /\ UNCHANGED <<finished, evicted, refused, closed, exited>>

Finish(w) ==
    /\ held[w] # NoItem
    /\ finished' = finished \cup {held[w]}
    /\ held' = [held EXCEPT ![w] = NoItem]
    /\ UNCHANGED <<pending, evicted, refused, closed, exited>>

Evict ==
    /\ pending # {}
    /\ evicted' = evicted \cup pending
    /\ pending' = {}
    /\ UNCHANGED <<held, finished, refused, closed, exited>>

Close ==
    /\ closed' = TRUE
    /\ UNCHANGED <<pending, held, finished, evicted, refused, exited>>

Exit(w) ==
    /\ closed
    /\ pending = {}
    /\ held[w] = NoItem
    /\ w \notin exited
    /\ exited' = exited \cup {w}
    /\ UNCHANGED <<pending, held, finished, evicted, refused, closed>>

Next ==
    \/ \E i \in Items : Accept(i) \/ Refuse(i)
    \/ \E w \in Workers : Take(w) \/ Finish(w) \/ Exit(w)
    \/ Evict
    \/ Close

SafeSpec == Init /\ [][Next]_vars
=============================================================================
