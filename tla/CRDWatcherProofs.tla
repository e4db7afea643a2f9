-------------------------- MODULE CRDWatcherProofs --------------------------
(* What the CRD watcher keeps in force and reports, and what an evaluation   *)
(* makes of it, for any custom resources, specs, inputs and numbers of       *)
(* writes.                                                                   *)
EXTENDS CRDWatcher, TLAPS

-----------------------------------------------------------------------------
(* The engine *)

(* The first level that matches is found if there is one.                    *)
LEMMA FirstOfThree ==
    ASSUME NEW a, NEW b, NEW c,
           a.reason # Passed, b.reason # Passed, c.reason # Passed
    PROVE  FirstMatch(<<a, b, c>>) = Passed <=> ~a.matches /\ ~b.matches /\ ~c.matches
<1> DEFINE s == <<a, b, c>>
<1> DEFINE I == {i \in 1..Len(s) : s[i].matches}
<1>1. Len(s) = 3 /\ s[1] = a /\ s[2] = b /\ s[3] = c
  OBVIOUS
<1>2. FirstMatch(s) = LET k == IF I # {} THEN S!Min(I) ELSE 0
                      IN  IF k = 0 THEN Passed ELSE s[k].reason
  BY DEF FirstMatch, S!SelectInSeq
<1>3. I = {} <=> ~a.matches /\ ~b.matches /\ ~c.matches
  BY <1>1
<1>4. I # {} => \E x \in I : \A y \in I : x =< y
  BY <1>1
<1>5. I # {} => S!Min(I) \in I
  BY <1>4 DEF S!Min
<1>6. \A i \in I : i # 0 /\ s[i].reason # Passed
  BY <1>1
<1> HIDE DEF I, s
<1>7. FirstMatch(s) = Passed <=> I = {}
  BY <1>2, <1>5, <1>6
<1> QED BY <1>3, <1>7 DEF s

LEMMA FirstOfSix ==
    ASSUME NEW a, NEW b, NEW c, NEW d, NEW e, NEW f,
           a.reason # Passed, b.reason # Passed, c.reason # Passed,
           d.reason # Passed, e.reason # Passed, f.reason # Passed
    PROVE  FirstMatch(<<a, b, c, d, e, f>>) = Passed <=>
             /\ ~a.matches /\ ~b.matches /\ ~c.matches
             /\ ~d.matches /\ ~e.matches /\ ~f.matches
<1> DEFINE s == <<a, b, c, d, e, f>>
<1> DEFINE I == {i \in 1..Len(s) : s[i].matches}
<1>1. /\ Len(s) = 6 /\ s[1] = a /\ s[2] = b /\ s[3] = c
      /\ s[4] = d /\ s[5] = e /\ s[6] = f
  OBVIOUS
<1>2. FirstMatch(s) = LET k == IF I # {} THEN S!Min(I) ELSE 0
                      IN  IF k = 0 THEN Passed ELSE s[k].reason
  BY DEF FirstMatch, S!SelectInSeq
<1>3. I = {} <=> /\ ~a.matches /\ ~b.matches /\ ~c.matches
                 /\ ~d.matches /\ ~e.matches /\ ~f.matches
  BY <1>1
<1>4. I # {} => \E x \in I : \A y \in I : x =< y
  <2>1. I \subseteq {1, 2, 3, 4, 5, 6}
    BY <1>1
  <2> HIDE DEF I, s
  <2>2. CASE 1 \in I
    BY <2>1, <2>2
  <2>3. CASE 1 \notin I /\ 2 \in I
    BY <2>1, <2>3
  <2>4. CASE 1 \notin I /\ 2 \notin I /\ 3 \in I
    BY <2>1, <2>4
  <2>5. CASE I \subseteq {4, 5, 6} /\ 4 \in I
    BY <2>5
  <2>6. CASE I \subseteq {5, 6} /\ 5 \in I
    BY <2>6
  <2>7. CASE I \subseteq {6} /\ 6 \in I
    BY <2>7
  <2> QED BY <2>1, <2>2, <2>3, <2>4, <2>5, <2>6, <2>7
<1>5. I # {} => S!Min(I) \in I
  BY <1>4 DEF S!Min
<1>6. \A i \in I : i # 0 /\ s[i].reason # Passed
  BY <1>1
<1> HIDE DEF I, s
<1>7. FirstMatch(s) = Passed <=> I = {}
  BY <1>2, <1>5, <1>6
<1> QED BY <1>3, <1>7 DEF s

(* What the first three levels say: the Helm values and the policies that    *)
(* suppress.                                                                 *)
LEMMA UpperLevels ==
    ASSUME NEW P, NEW input, NEW now
    PROVE  EvaluateUpper(P, input, now) = Passed <=>
             /\ EvaluateUpper({}, input, now) = Passed
             /\ \A p \in P : ~Suppresses(p, input, now)
<1>1. \A Q : EvaluateUpper(Q, input, now) = Passed <=>
        /\ ~matchesGlobalNamespaceExclusion(input.namespace.name)
        /\ ~matchesNamespaceLabelSelector(input.namespace.labels)
        /\ ~matchesSuppressPolicy(Q, input, now)
  BY FirstOfThree DEF EvaluateUpper, Level, Passed
<1> QED BY <1>1 DEF matchesSuppressPolicy

(* What the other six say: annotations and the policies that exclude.        *)
LEMMA LowerLevels ==
    ASSUME NEW P, NEW input
    PROVE  EvaluateLower(P, input) = Passed <=>
             /\ EvaluateLower({}, input) = Passed
             /\ \A p \in P : ~Excludes(p, input)
<1>1. ASSUME NEW Q
      PROVE  EvaluateLower(Q, input) = Passed <=>
        /\ ~isAnnotationTrue(input.namespace.annotations, "suppress")
        /\ ~isAnnotationTrue(input.annotations, "exclude")
        /\ ~ownerHasAnnotationTrue(input.owners, "exclude")
        /\ ~(input.detector \in getExcludedDetectors(input.annotations))
        /\ ~(input.detector \in getOwnerExcludedDetectors(input.owners))
        /\ ~matchesExcludePolicy(Q, input)
  <2> DEFINE m1 == isAnnotationTrue(input.namespace.annotations, "suppress")
             m2 == isAnnotationTrue(input.annotations, "exclude")
             m3 == ownerHasAnnotationTrue(input.owners, "exclude")
             m4 == input.detector \in getExcludedDetectors(input.annotations)
             m5 == input.detector \in getOwnerExcludedDetectors(input.owners)
             m6 == matchesExcludePolicy(Q, input)
  <2>1. \A r, m : Level(r, m).reason = r /\ Level(r, m).matches = m
    BY DEF Level
  <2>2. EvaluateLower(Q, input) = FirstMatch(<<
          Level("namespace_annotation", m1), Level("resource_annotation", m2),
          Level("owner_annotation", m3), Level("resource_annotation", m4),
          Level("owner_annotation", m5), Level("policy_exclude", m6)>>)
    BY DEF EvaluateLower
  <2> HIDE DEF m1, m2, m3, m4, m5, m6
  <2>3. EvaluateLower(Q, input) = Passed <=> ~m1 /\ ~m2 /\ ~m3 /\ ~m4 /\ ~m5 /\ ~m6
    BY <2>1, <2>2, FirstOfSix DEF Passed
  <2> QED BY <2>3 DEF m1, m2, m3, m4, m5, m6
<1> QED BY <1>1 DEF matchesExcludePolicy

-----------------------------------------------------------------------------
(* The inductive invariant *)

Labels == {"idle", "mark", "ready", "notready", "unregister", "rebuild", "set"}

Events == [object : Objects, spec : SUBSET UNION {Specs[o] : o \in Objects}]

(* The fields of an evaluation under way.                                    *)
EvalShape ==
    eval = [pc |-> eval.pc, input |-> eval.input, verdict |-> eval.verdict,
            at |-> eval.at, standing |-> eval.standing, calm |-> eval.calm]

(* An object's events are all in the queue of its handler.                   *)
WatcherTypeOK ==
    /\ objects = [o \in Objects |-> objects[o]]
    /\ status = [o \in Objects |-> status[o]]
    /\ queue \in [Handlers -> Seq(Events)]
    /\ \A h \in Handlers : \A k \in 1..Len(queue[h]) : HandlerOf[queue[h][k].object] = h
    /\ pc \in [Handlers -> Labels]
    /\ wasValid \in [Handlers -> BOOLEAN]
    /\ valid \subseteq Objects
    /\ snapshot = [h \in Handlers |-> snapshot[h]]
    /\ eval = Idle \/ (eval.pc \in {"lower", "done"} /\ EvalShape)

(* An event is valid, and acts if it changes what is in force.               *)
IsValid(e) == ValidSpecs(e.object.kind, e.spec) # {}

Acts(e) == e.spec = {} \/ IsValid(e)

(* The positions in a queue of the events of o, and of those that act.       *)
About(q, o) == {k \in 1..Len(q) : q[k].object = o}

Acting(q, o) == {k \in About(q, o) : Acts(q[k])}

IsLast(k, K) == \A j \in K : j <= k

(* Where the version of o that is in force is kept.                          *)
InForce(o) == IF o \in Policies THEN policyStore ELSE registry

Same(f, g, o) ==
    /\ o \in DOMAIN f <=> o \in DOMAIN g
    /\ o \in DOMAIN f => f[o] = g[o]

(* The map f shows what the event e asks for.                                *)
Shows(f, e) ==
    IF e.spec = {} THEN e.object \notin DOMAIN f
    ELSE e.object \in DOMAIN f /\ f[e.object] = The(e.spec)

Queue(o) == queue[HandlerOf[o]]

(* The handler of o is at label l with an event of o.                        *)
At(o, l) ==
    /\ pc[HandlerOf[o]] = l
    /\ Item(HandlerOf[o]).object = o

(* The last valid version is what the last event in the queue that acts      *)
(* says, or what is in force if there is no such event.                      *)
VersionInv(o) ==
    /\ \A k \in Acting(Queue(o), o) :
         IsLast(k, Acting(Queue(o), o)) => Shows(lastValid, Queue(o)[k])
    /\ Acting(Queue(o), o) = {} => Same(InForce(o), lastValid, o)

(* What a handler has done of its event.                                     *)
HandlerInv(h) ==
    pc[h] # "idle" =>
      /\ queue[h] # <<>>
      /\ pc[h] = "mark" =>
           Item(h).object \notin Policies /\ IsValid(Item(h)) /\ Shows(registry, Item(h))
      /\ pc[h] = "ready" => IsValid(Item(h)) /\ Shows(InForce(Item(h).object), Item(h))
      /\ pc[h] = "notready" => ~Acts(Item(h))
      /\ pc[h] = "unregister" => Item(h).object \notin Policies /\ Item(h).spec = {}
      /\ pc[h] \in {"rebuild", "set"} =>
           /\ Item(h).object \in Policies
           /\ Acts(Item(h))
           /\ Shows(policyStore, Item(h))

(* What is in force is marked as valid, except in the middle of a handler.   *)
ValidInv(o) ==
    /\ o \in valid => o \in DOMAIN InForce(o)
    /\ o \in DOMAIN InForce(o) => o \in valid \/ At(o, "mark") \/ At(o, "unregister")
    /\ At(o, "unregister") => o \notin valid
    /\ At(o, "notready") => wasValid[HandlerOf[o]] = (o \in valid)

(* The last event of an object is about its present spec; when there is none *)
(* left, its status tells the truth or the update was lost.                  *)
StatusInv(o) ==
    /\ \A k \in About(Queue(o), o) :
         IsLast(k, About(Queue(o), o)) => Queue(o)[k].spec = objects[o]
    /\ (About(Queue(o), o) = {} /\ objects[o] # {} /\ o \notin unreported) =>
         /\ status[o]["Ready"] = (ValidSpecs(o.kind, objects[o]) # {})
         /\ o.kind \in {"Detector", "Policy"} =>
              status[o]["Active"] = (o \in DOMAIN lastValid)

ObjectInv(o) == VersionInv(o) /\ ValidInv(o) /\ StatusInv(o)

(* Whoever changes the store collects after that: unless somebody is yet to  *)
(* do so, the policies that were collected last are those of the store, be   *)
(* they in a handler's hands or in the engine.  Other handlers may still     *)
(* have older ones.                                                          *)
EngineInv ==
    /\ DOMAIN policyStore \subseteq Policies
    /\ rebuilds \in Nat /\ applied \in 0..rebuilds
    /\ number \in [Handlers -> 0..rebuilds]
    /\ (\A h \in Handlers : pc[h] # "rebuild") =>
         /\ \A h \in Handlers :
              pc[h] = "set" /\ number[h] = rebuilds =>
                snapshot[h] = ConvertedPolicies(policyStore)
         /\ applied = rebuilds => policies = ConvertedPolicies(policyStore)

(* Of the policies that were there all the time, none matched so far; and if *)
(* the call is calm, no policy event is pending and, if the engine has the   *)
(* newest policies, the verdict is that of the policies in force.            *)
EvalInv ==
    /\ eval.pc = "lower" =>
         /\ eval.standing \subseteq policies
         /\ eval.verdict = Passed
         /\ EvaluateUpper({}, eval.input, eval.at) = Passed
         /\ \A p \in eval.standing : ~Suppresses(p, eval.input, eval.at)
    /\ (eval.pc # "idle" /\ eval.calm) => PoliciesSettled
    /\ (eval.pc = "lower" /\ eval.calm /\ applied = rebuilds) =>
         \A p \in ConvertedPolicies(lastValid) : ~Suppresses(p, eval.input, eval.at)
    /\ StandingPolicyIsObeyed
    /\ VerdictFollowsPolicies

WatcherInv ==
    /\ WatcherTypeOK
    /\ \A h \in Handlers : HandlerInv(h)
    /\ \A o \in Objects : ObjectInv(o)
    /\ EngineInv
    /\ EvalInv

-----------------------------------------------------------------------------
(* Queues *)

(* An event that is queued changes nothing for another object ...            *)
LEMMA AppendOther ==
    ASSUME NEW q \in Seq(Events), NEW e \in Events, NEW o, e.object # o
    PROVE  /\ About(Append(q, e), o) = About(q, o)
           /\ Acting(Append(q, e), o) = Acting(q, o)
           /\ \A k \in About(q, o) : Append(q, e)[k] = q[k]
           /\ Acting(q, o) \subseteq About(q, o)
<1> DEFINE r == Append(q, e)
<1>1. /\ Len(r) = Len(q) + 1 /\ Len(q) \in Nat /\ r[Len(q) + 1] = e
      /\ \A k \in 1..Len(q) : r[k] = q[k]
  OBVIOUS
<1> HIDE DEF r
<1>2. About(r, o) = About(q, o)
  BY <1>1 DEF About
<1>3. \A k \in About(q, o) : r[k] = q[k]
  BY <1>1 DEF About
<1> QED BY <1>2, <1>3 DEF Acting, r

(* ... and is the last one of its own, and if it acts the last that does.    *)
LEMMA AppendOwn ==
    ASSUME NEW q \in Seq(Events), NEW e \in Events, NEW o, e.object = o
    PROVE  /\ About(Append(q, e), o) = About(q, o) \cup {Len(q) + 1}
           /\ Acts(e) => Acting(Append(q, e), o) = Acting(q, o) \cup {Len(q) + 1}
           /\ ~Acts(e) => Acting(Append(q, e), o) = Acting(q, o)
           /\ Append(q, e)[Len(q) + 1] = e
           /\ \A k \in About(q, o) :
                k \in Nat /\ k < Len(q) + 1 /\ Append(q, e)[k] = q[k]
           /\ Acting(q, o) \subseteq About(q, o)
<1> DEFINE r == Append(q, e)
           n == Len(q) + 1
<1>1. /\ Len(r) = n /\ Len(q) \in Nat /\ r[n] = e
      /\ \A k \in 1..Len(q) : r[k] = q[k]
  OBVIOUS
<1>2. 1..n = (1..Len(q)) \cup {n} /\ n \in Nat /\ n \notin 1..Len(q)
  BY <1>1
<1>3. \A k \in About(q, o) : k \in 1..Len(q) /\ k \in Nat /\ k < n
  BY <1>1 DEF About
<1> HIDE DEF r, n
<1>4. About(r, o) = About(q, o) \cup {n}
  BY <1>1, <1>2 DEF About
<1>5. \A k \in About(q, o) : k # n /\ r[k] = q[k]
  BY <1>1, <1>2, <1>3
<1>6. CASE Acts(e)
  <2>1. Acting(r, o) = Acting(q, o) \cup {n}
    BY <1>1, <1>4, <1>5, <1>6 DEF Acting
  <2> QED BY <1>1, <1>3, <1>4, <1>5, <1>6, <2>1 DEF Acting, r, n
<1>7. CASE ~Acts(e)
  <2>1. Acting(r, o) = Acting(q, o)
    BY <1>1, <1>4, <1>5, <1>7 DEF Acting
  <2> QED BY <1>1, <1>3, <1>4, <1>5, <1>7, <2>1 DEF Acting, r, n
<1> QED BY <1>6, <1>7

(* An event that is done: the positions of the others move up.               *)
LEMMA AfterTail ==
    ASSUME NEW q \in Seq(Events), q # <<>>, NEW o
    PROVE  /\ About(q, o) \subseteq Nat \ {0} /\ Acting(q, o) \subseteq About(q, o)
           /\ \A k \in Nat \ {0} : /\ k \in About(Tail(q), o) <=> k + 1 \in About(q, o)
                                   /\ k \in Acting(Tail(q), o) <=> k + 1 \in Acting(q, o)
           /\ About(Tail(q), o) \subseteq Nat \ {0}
           /\ Acting(Tail(q), o) \subseteq Nat \ {0}
           /\ \A k \in About(Tail(q), o) : Tail(q)[k] = q[k + 1]
           /\ Acting(Tail(q), o) \subseteq About(Tail(q), o)
           /\ 1 \in About(q, o) <=> q[1].object = o
           /\ 1 \in Acting(q, o) <=> q[1].object = o /\ Acts(q[1])
<1>1. /\ Len(Tail(q)) = Len(q) - 1 /\ Len(q) \in Nat \ {0}
      /\ \A k \in 1..(Len(q) - 1) : Tail(q)[k] = q[k + 1]
  OBVIOUS
<1> DEFINE r == Tail(q)
<1> HIDE DEF r
<1>2. /\ About(q, o) \subseteq Nat \ {0} /\ Acting(q, o) \subseteq About(q, o)
      /\ About(r, o) \subseteq Nat \ {0} /\ Acting(r, o) \subseteq About(r, o)
  BY <1>1 DEF About, Acting, r
<1>3. \A k \in About(r, o) : r[k] = q[k + 1]
  BY <1>1 DEF About, r
<1>4. ASSUME NEW k \in Nat \ {0} PROVE k \in About(r, o) <=> k + 1 \in About(q, o)
  BY <1>1 DEF About, r
<1>5. ASSUME NEW k \in Nat \ {0} PROVE k \in Acting(r, o) <=> k + 1 \in Acting(q, o)
  BY <1>3, <1>4 DEF Acting
<1>6. /\ 1 \in About(q, o) <=> q[1].object = o
      /\ 1 \in Acting(q, o) <=> q[1].object = o /\ Acts(q[1])
  BY <1>1 DEF About, Acting
<1> QED BY <1>2, <1>3, <1>4, <1>5, <1>6 DEF r

(* So the last one of the rest was the last one before.                      *)
LEMMA LastAfterTail ==
    ASSUME NEW J \in SUBSET (Nat \ {0}), NEW K \in SUBSET (Nat \ {0}),
           \A k \in Nat \ {0} : k \in J <=> k + 1 \in K
    PROVE  /\ \A k \in J : k + 1 \in K /\ (IsLast(k, J) => IsLast(k + 1, K))
           /\ J = {} => K \subseteq {1}
<1>1. ASSUME NEW j \in K, j # 1 PROVE j - 1 \in J
  <2>1. j - 1 \in Nat \ {0} /\ (j - 1) + 1 = j
    BY <1>1
  <2> QED BY <2>1
<1>2. ASSUME NEW k \in J, IsLast(k, J) PROVE IsLast(k + 1, K)
  <2> SUFFICES ASSUME NEW j \in K PROVE j <= k + 1
    BY DEF IsLast
  <2>1. CASE j = 1
    BY <2>1
  <2>2. CASE j # 1
    BY <1>1, <1>2, <2>2 DEF IsLast
  <2> QED BY <2>1, <2>2
<1> QED BY <1>1, <1>2

-----------------------------------------------------------------------------
(* What a step leaves alone *)

(* Nothing that is kept about o changes.                                     *)
Untouched(o) ==
    /\ Same(registry', registry, o) /\ Same(policyStore', policyStore, o)
    /\ Same(lastValid', lastValid, o)
    /\ o \in valid' <=> o \in valid
    /\ o \in unreported' <=> o \in unreported
    /\ objects'[o] = objects[o] /\ status'[o] = status[o]

(* An object about which no event is handled, as long as the queue stays.    *)
LEMMA BystanderStays ==
    ASSUME NEW o \in Objects, ObjectInv(o), Untouched(o),
           Queue(o)' = Queue(o),
           \A l \in {"mark", "unregister", "notready"} : At(o, l)' <=> At(o, l),
           At(o, "notready") => wasValid'[HandlerOf[o]] = wasValid[HandlerOf[o]]
    PROVE  ObjectInv(o)'
<1>1. VersionInv(o)'
  BY DEF ObjectInv, VersionInv, Untouched, Same, Shows, InForce, Acting, About
<1>2. ValidInv(o)'
  BY DEF ObjectInv, ValidInv, Untouched, Same, InForce
<1>3. StatusInv(o)'
  BY DEF ObjectInv, StatusInv, Untouched, Same
<1> QED BY <1>1, <1>2, <1>3 DEF ObjectInv

(* A handler that waits or works on another object's event.                  *)
LEMMA HandlerStays ==
    ASSUME NEW h \in Handlers, HandlerInv(h), pc'[h] = pc[h],
           pc[h] # "idle" => queue'[h] # <<>> /\ Item(h)' = Item(h),
           pc[h] # "idle" =>
             /\ Same(registry', registry, Item(h).object)
             /\ Same(policyStore', policyStore, Item(h).object)
    PROVE  HandlerInv(h)'
BY DEF HandlerInv, Same, Shows, InForce, Acts, IsValid

(* The object in hand is an object, and this handler's; nobody else has it.  *)
LEMMA InHand ==
    ASSUME WatcherTypeOK, NEW h \in Handlers, queue[h] # <<>>
    PROVE  /\ Item(h) \in Events /\ Item(h).object \in Objects
           /\ HandlerOf[Item(h).object] = h
           /\ queue[h] \in Seq(Events)
<1>1. queue[h] \in Seq(Events) /\ Len(queue[h]) \in Nat \ {0}
  BY DEF WatcherTypeOK
<1>2. 1 \in 1..Len(queue[h]) /\ queue[h][1] \in Events
  BY <1>1
<1> QED BY <1>1, <1>2 DEF WatcherTypeOK, Item, Events

(* The others, when a handler goes on with the event it has in hand.         *)
LEMMA OthersStay ==
    ASSUME WatcherTypeOK, NEW h \in Handlers, queue[h] # <<>>, queue' = queue,
           \A g \in Handlers \ {h} : pc'[g] = pc[g] /\ wasValid'[g] = wasValid[g],
           \A o \in Objects \ {Item(h).object} : Untouched(o),
           \A g \in Handlers : HandlerInv(g)
    PROVE  /\ \A o \in Objects \ {Item(h).object} : ObjectInv(o) => ObjectInv(o)'
           /\ \A g \in Handlers \ {h} : HandlerInv(g)'
<1>1. ASSUME NEW o \in Objects \ {Item(h).object}, ObjectInv(o) PROVE ObjectInv(o)'
  <2>1. HandlerOf[o] \in Handlers
    BY DEF Handlers
  <2>2. Untouched(o) /\ Queue(o)' = Queue(o)
    BY DEF Queue
  <2>3. CASE HandlerOf[o] = h
    <3>1. \A l : ~At(o, l) /\ ~At(o, l)'
      BY <2>3 DEF At, Item
    <3> QED BY <1>1, <2>2, <3>1, BystanderStays
  <2>4. CASE HandlerOf[o] # h
    <3>1. /\ \A l : At(o, l)' <=> At(o, l)
          /\ wasValid'[HandlerOf[o]] = wasValid[HandlerOf[o]]
      BY <2>1, <2>4 DEF At, Item
    <3> QED BY <1>1, <2>2, <3>1, BystanderStays
  <2> QED BY <2>3, <2>4
<1>2. ASSUME NEW g \in Handlers \ {h} PROVE HandlerInv(g)'
  <2>1. pc[g] # "idle" => queue[g] # <<>>
    BY DEF HandlerInv
  <2>2. queue[g] # <<>> => Item(g).object \in Objects \ {Item(h).object}
    BY InHand
  <2>3. pc[g] # "idle" => Untouched(Item(g).object)
    BY <2>1, <2>2
  <2>4. Item(g)' = Item(g)
    BY DEF Item
  <2> QED BY <2>1, <2>3, <2>4, HandlerStays DEF Untouched
<1> QED BY <1>1, <1>2

(* The others, when a handler returns.                                       *)
LEMMA OthersMoveUp ==
    ASSUME WatcherTypeOK, NEW h \in Handlers, queue[h] # <<>>,
           queue' = [queue EXCEPT ![h] = Tail(@)], pc' = [pc EXCEPT ![h] = "idle"],
           \A g \in Handlers \ {h} : wasValid'[g] = wasValid[g],
           \A o \in Objects \ {Item(h).object} : Untouched(o),
           \A g \in Handlers : HandlerInv(g)
    PROVE  /\ \A o \in Objects \ {Item(h).object} : ObjectInv(o) => ObjectInv(o)'
           /\ \A g \in Handlers : HandlerInv(g)'
<1>0. /\ queue'[h] = Tail(queue[h]) /\ pc'[h] = "idle"
      /\ \A g \in Handlers \ {h} : queue'[g] = queue[g] /\ pc'[g] = pc[g]
  BY DEF WatcherTypeOK
<1>1. ASSUME NEW o \in Objects \ {Item(h).object}, ObjectInv(o) PROVE ObjectInv(o)'
  <2>1. HandlerOf[o] \in Handlers
    BY DEF Handlers
  <2>2. Untouched(o)
    OBVIOUS
  <2>3. CASE HandlerOf[o] = h
    <3> DEFINE q == queue[h]
               J == About(Tail(q), o)
               K == About(q, o)
               A == Acting(Tail(q), o)
               B == Acting(q, o)
    <3>1. Queue(o) = q /\ Queue(o)' = Tail(q)
      BY <1>0, <2>3 DEF Queue
    <3>2. \A l : ~At(o, l) /\ (l # "idle" => ~At(o, l)')
      BY <1>0, <2>3 DEF At, Item
    <3>3. q \in Seq(Events) /\ q # <<>> /\ q[1].object # o
      BY InHand DEF Item
    <3>4. /\ J \in SUBSET (Nat \ {0}) /\ K \in SUBSET (Nat \ {0})
          /\ A \in SUBSET (Nat \ {0}) /\ B \in SUBSET (Nat \ {0})
          /\ A \subseteq J
          /\ \A k \in Nat \ {0} : (k \in J <=> k + 1 \in K) /\ (k \in A <=> k + 1 \in B)
          /\ \A k \in J : Tail(q)[k] = q[k + 1] /\ q[k + 1].object = o
          /\ 1 \notin K /\ 1 \notin B
      <4>1. q[1].object # o
        BY <3>3
      <4>2. \A k \in K : q[k].object = o
        BY DEF About
      <4> HIDE DEF q
      <4>3. /\ K \subseteq Nat \ {0} /\ B \subseteq K
            /\ \A k \in Nat \ {0} : (k \in J <=> k + 1 \in K) /\ (k \in A <=> k + 1 \in B)
            /\ J \subseteq Nat \ {0} /\ A \subseteq Nat \ {0} /\ A \subseteq J
            /\ \A k \in J : Tail(q)[k] = q[k + 1]
            /\ 1 \notin K
        BY <3>3, AfterTail
      <4> HIDE DEF J, K, A, B
      <4> QED BY <4>2, <4>3
    <3> HIDE DEF q, J, K, A, B
    <3>5. /\ \A k \in J : k + 1 \in K /\ (IsLast(k, J) => IsLast(k + 1, K))
          /\ J = {} => K \subseteq {1}
      BY <3>4, LastAfterTail
    <3>6. /\ \A k \in A : k + 1 \in B /\ (IsLast(k, A) => IsLast(k + 1, B))
          /\ A = {} => B \subseteq {1}
      BY <3>4, LastAfterTail
    <3>7. About(Queue(o), o) = K /\ About(Queue(o), o)' = J
          /\ Acting(Queue(o), o) = B /\ Acting(Queue(o), o)' = A
      BY <3>1 DEF J, K, A, B
    <3>8. VersionInv(o)'
      <4>1. ASSUME NEW k \in A, IsLast(k, A) PROVE Shows(lastValid', Tail(q)[k])
        <5>1. Shows(lastValid, q[k + 1])
          BY <1>1, <3>1, <3>6, <3>7, <4>1 DEF ObjectInv, VersionInv
        <5>2. Tail(q)[k] = q[k + 1] /\ q[k + 1].object = o
          BY <3>4
        <5> QED BY <2>2, <5>1, <5>2 DEF Shows, Untouched, Same
      <4>2. A = {} => Same(InForce(o)', lastValid', o)
        <5>1. A = {} => Same(InForce(o), lastValid, o)
          BY <1>1, <3>4, <3>6, <3>7 DEF ObjectInv, VersionInv
        <5> QED BY <2>2, <5>1 DEF InForce, Untouched, Same
      <4> QED BY <3>1, <3>7, <4>1, <4>2 DEF VersionInv
    <3>9. ValidInv(o)'
      BY <1>1, <2>2, <3>2 DEF ObjectInv, ValidInv, Untouched, Same, InForce
    <3>10. StatusInv(o)'
      <4>0. /\ \A k \in K : IsLast(k, K) => q[k].spec = objects[o]
            /\ (K = {} /\ objects[o] # {} /\ o \notin unreported) =>
                 /\ status[o]["Ready"] = (ValidSpecs(o.kind, objects[o]) # {})
                 /\ o.kind \in {"Detector", "Policy"} =>
                      status[o]["Active"] = (o \in DOMAIN lastValid)
        BY <1>1, <3>1, <3>7 DEF ObjectInv, StatusInv
      <4>1. ASSUME NEW k \in J, IsLast(k, J) PROVE Tail(q)[k].spec = objects'[o]
        <5>1. k + 1 \in K /\ IsLast(k + 1, K)
          BY <3>5, <4>1
        <5>2. Tail(q)[k] = q[k + 1]
          BY <3>4
        <5> QED BY <2>2, <4>0, <5>1, <5>2 DEF Untouched
      <4>2. J = {} => K = {}
        BY <3>4, <3>5
      <4>3. /\ objects'[o] = objects[o] /\ status'[o] = status[o]
            /\ o \in DOMAIN lastValid' <=> o \in DOMAIN lastValid
            /\ o \in unreported' <=> o \in unreported
        BY <2>2 DEF Untouched, Same
      <4>4. (J = {} /\ objects'[o] # {} /\ o \notin unreported') =>
              /\ status'[o]["Ready"] = (ValidSpecs(o.kind, objects'[o]) # {})
              /\ o.kind \in {"Detector", "Policy"} =>
                   status'[o]["Active"] = (o \in DOMAIN lastValid')
        BY <4>0, <4>2, <4>3
      <4>5. Queue(o)' = Tail(q) /\ About(Queue(o), o)' = J
        BY <3>1, <3>7
      <4> QED BY <4>1, <4>4, <4>5 DEF StatusInv
    <3> QED BY <3>8, <3>9, <3>10 DEF ObjectInv
  <2>4. CASE HandlerOf[o] # h
    <3>1. /\ \A l : At(o, l)' <=> At(o, l)
          /\ wasValid'[HandlerOf[o]] = wasValid[HandlerOf[o]]
          /\ Queue(o)' = Queue(o)
      BY <1>0, <2>1, <2>4 DEF At, Item, Queue
    <3> QED BY <1>1, <2>2, <3>1, BystanderStays
  <2> QED BY <2>3, <2>4
<1>2. ASSUME NEW g \in Handlers \ {h} PROVE HandlerInv(g)'
  <2>1. pc[g] # "idle" => queue[g] # <<>>
    BY DEF HandlerInv
  <2>2. queue[g] # <<>> => Item(g).object \in Objects \ {Item(h).object}
    BY InHand
  <2>3. pc[g] # "idle" => Untouched(Item(g).object)
    BY <2>1, <2>2
  <2>4. Item(g)' = Item(g)
    BY <1>0 DEF Item
  <2> QED BY <1>0, <2>1, <2>3, <2>4, HandlerStays DEF Untouched
<1>3. HandlerInv(h)'
  BY <1>0 DEF HandlerInv
<1> QED BY <1>1, <1>2, <1>3

-----------------------------------------------------------------------------
(* Types *)

QueueTypeOK ==
    /\ queue \in [Handlers -> Seq(Events)]
    /\ \A h \in Handlers : \A k \in 1..Len(queue[h]) : HandlerOf[queue[h][k].object] = h

(* A user's change is queued where the other events of the object are.       *)
LEMMA UserQueueType ==
    ASSUME QueueTypeOK, NEW o \in Objects, NEW e \in Events, e.object = o,
           queue' = [queue EXCEPT ![HandlerOf[o]] = Append(@, e)]
    PROVE  QueueTypeOK'
<1> DEFINE h == HandlerOf[o]
<1>1. h \in Handlers /\ queue[h] \in Seq(Events)
  BY DEF Handlers, QueueTypeOK
<1> HIDE DEF h
<1>2. /\ queue'[h] = Append(queue[h], e)
      /\ \A g \in Handlers \ {h} : queue'[g] = queue[g]
  BY <1>1 DEF QueueTypeOK, h
<1>3. queue' \in [Handlers -> Seq(Events)]
  BY <1>1 DEF QueueTypeOK, h
<1>4. ASSUME NEW k \in 1..Len(queue'[h]) PROVE HandlerOf[queue'[h][k].object] = h
  <2>1. CASE k = Len(queue[h]) + 1
    BY <1>1, <1>2, <2>1 DEF h
  <2>2. CASE k \in 1..Len(queue[h])
    BY <1>1, <1>2, <2>2 DEF QueueTypeOK
  <2> QED BY <1>1, <1>2, <1>4, <2>1, <2>2
<1> QED BY <1>2, <1>3, <1>4 DEF QueueTypeOK

LEMMA ReturnQueueType ==
    ASSUME QueueTypeOK, NEW h \in Handlers, queue[h] # <<>>,
           queue' = [queue EXCEPT ![h] = Tail(@)]
    PROVE  QueueTypeOK'
<1>1. queue[h] \in Seq(Events)
  BY DEF QueueTypeOK
<1>2. /\ queue'[h] = Tail(queue[h])
      /\ \A g \in Handlers \ {h} : queue'[g] = queue[g]
  BY DEF QueueTypeOK
<1>3. queue' \in [Handlers -> Seq(Events)]
  BY <1>1 DEF QueueTypeOK
<1>4. ASSUME NEW k \in 1..Len(queue'[h]) PROVE HandlerOf[queue'[h][k].object] = h
  <2>1. /\ Len(Tail(queue[h])) = Len(queue[h]) - 1 /\ Len(queue[h]) \in Nat \ {0}
        /\ \A j \in 1..(Len(queue[h]) - 1) : Tail(queue[h])[j] = queue[h][j + 1]
    BY <1>1
  <2>2. k \in 1..(Len(queue[h]) - 1)
    BY <1>2, <1>4, <2>1
  <2>3. queue'[h][k] = queue[h][k + 1]
    BY <1>2, <2>1, <2>2
  <2>4. k + 1 \in 1..Len(queue[h])
    <3> DEFINE n == Len(queue[h])
    <3> HIDE DEF n
    <3> QED BY <2>1, <2>2 DEF n
  <2> QED BY <2>3, <2>4 DEF QueueTypeOK
<1> QED BY <1>2, <1>3, <1>4 DEF QueueTypeOK

LEMMA UserType ==
    ASSUME WatcherTypeOK, NEW o \in Objects, NEW spec, UserChanges(o, spec),
           spec \subseteq Specs[o]
    PROVE  WatcherTypeOK'
<1> DEFINE e == [object |-> o, spec |-> spec]
<1>1. e \in Events /\ e.object = o
  BY DEF Events
<1>2. QueueTypeOK /\ queue' = [queue EXCEPT ![HandlerOf[o]] = Append(@, e)]
  BY DEF UserChanges, WatcherTypeOK, QueueTypeOK
<1> HIDE DEF e
<1>3. QueueTypeOK'
  BY <1>1, <1>2, UserQueueType
<1>4. /\ objects' = [x \in Objects |-> objects'[x]]
      /\ status' = [x \in Objects |-> status'[x]]
  BY DEF UserChanges, WatcherTypeOK
<1>5. eval' = Idle \/ (eval'.pc \in {"lower", "done"} /\ EvalShape')
  BY DEF UserChanges, WatcherTypeOK, EvalShape, Idle
<1>6. UNCHANGED <<pc, wasValid, valid, snapshot>>
  BY DEF UserChanges, watcher
<1> QED BY <1>3, <1>4, <1>5, <1>6 DEF WatcherTypeOK, QueueTypeOK

LEMMA HandlerType ==
    ASSUME WatcherTypeOK, NEW h \in Handlers, HandlerInv(h), HandlerStep(h)
    PROVE  WatcherTypeOK'
<1> USE DEF Goto, Labels
<1>0. QueueTypeOK /\ (queue[h] # <<>> => Item(h).object \in Objects)
  BY InHand DEF WatcherTypeOK, QueueTypeOK
<1>1. CASE Register(h)
  BY <1>1 DEF Register, WatcherTypeOK, EvalShape, api, watcher
<1>2. CASE Mark(h)
  <2>1. Item(h).object \in Objects
    BY <1>0, <1>2 DEF Mark, HandlerInv
  <2> QED BY <1>2, <2>1 DEF Mark, WatcherTypeOK, EvalShape, api
<1>3. CASE StorePolicy(h)
  BY <1>3 DEF StorePolicy, Policies, WatcherTypeOK, EvalShape, api
<1>4. CASE Reject(h)
  BY <1>4 DEF Reject, WatcherTypeOK, EvalShape, api, watcher
<1>5. CASE Unmark(h)
  BY <1>5 DEF Unmark, WatcherTypeOK, EvalShape, api
<1>6. ASSUME Return(h), queue[h] # <<>> PROVE QueueTypeOK' /\ pc' \in [Handlers -> Labels]
  BY <1>0, <1>6, ReturnQueueType DEF Return, WatcherTypeOK
<1>7. CASE Unregister(h)
  <2>1. QueueTypeOK' /\ pc' \in [Handlers -> Labels]
    BY <1>6, <1>7 DEF Unregister, HandlerInv
  <2> QED BY <1>7, <2>1 DEF Unregister, WatcherTypeOK, QueueTypeOK, EvalShape, api, watcher
<1>8. CASE OnPolicyDelete(h)
  BY <1>8 DEF OnPolicyDelete, WatcherTypeOK, EvalShape, api
<1>9. CASE CollectPolicies(h)
  BY <1>9 DEF CollectPolicies, WatcherTypeOK, EvalShape, api
<1>10. CASE SetPolicies(h)
  <2>1. QueueTypeOK' /\ pc' \in [Handlers -> Labels]
    <3>1. queue[h] # <<>>
      BY <1>10 DEF SetPolicies, HandlerInv
    <3>2. CASE Return(h)
      BY <1>6, <3>1, <3>2
    <3>3. CASE Goto(h, "ready") /\ UNCHANGED queue
      BY <1>0, <3>3 DEF QueueTypeOK, WatcherTypeOK
    <3> QED BY <1>10, <3>2, <3>3 DEF SetPolicies
  <2>2. eval' = Idle \/ (eval'.pc \in {"lower", "done"} /\ EvalShape')
    BY <1>10 DEF SetPolicies, WatcherTypeOK, EvalShape, Idle
  <2>3. /\ UNCHANGED <<objects, status, wasValid, valid>>
        /\ snapshot' = [g \in Handlers |-> snapshot'[g]]
    BY <1>10 DEF SetPolicies, WatcherTypeOK, api
  <2> QED BY <2>1, <2>2, <2>3 DEF WatcherTypeOK, QueueTypeOK
<1>11. CASE UpdateStatus(h)
  <2>1. QueueTypeOK' /\ pc' \in [Handlers -> Labels]
    BY <1>6, <1>11 DEF UpdateStatus, HandlerInv
  <2>2. status' = [o \in Objects |-> status'[o]]
    BY <1>11 DEF UpdateStatus, WatcherTypeOK
  <2>3. wasValid' \in [Handlers -> BOOLEAN] /\ UNCHANGED <<objects, valid, snapshot, eval>>
    BY <1>11 DEF UpdateStatus, WatcherTypeOK, watcher
  <2> QED BY <2>1, <2>2, <2>3 DEF WatcherTypeOK, QueueTypeOK, EvalShape
<1> QED BY <1>1, <1>2, <1>3, <1>4, <1>5, <1>7, <1>8, <1>9, <1>10, <1>11 DEF HandlerStep

-----------------------------------------------------------------------------
(* Handlers *)

(* The maps, at other objects than the one that is written or removed.       *)
LEMMA OtherEntries ==
    ASSUME NEW f, NEW x, NEW v, NEW o, o # x
    PROVE  Same(With(f, x, v), f, o) /\ Same(Without(f, x), f, o)
BY DEF Same, With, Without

LEMMA NoChangeIsSame == \A f, o : Same(f, f, o)
BY DEF Same

(* The position of the event in hand.                                        *)
LEMMA InHandIsFirst ==
    ASSUME WatcherTypeOK, NEW h \in Handlers, queue[h] # <<>>
    PROVE  LET o == Item(h).object
           IN  /\ Queue(o) = queue[h] /\ \A l : At(o, l) <=> pc[h] = l
               /\ 1 \in About(Queue(o), o)
               /\ Acts(Item(h)) => 1 \in Acting(Queue(o), o)
<1>1. /\ HandlerOf[Item(h).object] = h /\ queue[h] \in Seq(Events)
      /\ Len(queue[h]) \in Nat \ {0}
  BY InHand
<1> QED BY <1>1 DEF Queue, At, About, Acting, Item

(* Before an event's handler returns, only what is in force, the mark and    *)
(* the handler's place change.                                               *)
LEMMA WorkOnObject ==
    ASSUME WatcherTypeOK, NEW h \in Handlers, queue[h] # <<>>, queue' = queue,
           NEW o \in Objects, o = Item(h).object, VersionInv(o), StatusInv(o),
           Acts(Item(h)) \/ UNCHANGED <<registry, policyStore>>,
           UNCHANGED <<objects, status, lastValid, unreported>>
    PROVE  VersionInv(o)' /\ StatusInv(o)'
<1>1. Queue(o)' = Queue(o)
  BY DEF Queue
<1>2. StatusInv(o)'
  BY <1>1 DEF StatusInv
<1>3. CASE Acts(Item(h))
  <2>1. Acting(Queue(o), o) # {}
    BY <1>3, InHandIsFirst
  <2> QED BY <1>1, <1>2, <2>1 DEF VersionInv
<1>4. CASE UNCHANGED <<registry, policyStore>>
  BY <1>1, <1>2, <1>4 DEF VersionInv, InForce
<1> QED BY <1>3, <1>4

(* All objects and handlers, after such a step.                              *)
WatchInv == (\A h \in Handlers : HandlerInv(h)) /\ (\A o \in Objects : ObjectInv(o))

LEMMA WorkStep ==
    ASSUME WatcherTypeOK, WatchInv, NEW h \in Handlers, queue[h] # <<>>, queue' = queue,
           NEW x \in Objects, x = Item(h).object,
           UNCHANGED <<objects, status, lastValid, unreported>>,
           \A g \in Handlers \ {h} : pc'[g] = pc[g] /\ wasValid'[g] = wasValid[g],
           \A o \in Objects \ {x} :
             /\ Same(registry', registry, o) /\ Same(policyStore', policyStore, o)
             /\ o \in valid' <=> o \in valid,
           Acts(Item(h)) \/ UNCHANGED <<registry, policyStore>>,
           HandlerInv(h)', ValidInv(x)'
    PROVE  WatchInv'
<1>1. \A o \in Objects \ {x} : Untouched(o)
  BY NoChangeIsSame DEF Untouched
<1>2. /\ \A o \in Objects \ {x} : ObjectInv(o)'
      /\ \A g \in Handlers \ {h} : HandlerInv(g)'
  BY <1>1, OthersStay DEF WatchInv
<1>3. VersionInv(x) /\ StatusInv(x)
  BY DEF WatchInv, ObjectInv
<1>4. VersionInv(x)' /\ StatusInv(x)'
  BY <1>3, WorkOnObject
<1>5. ObjectInv(x)'
  BY <1>4 DEF ObjectInv
<1> QED BY <1>2, <1>5 DEF WatchInv

(* An event that acts and is the last to act agrees with what is in force.   *)
LEMMA BothShow ==
    ASSUME NEW f, NEW g, NEW e, Shows(f, e), Shows(g, e)
    PROVE  Same(f, g, e.object)
BY DEF Shows, Same

(* The object, when the handler of its event returns.                        *)
LEMMA ReturnOnObject ==
    ASSUME WatcherTypeOK, NEW h \in Handlers, queue[h] # <<>>,
           NEW x \in Objects, x = Item(h).object, VersionInv(x), StatusInv(x),
           queue' = [queue EXCEPT ![h] = Tail(@)],
           UNCHANGED <<objects, lastValid>>,
           Acts(Item(h)) => Shows(InForce(x)', Item(h)),
           ~Acts(Item(h)) => Same(InForce(x)', InForce(x), x),
           (Item(h).spec = objects[x] /\ objects[x] # {} /\ x \notin unreported') =>
             /\ status'[x]["Ready"] = IsValid(Item(h))
             /\ x.kind \in {"Detector", "Policy"} =>
                  status'[x]["Active"] = (x \in DOMAIN InForce(x)')
    PROVE  VersionInv(x)' /\ StatusInv(x)'
<1> DEFINE q == queue[h]
           J == About(Tail(q), x)
           K == About(q, x)
           A == Acting(Tail(q), x)
           B == Acting(q, x)
<1>1. q \in Seq(Events) /\ q # <<>> /\ q[1] = Item(h) /\ HandlerOf[x] = h
  BY InHand DEF Item
<1>2. Queue(x) = q /\ Queue(x)' = Tail(q)
  BY <1>1 DEF Queue, WatcherTypeOK
<1>3. \A k \in K : q[k].object = x
  BY DEF About
<1> HIDE DEF q
<1>4. /\ K \subseteq Nat \ {0} /\ B \subseteq K
      /\ \A k \in Nat \ {0} : (k \in J <=> k + 1 \in K) /\ (k \in A <=> k + 1 \in B)
      /\ J \subseteq Nat \ {0} /\ A \subseteq Nat \ {0} /\ A \subseteq J
      /\ \A k \in J : Tail(q)[k] = q[k + 1]
      /\ 1 \in K /\ (1 \in B <=> Acts(Item(h)))
  <2>1. q[1].object = x
    BY <1>1
  <2>2. /\ K \subseteq Nat \ {0} /\ B \subseteq K
        /\ \A k \in Nat \ {0} : (k \in J <=> k + 1 \in K) /\ (k \in A <=> k + 1 \in B)
        /\ J \subseteq Nat \ {0} /\ A \subseteq Nat \ {0} /\ A \subseteq J
        /\ \A k \in J : Tail(q)[k] = q[k + 1]
    <3>1. q \in Seq(Events) /\ q # <<>>
      BY <1>1
    <3> QED BY ONLY <3>1, AfterTail DEF J, K, A, B
  <2>3. 1 \in K /\ (1 \in B <=> Acts(q[1]))
    BY <1>1, <2>1, AfterTail
  <2> QED BY <1>1, <2>2, <2>3
<1>5. /\ About(Queue(x), x) = K /\ About(Queue(x), x)' = J
      /\ Acting(Queue(x), x) = B /\ Acting(Queue(x), x)' = A
  BY <1>2
<1> HIDE DEF J, K, A, B
<1>6. /\ \A k \in J : k + 1 \in K /\ (IsLast(k, J) => IsLast(k + 1, K))
      /\ J = {} => K \subseteq {1}
  BY <1>4, LastAfterTail
<1>7. /\ \A k \in A : k + 1 \in B /\ (IsLast(k, A) => IsLast(k + 1, B))
      /\ A = {} => B \subseteq {1}
  <2>1. A \in SUBSET (Nat \ {0}) /\ B \in SUBSET (Nat \ {0})
    BY <1>4
  <2> QED BY <1>4, <2>1, LastAfterTail
<1>8. /\ \A k \in B : IsLast(k, B) => Shows(lastValid, q[k])
      /\ B = {} => Same(InForce(x), lastValid, x)
  BY <1>2, <1>5 DEF VersionInv
<1>9. ASSUME A = {} PROVE Same(InForce(x)', lastValid, x)
  <2>1. CASE Acts(Item(h))
    <3>1. 1 \in B /\ IsLast(1, B)
      BY <1>4, <1>7, <1>9, <2>1 DEF IsLast
    <3>2. Shows(lastValid, Item(h))
      BY <1>1, <1>8, <3>1
    <3> QED BY <2>1, <3>2, BothShow
  <2>2. CASE ~Acts(Item(h))
    <3>1. B = {}
      BY <1>4, <1>7, <1>9, <2>2
    <3> QED BY <1>8, <2>2, <3>1 DEF Same
  <2> QED BY <2>1, <2>2
<1>10. VersionInv(x)'
  <2>1. ASSUME NEW k \in A, IsLast(k, A) PROVE Shows(lastValid', Tail(q)[k])
    <3>1. k + 1 \in B /\ IsLast(k + 1, B) /\ Tail(q)[k] = q[k + 1]
      BY <1>4, <1>7, <2>1
    <3> QED BY <1>8, <3>1
  <2>2. A = {} => Same(InForce(x)', lastValid', x)
    BY <1>9
  <2> QED BY <1>2, <1>5, <2>1, <2>2 DEF VersionInv
<1>11. StatusInv(x)'
  <2>0. \A k \in K : IsLast(k, K) => q[k].spec = objects[x]
    BY <1>2, <1>5 DEF StatusInv
  <2>1. ASSUME NEW k \in J, IsLast(k, J) PROVE Tail(q)[k].spec = objects'[x]
    <3>1. k + 1 \in K /\ IsLast(k + 1, K) /\ Tail(q)[k] = q[k + 1]
      BY <1>4, <1>6, <2>1
    <3> QED BY <2>0, <3>1
  <2>2. ASSUME J = {}, objects'[x] # {}, x \notin unreported'
        PROVE  /\ status'[x]["Ready"] = (ValidSpecs(x.kind, objects'[x]) # {})
               /\ x.kind \in {"Detector", "Policy"} =>
                    status'[x]["Active"] = (x \in DOMAIN lastValid')
    <3>1. 1 \in K /\ IsLast(1, K)
      BY <1>4, <1>6, <2>2 DEF IsLast
    <3>2. Item(h).spec = objects[x]
      BY <1>1, <2>0, <3>1
    <3>3. A = {}
      BY <1>4, <2>2
    <3>4. x \in DOMAIN InForce(x)' <=> x \in DOMAIN lastValid'
      BY <1>9, <3>3 DEF Same
    <3>5. /\ status'[x]["Ready"] = IsValid(Item(h))
          /\ x.kind \in {"Detector", "Policy"} =>
               status'[x]["Active"] = (x \in DOMAIN InForce(x)')
      BY <2>2, <3>2
    <3>6. IsValid(Item(h)) = (ValidSpecs(x.kind, objects'[x]) # {})
      BY <3>2 DEF IsValid
    <3> QED BY <3>4, <3>5, <3>6
  <2> QED BY <1>2, <1>5, <2>1, <2>2 DEF StatusInv
<1> QED BY <1>10, <1>11

LEMMA ReturnStep ==
    ASSUME WatcherTypeOK, WatchInv, NEW h \in Handlers, queue[h] # <<>>,
           NEW x \in Objects, x = Item(h).object, Return(h),
           UNCHANGED <<objects, lastValid>>,
           \A g \in Handlers \ {h} : wasValid'[g] = wasValid[g],
           \A o \in Objects \ {x} : Untouched(o),
           Acts(Item(h)) => Shows(InForce(x)', Item(h)),
           ~Acts(Item(h)) => Same(InForce(x)', InForce(x), x),
           x \in valid' <=> x \in DOMAIN InForce(x)',
           (Item(h).spec = objects[x] /\ objects[x] # {} /\ x \notin unreported') =>
             /\ status'[x]["Ready"] = IsValid(Item(h))
             /\ x.kind \in {"Detector", "Policy"} =>
                  status'[x]["Active"] = (x \in DOMAIN InForce(x)')
    PROVE  WatchInv'
<1>1. /\ queue' = [queue EXCEPT ![h] = Tail(@)] /\ pc' = [pc EXCEPT ![h] = "idle"]
      /\ VersionInv(x) /\ StatusInv(x) /\ \A g \in Handlers : HandlerInv(g)
  BY DEF Return, Goto, WatchInv, ObjectInv
<1>2. VersionInv(x)' /\ StatusInv(x)'
  BY <1>1, ReturnOnObject
<1>3. ValidInv(x)'
  <2>1. pc'[HandlerOf[x]] = "idle"
    BY <1>1, InHand DEF WatcherTypeOK
  <2> QED BY <2>1 DEF ValidInv, At
<1>4. /\ \A o \in Objects \ {x} : ObjectInv(o)'
      /\ \A g \in Handlers : HandlerInv(g)'
  BY <1>1, OthersMoveUp DEF WatchInv
<1> QED BY <1>2, <1>3, <1>4 DEF WatchInv, ObjectInv

(* What setXReady and setXNotReady write.                                    *)
LEMMA ConditionsWritten ==
    ASSUME NEW kind \in {"Detector", "Gatherer", "Sink", "Policy"},
           NEW ready \in BOOLEAN, NEW previous \in BOOLEAN
    PROVE  /\ Conditions(kind, ready, previous)["Ready"] = ready
           /\ kind \in {"Detector", "Policy"} =>
                Conditions(kind, ready, previous)["Active"] = (ready \/ previous)
<1> DEFINE one == With(NoConditions, "Ready", ready)
<1>1. DOMAIN one = {"Ready"} /\ one["Ready"] = ready
  BY DEF With, NoConditions
<1> HIDE DEF one
<1>2. ASSUME NEW active
      PROVE  /\ With(one, "Active", active)["Ready"] = ready
             /\ With(one, "Active", active)["Active"] = active
  BY <1>1 DEF With
<1>3. /\ kind \in {"Detector", "Policy"} =>
           Conditions(kind, ready, previous) = With(one, "Active", ready \/ previous)
      /\ kind \in {"Gatherer", "Sink"} => Conditions(kind, ready, previous) = one
  BY DEF Conditions, DetectorConditions, PolicyConditions, GathererConditions,
         SinkConditions, WithActive, setCondition, one
<1> QED BY <1>1, <1>2, <1>3

(* The handlers of detectors, gatherers and sinks.                           *)
LEMMA RegistryWatch ==
    ASSUME WatcherTypeOK, WatchInv, NEW h \in Handlers,
           Register(h) \/ Mark(h) \/ Unmark(h) \/ Unregister(h)
    PROVE  WatchInv'
<1>0. queue[h] # <<>> /\ HandlerInv(h)
  BY DEF WatchInv, Register, Mark, Unmark, Unregister, Handles, HandlesValid, HandlerInv
<1>1. PICK x \in Objects : x = Item(h).object
  BY <1>0, InHand
<1>2. /\ HandlerOf[x] = h /\ ValidInv(x) /\ \A l : At(x, l) <=> pc[h] = l
      /\ \A o \in Objects \ {x} : o # x
  BY <1>0, <1>1, InHand, InHandIsFirst DEF WatchInv, ObjectInv
<1>3. /\ Register(h) \/ Mark(h) \/ Unmark(h) => queue' = queue
      /\ queue' = queue => Item(h)' = Item(h) /\ \A l : At(x, l)' <=> pc'[h] = l
  BY <1>1, <1>2 DEF Register, Mark, Unmark, Item, At
<1>4. \A e : IsValid(e) => e.spec # {}
  BY DEF IsValid, ValidSpecs
<1>5. \A l : pc' = [pc EXCEPT ![h] = l] =>
        pc'[h] = l /\ \A g \in Handlers \ {h} : pc'[g] = pc[g]
  BY DEF WatcherTypeOK
<1>6. CASE Register(h)
  <2>1. /\ registry' = With(registry, x, The(Item(h).spec)) /\ pc'[h] = "mark"
        /\ \A g \in Handlers \ {h} : pc'[g] = pc[g]
        /\ queue' = queue /\ x \notin Policies /\ IsValid(Item(h)) /\ pc[h] = "idle"
        /\ UNCHANGED <<objects, status, lastValid, unreported, wasValid, policyStore, valid>>
    BY <1>1, <1>3, <1>5, <1>6
       DEF Register, Goto, HandlesValid, Handles, IsValid, api, watcher
  <2>2. x \in DOMAIN registry' /\ registry'[x] = The(Item(h).spec)
    BY <2>1 DEF With
  <2>3. HandlerInv(h)'
    BY <1>0, <1>1, <1>3, <1>4, <2>1, <2>2 DEF HandlerInv, Shows, IsValid
  <2>4. ValidInv(x)'
    BY <1>3, <2>1, <2>2 DEF ValidInv, InForce
  <2>5. \A o \in Objects \ {x} :
          Same(registry', registry, o) /\ Same(policyStore', policyStore, o)
    BY <2>1, OtherEntries, NoChangeIsSame
  <2>6. Acts(Item(h))
    BY <2>1 DEF Acts
  <2> QED BY <1>0, <1>1, <2>1, <2>3, <2>4, <2>5, <2>6, WorkStep
<1>7. CASE Mark(h)
  <2>1. /\ valid' = valid \cup {x} /\ pc'[h] = "ready" /\ pc[h] = "mark"
        /\ \A g \in Handlers \ {h} : pc'[g] = pc[g]
        /\ queue' = queue
        /\ UNCHANGED <<objects, status, lastValid, unreported, wasValid, policyStore, registry>>
    BY <1>1, <1>3, <1>5, <1>7 DEF Mark, Goto, api
  <2>2. x \notin Policies /\ IsValid(Item(h)) /\ Shows(registry, Item(h))
    BY <1>0, <1>1, <2>1 DEF HandlerInv
  <2>3. HandlerInv(h)'
    BY <1>0, <1>1, <1>3, <2>1, <2>2 DEF HandlerInv, Shows, IsValid, InForce
  <2>4. ValidInv(x)'
    BY <1>1, <1>3, <1>4, <2>1, <2>2 DEF ValidInv, InForce, Shows
  <2>5. \A o \in Objects \ {x} :
          /\ Same(registry', registry, o) /\ Same(policyStore', policyStore, o)
          /\ o \in valid' <=> o \in valid
    BY <2>1, NoChangeIsSame
  <2> QED BY <1>0, <1>1, <2>1, <2>3, <2>4, <2>5, WorkStep
<1>8. CASE Unmark(h)
  <2>1. /\ valid' = valid \ {x} /\ pc'[h] = "unregister" /\ Item(h).spec = {}
        /\ x \notin Policies /\ \A g \in Handlers \ {h} : pc'[g] = pc[g]
        /\ queue' = queue
        /\ UNCHANGED <<objects, status, lastValid, unreported, wasValid, policyStore, registry>>
    BY <1>1, <1>3, <1>5, <1>8 DEF Unmark, Goto, api
  <2>2. HandlerInv(h)'
    BY <1>0, <1>1, <1>3, <2>1 DEF HandlerInv
  <2>3. ValidInv(x)'
    BY <1>3, <2>1 DEF ValidInv
  <2>4. \A o \in Objects \ {x} :
          /\ Same(registry', registry, o) /\ Same(policyStore', policyStore, o)
          /\ o \in valid' <=> o \in valid
    BY <2>1, NoChangeIsSame
  <2> QED BY <1>0, <1>1, <2>1, <2>2, <2>3, <2>4, WorkStep
<1>9. CASE Unregister(h)
  <2>1. /\ registry' = Without(registry, x) /\ Return(h) /\ pc[h] = "unregister"
        /\ UNCHANGED <<objects, status, lastValid, unreported, wasValid, policyStore, valid>>
    BY <1>1, <1>9 DEF Unregister, api, watcher
  <2>2. x \notin Policies /\ Item(h).spec = {} /\ x \notin valid
    BY <1>0, <1>1, <1>2, <2>1 DEF HandlerInv, ValidInv
  <2>3. x \notin DOMAIN InForce(x)'
    BY <2>1, <2>2 DEF InForce, Without
  <2>4. Acts(Item(h)) /\ Shows(InForce(x)', Item(h))
    BY <1>1, <2>2, <2>3 DEF Acts, Shows
  <2>5. \A o \in Objects \ {x} : Untouched(o)
    BY <2>1, OtherEntries, NoChangeIsSame DEF Untouched
  <2> QED BY <1>0, <1>1, <2>1, <2>2, <2>3, <2>4, <2>5, ReturnStep
<1> QED BY <1>6, <1>7, <1>8, <1>9

(* The handler of policies.                                                  *)
LEMMA PolicyWatch ==
    ASSUME WatcherTypeOK, WatchInv, NEW h \in Handlers,
           StorePolicy(h) \/ OnPolicyDelete(h) \/ CollectPolicies(h) \/ SetPolicies(h)
    PROVE  WatchInv'
<1>0. queue[h] # <<>> /\ HandlerInv(h)
  BY DEF WatchInv, StorePolicy, OnPolicyDelete, CollectPolicies, SetPolicies, Handles,
         HandlesValid, HandlerInv
<1>1. PICK x \in Objects : x = Item(h).object
  BY <1>0, InHand
<1>2. /\ HandlerOf[x] = h /\ ValidInv(x) /\ \A l : At(x, l) <=> pc[h] = l
  BY <1>0, <1>1, InHand, InHandIsFirst DEF WatchInv, ObjectInv
<1>3. /\ StorePolicy(h) \/ OnPolicyDelete(h) \/ CollectPolicies(h) => queue' = queue
      /\ queue' = queue => Item(h)' = Item(h) /\ \A l : At(x, l)' <=> pc'[h] = l
  BY <1>1, <1>2 DEF StorePolicy, OnPolicyDelete, CollectPolicies, Item, At
<1>4. \A e : IsValid(e) => e.spec # {}
  BY DEF IsValid, ValidSpecs
<1>5. \A l : pc' = [pc EXCEPT ![h] = l] =>
        pc'[h] = l /\ \A g \in Handlers \ {h} : pc'[g] = pc[g]
  BY DEF WatcherTypeOK
<1>6. CASE StorePolicy(h)
  <2>1. /\ policyStore' = With(policyStore, x, The(Item(h).spec)) /\ pc'[h] = "rebuild"
        /\ valid' = valid \cup {x} /\ \A g \in Handlers \ {h} : pc'[g] = pc[g]
        /\ queue' = queue /\ x \in Policies /\ IsValid(Item(h))
        /\ UNCHANGED <<objects, status, lastValid, unreported, wasValid, registry>>
    BY <1>1, <1>3, <1>5, <1>6 DEF StorePolicy, Goto, HandlesValid, IsValid, api
  <2>2. x \in DOMAIN policyStore' /\ policyStore'[x] = The(Item(h).spec)
    BY <2>1 DEF With
  <2>3. Acts(Item(h)) /\ Shows(policyStore', Item(h))
    BY <1>1, <1>4, <2>1, <2>2 DEF Acts, Shows
  <2>4. HandlerInv(h)'
    BY <1>0, <1>1, <1>3, <2>1, <2>3 DEF HandlerInv, Shows, Acts, IsValid
  <2>5. ValidInv(x)'
    BY <1>3, <2>1, <2>2 DEF ValidInv, InForce
  <2>6. \A o \in Objects \ {x} :
          /\ Same(registry', registry, o) /\ Same(policyStore', policyStore, o)
          /\ o \in valid' <=> o \in valid
    BY <2>1, OtherEntries, NoChangeIsSame
  <2> QED BY <1>0, <1>1, <2>1, <2>3, <2>4, <2>5, <2>6, WorkStep
<1>7. CASE OnPolicyDelete(h)
  <2>1. /\ policyStore' = Without(policyStore, x) /\ pc'[h] = "rebuild"
        /\ valid' = valid \ {x} /\ \A g \in Handlers \ {h} : pc'[g] = pc[g]
        /\ queue' = queue /\ x \in Policies /\ Item(h).spec = {}
        /\ UNCHANGED <<objects, status, lastValid, unreported, wasValid, registry>>
    BY <1>1, <1>3, <1>5, <1>7 DEF OnPolicyDelete, Goto, api
  <2>2. x \notin DOMAIN policyStore'
    BY <2>1 DEF Without
  <2>3. Acts(Item(h)) /\ Shows(policyStore', Item(h))
    BY <1>1, <2>1, <2>2 DEF Acts, Shows
  <2>4. HandlerInv(h)'
    BY <1>0, <1>1, <1>3, <2>1, <2>3 DEF HandlerInv, Shows, Acts, IsValid
  <2>5. ValidInv(x)'
    BY <1>3, <2>1, <2>2 DEF ValidInv, InForce
  <2>6. \A o \in Objects \ {x} :
          /\ Same(registry', registry, o) /\ Same(policyStore', policyStore, o)
          /\ o \in valid' <=> o \in valid
    BY <2>1, OtherEntries, NoChangeIsSame
  <2> QED BY <1>0, <1>1, <2>1, <2>3, <2>4, <2>5, <2>6, WorkStep
<1>8. CASE CollectPolicies(h)
  <2>1. /\ pc[h] = "rebuild" /\ pc'[h] = "set" /\ \A g \in Handlers \ {h} : pc'[g] = pc[g]
        /\ queue' = queue
        /\ UNCHANGED <<objects, status, lastValid, unreported, wasValid, registry,
                       policyStore, valid>>
    BY <1>3, <1>5, <1>8 DEF CollectPolicies, Goto, api
  <2>2. HandlerInv(h)'
    BY <1>0, <1>1, <1>3, <2>1 DEF HandlerInv, Shows, Acts, IsValid
  <2>3. ValidInv(x)'
    BY <1>2, <1>3, <2>1 DEF ValidInv, InForce
  <2>4. \A o \in Objects \ {x} :
          /\ Same(registry', registry, o) /\ Same(policyStore', policyStore, o)
          /\ o \in valid' <=> o \in valid
    BY <2>1, NoChangeIsSame
  <2> QED BY <1>0, <1>1, <2>1, <2>2, <2>3, <2>4, WorkStep
<1>9. CASE SetPolicies(h)
  <2>1. /\ pc[h] = "set"
        /\ UNCHANGED <<objects, status, lastValid, unreported, wasValid, registry,
                       policyStore, valid>>
    BY <1>9 DEF SetPolicies, api
  <2>2. x \in Policies /\ Acts(Item(h)) /\ Shows(policyStore, Item(h))
    BY <1>0, <1>1, <2>1 DEF HandlerInv
  <2>3. InForce(x) = policyStore /\ InForce(x)' = policyStore
    BY <2>1, <2>2 DEF InForce
  <2>4. x \in valid <=> x \in DOMAIN policyStore
    BY <1>2, <2>1, <2>3 DEF ValidInv
  <2>5. \A o \in Objects \ {x} : Untouched(o)
    BY <2>1, NoChangeIsSame DEF Untouched
  <2>6. CASE Item(h).spec = {}
    <3>1. Return(h)
      BY <1>9, <2>6 DEF SetPolicies
    <3> QED BY <1>0, <1>1, <2>1, <2>2, <2>3, <2>4, <2>5, <2>6, <3>1, ReturnStep
  <2>7. CASE Item(h).spec # {}
    <3>1. queue' = queue /\ pc'[h] = "ready" /\ \A g \in Handlers \ {h} : pc'[g] = pc[g]
      BY <1>5, <1>9, <2>7 DEF SetPolicies, Goto
    <3>2. HandlerInv(h)'
      BY <1>0, <1>1, <1>3, <2>1, <2>2, <2>7, <3>1
         DEF HandlerInv, Shows, Acts, IsValid, InForce
    <3>3. ValidInv(x)'
      BY <1>3, <2>1, <2>3, <2>4, <3>1 DEF ValidInv
    <3> QED BY <1>0, <1>1, <2>1, <2>2, <2>5, <3>1, <3>2, <3>3, WorkStep DEF Untouched
  <2> QED BY <2>6, <2>7
<1> QED BY <1>6, <1>7, <1>8, <1>9

(* An invalid spec, and the status that all handlers write at the end.       *)
LEMMA StatusWatch ==
    ASSUME WatcherTypeOK, WatchInv, NEW h \in Handlers, Reject(h) \/ UpdateStatus(h)
    PROVE  WatchInv'
<1>0. queue[h] # <<>> /\ HandlerInv(h)
  BY DEF WatchInv, Reject, UpdateStatus, Handles, HandlesValid, HandlerInv
<1>1. PICK x \in Objects : x = Item(h).object
  BY <1>0, InHand
<1>2. /\ HandlerOf[x] = h /\ ValidInv(x) /\ \A l : At(x, l) <=> pc[h] = l
  BY <1>0, <1>1, InHand, InHandIsFirst DEF WatchInv, ObjectInv
<1>3. CASE Reject(h)
  <2>1. /\ pc[h] = "idle" /\ pc'[h] = "notready" /\ wasValid'[h] = (x \in valid)
        /\ \A g \in Handlers \ {h} : pc'[g] = pc[g] /\ wasValid'[g] = wasValid[g]
        /\ queue' = queue
        /\ UNCHANGED <<objects, status, lastValid, unreported, registry, policyStore, valid>>
    BY <1>1, <1>3 DEF Reject, Handles, Goto, WatcherTypeOK, api, watcher
  <2>2. ~Acts(Item(h))
    BY <1>3 DEF Reject, HandlesValid, Acts, IsValid
  <2>3. Item(h)' = Item(h) /\ \A l : At(x, l)' <=> pc'[h] = l
    BY <1>1, <1>2, <2>1 DEF Item, At
  <2>4. HandlerInv(h)'
    BY <1>0, <2>1, <2>2, <2>3 DEF HandlerInv, Acts, IsValid
  <2>5. ValidInv(x)'
    BY <1>2, <2>1, <2>3 DEF ValidInv, InForce
  <2>6. \A o \in Objects \ {x} :
          /\ Same(registry', registry, o) /\ Same(policyStore', policyStore, o)
          /\ o \in valid' <=> o \in valid
    BY <2>1, NoChangeIsSame
  <2> QED BY <1>0, <1>1, <2>1, <2>4, <2>5, <2>6, WorkStep
<1>4. CASE UpdateStatus(h)
  <2>1. /\ pc[h] \in {"ready", "notready"} /\ Return(h)
        /\ \A g \in Handlers \ {h} : wasValid'[g] = wasValid[g]
        /\ UNCHANGED <<objects, lastValid, registry, policyStore, valid>>
    BY <1>4 DEF UpdateStatus, WatcherTypeOK, watcher
  <2>2. \A o \in Objects \ {x} : Untouched(o)
    <3>1. ASSUME NEW o \in Objects \ {x}
          PROVE  status'[o] = status[o] /\ (o \in unreported' <=> o \in unreported)
      BY <1>1, <1>4 DEF UpdateStatus, WatcherTypeOK
    <3> QED BY <2>1, <3>1, NoChangeIsSame DEF Untouched
  <2>3. /\ InForce(x)' = InForce(x) /\ (x \in valid <=> x \in DOMAIN InForce(x))
    BY <1>2, <2>1 DEF InForce, ValidInv
  <2>4. /\ pc[h] = "ready" => IsValid(Item(h)) /\ Shows(InForce(x), Item(h))
        /\ pc[h] = "notready" => ~Acts(Item(h))
    BY <1>0, <1>1, <2>1 DEF HandlerInv
  <2>5. Acts(Item(h)) => Shows(InForce(x), Item(h))
    BY <2>1, <2>4
  <2>6. ASSUME objects[x] # {}, x \notin unreported'
        PROVE  /\ status'[x]["Ready"] = IsValid(Item(h))
               /\ x.kind \in {"Detector", "Policy"} =>
                    status'[x]["Active"] = (x \in DOMAIN InForce(x))
    <3>1. status'[x] = Conditions(x.kind, pc[h] = "ready", wasValid[h])
      BY <1>1, <1>4, <2>6 DEF UpdateStatus, WatcherTypeOK
    <3>2. /\ x.kind \in {"Detector", "Gatherer", "Sink", "Policy"}
          /\ (pc[h] = "ready") \in BOOLEAN /\ wasValid[h] \in BOOLEAN
      BY KindsAssumption DEF WatcherTypeOK
    <3>3. /\ status'[x]["Ready"] = (pc[h] = "ready")
          /\ x.kind \in {"Detector", "Policy"} =>
               status'[x]["Active"] = (pc[h] = "ready" \/ wasValid[h])
      <4> DEFINE ready == pc[h] = "ready"
                 previous == wasValid[h]
      <4>1. ready \in BOOLEAN /\ previous \in BOOLEAN
        BY <3>2
      <4>2. status'[x] = Conditions(x.kind, ready, previous)
        BY <3>1
      <4> HIDE DEF ready, previous
      <4>3. /\ Conditions(x.kind, ready, previous)["Ready"] = ready
            /\ x.kind \in {"Detector", "Policy"} =>
                 Conditions(x.kind, ready, previous)["Active"] = (ready \/ previous)
        BY <3>2, <4>1, ConditionsWritten
      <4>4. /\ status'[x]["Ready"] = ready
            /\ x.kind \in {"Detector", "Policy"} =>
                 status'[x]["Active"] = (ready \/ previous)
        BY <4>2, <4>3
      <4> QED BY <4>4 DEF ready, previous
    <3>4. (pc[h] = "ready") = IsValid(Item(h))
      BY <2>1, <2>4 DEF Acts, IsValid
    <3>5. CASE pc[h] = "ready"
      <4>1. x \in DOMAIN InForce(x)
        BY <1>1, <2>4, <3>5 DEF Shows, IsValid, ValidSpecs
      <4>2. (pc[h] = "ready" \/ wasValid[h]) = (x \in DOMAIN InForce(x))
        BY <3>5, <4>1
      <4> QED BY <3>3, <3>4, <4>2
    <3>6. CASE pc[h] = "notready"
      <4>1. wasValid[h] = (x \in DOMAIN InForce(x))
        BY <1>2, <2>3, <3>6 DEF ValidInv
      <4>2. (pc[h] = "ready" \/ wasValid[h]) = (x \in DOMAIN InForce(x))
        <5>1. pc[h] # "ready"
          BY <3>6
        <5>2. (pc[h] = "ready" \/ wasValid[h]) = wasValid[h]
          BY <3>2, <5>1
        <5> QED BY <4>1, <5>2
      <4> QED BY <3>3, <3>4, <4>2
    <3> QED BY <2>1, <3>5, <3>6
  <2>7. ~Acts(Item(h)) => Same(InForce(x)', InForce(x), x)
    BY <2>3, NoChangeIsSame
  <2> QED BY <1>0, <1>1, <2>1, <2>2, <2>3, <2>5, <2>6, <2>7, ReturnStep
<1> QED BY <1>3, <1>4

-----------------------------------------------------------------------------
(* Users *)

(* An object whose queue grows by the event of another one.                  *)
LEMMA BystanderGrows ==
    ASSUME NEW o \in Objects, ObjectInv(o), Untouched(o),
           About(Queue(o), o)' = About(Queue(o), o),
           Acting(Queue(o), o)' = Acting(Queue(o), o),
           Acting(Queue(o), o) \subseteq About(Queue(o), o),
           \A k \in About(Queue(o), o) : Queue(o)'[k] = Queue(o)[k],
           \A l \in {"mark", "unregister", "notready"} : At(o, l)' <=> At(o, l),
           wasValid'[HandlerOf[o]] = wasValid[HandlerOf[o]]
    PROVE  ObjectInv(o)'
<1> DEFINE q == Queue(o)
           r == Queue(o)'
           K == About(Queue(o), o)
           B == Acting(Queue(o), o)
<1>0. \A k \in K : q[k].object = o
  BY DEF About
<1>1. VersionInv(o)'
  <2>1. ASSUME NEW k \in B, IsLast(k, B) PROVE Shows(lastValid', r[k])
    <3>1. Shows(lastValid, q[k]) /\ r[k] = q[k] /\ q[k].object = o
      BY <1>0, <2>1 DEF ObjectInv, VersionInv
    <3> QED BY <3>1 DEF Untouched, Same, Shows
  <2>2. B = {} => Same(InForce(o)', lastValid', o)
    BY DEF ObjectInv, VersionInv, Untouched, Same, InForce
  <2> QED BY <2>1, <2>2 DEF VersionInv
<1>2. ValidInv(o)'
  BY DEF ObjectInv, ValidInv, Untouched, Same, InForce
<1>3. StatusInv(o)'
  <2>1. ASSUME NEW k \in K, IsLast(k, K) PROVE r[k].spec = objects'[o]
    BY <2>1 DEF ObjectInv, StatusInv, Untouched
  <2> QED BY <2>1 DEF ObjectInv, StatusInv, Untouched, Same
<1> QED BY <1>1, <1>2, <1>3 DEF ObjectInv

(* What a user's change makes the last valid versions.                       *)
LEMMA UserVersions ==
    ASSUME NEW x \in Objects, NEW spec, UserChanges(x, spec), NEW e,
           e = [object |-> x, spec |-> spec]
    PROVE  /\ Acts(e) => Shows(lastValid', e)
           /\ ~Acts(e) => lastValid' = lastValid
           /\ \A o \in Objects \ {x} : Same(lastValid', lastValid, o)
<1>0. e.object = x /\ e.spec = spec
  OBVIOUS
<1>1. lastValid' = CASE spec = {} -> Without(lastValid, x)
                     [] ValidSpecs(x.kind, spec) # {} -> With(lastValid, x, The(spec))
                     [] OTHER -> lastValid
  BY DEF UserChanges
<1>2. spec = {} => ValidSpecs(x.kind, spec) = {}
  BY DEF ValidSpecs
<1>3. Acts(e) <=> spec = {} \/ ValidSpecs(x.kind, spec) # {}
  BY <1>0 DEF Acts, IsValid
<1>4. CASE spec = {}
  <2>1. lastValid' = Without(lastValid, x)
    BY <1>1, <1>2, <1>4
  <2>2. x \notin DOMAIN lastValid'
    BY <2>1 DEF Without
  <2>3. \A o \in Objects \ {x} : Same(lastValid', lastValid, o)
    BY <2>1, OtherEntries
  <2> QED BY <1>0, <1>3, <1>4, <2>2, <2>3 DEF Shows
<1>5. CASE ValidSpecs(x.kind, spec) # {}
  <2>1. lastValid' = With(lastValid, x, The(spec))
    BY <1>1, <1>2, <1>5
  <2>2. x \in DOMAIN lastValid' /\ lastValid'[x] = The(spec)
    BY <2>1 DEF With
  <2>3. \A o \in Objects \ {x} : Same(lastValid', lastValid, o)
    BY <2>1, OtherEntries
  <2> QED BY <1>0, <1>2, <1>3, <1>5, <2>2, <2>3 DEF Shows
<1>6. CASE spec # {} /\ ValidSpecs(x.kind, spec) = {}
  BY <1>1, <1>3, <1>6, NoChangeIsSame
<1> QED BY <1>4, <1>5, <1>6

LEMMA UserWatch ==
    ASSUME WatcherTypeOK, WatchInv, NEW x \in Objects, NEW spec, UserChanges(x, spec),
           spec \subseteq Specs[x]
    PROVE  WatchInv'
<1> DEFINE e == [object |-> x, spec |-> spec]
           h == HandlerOf[x]
           q == queue[h]
<1>1. e \in Events /\ e.object = x /\ e.spec = spec
  BY DEF Events
<1>2. h \in Handlers /\ q \in Seq(Events)
  BY DEF Handlers, WatcherTypeOK
<1>3. /\ queue'[h] = Append(q, e) /\ \A g \in Handlers \ {h} : queue'[g] = queue[g]
      /\ UNCHANGED <<pc, wasValid, valid, registry, policyStore, unreported>>
      /\ objects'[x] = spec
      /\ \A o \in Objects \ {x} : objects'[o] = objects[o] /\ status'[o] = status[o]
  BY <1>2 DEF UserChanges, WatcherTypeOK, watcher
<1>4. /\ Acts(e) => Shows(lastValid', e)
      /\ ~Acts(e) => lastValid' = lastValid
      /\ \A o \in Objects \ {x} : Same(lastValid', lastValid, o)
  BY UserVersions
<1> HIDE DEF e, h, q
<1>5. \A o \in Objects \ {x} : Untouched(o)
  BY <1>3, <1>4, NoChangeIsSame DEF Untouched
<1>6. \A g \in Handlers : pc[g] # "idle" => queue'[g] # <<>> /\ queue[g] # <<>> /\ Item(g)' = Item(g)
  <2> SUFFICES ASSUME NEW g \in Handlers, pc[g] # "idle"
               PROVE  queue'[g] # <<>> /\ queue[g] # <<>> /\ Item(g)' = Item(g)
    OBVIOUS
  <2>1. queue[g] # <<>>
    BY DEF WatchInv, HandlerInv
  <2>2. CASE g = h
    <3>1. q # <<>> /\ Append(q, e) # <<>> /\ Append(q, e)[1] = q[1]
      BY <1>1, <1>2, <2>1, <2>2 DEF q
    <3> QED BY <1>3, <2>1, <2>2, <3>1 DEF Item, q
  <2>3. CASE g # h
    BY <1>3, <2>1, <2>3 DEF Item
  <2> QED BY <2>2, <2>3
<1>7. ASSUME NEW g \in Handlers PROVE HandlerInv(g)'
  BY <1>3, <1>6, HandlerStays, NoChangeIsSame DEF WatchInv
<1>8. \A o \in Objects : \A l \in {"mark", "unregister", "notready"} : At(o, l)' <=> At(o, l)
  BY <1>3, <1>6 DEF At, Handlers
<1>9. ASSUME NEW o \in Objects \ {x} PROVE ObjectInv(o)'
  <2>0. ObjectInv(o) /\ Untouched(o) /\ wasValid'[HandlerOf[o]] = wasValid[HandlerOf[o]]
    BY <1>3, <1>5 DEF WatchInv
  <2>1. CASE HandlerOf[o] = h
    <3>1. Queue(o) = q /\ Queue(o)' = Append(q, e)
      BY <1>3, <2>1 DEF Queue, q
    <3>2. /\ About(Append(q, e), o) = About(q, o) /\ Acting(Append(q, e), o) = Acting(q, o)
          /\ \A k \in About(q, o) : Append(q, e)[k] = q[k]
          /\ Acting(q, o) \subseteq About(q, o)
      <4>1. e.object # o
        BY <1>1
      <4> QED BY <1>1, <1>2, <4>1, AppendOther
    <3> QED BY <1>8, <2>0, <3>1, <3>2, BystanderGrows
  <2>2. CASE HandlerOf[o] # h
    <3>1. Queue(o)' = Queue(o)
      BY <1>3, <2>2 DEF Queue, Handlers
    <3> QED BY <1>8, <2>0, <3>1, BystanderStays
  <2> QED BY <2>1, <2>2
<1>10. ObjectInv(x)'
  <2> DEFINE n == Len(q) + 1
             K == About(q, x)
             B == Acting(q, x)
             r == Append(q, e)
  <2>1. Queue(x) = q /\ Queue(x)' = r
    BY <1>3 DEF Queue, q, h
  <2>2. /\ About(r, x) = K \cup {n} /\ r[n] = e /\ n \in Nat
        /\ Acts(e) => Acting(r, x) = B \cup {n}
        /\ ~Acts(e) => Acting(r, x) = B
        /\ \A k \in K : k \in Nat /\ k < n /\ r[k] = q[k]
        /\ B \subseteq K
    <3>1. Len(q) + 1 \in Nat
      BY <1>2
    <3>2. e \in Events /\ q \in Seq(Events) /\ e.object = x
      BY <1>1, <1>2
    <3>3. /\ About(Append(q, e), x) = About(q, x) \cup {Len(q) + 1}
          /\ Append(q, e)[Len(q) + 1] = e
      BY <3>2, AppendOwn
    <3>4. ASSUME NEW k \in About(q, x)
          PROVE  k \in Nat /\ k < Len(q) + 1 /\ Append(q, e)[k] = q[k]
      BY <3>2 DEF About
    <3>5. Acts(e) => Acting(Append(q, e), x) = Acting(q, x) \cup {Len(q) + 1}
      BY <3>2, AppendOwn
    <3>6. ~Acts(e) => Acting(Append(q, e), x) = Acting(q, x)
      BY <3>2, AppendOwn
    <3>7. Acting(q, x) \subseteq About(q, x)
      BY <3>2, AppendOwn
    <3> QED BY <3>1, <3>3, <3>4, <3>5, <3>6, <3>7
  <2>3. ObjectInv(x)
    BY DEF WatchInv
  <2> HIDE DEF n, K, B, r
  <2>4. VersionInv(x)'
    <3>1. CASE Acts(e)
      <4>1. Acting(r, x) = B \cup {n}
        BY <2>2, <3>1
      <4>2. ASSUME NEW k \in B \cup {n}, IsLast(k, B \cup {n}) PROVE k = n
        BY <2>2, <4>2 DEF IsLast
      <4> QED BY <1>4, <2>1, <2>2, <3>1, <4>1, <4>2 DEF VersionInv
    <3>2. CASE ~Acts(e)
      <4>1. Acting(r, x) = B /\ lastValid' = lastValid /\ InForce(x)' = InForce(x)
        BY <1>3, <1>4, <2>2, <3>2 DEF InForce
      <4>2. /\ \A k \in B : IsLast(k, B) => Shows(lastValid, q[k])
            /\ B = {} => Same(InForce(x), lastValid, x)
        BY <2>1, <2>3 DEF ObjectInv, VersionInv, B
      <4>3. \A k \in B : r[k] = q[k]
        BY <2>2
      <4> QED BY <2>1, <4>1, <4>2, <4>3 DEF VersionInv
    <3> QED BY <3>1, <3>2
  <2>5. ValidInv(x)'
    BY <1>3, <1>8, <2>3 DEF ObjectInv, ValidInv, InForce
  <2>6. StatusInv(x)'
    <3>1. ASSUME NEW k \in K \cup {n}, IsLast(k, K \cup {n}) PROVE k = n
      BY <2>2, <3>1 DEF IsLast
    <3>2. About(Queue(x), x)' = K \cup {n} /\ K \cup {n} # {}
      BY <2>1, <2>2
    <3>3. Queue(x)'[n].spec = objects'[x]
      BY <1>1, <1>3, <2>1, <2>2
    <3> QED BY <3>1, <3>2, <3>3 DEF StatusInv
  <2> QED BY <2>4, <2>5, <2>6 DEF ObjectInv
<1> QED BY <1>7, <1>9, <1>10 DEF WatchInv

-----------------------------------------------------------------------------
(* The engine's policies *)

(* What rebuildPolicies collects is what the store holds.                    *)
LEMMA CollectsAll ==
    ASSUME WatcherTypeOK, WatchInv, EngineInv
    PROVE  valid \cap DOMAIN policyStore = Policies \cap DOMAIN policyStore
<1>1. ASSUME NEW o \in Policies, o \in DOMAIN policyStore PROVE o \in valid
  <2>1. o \in Objects /\ ValidInv(o) /\ InForce(o) = policyStore
    BY DEF Policies, WatchInv, ObjectInv, InForce
  <2>2. ~At(o, "mark") /\ ~At(o, "unregister")
    <3>1. HandlerOf[o] \in Handlers
      BY <2>1 DEF Handlers
    <3> QED BY <3>1 DEF WatchInv, HandlerInv, At
  <2> QED BY <1>1, <2>1, <2>2 DEF ValidInv
<1> QED BY <1>1 DEF EngineInv

(* A step of a handler that leaves rebuildPolicies alone.                    *)
LEMMA EngineElsewhere ==
    ASSUME EngineInv, NEW h \in Handlers, pc[h] # "rebuild", pc'[h] \notin {"rebuild", "set"},
           \A g \in Handlers \ {h} : pc'[g] = pc[g],
           UNCHANGED <<policyStore, policies, snapshot, rebuilds, number, applied>>
    PROVE  EngineInv'
<1>1. (\A g \in Handlers : pc'[g] # "rebuild") => (\A g \in Handlers : pc[g] # "rebuild")
  OBVIOUS
<1>2. \A g \in Handlers : pc'[g] = "set" => pc[g] = "set"
  OBVIOUS
<1> QED BY <1>1, <1>2 DEF EngineInv

LEMMA EngineHandler ==
    ASSUME WatcherTypeOK, WatchInv, EngineInv, NEW h \in Handlers, HandlerStep(h)
    PROVE  EngineInv'
<1>1. \A l : pc' = [pc EXCEPT ![h] = l] =>
        pc'[h] = l /\ \A g \in Handlers \ {h} : pc'[g] = pc[g]
  BY DEF WatcherTypeOK
<1>3. CASE Register(h) \/ Reject(h) \/ Unmark(h)
  <2>1. /\ pc[h] = "idle"
        /\ \E l \in {"mark", "notready", "unregister"} : pc' = [pc EXCEPT ![h] = l]
        /\ UNCHANGED <<policyStore, policies, snapshot, rebuilds, number, applied>>
    BY <1>3 DEF Register, Reject, Unmark, HandlesValid, Handles, Goto, watcher, order
  <2> QED BY <1>1, <2>1, EngineElsewhere
<1>4. CASE Mark(h) \/ Unregister(h) \/ UpdateStatus(h)
  <2>1. /\ pc[h] \in {"mark", "unregister", "ready", "notready"}
        /\ \E l \in {"ready", "idle"} : pc' = [pc EXCEPT ![h] = l]
        /\ UNCHANGED <<policyStore, policies, snapshot, rebuilds, number, applied>>
    BY <1>4 DEF Mark, Unregister, UpdateStatus, Return, Goto, watcher, order
  <2> QED BY <1>1, <2>1, EngineElsewhere
<1>5. CASE StorePolicy(h) \/ OnPolicyDelete(h)
  <2>1. /\ Item(h).object \in Policies
        /\ pc' = [pc EXCEPT ![h] = "rebuild"]
        /\ DOMAIN policyStore' \subseteq Policies
        /\ UNCHANGED <<rebuilds, number, applied>>
    BY <1>5 DEF StorePolicy, OnPolicyDelete, HandlesValid, Handles, Goto, EngineInv, With,
                Without, order
  <2>2. pc'[h] = "rebuild"
    BY <1>1, <2>1
  <2> QED BY <2>1, <2>2 DEF EngineInv
<1>6. CASE CollectPolicies(h)
  <2>1. /\ pc[h] = "rebuild" /\ pc' = [pc EXCEPT ![h] = "set"]
        /\ UNCHANGED <<policyStore, applied>>
        /\ snapshot'[h] = {convertToFilterPolicy(o, policyStore[o]) :
                             o \in valid \cap DOMAIN policyStore}
        /\ rebuilds' = rebuilds + 1 /\ number' = [number EXCEPT ![h] = rebuilds + 1]
    BY <1>6 DEF CollectPolicies, Goto, WatcherTypeOK
  <2>2. snapshot'[h] = ConvertedPolicies(policyStore)
    BY <2>1, CollectsAll DEF ConvertedPolicies
  <2>3. /\ rebuilds' \in Nat /\ applied' \in 0..rebuilds' /\ applied' # rebuilds'
        /\ number' \in [Handlers -> 0..rebuilds']
        /\ \A g \in Handlers : number'[g] = rebuilds' => g = h
    BY <2>1 DEF EngineInv
  <2> QED BY <2>1, <2>2, <2>3 DEF EngineInv
<1>7. CASE SetPolicies(h)
  <2>1. /\ pc[h] = "set" /\ \E l \in {"ready", "idle"} : pc' = [pc EXCEPT ![h] = l]
        /\ UNCHANGED <<policyStore, rebuilds>> /\ policies' = snapshot[h]
        /\ applied' = number[h] /\ number' = [number EXCEPT ![h] = 0]
        /\ snapshot' = [snapshot EXCEPT ![h] = {}]
    BY <1>7 DEF SetPolicies, Return, Goto
  <2>2. /\ pc'[h] \notin {"rebuild", "set"}
        /\ \A g \in Handlers \ {h} : /\ pc'[g] = pc[g] /\ number'[g] = number[g]
                                     /\ snapshot'[g] = snapshot[g]
    BY <1>1, <2>1 DEF EngineInv, WatcherTypeOK
  <2>3. /\ applied' \in 0..rebuilds'
        /\ number' \in [Handlers -> 0..rebuilds']
    BY <2>1 DEF EngineInv
  <2>4. ASSUME \A g \in Handlers : pc'[g] # "rebuild"
        PROVE  /\ \A g \in Handlers :
                    pc'[g] = "set" /\ number'[g] = rebuilds' =>
                      snapshot'[g] = ConvertedPolicies(policyStore')
               /\ applied' = rebuilds' => policies' = ConvertedPolicies(policyStore')
    <3>1. \A g \in Handlers : pc[g] # "rebuild"
      BY <2>1, <2>2, <2>4
    <3> QED BY <2>1, <2>2, <3>1 DEF EngineInv
  <2> QED BY <2>1, <2>3, <2>4 DEF EngineInv
<1> QED BY <1>3, <1>4, <1>5, <1>6, <1>7 DEF HandlerStep

(* With no policy event pending, the engine has the last valid versions,     *)
(* unless the newest policies were overtaken on their way to it.             *)
LEMMA SettledPolicies ==
    ASSUME WatcherTypeOK, WatchInv, EngineInv, PoliciesSettled, applied = rebuilds
    PROVE  policies = ConvertedPolicies(lastValid)
<1>1. ASSUME NEW h \in Handlers, queue[h] # <<>> PROVE Item(h).object \notin Policies
  <2>1. Len(queue[h]) \in Nat \ {0}
    BY <1>1 DEF WatcherTypeOK
  <2> QED BY <2>1 DEF PoliciesSettled, Item
<1>2. \A h \in Handlers : pc[h] \notin {"rebuild", "set"}
  BY <1>1 DEF WatchInv, HandlerInv
<1>3. policies = ConvertedPolicies(policyStore)
  BY <1>2 DEF EngineInv
<1>4. ASSUME NEW o \in Policies PROVE Same(policyStore, lastValid, o)
  <2>1. o \in Objects /\ HandlerOf[o] \in Handlers
    BY DEF Policies, Handlers
  <2>2. Acting(Queue(o), o) = {}
    BY <2>1 DEF Acting, About, PoliciesSettled, Queue
  <2> QED BY <2>1, <2>2 DEF WatchInv, ObjectInv, VersionInv, InForce
<1>5. Policies \cap DOMAIN policyStore = Policies \cap DOMAIN lastValid
  BY <1>4 DEF Same
<1>6. \A o \in Policies \cap DOMAIN policyStore : policyStore[o] = lastValid[o]
  BY <1>4 DEF Same
<1> QED BY <1>3, <1>5, <1>6 DEF ConvertedPolicies
-----------------------------------------------------------------------------
(* Evaluations *)

(* A handler adds no event: with no policy event pending, none comes.        *)
LEMMA HandlersSettle ==
    ASSUME WatcherTypeOK, PoliciesSettled, NEW h \in Handlers, queue[h] # <<>>,
           queue' = queue \/ queue' = [queue EXCEPT ![h] = Tail(@)]
    PROVE  PoliciesSettled'
<1>1. CASE queue' = queue
  BY <1>1 DEF PoliciesSettled
<1>2. CASE queue' = [queue EXCEPT ![h] = Tail(@)]
  <2>1. /\ queue'[h] = Tail(queue[h])
        /\ \A g \in Handlers \ {h} : queue'[g] = queue[g]
    BY <1>2 DEF WatcherTypeOK
  <2>2. queue[h] \in Seq(Events)
    BY DEF WatcherTypeOK
  <2>3. ASSUME NEW k \in 1..Len(queue'[h]) PROVE queue'[h][k].object \notin Policies
    <3> DEFINE n == Len(queue[h])
    <3>1. /\ Len(Tail(queue[h])) = n - 1 /\ n \in Nat \ {0}
          /\ \A j \in 1..(n - 1) : Tail(queue[h])[j] = queue[h][j + 1]
      BY <2>2
    <3>2. \A j \in 1..n : queue[h][j].object \notin Policies
      BY DEF PoliciesSettled
    <3> HIDE DEF n
    <3>3. k \in 1..(n - 1) /\ k + 1 \in 1..n
      BY <2>1, <2>3, <3>1
    <3> QED BY <2>1, <3>1, <3>2, <3>3
  <2> QED BY <2>1, <2>3 DEF PoliciesSettled
<1> QED BY <1>1, <1>2

(* A user's change of something else than a policy leaves policies settled.  *)
LEMMA UsersSettle ==
    ASSUME WatcherTypeOK, PoliciesSettled, NEW x \in Objects \ Policies, NEW e,
           e \in Events, e.object = x,
           queue' = [queue EXCEPT ![HandlerOf[x]] = Append(@, e)]
    PROVE  PoliciesSettled'
<1> DEFINE h == HandlerOf[x]
<1>1. h \in Handlers /\ queue[h] \in Seq(Events)
  BY DEF Handlers, WatcherTypeOK
<1>2. /\ queue'[h] = Append(queue[h], e)
      /\ \A g \in Handlers \ {h} : queue'[g] = queue[g]
  BY <1>1 DEF WatcherTypeOK
<1> HIDE DEF h
<1>3. ASSUME NEW k \in 1..Len(queue'[h]) PROVE queue'[h][k].object \notin Policies
  <2>1. CASE k = Len(queue[h]) + 1
    BY <1>1, <1>2, <2>1
  <2>2. CASE k \in 1..Len(queue[h])
    BY <1>1, <1>2, <2>2 DEF PoliciesSettled
  <2> QED BY <1>1, <1>2, <1>3, <2>1, <2>2
<1> QED BY <1>2, <1>3 DEF PoliciesSettled

(* What an evaluation says does not change as long as no policy does.        *)
LEMMA EvalStays ==
    ASSUME EvalInv, eval' = eval, policies' = policies,
           PoliciesSettled => UNCHANGED <<applied, rebuilds>>,
           ConvertedPolicies(lastValid') = ConvertedPolicies(lastValid),
           PoliciesSettled => PoliciesSettled'
    PROVE  EvalInv'
<1>1. StandingPolicyIsObeyed' /\ VerdictFollowsPolicies'
  BY DEF EvalInv, StandingPolicyIsObeyed, VerdictFollowsPolicies
<1> QED BY <1>1 DEF EvalInv

(* An evaluation begins: levels 1 to 3.                                      *)
LEMMA EvaluateStartsEval ==
    ASSUME WatcherTypeOK, WatchInv, EngineInv, EvalInv, NEW input, NEW now, EvaluateStarts(input, now)
    PROVE  EvalInv'
<1> DEFINE verdict == EvaluateUpper(policies, input, now)
<1>1. /\ eval' = [pc |-> IF verdict = Passed THEN "lower" ELSE "done",
                  input |-> input, verdict |-> verdict, at |-> now,
                  standing |-> policies, calm |-> PoliciesSettled]
      /\ UNCHANGED <<queue, policies, lastValid, applied, rebuilds>>
  BY DEF EvaluateStarts, api, order
<1> HIDE DEF verdict
<1>2. /\ eval'.input = input /\ eval'.verdict = verdict /\ eval'.at = now
      /\ eval'.standing = policies
      /\ eval'.pc = IF verdict = Passed THEN "lower" ELSE "done"
  BY <1>1
<1>3. eval'.calm <=> PoliciesSettled
  BY <1>1
<1>4. PoliciesSettled' <=> PoliciesSettled
  BY <1>1 DEF PoliciesSettled
<1>5. PoliciesSettled /\ applied = rebuilds => policies = ConvertedPolicies(lastValid)
  BY SettledPolicies
<1>6. verdict = Passed <=> /\ EvaluateUpper({}, input, now) = Passed
                           /\ \A p \in policies : ~Suppresses(p, input, now)
  BY UpperLevels DEF verdict
<1>7. CASE verdict = Passed
  <2>1. eval'.pc = "lower"
    BY <1>2, <1>7
  <2> QED BY <1>1, <1>2, <1>3, <1>4, <1>5, <1>6, <1>7, <2>1
          DEF EvalInv, StandingPolicyIsObeyed, VerdictFollowsPolicies
<1>8. CASE verdict # Passed
  <2>1. eval'.pc = "done"
    BY <1>2, <1>8
  <2>2. StandingPolicyIsObeyed'
    BY <1>2, <1>8 DEF StandingPolicyIsObeyed
  <2>3. VerdictFollowsPolicies'
    BY <1>1, <1>2, <1>3, <1>5, <1>6, <1>8 DEF VerdictFollowsPolicies, PolicyMatches
  <2> QED BY <1>3, <1>4, <2>1, <2>2, <2>3 DEF EvalInv
<1> QED BY <1>7, <1>8

(* An evaluation ends: levels 4 to 9, with the policies there are then.      *)
LEMMA EvaluateEndsEval ==
    ASSUME WatcherTypeOK, WatchInv, EngineInv, EvalInv, EvaluateEnds
    PROVE  EvalInv'
<1> DEFINE verdict == EvaluateLower(policies, eval.input)
<1>1. /\ eval.pc = "lower" /\ UNCHANGED <<queue, policies, lastValid, applied, rebuilds>>
      /\ eval' = [eval EXCEPT !.pc = "done", !.verdict = verdict]
  BY DEF EvaluateEnds, api, order
<1> HIDE DEF verdict
<1>2. /\ eval'.pc = "done" /\ eval'.verdict = verdict /\ eval'.input = eval.input
      /\ eval'.at = eval.at /\ eval'.standing = eval.standing /\ eval'.calm = eval.calm
  BY <1>1 DEF WatcherTypeOK, EvalShape, Idle
<1>3. verdict = Passed <=> /\ EvaluateLower({}, eval.input) = Passed
                           /\ \A p \in policies : ~Excludes(p, eval.input)
  BY LowerLevels DEF verdict
<1>4. /\ eval.standing \subseteq policies
      /\ EvaluateUpper({}, eval.input, eval.at) = Passed
      /\ \A p \in eval.standing : ~Suppresses(p, eval.input, eval.at)
      /\ eval.calm => PoliciesSettled
      /\ eval.calm /\ applied = rebuilds =>
           \A p \in ConvertedPolicies(lastValid) : ~Suppresses(p, eval.input, eval.at)
  BY <1>1 DEF EvalInv
<1>5. PoliciesSettled' <=> PoliciesSettled
  BY <1>1 DEF PoliciesSettled
<1>6. StandingPolicyIsObeyed'
  BY <1>2, <1>3, <1>4 DEF StandingPolicyIsObeyed, PolicyMatches
<1>7. eval.calm /\ applied = rebuilds => policies = ConvertedPolicies(lastValid)
  BY <1>4, SettledPolicies
<1>8. VerdictFollowsPolicies'
  BY <1>1, <1>2, <1>3, <1>4, <1>7 DEF VerdictFollowsPolicies, PolicyMatches
<1> QED BY <1>2, <1>4, <1>5, <1>6, <1>8 DEF EvalInv

(* The policies are replaced between the two halves of an evaluation.        *)
LEMMA SetPoliciesEval ==
    ASSUME WatcherTypeOK, WatchInv, EvalInv, NEW h \in Handlers, SetPolicies(h)
    PROVE  EvalInv'
<1>1. /\ pc[h] = "set" /\ lastValid' = lastValid /\ policies' = snapshot[h]
      /\ eval' = IF eval.pc = "lower"
                 THEN [eval EXCEPT !.standing = @ \cap snapshot[h]] ELSE eval
  BY DEF SetPolicies, api
<1>2. ~PoliciesSettled
  <2>1. queue[h] # <<>> /\ Item(h).object \in Policies
    BY <1>1 DEF WatchInv, HandlerInv
  <2>2. Len(queue[h]) \in Nat \ {0}
    BY <2>1 DEF WatcherTypeOK
  <2> QED BY <2>1, <2>2 DEF PoliciesSettled, Item
<1>3. eval.pc # "idle" => ~eval.calm
  BY <1>2 DEF EvalInv
<1>4. CASE eval.pc = "lower"
  <2>1. /\ eval'.pc = "lower" /\ eval'.verdict = eval.verdict /\ eval'.input = eval.input
        /\ eval'.at = eval.at /\ eval'.standing = eval.standing \cap snapshot[h]
        /\ eval'.calm = eval.calm
    BY <1>1, <1>4 DEF WatcherTypeOK, EvalShape, Idle
  <2>2. ~eval'.calm
    BY <1>3, <1>4, <2>1
  <2> QED BY <1>1, <1>4, <2>1, <2>2
          DEF EvalInv, StandingPolicyIsObeyed, VerdictFollowsPolicies
<1>5. CASE eval.pc # "lower"
  <2>1. eval' = eval
    BY <1>1, <1>5
  <2> QED BY <1>3, <1>5, <2>1 DEF EvalInv, StandingPolicyIsObeyed, VerdictFollowsPolicies
<1> QED BY <1>4, <1>5

(* The other steps of handlers.                                              *)
LEMMA HandlerEval ==
    ASSUME WatcherTypeOK, WatchInv, EvalInv, NEW h \in Handlers, HandlerStep(h)
    PROVE  EvalInv'
<1>1. CASE SetPolicies(h)
  BY <1>1, SetPoliciesEval
<1>2. CASE ~SetPolicies(h)
  <2>1. queue[h] # <<>>
    BY <1>2 DEF HandlerStep, WatchInv, HandlerInv, Register, Mark, StorePolicy, Reject,
                Unmark, Unregister, OnPolicyDelete, CollectPolicies, UpdateStatus,
                HandlesValid, Handles
  <2>2. /\ queue' = queue \/ queue' = [queue EXCEPT ![h] = Tail(@)]
        /\ UNCHANGED <<eval, policies, lastValid>>
    BY <1>2 DEF HandlerStep, Register, Mark, StorePolicy, Reject, Unmark, Unregister,
                OnPolicyDelete, CollectPolicies, UpdateStatus, Return, api
  <2>3. PoliciesSettled => PoliciesSettled'
    BY <2>1, <2>2, HandlersSettle
  <2>4. PoliciesSettled => pc[h] # "rebuild"
    <3>1. pc[h] = "rebuild" => Item(h).object \in Policies
      BY DEF WatchInv, HandlerInv
    <3>2. Len(queue[h]) \in Nat \ {0}
      BY <2>1 DEF WatcherTypeOK
    <3> QED BY <3>1, <3>2 DEF PoliciesSettled, Item
  <2>5. PoliciesSettled => UNCHANGED <<applied, rebuilds>>
    BY <1>2, <2>4 DEF HandlerStep, Register, Mark, StorePolicy, Reject, Unmark, Unregister,
                OnPolicyDelete, CollectPolicies, UpdateStatus, order
  <2> QED BY <2>2, <2>3, <2>5, EvalStays
<1> QED BY <1>1, <1>2

(* A user's change: of a policy, which ends the calm, or of something else.  *)
LEMMA UserEval ==
    ASSUME WatcherTypeOK, EvalInv, NEW x \in Objects, NEW spec, UserChanges(x, spec),
           spec \subseteq Specs[x]
    PROVE  EvalInv'
<1>1. /\ policies' = policies /\ UNCHANGED <<applied, rebuilds>>
      /\ eval' = IF eval.pc # "idle" /\ x \in Policies
                 THEN [eval EXCEPT !.calm = FALSE] ELSE eval
  BY DEF UserChanges, order
<1>2. CASE x \in Policies
  <2>1. CASE eval.pc = "idle"
    BY <1>1, <2>1 DEF EvalInv, StandingPolicyIsObeyed, VerdictFollowsPolicies
  <2>2. CASE eval.pc # "idle"
    <3>1. /\ eval'.pc = eval.pc /\ eval'.verdict = eval.verdict
          /\ eval'.input = eval.input /\ eval'.at = eval.at
          /\ eval'.standing = eval.standing /\ eval'.calm = FALSE
      BY <1>1, <1>2, <2>2 DEF WatcherTypeOK, EvalShape, Idle
    <3> QED BY <1>1, <3>1 DEF EvalInv, StandingPolicyIsObeyed, VerdictFollowsPolicies
  <2> QED BY <2>1, <2>2
<1>3. CASE x \notin Policies
  <2>1. eval' = eval
    BY <1>1, <1>3
  <2>2. \A o \in Policies : Same(lastValid', lastValid, o)
    BY <1>3, UserVersions DEF Policies
  <2>3. Policies \cap DOMAIN lastValid' = Policies \cap DOMAIN lastValid
    BY <2>2 DEF Same
  <2>4. \A o \in Policies \cap DOMAIN lastValid : lastValid'[o] = lastValid[o]
    BY <2>2 DEF Same
  <2>5. ConvertedPolicies(lastValid') = ConvertedPolicies(lastValid)
    BY <2>3, <2>4 DEF ConvertedPolicies
  <2>6. PoliciesSettled => PoliciesSettled'
    <3> DEFINE e == [object |-> x, spec |-> spec]
    <3>1. /\ e \in Events /\ e.object = x
          /\ queue' = [queue EXCEPT ![HandlerOf[x]] = Append(@, e)]
      BY DEF Events, UserChanges
    <3> HIDE DEF e
    <3> QED BY <1>3, <3>1, UsersSettle
  <2> QED BY <1>1, <2>1, <2>5, <2>6, EvalStays
<1> QED BY <1>2, <1>3
-----------------------------------------------------------------------------
(* Every step *)

(* The steps that do not concern the watcher.                                *)
LEMMA OtherWatch ==
    ASSUME WatcherTypeOK, WatchInv, EngineInv,
           UNCHANGED <<objects, status, queue, pc, wasValid, valid, registry, policyStore,
                       snapshot, policies, lastValid, unreported, rebuilds, number,
                       applied>>
    PROVE  WatchInv' /\ EngineInv'
<1>1. ASSUME NEW o \in Objects PROVE ObjectInv(o)'
  <2>1. ObjectInv(o) /\ Untouched(o) /\ Queue(o)' = Queue(o) /\ \A l : At(o, l)' <=> At(o, l)
    BY NoChangeIsSame DEF WatchInv, Untouched, Queue, At, Item
  <2> QED BY <2>1, BystanderStays
<1>2. ASSUME NEW h \in Handlers PROVE HandlerInv(h)'
  <2>1. HandlerInv(h) /\ Item(h)' = Item(h) /\ (pc[h] # "idle" => queue[h] # <<>>)
    BY DEF WatchInv, HandlerInv, Item
  <2> QED BY <2>1, HandlerStays, NoChangeIsSame
<1>3. EngineInv'
  BY DEF EngineInv
<1> QED BY <1>1, <1>2, <1>3 DEF WatchInv

LEMMA HandlerWatch ==
    ASSUME WatcherTypeOK, WatchInv, NEW h \in Handlers, HandlerStep(h)
    PROVE  WatchInv'
BY RegistryWatch, PolicyWatch, StatusWatch DEF HandlerStep

LEMMA UserStep ==
    ASSUME WatcherTypeOK, WatchInv, EngineInv, EvalInv, NEW x \in Objects, NEW spec,
           UserChanges(x, spec), spec \subseteq Specs[x]
    PROVE  WatcherTypeOK' /\ WatchInv' /\ EngineInv' /\ EvalInv'
<1>1. WatcherTypeOK' /\ WatchInv' /\ EvalInv'
  BY UserType, UserWatch, UserEval
<1>2. EngineInv'
  BY DEF UserChanges, EngineInv, watcher, order
<1> QED BY <1>1, <1>2

LEMMA EvaluateType ==
    ASSUME WatcherTypeOK, (\E input, now : EvaluateStarts(input, now)) \/ EvaluateEnds
    PROVE  WatcherTypeOK'
<1>1. UNCHANGED <<objects, status, queue, pc, wasValid, valid, snapshot>>
  BY DEF EvaluateStarts, EvaluateEnds, api, watcher
<1>2. eval'.pc \in {"lower", "done"} /\ EvalShape'
  <2>1. CASE \E input, now : EvaluateStarts(input, now)
    BY <2>1 DEF EvaluateStarts, EvalShape
  <2>2. CASE EvaluateEnds
    <3> DEFINE verdict == EvaluateLower(policies, eval.input)
    <3>1. eval.pc = "lower" /\ eval' = [eval EXCEPT !.pc = "done", !.verdict = verdict]
      BY <2>2 DEF EvaluateEnds
    <3>2. EvalShape
      BY <3>1 DEF WatcherTypeOK, Idle
    <3> HIDE DEF verdict
    <3> QED BY <3>1, <3>2 DEF EvalShape
  <2> QED BY <2>1, <2>2
<1> QED BY <1>1, <1>2 DEF WatcherTypeOK

LEMMA WatcherInit == Init => WatcherInv
<1> SUFFICES ASSUME Init PROVE WatcherInv
  OBVIOUS
<1>1. WatcherTypeOK
  BY DEF Init, WatcherTypeOK, Labels
<1>2. \A h \in Handlers : HandlerInv(h)
  BY DEF Init, HandlerInv
<1>3. ASSUME NEW o \in Objects PROVE ObjectInv(o)
  <2>1. HandlerOf[o] \in Handlers
    BY DEF Handlers
  <2>2. /\ Queue(o) = <<>> /\ pc[HandlerOf[o]] = "idle" /\ objects[o] = {}
        /\ valid = {} /\ registry = <<>> /\ policyStore = <<>> /\ lastValid = <<>>
    BY <2>1 DEF Init, Queue
  <2>3. About(Queue(o), o) = {} /\ Acting(Queue(o), o) = {}
    BY <2>2 DEF About, Acting
  <2>4. InForce(o) = <<>> /\ o \notin DOMAIN InForce(o)
    BY <2>2 DEF InForce
  <2> QED BY <2>2, <2>3, <2>4, NoChangeIsSame
          DEF ObjectInv, VersionInv, ValidInv, StatusInv, At
<1>4. EngineInv
  <2>1. /\ policyStore = <<>> /\ policies = {} /\ \A h \in Handlers : pc[h] = "idle"
        /\ rebuilds = 0 /\ applied = 0 /\ number = [h \in Handlers |-> 0]
    BY DEF Init
  <2>2. DOMAIN policyStore = {}
    BY <2>1
  <2>3. ConvertedPolicies(policyStore) = {}
    BY <2>2 DEF ConvertedPolicies
  <2> QED BY <2>1, <2>2, <2>3 DEF EngineInv
<1>5. EvalInv
  BY DEF Init, Idle, EvalInv, StandingPolicyIsObeyed, VerdictFollowsPolicies
<1> QED BY <1>1, <1>2, <1>3, <1>4, <1>5 DEF WatcherInv

LEMMA WatcherStep == WatcherInv /\ [Next]_vars => WatcherInv'
<1> SUFFICES ASSUME WatcherInv, [Next]_vars PROVE WatcherInv'
  OBVIOUS
<1>0. WatcherTypeOK /\ WatchInv /\ EngineInv /\ EvalInv
  BY DEF WatcherInv, WatchInv
<1> SUFFICES WatcherTypeOK' /\ WatchInv' /\ EngineInv' /\ EvalInv'
  BY DEF WatcherInv, WatchInv
<1>1. ASSUME NEW o \in Objects, UserWrites(o)
      PROVE  WatcherTypeOK' /\ WatchInv' /\ EngineInv' /\ EvalInv'
  <2>1. PICK spec \in Specs[o] : UserChanges(o, {spec})
    BY <1>1 DEF UserWrites
  <2> QED BY <1>0, <2>1, UserStep
<1>2. ASSUME NEW o \in Objects, UserDeletes(o)
      PROVE  WatcherTypeOK' /\ WatchInv' /\ EngineInv' /\ EvalInv'
  <2>1. UserChanges(o, {})
    BY <1>2 DEF UserDeletes
  <2> QED BY <1>0, <2>1, UserStep
<1>3. ASSUME NEW h \in Handlers, HandlerStep(h)
      PROVE  WatcherTypeOK' /\ WatchInv' /\ EngineInv' /\ EvalInv'
  <2>1. HandlerInv(h)
    BY <1>0 DEF WatchInv
  <2> QED BY <1>0, <1>3, <2>1, HandlerType, HandlerWatch, EngineHandler, HandlerEval
<1>4. ASSUME NEW input, NEW now, EvaluateStarts(input, now)
      PROVE  WatcherTypeOK' /\ WatchInv' /\ EngineInv' /\ EvalInv'
  <2>1. UNCHANGED <<objects, status, queue, pc, wasValid, valid, registry, policyStore,
                    snapshot, policies, lastValid, unreported, rebuilds, number, applied>>
    BY <1>4 DEF EvaluateStarts, api, watcher, order
  <2> QED BY <1>0, <1>4, <2>1, OtherWatch, EvaluateType, EvaluateStartsEval
<1>5. CASE EvaluateEnds
  <2>1. UNCHANGED <<objects, status, queue, pc, wasValid, valid, registry, policyStore,
                    snapshot, policies, lastValid, unreported, rebuilds, number, applied>>
    BY <1>5 DEF EvaluateEnds, api, watcher, order
  <2> QED BY <1>0, <1>5, <2>1, OtherWatch, EvaluateType, EvaluateEndsEval
<1>6. CASE UNCHANGED vars
  <2>1. UNCHANGED <<objects, status, queue, pc, wasValid, valid, registry, policyStore,
                    snapshot, policies, lastValid, unreported, rebuilds, number, applied,
                    eval>>
    BY <1>6 DEF vars, api, watcher, order
  <2>2. WatcherTypeOK'
    BY <1>0, <2>1 DEF WatcherTypeOK, EvalShape
  <2>3. EvalInv'
    BY <1>0, <2>1, EvalStays DEF PoliciesSettled
  <2> QED BY <1>0, <2>1, <2>2, <2>3, OtherWatch
<1> QED BY <1>1, <1>2, <1>3, <1>4, <1>5, <1>6 DEF Next

(* The inductive invariant holds throughout.                                 *)
THEOREM WatcherInvariant == Spec => []WatcherInv
BY WatcherInit, WatcherStep, PTL DEF Spec

-----------------------------------------------------------------------------
(* The properties *)

(* Without an event of its own pending, an object has what was last valid.   *)
LEMMA SettledObject ==
    ASSUME WatcherInv, NEW o \in Objects, Settled(o)
    PROVE  About(Queue(o), o) = {} /\ Same(InForce(o), lastValid, o)
<1>1. About(Queue(o), o) = {}
  BY DEF Settled, About, Queue
<1>2. Acting(Queue(o), o) = {}
  BY <1>1 DEF Acting
<1> QED BY <1>1, <1>2 DEF WatcherInv, ObjectInv, VersionInv

(* Once its events are handled, a detector, gatherer or sink is registered   *)
(* with the last valid spec its user wrote since its creation, whatever      *)
(* invalid updates, deletions and re-creations came between (handleX,        *)
(* OnXDelete).                                                               *)
THEOREM LastValidVersionIsRegisteredCorrect == Spec => []LastValidVersionIsRegistered
<1>1. WatcherInv => LastValidVersionIsRegistered
  <2> SUFFICES ASSUME WatcherInv, NEW o \in Objects \ Policies, Settled(o)
               PROVE  IF o \in DOMAIN lastValid
                      THEN o \in DOMAIN registry /\ registry[o] = lastValid[o]
                      ELSE o \notin DOMAIN registry
    BY DEF LastValidVersionIsRegistered
  <2>1. Same(registry, lastValid, o)
    BY SettledObject DEF InForce
  <2> QED BY <2>1 DEF Same
<1> QED BY <1>1, WatcherInvariant, PTL

(* Once its events are handled, an object's conditions say whether its       *)
(* present spec is valid and whether some version of it is in force, unless  *)
(* the update was lost (setXReady, setXNotReady); and whatever Counts counts *)
(* is there.                                                                 *)
THEOREM StatusIsTruthfulCorrect == Spec => []StatusIsTruthful
<1>1. WatcherInv => StatusIsTruthful
  <2> SUFFICES ASSUME WatcherInv PROVE StatusIsTruthful
    OBVIOUS
  <2>1. ASSUME NEW o \in Objects \ unreported, Settled(o), objects[o] # {}
        PROVE  /\ status[o]["Ready"] = (ValidSpecs(o.kind, objects[o]) # {})
               /\ o.kind \in {"Detector", "Policy"} =>
                    status[o]["Active"] = (o \in DOMAIN lastValid)
    BY <2>1, SettledObject DEF WatcherInv, ObjectInv, StatusInv
  <2>2. valid \subseteq DOMAIN registry \cup DOMAIN policyStore
    BY DEF WatcherInv, WatcherTypeOK, ObjectInv, ValidInv, InForce
  <2> QED BY <2>1, <2>2 DEF StatusIsTruthful
<1> QED BY <1>1, WatcherInvariant, PTL

(* A policy that is in the engine throughout a call of Evaluate is obeyed,   *)
(* although the lock is given up between level 3 and level 9.                *)
THEOREM StandingPolicyIsObeyedCorrect == Spec => []StandingPolicyIsObeyed
<1>1. WatcherInv => StandingPolicyIsObeyed
  BY DEF WatcherInv, EvalInv
<1> QED BY <1>1, WatcherInvariant, PTL

(* With no policy change under way, Evaluate drops an event exactly if the   *)
(* Helm values, an annotation or the last valid version of a policy that a   *)
(* user wrote says so, however many goroutines handle policies, as long as   *)
(* the newest copy of them was not overtaken by an older one                 *)
(* (rebuildPolicies).                                                        *)
THEOREM VerdictFollowsPoliciesCorrect == Spec => []VerdictFollowsPolicies
<1>1. WatcherInv => VerdictFollowsPolicies
  BY DEF WatcherInv, EvalInv
<1> QED BY <1>1, WatcherInvariant, PTL
-----------------------------------------------------------------------------
(* One goroutine for all policies *)

OneHandler == \A o, p \in Policies : HandlerOf[o] = HandlerOf[p]

(* What is in hand is what was collected last, and else the engine has it.   *)
KeepsUp ==
    /\ \A h \in Handlers : pc[h] = "set" => number[h] = rebuilds
    /\ (\A h \in Handlers : pc[h] # "set") => applied = rebuilds

(* Then no two handlers are in the middle of a policy.                       *)
LEMMA OnePolicyHandler ==
    ASSUME OneHandler, WatcherTypeOK, WatchInv, NEW g \in Handlers, NEW h \in Handlers,
           pc[g] \in {"rebuild", "set"}, pc[h] \in {"rebuild", "set"}
    PROVE  g = h
<1>1. /\ queue[g] # <<>> /\ Item(g).object \in Policies
      /\ queue[h] # <<>> /\ Item(h).object \in Policies
  BY DEF WatchInv, HandlerInv
<1> QED BY <1>1, InHand DEF OneHandler

LEMMA KeepsUpStep ==
    ASSUME OneHandler, WatcherTypeOK, WatchInv, EngineInv, KeepsUp, [Next]_vars
    PROVE  KeepsUp'
<1>1. ASSUME NEW h \in Handlers, CollectPolicies(h) PROVE KeepsUp'
  <2>1. /\ pc[h] = "rebuild" /\ pc'[h] = "set"
        /\ number'[h] = rebuilds' /\ \A g \in Handlers \ {h} : pc'[g] = pc[g]
    BY <1>1 DEF CollectPolicies, Goto, WatcherTypeOK, EngineInv
  <2>2. \A g \in Handlers \ {h} : pc[g] # "set"
    BY <2>1, OnePolicyHandler
  <2> QED BY <2>1, <2>2 DEF KeepsUp
<1>2. ASSUME NEW h \in Handlers, SetPolicies(h) PROVE KeepsUp'
  <2>1. /\ pc[h] = "set" /\ pc'[h] # "set" /\ applied' = number[h] /\ rebuilds' = rebuilds
        /\ \A g \in Handlers \ {h} : pc'[g] = pc[g]
    BY <1>2 DEF SetPolicies, Return, Goto, WatcherTypeOK
  <2>2. \A g \in Handlers \ {h} : pc[g] # "set"
    BY <2>1, OnePolicyHandler
  <2> QED BY <2>1, <2>2 DEF KeepsUp
<1>3. CASE UNCHANGED order /\ \A h \in Handlers : pc'[h] = "set" <=> pc[h] = "set"
  BY <1>3 DEF KeepsUp, order
<1>4. ASSUME NEW h \in Handlers, HandlerStep(h), ~CollectPolicies(h), ~SetPolicies(h)
      PROVE  KeepsUp'
  <2>1. UNCHANGED order
    BY <1>4 DEF HandlerStep, Register, Mark, StorePolicy, Reject, Unmark, Unregister,
                OnPolicyDelete, UpdateStatus
  <2>2. pc[h] # "set" /\ \E l \in Labels \ {"set"} : pc' = [pc EXCEPT ![h] = l]
    BY <1>4 DEF HandlerStep, Register, Mark, StorePolicy, Reject, Unmark, Unregister,
                OnPolicyDelete, UpdateStatus, HandlesValid, Handles, Return, Goto, Labels
  <2>3. \A g \in Handlers : pc'[g] = "set" <=> pc[g] = "set"
    BY <2>2 DEF WatcherTypeOK
  <2> QED BY <1>3, <2>1, <2>3
<1>5. CASE \/ \E o \in Objects : UserWrites(o) \/ UserDeletes(o)
           \/ \E input, now : EvaluateStarts(input, now)
           \/ EvaluateEnds \/ UNCHANGED vars
  <2>1. UNCHANGED <<pc, order>>
    BY <1>5 DEF UserWrites, UserDeletes, UserChanges, EvaluateStarts, EvaluateEnds, vars
  <2> QED BY <1>3, <2>1
<1> QED BY <1>1, <1>2, <1>4, <1>5 DEF Next

(* With one goroutine for all policies, as one informer would be, the newest *)
(* copy is never overtaken: whenever no policy change is under way, the      *)
(* filter engine has what rebuildPolicies collected last, and the exception  *)
(* in VerdictFollowsPolicies cannot occur.                                   *)
THEOREM OneHandlerIsNotOvertaken ==
    OneHandler => (Spec => [](PoliciesSettled => applied = rebuilds))
<1> SUFFICES ASSUME OneHandler PROVE Spec => [](PoliciesSettled => applied = rebuilds)
  OBVIOUS
<1>1. Init => KeepsUp
  BY DEF Init, KeepsUp
<1>2. WatcherInv /\ KeepsUp /\ [Next]_vars => KeepsUp'
  BY KeepsUpStep DEF WatcherInv, WatchInv
<1>3. WatcherInv /\ KeepsUp => (PoliciesSettled => applied = rebuilds)
  <2> SUFFICES ASSUME WatcherInv, KeepsUp, PoliciesSettled, NEW h \in Handlers
               PROVE  pc[h] # "set"
    BY DEF KeepsUp
  <2>1. pc[h] = "set" => queue[h] # <<>> /\ Item(h).object \in Policies
    BY DEF WatcherInv, HandlerInv
  <2>2. queue[h] # <<>> => Len(queue[h]) \in Nat \ {0}
    BY DEF WatcherInv, WatcherTypeOK
  <2> QED BY <2>1, <2>2 DEF PoliciesSettled, Item
<1>4. Spec => []WatcherInv
  BY WatcherInvariant
<1> QED BY <1>1, <1>2, <1>3, <1>4, PTL DEF Spec
=============================================================================
