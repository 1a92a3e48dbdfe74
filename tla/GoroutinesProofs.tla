-------------------------- MODULE GoroutinesProofs --------------------------
(***************************************************************************)
(* The goroutines of a replica of replica_view.go, for every number of     *)
(* replicas and every capacity of the two channels: the views the event    *)
(* loop processes ascend, a view gets one timeout certificate, and at most *)
(* one goroutine is lost in startSignal.                                   *)
(***************************************************************************)
EXTENDS Goroutines, TLAPS, FiniteSetTheorems

EventType == [kind : {"block", "tmo", "view", "query"}, view : Nat, from : Replica]
Op == [do : {"load", "store", "send", "advance", "unlock", "tmo", "check", "put",
             "view", "reply"},
       e : EventType]
PacemakerState == [curView : Nat, newViewChan : Seq(Nat), timeouts : SUBSET (Nat \X Replica)]

\* Every variable holds a value of its kind.
Typed ==
  /\ work \in [Goroutine -> Seq(Op)]
  /\ eventChan \in Seq(EventType)
  /\ pm \in PacemakerState
  /\ isStarted \in BOOLEAN /\ listening \in BOOLEAN
  /\ certs \in Seq(Nat) /\ newView \in Nat

\* startSignal comes first in what a goroutine has to do, and once.
StartShape(w) ==
  \A i \in 1..Len(w) :
    /\ w[i].do \in {"load", "store"} => i = 1
    /\ w[i].do = "send" => i = 1 \/ (i = 2 /\ w[1].do = "store")

\* What goroutine g may have to do: new views are last in what the event loop
\* does, and come only from ListenLocalEvent, one at a time.
Shape(g, w) ==
  /\ StartShape(w)
  /\ \A i \in 1..Len(w) :
       /\ w[i].do \in {"load", "store", "send"} => g \in {"loop", "txn"}
       /\ w[i].do = "view" => g = "loop" /\ i = Len(w)
       /\ w[i].do = "put" =>
            /\ w[i].e.kind # "query"
            /\ \/ g = "local" /\ w[i].e.kind = "view" /\ i = 1 /\ Len(w) = 1
               \/ g = "handle" /\ w[i].e.kind # "view"

WorkInv ==
  /\ \A g \in Goroutine : Shape(g, work[g])
  /\ \A i \in 1..Len(eventChan) : eventChan[i].kind # "query"

\* The views of the events for which the operation `what' is to be done
ViewsOf(w, what) == {w[i].e.view : i \in {j \in 1..Len(w) : w[j].do = what}}

-----------------------------------------------------------------------------
(* The work of a goroutine. *)

\* ops in place of the first operation of w
LEMMA ThenFacts ==
  ASSUME NEW w \in Seq(Op), w # <<>>, NEW ops \in Seq(Op), NEW z, z = ops \o Tail(w)
  PROVE  /\ z \in Seq(Op) /\ Len(z) = Len(ops) + Len(w) - 1
         /\ \A i \in 1..Len(z) :
              z[i] = IF i <= Len(ops) THEN ops[i] ELSE w[i - Len(ops) + 1]
<1>1. /\ Tail(w) \in Seq(Op) /\ Len(Tail(w)) = Len(w) - 1 /\ Len(w) \in Nat
      /\ \A i \in 1..Len(Tail(w)) : Tail(w)[i] = w[i + 1]
  OBVIOUS
<1>2. z \in Seq(Op) /\ Len(z) = Len(ops) + Len(Tail(w)) /\ Len(ops) \in Nat
  BY <1>1
<1>3. \A i \in 1..Len(z) : z[i] = IF i <= Len(ops) THEN ops[i] ELSE Tail(w)[i - Len(ops)]
  BY <1>1
<1> QED BY <1>1, <1>2, <1>3

\* Operations other than `what' are added.
LEMMA ThenViews ==
  ASSUME NEW w \in Seq(Op), w # <<>>, NEW ops \in Seq(Op), NEW what,
         \A i \in 1..Len(ops) : ops[i].do # what
  PROVE  ViewsOf(ops \o Tail(w), what) \subseteq ViewsOf(w, what)
<1> DEFINE z == ops \o Tail(w)
<1>1. /\ z \in Seq(Op) /\ Len(z) = Len(ops) + Len(w) - 1
      /\ \A i \in 1..Len(z) :
           z[i] = IF i <= Len(ops) THEN ops[i] ELSE w[i - Len(ops) + 1]
  BY ThenFacts
<1>2. Len(ops) \in Nat /\ Len(w) \in Nat
  OBVIOUS
<1> HIDE DEF z
<1>3. ASSUME NEW i \in 1..Len(z), z[i].do = what
      PROVE  i - Len(ops) + 1 \in 1..Len(w) /\ z[i] = w[i - Len(ops) + 1]
  <2>1. ~(i <= Len(ops))
    <3> SUFFICES ASSUME i <= Len(ops) PROVE FALSE
      OBVIOUS
    <3>1. i \in 1..Len(ops) /\ z[i] = ops[i]
      BY <1>1, <1>2
    <3> QED BY <1>3, <3>1
  <2> QED BY <1>1, <1>2, <2>1
<1>4. ViewsOf(z, what) \subseteq ViewsOf(w, what)
  BY <1>3 DEF ViewsOf
<1> QED BY <1>4 DEF z

\* An operation that another one of the pacemaker follows.
LEMMA ThenShape ==
  ASSUME NEW g \in Goroutine, NEW w \in Seq(Op), w # <<>>, Shape(g, w),
         w[1].do \notin {"load", "store"},
         NEW ops \in Seq(Op), Len(ops) <= 1,
         \A i \in 1..Len(ops) : ops[i].do \in {"advance", "unlock"}
  PROVE  Shape(g, ops \o Tail(w)) /\ ops \o Tail(w) \in Seq(Op)
<1> DEFINE z == ops \o Tail(w)
<1>1. /\ z \in Seq(Op) /\ Len(z) = Len(ops) + Len(w) - 1
      /\ \A i \in 1..Len(z) :
           z[i] = IF i <= Len(ops) THEN ops[i] ELSE w[i - Len(ops) + 1]
  BY ThenFacts
<1>2. Len(ops) \in Nat /\ Len(w) \in Nat /\ Len(w) >= 1
  OBVIOUS
<1> HIDE DEF z
<1>3. ASSUME NEW i \in 1..Len(z)
      PROVE  \/ z[i].do \in {"advance", "unlock"}
             \/ /\ i - Len(ops) + 1 \in 2..Len(w) /\ z[i] = w[i - Len(ops) + 1]
                /\ z[i].do \notin {"load", "store", "send"}
                /\ z[i].do = "put" => g = "handle" /\ z[i].e.kind \notin {"view", "query"}
  <2>1. CASE i <= Len(ops)
    BY <1>1, <1>2, <2>1
  <2>2. CASE i > Len(ops)
    <3> DEFINE j == i - Len(ops) + 1
    <3>1. j \in 2..Len(w) /\ z[i] = w[j]
      BY <1>1, <1>2, <2>2
    <3> HIDE DEF j
    <3>2. z[i].do \notin {"load", "store", "send"}
      BY <1>2, <3>1 DEF Shape, StartShape
    <3>3. z[i].do = "put" => g = "handle" /\ z[i].e.kind \notin {"view", "query"}
      BY <1>2, <3>1 DEF Shape
    <3> QED BY <3>1, <3>2, <3>3 DEF j
  <2> QED BY <1>1, <1>2, <2>1, <2>2
<1>4. StartShape(z)
  BY <1>3 DEF StartShape
<1>5. ASSUME NEW i \in 1..Len(z), z[i].do = "view"
      PROVE  g = "loop" /\ i = Len(z)
  <2>1. i - Len(ops) + 1 \in 2..Len(w) /\ z[i] = w[i - Len(ops) + 1]
    BY <1>3, <1>5
  <2>2. g = "loop" /\ i - Len(ops) + 1 = Len(w)
    BY <1>2, <1>5, <2>1 DEF Shape
  <2> QED BY <1>1, <1>2, <2>2
<1>6. Shape(g, z)
  BY <1>3, <1>4, <1>5 DEF Shape
<1> QED BY <1>1, <1>6 DEF z


\* Nothing to do.
LEMMA NoWorkShape ==
  ASSUME NEW g \in Goroutine
  PROVE  Shape(g, <<>>) /\ <<>> \in Seq(Op)
BY DEF Shape, StartShape

\* Load puts the two other operations of startSignal in its place.
LEMMA LoadShape ==
  ASSUME NEW g \in Goroutine, NEW w \in Seq(Op), w # <<>>, Shape(g, w),
         w[1].do = "load", NEW e \in EventType
  PROVE  LET ops == <<Do("store", e), Do("send", e)>>
         IN  Shape(g, ops \o Tail(w)) /\ ops \o Tail(w) \in Seq(Op)
<1> DEFINE ops == <<Do("store", e), Do("send", e)>>
           z == ops \o Tail(w)
<1>1. /\ ops \in Seq(Op) /\ Len(ops) = 2
      /\ ops[1].do = "store" /\ ops[2].do = "send"
  BY DEF Do, Op
<1> HIDE DEF ops
<1>2. /\ z \in Seq(Op) /\ Len(z) = Len(w) + 1
      /\ \A i \in 1..Len(z) : z[i] = IF i <= 2 THEN ops[i] ELSE w[i - 1]
  <2>1. /\ z \in Seq(Op) /\ Len(z) = Len(ops) + Len(w) - 1
        /\ \A i \in 1..Len(z) :
             z[i] = IF i <= Len(ops) THEN ops[i] ELSE w[i - Len(ops) + 1]
    BY ZenonT(40), <1>1, ThenFacts
  <2> HIDE DEF z
  <2> QED BY <1>1, <2>1
<1>3. Len(w) \in Nat /\ Len(w) >= 1 /\ g \in {"loop", "txn"}
  BY DEF Shape
<1> HIDE DEF z
<1>4. z[1].do = "store" /\ z[2].do = "send"
  BY <1>1, <1>2, <1>3
<1>5. ASSUME NEW i \in 1..Len(z), i > 2
      PROVE  /\ i - 1 \in 2..Len(w) /\ z[i] = w[i - 1]
             /\ z[i].do \notin {"load", "store", "send", "put"}
             /\ z[i].do = "view" => g = "loop" /\ i = Len(z)
  <2> DEFINE j == i - 1
  <2>1. j \in 2..Len(w) /\ z[i] = w[j]
    BY <1>2, <1>3, <1>5
  <2>2. j = Len(w) <=> i = Len(z)
    BY <1>2, <1>3
  <2> HIDE DEF j
  <2>3. w[j].do \notin {"load", "store", "send"}
    BY <1>3, <2>1 DEF Shape, StartShape
  <2>4. w[j].do # "put" /\ (w[j].do = "view" => g = "loop" /\ j = Len(w))
    BY <1>3, <2>1 DEF Shape
  <2> QED BY <2>1, <2>2, <2>3, <2>4 DEF j
<1>6. StartShape(z)
  BY <1>4, <1>5 DEF StartShape
<1>7. ASSUME NEW i \in 1..Len(z)
      PROVE  /\ z[i].do \in {"load", "store", "send"} => g \in {"loop", "txn"}
             /\ z[i].do = "view" => g = "loop" /\ i = Len(z)
             /\ z[i].do # "put"
  <2>1. CASE i = 1 \/ i = 2
    BY <1>3, <1>4, <2>1
  <2>2. CASE i > 2
    BY <1>3, <1>5, <2>2
  <2> QED BY <2>1, <2>2
<1>8. Shape(g, z)
  BY <1>6, <1>7 DEF Shape
<1> QED BY <1>2, <1>8 DEF z, ops

\* The first operation is done.
LEMMA TailShape ==
  ASSUME NEW g \in Goroutine, NEW w \in Seq(Op), w # <<>>, Shape(g, w)
  PROVE  Shape(g, Tail(w)) /\ Tail(w) \in Seq(Op)
<1> DEFINE z == Tail(w)
<1>1. /\ z \in Seq(Op) /\ Len(z) = Len(w) - 1 /\ Len(w) \in Nat
      /\ \A i \in 1..Len(z) : i + 1 \in 2..Len(w) /\ z[i] = w[i + 1]
  OBVIOUS
<1> HIDE DEF z
<1>2. ASSUME NEW i \in 1..Len(z)
      PROVE  /\ z[i].do \notin {"load", "store"}
             /\ z[i].do = "send" => i = 1 /\ g \in {"loop", "txn"}
             /\ z[i].do = "view" => g = "loop" /\ i = Len(z)
             /\ z[i].do = "put" => g = "handle" /\ z[i].e.kind \notin {"view", "query"}
  <2> DEFINE j == i + 1
  <2>1. j \in 2..Len(w) /\ z[i] = w[j]
    BY <1>1
  <2>2. (j = Len(w) => i = Len(z)) /\ (j = 2 => i = 1)
    BY <1>1
  <2> HIDE DEF j
  <2>3. w[j].do \notin {"load", "store"} /\ (w[j].do = "send" => j = 2)
    BY <1>1, <2>1 DEF Shape, StartShape
  <2>4. /\ w[j].do = "send" => g \in {"loop", "txn"}
        /\ w[j].do = "view" => g = "loop" /\ j = Len(w)
        /\ w[j].do = "put" => g = "handle" /\ w[j].e.kind \notin {"view", "query"}
    BY <1>1, <2>1 DEF Shape
  <2> QED BY <2>1, <2>2, <2>3, <2>4
<1>3. StartShape(z)
  BY <1>2 DEF StartShape
<1>4. Shape(g, z)
  BY <1>2, <1>3 DEF Shape
<1> QED BY <1>1, <1>4 DEF z


-----------------------------------------------------------------------------
(* Views on their way to the event loop. *)

Below(A, B) == \A a \in A, b \in B : a < b

\* The views in a sequence of events
Views(ev) == {ev[i].view : i \in {j \in 1..Len(ev) : ev[j].kind = "view"}}

Elements(q) == {q[i] : i \in 1..Len(q)}

\* n has been processed, L is about to be, ev waits in eventChan, C is about to
\* be put there, q waits in newViewChan and cur is the current view: all views
\* ascend.
Flow(n, L, ev, C, q, cur) ==
  /\ ev \in Seq(EventType) /\ q \in Seq(Nat) /\ cur \in Nat
  /\ Below({n}, L \cup Views(ev) \cup C \cup Elements(q))
  /\ Below(L, Views(ev) \cup C \cup Elements(q))
  /\ Below(Views(ev), C \cup Elements(q))
  /\ Below(C, Elements(q))
  /\ \A i, j \in 1..Len(ev) :
       i < j /\ ev[i].kind = "view" /\ ev[j].kind = "view" => ev[i].view < ev[j].view
  /\ \A i, j \in 1..Len(q) : i < j => q[i] < q[j]
  /\ \A v \in {n} \cup L \cup Views(ev) \cup C \cup Elements(q) : v \in Nat /\ v <= cur

\* The views the event loop and ListenLocalEvent hold
LoopViews == ViewsOf(work["loop"], "view")
LocalViews == ViewsOf(work["local"], "put")

FlowInv == Flow(newView, LoopViews, eventChan, LocalViews, pm.newViewChan, pm.curView)

\* Fewer views are held.
LEMMA FlowLess ==
  ASSUME NEW n, NEW L, NEW ev, NEW C, NEW q, NEW cur, Flow(n, L, ev, C, q, cur),
         NEW M \in SUBSET L, NEW D \in SUBSET C
  PROVE  Flow(n, M, ev, D, q, cur)
BY DEF Flow, Below

\* The first event is taken.
LEMMA FlowTakeEvent ==
  ASSUME NEW n, NEW ev, NEW C, NEW q, NEW cur, Flow(n, {}, ev, C, q, cur), ev # <<>>
  PROVE  Flow(n, IF Head(ev).kind = "view" THEN {Head(ev).view} ELSE {}, Tail(ev), C, q, cur)
<1> DEFINE z == Tail(ev)
           M == IF Head(ev).kind = "view" THEN {Head(ev).view} ELSE {}
<1>1. ev \in Seq(EventType)
  BY DEF Flow
<1>2. /\ z \in Seq(EventType) /\ Len(z) = Len(ev) - 1 /\ Len(ev) \in Nat /\ Len(ev) >= 1
      /\ Head(ev) = ev[1] /\ \A i \in 1..Len(z) : i + 1 \in 2..Len(ev) /\ z[i] = ev[i + 1]
  BY <1>1
<1> HIDE DEF z
<1>3. Views(z) \subseteq Views(ev) /\ M \subseteq Views(ev)
  BY <1>2 DEF Views
<1>4. Below(M, Views(z))
  <2> SUFFICES ASSUME Head(ev).kind = "view", NEW i \in 1..Len(z), z[i].kind = "view"
               PROVE  Head(ev).view < z[i].view
    BY DEF Below, Views
  <2>1. i + 1 \in 1..Len(ev) /\ 1 \in 1..Len(ev) /\ 1 < i + 1 /\ z[i] = ev[i + 1]
    BY <1>2
  <2> QED BY <1>2, <2>1 DEF Flow
<1>5. \A i, j \in 1..Len(z) :
        i < j /\ z[i].kind = "view" /\ z[j].kind = "view" => z[i].view < z[j].view
  <2> SUFFICES ASSUME NEW i \in 1..Len(z), NEW j \in 1..Len(z), i < j,
                      z[i].kind = "view", z[j].kind = "view"
               PROVE  z[i].view < z[j].view
    OBVIOUS
  <2>1. /\ i + 1 \in 1..Len(ev) /\ j + 1 \in 1..Len(ev) /\ i + 1 < j + 1
        /\ z[i] = ev[i + 1] /\ z[j] = ev[j + 1]
    BY <1>2
  <2> QED BY <2>1 DEF Flow
<1> HIDE DEF M
<1>6. Flow(n, M, z, C, q, cur)
  BY <1>2, <1>3, <1>4, <1>5 DEF Flow, Below
<1> QED BY <1>6 DEF z, M

\* An event that is not a new view is put.
LEMMA FlowPutOther ==
  ASSUME NEW n, NEW L, NEW ev, NEW C, NEW q, NEW cur, Flow(n, L, ev, C, q, cur),
         NEW e \in EventType, e.kind # "view"
  PROVE  Flow(n, L, Append(ev, e), C, q, cur)
<1> DEFINE z == Append(ev, e)
<1>1. ev \in Seq(EventType)
  BY DEF Flow
<1>2. /\ z \in Seq(EventType) /\ Len(z) = Len(ev) + 1 /\ Len(ev) \in Nat
      /\ \A i \in 1..Len(ev) : z[i] = ev[i]
      /\ z[Len(ev) + 1] = e
  BY <1>1
<1> HIDE DEF z
<1>3. \A i \in 1..Len(z) : z[i].kind = "view" => i \in 1..Len(ev) /\ z[i] = ev[i]
  BY <1>2
<1>4. Views(z) \subseteq Views(ev)
  BY <1>3 DEF Views
<1>5. Flow(n, L, z, C, q, cur)
  BY <1>2, <1>3, <1>4 DEF Flow, Below
<1> QED BY <1>5 DEF z

\* The new view e is put.
LEMMA FlowPutView ==
  ASSUME NEW n, NEW L, NEW ev, NEW q, NEW cur, NEW e \in EventType, e.kind = "view",
         Flow(n, L, ev, {e.view}, q, cur)
  PROVE  Flow(n, L, Append(ev, e), {}, q, cur)
<1> DEFINE z == Append(ev, e)
<1>1. ev \in Seq(EventType)
  BY DEF Flow
<1>2. /\ z \in Seq(EventType) /\ Len(z) = Len(ev) + 1 /\ Len(ev) \in Nat
      /\ \A i \in 1..Len(ev) : z[i] = ev[i]
      /\ z[Len(ev) + 1] = e
  BY <1>1
<1> HIDE DEF z
<1>3. \A i \in 1..Len(z) : i \in 1..Len(ev) \/ i = Len(ev) + 1
  BY <1>2
<1>4. Views(z) \subseteq Views(ev) \cup {e.view}
  BY <1>2, <1>3 DEF Views
<1>5. \A i, j \in 1..Len(z) :
        i < j /\ z[i].kind = "view" /\ z[j].kind = "view" => z[i].view < z[j].view
  <2> SUFFICES ASSUME NEW i \in 1..Len(z), NEW j \in 1..Len(z), i < j,
                      z[i].kind = "view", z[j].kind = "view"
               PROVE  z[i].view < z[j].view
    OBVIOUS
  <2>1. i \in 1..Len(ev) /\ z[i] = ev[i]
    BY <1>2
  <2>2. CASE j \in 1..Len(ev)
    BY <1>2, <2>1, <2>2 DEF Flow
  <2>3. CASE j = Len(ev) + 1
    <3>1. z[i].view \in Views(ev)
      BY <2>1 DEF Views
    <3> QED BY <1>2, <2>3, <3>1 DEF Flow, Below
  <2> QED BY <1>3, <2>2, <2>3
<1>6. Flow(n, L, z, {}, q, cur)
  BY ZenonT(40), <1>2, <1>4, <1>5 DEF Flow, Below
<1> QED BY <1>6 DEF z

\* ListenLocalEvent takes the first view of newViewChan.
LEMMA FlowTakeView ==
  ASSUME NEW n, NEW L, NEW ev, NEW q, NEW cur, Flow(n, L, ev, {}, q, cur), q # <<>>
  PROVE  Flow(n, L, ev, {Head(q)}, Tail(q), cur)
<1> DEFINE z == Tail(q)
<1>1. q \in Seq(Nat)
  BY DEF Flow
<1>2. /\ z \in Seq(Nat) /\ Len(z) = Len(q) - 1 /\ Len(q) \in Nat /\ Len(q) >= 1
      /\ Head(q) = q[1] /\ \A i \in 1..Len(z) : i + 1 \in 2..Len(q) /\ z[i] = q[i + 1]
  BY <1>1
<1> HIDE DEF z
<1>3. Elements(z) \subseteq Elements(q) /\ Head(q) \in Elements(q)
  BY <1>2 DEF Elements
<1>4. Below({Head(q)}, Elements(z))
  <2> SUFFICES ASSUME NEW i \in 1..Len(z) PROVE q[1] < z[i]
    BY <1>2 DEF Below, Elements
  <2>1. i + 1 \in 1..Len(q) /\ 1 \in 1..Len(q) /\ 1 < i + 1 /\ z[i] = q[i + 1]
    BY <1>2
  <2> QED BY <2>1 DEF Flow
<1>5. \A i, j \in 1..Len(z) : i < j => z[i] < z[j]
  <2> SUFFICES ASSUME NEW i \in 1..Len(z), NEW j \in 1..Len(z), i < j
               PROVE  z[i] < z[j]
    OBVIOUS
  <2>1. /\ i + 1 \in 1..Len(q) /\ j + 1 \in 1..Len(q) /\ i + 1 < j + 1
        /\ z[i] = q[i + 1] /\ z[j] = q[j + 1]
    BY <1>2
  <2> QED BY <2>1 DEF Flow
<1>6. Flow(n, L, ev, {Head(q)}, z, cur)
  BY <1>2, <1>3, <1>4, <1>5 DEF Flow, Below
<1> QED BY <1>6 DEF z

\* The pacemaker enters view v.
LEMMA FlowAdvance ==
  ASSUME NEW n, NEW L, NEW ev, NEW C, NEW q, NEW cur, Flow(n, L, ev, C, q, cur),
         NEW v \in Nat, v > cur
  PROVE  Flow(n, L, ev, C, Append(q, v), v)
<1> DEFINE z == Append(q, v)
<1>1. q \in Seq(Nat) /\ cur \in Nat
  BY DEF Flow
<1>2. /\ z \in Seq(Nat) /\ Len(z) = Len(q) + 1 /\ Len(q) \in Nat
      /\ \A i \in 1..Len(q) : z[i] = q[i]
      /\ z[Len(q) + 1] = v
  BY <1>1
<1> HIDE DEF z
<1>3. \A i \in 1..Len(z) : i \in 1..Len(q) \/ i = Len(q) + 1
  BY <1>2
<1>4. Elements(z) \subseteq Elements(q) \cup {v}
  BY <1>2, <1>3 DEF Elements
<1>5. \A a \in {n} \cup L \cup Views(ev) \cup C \cup Elements(q) : a \in Nat /\ a < v
  BY <1>1 DEF Flow
<1>6. \A i, j \in 1..Len(z) : i < j => z[i] < z[j]
  <2> SUFFICES ASSUME NEW i \in 1..Len(z), NEW j \in 1..Len(z), i < j
               PROVE  z[i] < z[j]
    OBVIOUS
  <2>1. i \in 1..Len(q) /\ z[i] = q[i]
    BY <1>2
  <2>2. CASE j \in 1..Len(q)
    BY <1>2, <2>1, <2>2 DEF Flow
  <2>3. CASE j = Len(q) + 1
    BY <1>2, <1>5, <2>1, <2>3 DEF Elements
  <2> QED BY <1>3, <2>2, <2>3
<1>7. Flow(n, L, ev, C, z, v)
  BY <1>2, <1>4, <1>5, <1>6 DEF Flow, Below
<1> QED BY <1>7 DEF z

\* The event loop processes the view it holds.
LEMMA FlowProcess ==
  ASSUME NEW n, NEW ev, NEW C, NEW q, NEW cur, NEW v, Flow(n, {v}, ev, C, q, cur)
  PROVE  Flow(v, {}, ev, C, q, cur) /\ n < v
BY DEF Flow, Below


-----------------------------------------------------------------------------
(* The invariant. *)

\* The timeouts of a view with a certificate are a quorum, so AddTmo builds no
\* other one.
CertInv ==
  /\ \A i \in 1..Len(certs) : superMajority(Timeouts(pm, certs[i]))
  /\ OneCertificate

\* g has found isStarted false and has not sent the signal.
Starting(g) == ViewsOf(work[g], "send") # {}

\* The one that sent the signal had set isStarted: it never starts again.
StartInv ==
  /\ listening => isStarted
  /\ \A g \in Goroutine : Starting(g) => work[g][1].do = "store" \/ isStarted
  /\ listening => ~(Starting("loop") /\ Starting("txn"))

GInv == Typed /\ WorkInv /\ FlowInv /\ CertInv /\ StartInv

\* An operation and the event it is for.
LEMMA OpFacts ==
  ASSUME NEW e \in EventType,
         NEW what \in {"load", "store", "send", "advance", "unlock", "tmo", "check", "put",
                       "view", "reply"}
  PROVE  Do(what, e) \in Op /\ Do(what, e).do = what /\ Do(what, e).e = e
BY DEF Do, Op

\* What a goroutine does is an operation for an event.
LEMMA DoingFacts ==
  ASSUME Typed, NEW g \in Goroutine, NEW what, Doing(g, what)
  PROVE  /\ work[g] \in Seq(Op) /\ work[g] # <<>> /\ Len(work[g]) \in Nat \ {0}
         /\ work[g][1] = Head(work[g]) /\ work[g][1].do = what
         /\ For(g) = work[g][1].e /\ For(g) \in EventType
         /\ For(g).view \in Nat /\ For(g).from \in Replica
<1>1. work[g] \in Seq(Op) /\ work[g] # <<>>
  BY DEF Typed, Doing, Idle
<1>2. Head(work[g]) = work[g][1] /\ work[g][1] \in Op /\ Len(work[g]) \in Nat \ {0}
  BY <1>1
<1> QED BY <1>1, <1>2 DEF Doing, For, Op, EventType

\* What g has to do becomes z.
LEMMA WorkBecomes ==
  ASSUME Typed, WorkInv, NEW g \in Goroutine, NEW z \in Seq(Op), Shape(g, z),
         work' = [work EXCEPT ![g] = z]
  PROVE  /\ work' \in [Goroutine -> Seq(Op)] /\ work'[g] = z
         /\ \A h \in Goroutine : Shape(h, work'[h])
         /\ \A h \in Goroutine \ {g} : work'[h] = work[h]
BY DEF Typed, WorkInv

\* AdvanceView keeps the type of the pacemaker.
LEMMA AdvanceFacts ==
  ASSUME NEW s \in PacemakerState, NEW view \in Nat
  PROVE  /\ AdvanceView(s, view) \in PacemakerState
         /\ AdvanceView(s, view).timeouts = s.timeouts
         /\ \/ AdvanceView(s, view) = s
            \/ /\ view + 1 > s.curView /\ AdvanceView(s, view).curView = view + 1
               /\ AdvanceView(s, view).newViewChan = Append(s.newViewChan, view + 1)
<1>1. s.newViewChan \in Seq(Nat) /\ s.curView \in Nat
  BY DEF PacemakerState
<1>2. Append(s.newViewChan, view + 1) \in Seq(Nat)
  BY <1>1
<1> DEFINE t == [s EXCEPT !.curView = view + 1, !.newViewChan = Append(@, view + 1)]
<1>3. /\ t \in PacemakerState /\ t.timeouts = s.timeouts /\ t.curView = view + 1
      /\ t.newViewChan = Append(s.newViewChan, view + 1)
  <2>1. /\ t.timeouts = s.timeouts /\ t.curView = view + 1
        /\ t.newViewChan = Append(s.newViewChan, view + 1)
        /\ DOMAIN t = {"curView", "newViewChan", "timeouts"}
        /\ t = [x \in DOMAIN t |-> t[x]]
    BY DEF PacemakerState
  <2>2. s.timeouts \in SUBSET (Nat \X Replica) /\ view + 1 \in Nat
    BY DEF PacemakerState
  <2> HIDE DEF t
  <2> QED BY <1>2, <2>1, <2>2 DEF PacemakerState
<1>4. AdvanceView(s, view) = IF view < s.curView THEN s ELSE t
  BY DEF AdvanceView
<1> HIDE DEF t
<1>5. CASE view < s.curView
  BY <1>4, <1>5
<1>6. CASE ~(view < s.curView)
  BY <1>1, <1>3, <1>4, <1>6
<1> QED BY <1>5, <1>6

\* AcceptTmo adds at most the timeout, and builds a certificate only when that
\* completes a quorum.
LEMMA AcceptFacts ==
  ASSUME NEW s \in PacemakerState, NEW view \in Nat, NEW q \in Replica
  PROVE  LET a == AcceptTmo(s, view, q)
         IN  /\ a.state \in PacemakerState /\ s.timeouts \subseteq a.state.timeouts
             /\ a.state.curView = s.curView /\ a.state.newViewChan = s.newViewChan
             /\ a.isBuilt \in BOOLEAN
             /\ a.isBuilt => /\ a.tc = view
                             /\ superMajority(Timeouts(a.state, view))
                             /\ ~superMajority(Timeouts(s, view))
<1> DEFINE t == [s EXCEPT !.timeouts = @ \cup {<<view, q>>}]
<1>1. /\ t \in PacemakerState /\ s.timeouts \subseteq t.timeouts
      /\ t.curView = s.curView /\ t.newViewChan = s.newViewChan
  BY DEF PacemakerState
<1> HIDE DEF t
<1>2. superMajority(Timeouts(t, view)) \in BOOLEAN
  BY DEF superMajority
<1>3. AddTmo(s, view, q) =
        IF superMajority(Timeouts(s, view))
        THEN [state |-> s, isBuilt |-> FALSE, tc |-> NoTC]
        ELSE [state |-> t, isBuilt |-> superMajority(Timeouts(t, view)),
              tc |-> IF superMajority(Timeouts(t, view)) THEN view ELSE NoTC]
  BY DEF AddTmo, t
<1>4. CASE view < s.curView \/ superMajority(Timeouts(s, view))
  <2>1. AcceptTmo(s, view, q) = [state |-> s, isBuilt |-> FALSE, tc |-> NoTC]
    BY <1>3, <1>4 DEF AcceptTmo
  <2> QED BY <2>1
<1>5. CASE ~(view < s.curView \/ superMajority(Timeouts(s, view)))
  <2> DEFINE built == superMajority(Timeouts(t, view))
  <2>1. AcceptTmo(s, view, q) = [state |-> t, isBuilt |-> built,
                                 tc |-> IF built THEN view ELSE NoTC]
    BY <1>3, <1>5 DEF AcceptTmo
  <2>2. built \in BOOLEAN
    BY <1>2
  <2> QED BY <1>1, <1>5, <2>1, <2>2
<1> QED BY <1>4, <1>5


\* Nothing is to be done or has been heard at first.
LEMMA GInit == Init => GInv
<1> SUFFICES ASSUME Init PROVE GInv
  OBVIOUS
<1>1. \A g \in Goroutine : work[g] = <<>>
  BY DEF Init
<1>2. <<>> \in Seq(Op) /\ <<>> \in Seq(EventType) /\ <<>> \in Seq(Nat) /\ Len(<<>>) = 0
  OBVIOUS
<1>3. pm \in PacemakerState /\ pm.newViewChan = <<>> /\ pm.curView = 0
  BY <1>2 DEF Init, NewPacemaker, PacemakerState
<1>4. Typed
  BY <1>2, <1>3 DEF Init, Typed
<1>5. WorkInv
  BY <1>1, <1>2, NoWorkShape DEF Init, WorkInv
<1>6. LoopViews = {} /\ LocalViews = {} /\ Views(<<>>) = {} /\ Elements(<<>>) = {}
  BY <1>1, <1>2 DEF LoopViews, LocalViews, ViewsOf, Views, Elements, Goroutine
<1>7. FlowInv
  BY <1>2, <1>3, <1>6 DEF Init, FlowInv, Flow, Below
<1>8. CertInv
  BY <1>2 DEF Init, CertInv, OneCertificate
<1>9. StartInv
  BY <1>1, <1>2 DEF Init, StartInv, Starting, ViewsOf
<1> QED BY <1>4, <1>5, <1>7, <1>8, <1>9 DEF GInv

\* What g has to do becomes z: no new view, no new event, and a signal to
\* send only if isStarted was found false and is set next.
Continues(g, z) ==
  /\ z \in Seq(Op) /\ Shape(g, z) /\ work' = [work EXCEPT ![g] = z]
  /\ \A what \in {"view", "put"} : ViewsOf(z, what) \subseteq ViewsOf(work[g], what)
  /\ \/ ViewsOf(z, "send") \subseteq ViewsOf(work[g], "send")
     \/ Load(g) /\ ~isStarted /\ z[1].do = "store"

\* Every step of g continues what it has to do.
LEMMA StepWork ==
  ASSUME Typed, WorkInv, NEW g \in Goroutine, Step(g)
  PROVE  \E z : Continues(g, z)
<1> DEFINE w == work[g]
           rest == Tail(w)
<1>1. Shape(g, w)
  BY DEF WorkInv
<1>2. ASSUME NEW what, Doing(g, what), Then(g, <<>>)
      PROVE  Continues(g, rest)
  <2>1. w \in Seq(Op) /\ w # <<>>
    BY <1>2, DoingFacts
  <2>2. Shape(g, rest) /\ rest \in Seq(Op)
    BY <1>1, <2>1, TailShape
  <2>3. <<>> \o rest = rest /\ <<>> \in Seq(Op) /\ Len(<<>>) = 0
    BY <2>2
  <2>4. \A x : ViewsOf(rest, x) \subseteq ViewsOf(w, x)
    <3> TAKE x
    <3>1. \A i \in 1..Len(<<>>) : <<>>[i].do # x
      BY <2>3
    <3>2. ViewsOf(<<>> \o rest, x) \subseteq ViewsOf(w, x)
      BY <2>1, <2>3, <3>1, ThenViews
    <3> QED BY <2>3, <3>2
  <2> QED BY <1>2, <2>2, <2>3, <2>4 DEF Then, Continues
<1>3. ASSUME NEW what \in {"advance", "tmo"}, Doing(g, what),
             NEW next \in {"advance", "unlock"}, Then(g, <<Do(next, For(g))>>)
      PROVE  \E z : Continues(g, z)
  <2> DEFINE ops == <<Do(next, For(g))>>
  <2>1. /\ w \in Seq(Op) /\ w # <<>> /\ For(g) \in EventType /\ w[1].do = what
    BY <1>3, DoingFacts
  <2>2. Do(next, For(g)) \in Op /\ Do(next, For(g)).do = next
    BY <2>1, OpFacts
  <2>3. ops \in Seq(Op) /\ Len(ops) = 1 /\ ops[1].do = next
    BY <2>2
  <2> HIDE DEF ops
  <2>4. Len(ops) <= 1 /\ \A i \in 1..Len(ops) : ops[i].do \in {"advance", "unlock"}
    BY <2>3
  <2>5. Shape(g, ops \o rest) /\ ops \o rest \in Seq(Op)
    BY <1>1, <2>1, <2>3, <2>4, ThenShape
  <2>6. \A x \in {"view", "put", "send"} : ViewsOf(ops \o rest, x) \subseteq ViewsOf(w, x)
    BY <2>1, <2>3, <2>4, ThenViews
  <2> QED BY <1>3, <2>5, <2>6 DEF Then, Continues, ops
<1>4. CASE Load(g)
  <2>1. CASE isStarted
    BY <1>2, <1>4, <2>1 DEF Load
  <2>2. CASE ~isStarted
    <3> DEFINE ops == <<Do("store", For(g)), Do("send", For(g))>>
               z == ops \o rest
    <3>1. Doing(g, "load") /\ Then(g, ops)
      BY <1>4, <2>2 DEF Load
    <3>2. /\ w \in Seq(Op) /\ w # <<>> /\ For(g) \in EventType /\ w[1].do = "load"
      BY <3>1, DoingFacts
    <3>3. Shape(g, z) /\ z \in Seq(Op)
      BY <1>1, <3>2, LoadShape
    <3>4. /\ ops \in Seq(Op) /\ Len(ops) = 2 /\ ops[1].do = "store"
          /\ \A i \in 1..Len(ops) : ops[i].do \in {"store", "send"}
      BY <3>2 DEF Do, Op
    <3> HIDE DEF ops
    <3>5. \A x \in {"view", "put"} : ViewsOf(z, x) \subseteq ViewsOf(w, x)
      BY <3>2, <3>4, ThenViews
    <3>6. z[1].do = "store"
      <4>1. /\ z \in Seq(Op) /\ Len(z) = Len(ops) + Len(w) - 1
            /\ \A i \in 1..Len(z) :
                 z[i] = IF i <= Len(ops) THEN ops[i] ELSE w[i - Len(ops) + 1]
        <5>1. w \in Seq(Op) /\ w # <<>> /\ ops \in Seq(Op)
          BY <3>2, <3>4
        <5> HIDE DEF w
        <5> QED BY <5>1, ThenFacts
      <4>2. Len(w) \in Nat /\ Len(w) # 0
        BY <3>2
      <4> HIDE DEF z
      <4> QED BY <3>4, <4>1, <4>2
    <3>7. work' = [work EXCEPT ![g] = z]
      BY <3>1 DEF Then
    <3> HIDE DEF z
    <3> QED BY <1>4, <2>2, <3>3, <3>5, <3>6, <3>7 DEF Continues
  <2> QED BY <2>1, <2>2
<1>5. CASE Store(g) \/ SendStart(g) \/ Unlock(g) \/ PutEvent(g) \/ ProcessNewView(g) \/ Reply(g)
  BY <1>2, <1>5 DEF Store, SendStart, Unlock, PutEvent, ProcessNewView, Reply
<1>6. CASE LockAndAdvance(g)
  BY <1>3, <1>6 DEF LockAndAdvance
<1>7. CASE AddTimeout(g)
  <2>1. \/ Then(g, <<>>)
        \/ Then(g, <<Do("advance", For(g))>>)
    BY <1>7 DEF AddTimeout
  <2>2. Doing(g, "tmo")
    BY <1>7 DEF AddTimeout
  <2> QED BY <1>2, <1>3, <2>1, <2>2
<1>8. CASE CheckView(g)
  <2>1. CASE Then(g, <<>>)
    BY <1>2, <1>8, <2>1 DEF CheckView
  <2>2. CASE work' = [work EXCEPT ![g] = <<>>]
    <3>1. \A what : ViewsOf(<<>>, what) = {}
      BY DEF ViewsOf
    <3> QED BY <2>2, <3>1, NoWorkShape DEF Continues
  <2> QED BY <1>8, <2>1, <2>2 DEF CheckView
<1> QED BY <1>4, <1>5, <1>6, <1>7, <1>8 DEF Step

\* One operation, and one with another before it.
LEMMA PairShape ==
  ASSUME NEW g \in Goroutine, NEW a \in Op, NEW b \in Op,
         Shape(g, <<b>>), b.do \notin {"load", "store", "send"},
         \/ g = "loop" /\ a.do = "load"
         \/ g # "loop" /\ a.do \in {"check", "advance"} /\ ~(g = "local" /\ b.do = "put")
         \/ g = "txn" /\ a.do = "load" /\ b.do # "put"
  PROVE  Shape(g, <<a, b>>) /\ <<a, b>> \in Seq(Op)
<1> DEFINE z == <<a, b>>
           y == <<b>>
<1>1. z \in Seq(Op) /\ Len(z) = 2 /\ z[1] = a /\ z[2] = b
  OBVIOUS
<1>2. Len(y) = 1 /\ y[1] = b /\ 1 \in 1..Len(y)
  OBVIOUS
<1> HIDE DEF y, z
<1>3. Shape(g, y)
  BY DEF y
<1>4. /\ b.do = "view" => g = "loop"
      /\ b.do = "put" => b.e.kind # "query" /\ (g = "local" \/ (g = "handle" /\ b.e.kind # "view"))
  BY <1>2, <1>3 DEF Shape
<1>5. \A i \in 1..Len(z) : i = 1 \/ i = 2
  BY <1>1
<1>6. StartShape(z)
  BY <1>1, <1>5 DEF StartShape
<1>7. Shape(g, z)
  BY <1>1, <1>4, <1>5, <1>6 DEF Shape
<1> QED BY <1>1, <1>7 DEF z


\* Two operations in a row.
LEMMA TwoOps ==
  ASSUME NEW a \in Op, NEW b \in Op
  PROVE  <<a>> \o <<b>> = <<a, b>>
<1> DEFINE y == <<a>> \o <<b>>
           z == <<a, b>>
<1>1. y \in Seq(Op) /\ Len(y) = 2 /\ y[1] = a /\ y[2] = b
  OBVIOUS
<1>2. z \in Seq(Op) /\ Len(z) = 2 /\ z[1] = a /\ z[2] = b
  OBVIOUS
<1> HIDE DEF y, z
<1>3. \A i \in 1..2 : y[i] = z[i]
  BY <1>1, <1>2
<1>4. DOMAIN y = 1..2 /\ DOMAIN z = 1..2 /\ y = [i \in 1..2 |-> y[i]] /\ z = [i \in 1..2 |-> z[i]]
  BY <1>1, <1>2
<1>5. y = z
  BY <1>3, <1>4
<1> QED BY <1>5 DEF y, z

\* One operation that is neither of startSignal nor misplaced.
LEMMA SingleShape ==
  ASSUME NEW g \in Goroutine, NEW b \in Op, b.do \notin {"load", "store", "send"},
         b.do = "view" => g = "loop",
         b.do = "put" => /\ b.e.kind # "query"
                         /\ \/ g = "local" /\ b.e.kind = "view"
                            \/ g = "handle" /\ b.e.kind # "view"
  PROVE  Shape(g, <<b>>) /\ <<b>> \in Seq(Op)
<1> DEFINE z == <<b>>
<1>1. z \in Seq(Op) /\ Len(z) = 1 /\ z[1] = b /\ \A i \in 1..Len(z) : i = 1
  OBVIOUS
<1> HIDE DEF z
<1>2. Shape(g, z)
  BY <1>1 DEF Shape, StartShape
<1> QED BY <1>1, <1>2 DEF z

\* An event that is put is not a query.
LEMMA PutFacts ==
  ASSUME Typed, WorkInv, NEW g \in Goroutine, PutEvent(g)
  PROVE  /\ For(g).kind # "query"
         /\ \/ g = "local" /\ For(g).kind = "view" /\ Len(work[g]) = 1
            \/ g = "handle" /\ For(g).kind # "view"
<1>1. Doing(g, "put") /\ Shape(g, work[g])
  BY DEF PutEvent, WorkInv
<1>2. /\ Len(work[g]) \in Nat \ {0} /\ work[g][1].do = "put" /\ For(g) = work[g][1].e
      /\ 1 \in 1..Len(work[g])
  BY <1>1, DoingFacts
<1> QED BY <1>1, <1>2 DEF Shape

\* The event loop takes an event: what it has to do then.
LEMMA TakeEventWork ==
  ASSUME Typed, WorkInv, TakeEvent
  PROVE  LET e == Head(eventChan)
         IN  \E what \in {"advance", "tmo", "view"} :
               /\ what = "view" <=> e.kind = "view"
               /\ work' = [work EXCEPT !["loop"] = <<Do("load", e), Do(what, e)>>]
               /\ Shape("loop", <<Do("load", e), Do(what, e)>>)
               /\ <<Do("load", e), Do(what, e)>> \in Seq(Op)
<1> DEFINE e == Head(eventChan)
<1>1. /\ eventChan \in Seq(EventType) /\ eventChan # <<>> /\ Len(eventChan) \in Nat
      /\ \A i \in 1..Len(eventChan) : eventChan[i].kind # "query"
  BY DEF Typed, WorkInv, TakeEvent
<1>2. e = eventChan[1] /\ 1 \in 1..Len(eventChan) /\ e \in EventType
  BY <1>1
<1>3. e.kind \in {"block", "tmo", "view"}
  BY <1>1, <1>2 DEF EventType
<1> HIDE DEF e
<1>4. PICK what \in {"advance", "tmo", "view"} :
        (what = "view" <=> e.kind = "view") /\ Handling(e) = <<Do(what, e)>>
  <2>1. CASE e.kind = "block"
    BY <2>1 DEF Handling
  <2>2. CASE e.kind = "tmo"
    BY <2>2 DEF Handling
  <2>3. CASE e.kind = "view"
    BY <2>3 DEF Handling
  <2> QED BY <1>3, <2>1, <2>2, <2>3
<1>6. /\ Do("load", e) \in Op /\ Do("load", e).do = "load"
      /\ Do(what, e) \in Op /\ Do(what, e).do = what
  BY <1>2, OpFacts
<1>5. <<Do("load", e)>> \o Handling(e) = <<Do("load", e), Do(what, e)>>
  BY <1>4, <1>6, TwoOps
<1>7. "loop" \in Goroutine /\ Shape("loop", <<Do(what, e)>>)
  BY <1>6, SingleShape DEF Goroutine
<1>8. /\ Shape("loop", <<Do("load", e), Do(what, e)>>)
      /\ <<Do("load", e), Do(what, e)>> \in Seq(Op)
  BY <1>6, <1>7, PairShape
<1>9. work' = [work EXCEPT !["loop"] = <<Do("load", e)>> \o Handling(e)]
  BY DEF TakeEvent, Starts, e
<1> QED BY <1>4, <1>5, <1>8, <1>9 DEF e

\* Every step keeps types and the shape of the work.
LEMMA WorkNext ==
  ASSUME Typed, WorkInv, Next
  PROVE  Typed' /\ WorkInv'
<1>1. /\ eventChan \in Seq(EventType) /\ pm \in PacemakerState /\ certs \in Seq(Nat)
      /\ \A i \in 1..Len(eventChan) : eventChan[i].kind # "query"
  BY DEF Typed, WorkInv
<1>2. ASSUME NEW g \in Goroutine, NEW z \in Seq(Op), Shape(g, z),
             work' = [work EXCEPT ![g] = z],
             eventChan' \in Seq(EventType),
             \A i \in 1..Len(eventChan') : eventChan'[i].kind # "query",
             pm' \in PacemakerState, certs' \in Seq(Nat), newView' \in Nat,
             isStarted' \in BOOLEAN, listening' \in BOOLEAN
      PROVE  Typed' /\ WorkInv'
  <2>1. work' \in [Goroutine -> Seq(Op)] /\ \A h \in Goroutine : Shape(h, work'[h])
    BY <1>2, WorkBecomes
  <2> QED BY <1>2, <2>1 DEF Typed, WorkInv
<1>3. ASSUME NEW g \in Goroutine, Step(g)
      PROVE  Typed' /\ WorkInv'
  <2>1. PICK z \in Seq(Op) : Shape(g, z) /\ work' = [work EXCEPT ![g] = z]
    BY <1>3, StepWork DEF Continues
  <2>2. CASE LockAndAdvance(g)
    <3>1. pm' \in PacemakerState
      <4>1. Doing(g, "advance") /\ pm' = AdvanceView(pm, For(g).view)
        BY <2>2 DEF LockAndAdvance
      <4> QED BY <1>1, <4>1, DoingFacts, AdvanceFacts
    <3> QED BY <1>1, <1>2, <2>1, <2>2, <3>1 DEF LockAndAdvance, Typed
  <2>3. CASE AddTimeout(g)
    <3> DEFINE a == AcceptTmo(pm, For(g).view, For(g).from)
    <3>1. Doing(g, "tmo") /\ pm' = a.state /\ certs' = IF a.isBuilt THEN Append(certs, a.tc) ELSE certs
      BY <2>3 DEF AddTimeout
    <3>2. For(g).view \in Nat /\ For(g).from \in Replica
      BY <3>1, DoingFacts
    <3>3. a.state \in PacemakerState /\ (a.isBuilt => a.tc = For(g).view)
      BY <1>1, <3>2, AcceptFacts
    <3> HIDE DEF a
    <3>4. certs' \in Seq(Nat)
      BY <1>1, <3>1, <3>2, <3>3
    <3> QED BY <1>1, <1>2, <2>1, <2>3, <3>1, <3>3, <3>4 DEF AddTimeout, Typed
  <2>4. CASE PutEvent(g)
    <3>1. For(g) \in EventType /\ For(g).kind # "query" /\ eventChan' = Append(eventChan, For(g))
      BY <2>4, DoingFacts, PutFacts DEF PutEvent
    <3>2. /\ eventChan' \in Seq(EventType)
          /\ \A i \in 1..Len(eventChan') : eventChan'[i].kind # "query"
      BY <1>1, <3>1
    <3> QED BY <1>1, <1>2, <2>1, <2>4, <3>2 DEF PutEvent, Typed
  <2>5. CASE ProcessNewView(g)
    <3>1. newView' \in Nat
      BY <2>5, DoingFacts DEF ProcessNewView
    <3> QED BY <1>1, <1>2, <2>1, <2>5, <3>1 DEF ProcessNewView, Typed
  <2>6. CASE Load(g) \/ Store(g) \/ SendStart(g) \/ Unlock(g) \/ CheckView(g) \/ Reply(g)
    BY <1>1, <1>2, <2>1, <2>6 DEF Load, Store, SendStart, Unlock, CheckView, Reply, Typed
  <2> QED BY <1>3, <2>2, <2>3, <2>4, <2>5, <2>6 DEF Step
<1>4. CASE TakeEvent
  <2>1. PICK z \in Seq(Op) : Shape("loop", z) /\ work' = [work EXCEPT !["loop"] = z]
    BY <1>4, TakeEventWork
  <2>2. "loop" \in Goroutine /\ eventChan # <<>> /\ eventChan' = Tail(eventChan)
    BY <1>4 DEF Goroutine, TakeEvent
  <2>3. /\ eventChan' \in Seq(EventType)
        /\ \A i \in 1..Len(eventChan') : eventChan'[i].kind # "query"
    BY <1>1, <2>2
  <2> QED BY <1>1, <1>2, <1>4, <2>1, <2>2, <2>3 DEF TakeEvent, Typed
<1>5. CASE TakeView
  <2> DEFINE e == Event("view", Head(pm.newViewChan), Self)
  <2>1. "local" \in Goroutine /\ pm.newViewChan # <<>> /\ pm.newViewChan \in Seq(Nat)
    BY <1>1, <1>5 DEF Goroutine, TakeView, PacemakerState
  <2>2. Head(pm.newViewChan) \in Nat /\ Tail(pm.newViewChan) \in Seq(Nat)
    BY <2>1
  <2>3. e \in EventType /\ e.kind = "view"
    BY <2>2, GoroutinesAssumption DEF Event, EventType
  <2>4. work' = [work EXCEPT !["local"] = <<Do("put", e)>>] /\ pm' = [pm EXCEPT !.newViewChan = Tail(@)]
    BY <1>5 DEF TakeView, Starts
  <2> HIDE DEF e
  <2>5. <<Do("put", e)>> \in Seq(Op) /\ Shape("local", <<Do("put", e)>>)
    <3>1. Do("put", e) \in Op /\ Do("put", e).do = "put" /\ Do("put", e).e = e
      BY <2>3, OpFacts
    <3> QED BY <2>1, <2>3, <3>1, SingleShape
  <2>6. pm' \in PacemakerState
    BY <1>1, <2>2, <2>4 DEF PacemakerState
  <2> QED BY <1>1, <1>2, <1>5, <2>1, <2>4, <2>5, <2>6 DEF TakeView, Typed
<1>6. CASE TimerFires
  <2> DEFINE e == Event("tmo", pm.curView, Self)
             d == [e EXCEPT !.view = @ + 1]
  <2>1. "local" \in Goroutine /\ pm.curView \in Nat
    BY <1>1 DEF Goroutine, PacemakerState
  <2>2. e \in EventType /\ d \in EventType
    BY <2>1, GoroutinesAssumption DEF Event, EventType
  <2>3. work' = [work EXCEPT !["local"] = <<Do("advance", e), Do("tmo", d)>>]
    BY <1>6 DEF TimerFires, Starts
  <2> HIDE DEF e, d
  <2>4. Shape("local", <<Do("tmo", d)>>)
    BY <2>1, <2>2, OpFacts, SingleShape
  <2>5. /\ <<Do("advance", e), Do("tmo", d)>> \in Seq(Op)
        /\ Shape("local", <<Do("advance", e), Do("tmo", d)>>)
    BY <2>1, <2>2, <2>4, OpFacts, PairShape
  <2> QED BY <1>1, <1>2, <1>6, <2>1, <2>3, <2>5 DEF TimerFires, Typed
<1>7. ASSUME NEW kind \in {"block", "tmo"}, NEW view \in 1..MaxView,
             NEW q \in Replica \ {Self}, Receive(kind, view, q)
      PROVE  Typed' /\ WorkInv'
  <2> DEFINE e == Event(kind, view, q)
  <2>1. "handle" \in Goroutine /\ e \in EventType /\ e.kind = kind
    BY GoroutinesAssumption DEF Goroutine, Event, EventType
  <2>2. work' = [work EXCEPT !["handle"] = (IF kind = "block" THEN <<>> ELSE <<Do("check", e)>>)
                                             \o <<Do("put", e)>>]
    BY <1>7 DEF Receive, Starts
  <2> HIDE DEF e
  <2>3. <<Do("put", e)>> \in Seq(Op) /\ Shape("handle", <<Do("put", e)>>)
    BY <2>1, OpFacts, SingleShape
  <2>4. CASE kind = "block"
    <3>1. <<>> \o <<Do("put", e)>> = <<Do("put", e)>>
      OBVIOUS
    <3>2. work' = [work EXCEPT !["handle"] = <<Do("put", e)>>]
      BY <2>2, <2>4, <3>1
    <3> QED BY <1>1, <1>2, <1>7, <2>1, <2>3, <3>2 DEF Receive, Typed
  <2>5. CASE kind # "block"
    <3>1. <<Do("check", e)>> \o <<Do("put", e)>> = <<Do("check", e), Do("put", e)>>
      BY <2>1, OpFacts, TwoOps
    <3>2. work' = [work EXCEPT !["handle"] = <<Do("check", e), Do("put", e)>>]
      BY <2>2, <2>5, <3>1
    <3>3. /\ <<Do("check", e), Do("put", e)>> \in Seq(Op)
          /\ Shape("handle", <<Do("check", e), Do("put", e)>>)
      BY <2>1, <2>3, OpFacts, PairShape
    <3> QED BY <1>1, <1>2, <1>7, <2>1, <3>2, <3>3 DEF Receive, Typed
  <2> QED BY <2>4, <2>5
<1>8. CASE Query
  <2> DEFINE e == Event("query", 0, Self)
  <2>1. "txn" \in Goroutine /\ e \in EventType
    BY GoroutinesAssumption DEF Goroutine, Event, EventType
  <2>2. work' = [work EXCEPT !["txn"] = <<Do("load", e), Do("reply", e)>>]
    BY <1>8 DEF Query, Starts
  <2> HIDE DEF e
  <2>3. Shape("txn", <<Do("reply", e)>>)
    BY <2>1, OpFacts, SingleShape
  <2>4. /\ <<Do("load", e), Do("reply", e)>> \in Seq(Op)
        /\ Shape("txn", <<Do("load", e), Do("reply", e)>>)
    BY <2>1, <2>3, OpFacts, PairShape
  <2> QED BY <1>1, <1>2, <1>8, <2>1, <2>2, <2>4 DEF Query, Typed
<1> QED BY <1>3, <1>4, <1>5, <1>6, <1>7, <1>8 DEF Next


\* The views of one or two operations.
LEMMA FewViews ==
  ASSUME NEW what
  PROVE  /\ ViewsOf(<<>>, what) = {}
         /\ \A a \in Op : ViewsOf(<<a>>, what) = IF a.do = what THEN {a.e.view} ELSE {}
         /\ \A a, b \in Op : a.do # what =>
              ViewsOf(<<a, b>>, what) = IF b.do = what THEN {b.e.view} ELSE {}
<1>1. ViewsOf(<<>>, what) = {}
  BY DEF ViewsOf
<1>2. ASSUME NEW a \in Op
      PROVE  ViewsOf(<<a>>, what) = IF a.do = what THEN {a.e.view} ELSE {}
  <2> DEFINE z == <<a>>
  <2>1. z[1] = a /\ \A i : i \in 1..Len(z) <=> i = 1
    OBVIOUS
  <2> HIDE DEF z
  <2>2. ViewsOf(z, what) = IF a.do = what THEN {a.e.view} ELSE {}
    BY <2>1 DEF ViewsOf
  <2> QED BY <2>2 DEF z
<1>3. ASSUME NEW a \in Op, NEW b \in Op, a.do # what
      PROVE  ViewsOf(<<a, b>>, what) = IF b.do = what THEN {b.e.view} ELSE {}
  <2> DEFINE z == <<a, b>>
  <2>1. z[1] = a /\ z[2] = b /\ \A i : i \in 1..Len(z) <=> (i = 1 \/ i = 2)
    OBVIOUS
  <2> HIDE DEF z
  <2>2. ViewsOf(z, what) = IF b.do = what THEN {b.e.view} ELSE {}
    BY <1>3, <2>1 DEF ViewsOf
  <2> QED BY <2>2 DEF z
<1> QED BY <1>1, <1>2, <1>3

\* A goroutine that has one operation to do has no other.
LEMMA LastOp ==
  ASSUME NEW w \in Seq(Op), Len(w) = 1
  PROVE  \A what : /\ ViewsOf(w, what) = IF w[1].do = what THEN {w[1].e.view} ELSE {}
                   /\ ViewsOf(<<>> \o Tail(w), what) = {}
<1>1. \A i : i \in 1..Len(w) <=> i = 1
  OBVIOUS
<1>2. Len(<<>> \o Tail(w)) = 0
  OBVIOUS
<1> TAKE what
<1>3. ViewsOf(w, what) = IF w[1].do = what THEN {w[1].e.view} ELSE {}
  BY <1>1 DEF ViewsOf
<1>4. ViewsOf(<<>> \o Tail(w), what) = {}
  <2> DEFINE z == <<>> \o Tail(w)
  <2> HIDE DEF z
  <2>1. 1..Len(z) = {}
    BY <1>2 DEF z
  <2>2. ViewsOf(z, what) = {}
    BY <2>1 DEF ViewsOf
  <2> QED BY <2>2 DEF z
<1> QED BY <1>3, <1>4

\* The event loop processes its view last.
LEMMA ProcessFacts ==
  ASSUME Typed, WorkInv, NEW g \in Goroutine, ProcessNewView(g)
  PROVE  /\ g = "loop" /\ LoopViews = {For(g).view} /\ newView' = For(g).view
         /\ LoopViews' = {} /\ LocalViews' = LocalViews
<1>1. Doing(g, "view") /\ Then(g, <<>>) /\ newView' = For(g).view /\ Shape(g, work[g])
  BY DEF ProcessNewView, WorkInv
<1>2. /\ work[g] \in Seq(Op) /\ Len(work[g]) \in Nat \ {0} /\ work[g][1].do = "view"
      /\ For(g) = work[g][1].e
  BY <1>1, DoingFacts
<1>3. g = "loop" /\ Len(work[g]) = 1
  <2>1. 1 \in 1..Len(work[g])
    BY <1>2
  <2> QED BY <1>1, <1>2, <2>1 DEF Shape
<1>4. ViewsOf(work[g], "view") = {For(g).view} /\ ViewsOf(<<>> \o Tail(work[g]), "view") = {}
  BY <1>2, <1>3, LastOp
<1>5. work'["loop"] = <<>> \o Tail(work["loop"]) /\ work'["local"] = work["local"]
  BY <1>1, <1>3 DEF Then, Typed, Goroutine
<1> QED BY <1>1, <1>3, <1>4, <1>5 DEF LoopViews, LocalViews

\* Every step keeps the views ascending.
LEMMA FlowNext ==
  ASSUME Typed, WorkInv, FlowInv, Next
  PROVE  FlowInv'
<1>1. /\ "loop" \in Goroutine /\ "local" \in Goroutine
      /\ DOMAIN work = Goroutine /\ pm \in PacemakerState
  BY DEF Goroutine, Typed
<1>2. ASSUME newView' = newView, eventChan' = eventChan, pm'.newViewChan = pm.newViewChan,
             pm'.curView = pm.curView, LoopViews' \subseteq LoopViews,
             LocalViews' \subseteq LocalViews
      PROVE  FlowInv'
  BY <1>2, FlowLess DEF FlowInv
<1>3. ASSUME NEW g \in Goroutine, Step(g)
      PROVE  FlowInv'
  <2>1. PICK z : Continues(g, z)
    BY <1>3, StepWork
  <2>2. LoopViews' \subseteq LoopViews /\ LocalViews' \subseteq LocalViews
    <3>1. ASSUME NEW h \in {"loop", "local"}, NEW what \in {"view", "put"}
          PROVE  ViewsOf(work'[h], what) \subseteq ViewsOf(work[h], what)
      <4>1. CASE h = g
        BY <1>1, <2>1, <4>1 DEF Continues
      <4>2. CASE h # g
        BY <1>1, <2>1, <4>2 DEF Continues
      <4> QED BY <4>1, <4>2
    <3> QED BY <3>1 DEF LoopViews, LocalViews
  <2>3. Flow(newView, LoopViews', eventChan, LocalViews', pm.newViewChan, pm.curView)
    BY <2>2, FlowLess DEF FlowInv
  <2>4. CASE LockAndAdvance(g)
    <3>1. /\ Doing(g, "advance") /\ pm' = AdvanceView(pm, For(g).view)
          /\ newView' = newView /\ eventChan' = eventChan
      BY <2>4 DEF LockAndAdvance
    <3>2. For(g).view \in Nat
      BY <3>1, DoingFacts
    <3>3. CASE pm' = pm
      BY <1>2, <2>2, <3>1, <3>3
    <3>4. CASE /\ For(g).view + 1 > pm.curView /\ pm'.curView = For(g).view + 1
               /\ pm'.newViewChan = Append(pm.newViewChan, For(g).view + 1)
      <4>1. Flow(newView, LoopViews', eventChan, LocalViews', pm'.newViewChan, pm'.curView)
        BY <2>3, <3>2, <3>4, FlowAdvance
      <4> QED BY <3>1, <4>1 DEF FlowInv
    <3> QED BY <1>1, <3>1, <3>2, <3>3, <3>4, AdvanceFacts
  <2>5. CASE AddTimeout(g)
    <3>1. /\ Doing(g, "tmo") /\ pm' = AcceptTmo(pm, For(g).view, For(g).from).state
          /\ newView' = newView /\ eventChan' = eventChan
      BY <2>5 DEF AddTimeout
    <3>2. For(g).view \in Nat /\ For(g).from \in Replica
      BY <3>1, DoingFacts
    <3>3. pm'.newViewChan = pm.newViewChan /\ pm'.curView = pm.curView
      BY <1>1, <3>1, <3>2, AcceptFacts
    <3> QED BY <1>2, <2>2, <3>1, <3>3
  <2>6. CASE PutEvent(g)
    <3>1. /\ Doing(g, "put") /\ Then(g, <<>>) /\ eventChan' = Append(eventChan, For(g))
          /\ newView' = newView /\ pm' = pm
      BY <2>6 DEF PutEvent
    <3>2. /\ For(g) \in EventType /\ work[g] \in Seq(Op) /\ For(g) = work[g][1].e
          /\ work[g][1].do = "put"
      BY <3>1, DoingFacts
    <3>3. CASE For(g).kind # "view"
      <4>1. Flow(newView, LoopViews', eventChan', LocalViews', pm.newViewChan, pm.curView)
        BY <2>3, <3>1, <3>2, <3>3, FlowPutOther
      <4> QED BY <3>1, <4>1 DEF FlowInv
    <3>4. CASE For(g).kind = "view"
      <4>1. g = "local" /\ Len(work[g]) = 1
        BY <2>6, <3>4, PutFacts
      <4>2. LocalViews = {For(g).view} /\ ViewsOf(<<>> \o Tail(work[g]), "put") = {}
        BY <3>2, <4>1, LastOp DEF LocalViews
      <4>3. work'["local"] = <<>> \o Tail(work["local"])
        BY <1>1, <3>1, <4>1 DEF Then
      <4>4. LocalViews' = {}
        BY <4>1, <4>2, <4>3 DEF LocalViews
      <4>5. Flow(newView, LoopViews', eventChan, {For(g).view}, pm.newViewChan, pm.curView)
        BY <2>2, <4>2, FlowLess DEF FlowInv
      <4>6. Flow(newView, LoopViews', eventChan', {}, pm.newViewChan, pm.curView)
        BY <3>1, <3>2, <3>4, <4>5, FlowPutView
      <4> QED BY <3>1, <4>4, <4>6 DEF FlowInv
    <3> QED BY <3>3, <3>4
  <2>7. CASE ProcessNewView(g)
    <3>1. /\ LoopViews = {For(g).view} /\ newView' = For(g).view
          /\ LoopViews' = {} /\ LocalViews' = LocalViews
      BY <2>7, ProcessFacts
    <3>2. eventChan' = eventChan /\ pm' = pm
      BY <2>7 DEF ProcessNewView
    <3>3. Flow(newView', {}, eventChan, LocalViews, pm.newViewChan, pm.curView)
      BY <3>1, FlowProcess DEF FlowInv
    <3> QED BY <3>1, <3>2, <3>3 DEF FlowInv
  <2>8. CASE Load(g) \/ Store(g) \/ SendStart(g) \/ Unlock(g) \/ CheckView(g) \/ Reply(g)
    <3>1. newView' = newView /\ eventChan' = eventChan /\ pm' = pm
      BY <2>8 DEF Load, Store, SendStart, Unlock, CheckView, Reply
    <3> QED BY <1>2, <2>2, <3>1
  <2> QED BY <1>3, <2>4, <2>5, <2>6, <2>7, <2>8 DEF Step
<1>4. CASE TakeEvent
  <2> DEFINE e == Head(eventChan)
             M == IF e.kind = "view" THEN {e.view} ELSE {}
  <2>1. PICK what \in {"advance", "tmo", "view"} :
          /\ what = "view" <=> e.kind = "view"
          /\ work' = [work EXCEPT !["loop"] = <<Do("load", e), Do(what, e)>>]
    BY <1>4, TakeEventWork
  <2>2. /\ work["loop"] = <<>> /\ eventChan # <<>> /\ eventChan' = Tail(eventChan)
        /\ newView' = newView /\ pm' = pm /\ eventChan \in Seq(EventType)
    BY <1>4 DEF TakeEvent, Starts, Idle, Typed
  <2>3. e \in EventType
    BY <2>2
  <2> HIDE DEF e
  <2>4. /\ Do("load", e) \in Op /\ Do("load", e).do = "load"
        /\ Do(what, e) \in Op /\ Do(what, e).do = what /\ Do(what, e).e = e
    BY <2>3, OpFacts
  <2>5. ViewsOf(<<Do("load", e), Do(what, e)>>, "view") = M
    <3> DEFINE a == Do("load", e)
               b == Do(what, e)
    <3> HIDE DEF a, b
    <3>1. a \in Op /\ b \in Op /\ a.do # "view" /\ b.do = what /\ b.e = e
      BY <2>4 DEF a, b
    <3>2. ViewsOf(<<a, b>>, "view") = IF b.do = "view" THEN {b.e.view} ELSE {}
      BY <3>1, FewViews
    <3>3. ViewsOf(<<a, b>>, "view") = M
      BY <2>1, <3>1, <3>2
    <3> QED BY <3>3 DEF a, b
  <2>6. LoopViews = {} /\ LoopViews' = M /\ LocalViews' = LocalViews
    BY <1>1, <2>1, <2>2, <2>5, FewViews DEF LoopViews, LocalViews
  <2>7. Flow(newView, M, Tail(eventChan), LocalViews, pm.newViewChan, pm.curView)
    BY <2>2, <2>6, FlowTakeEvent DEF FlowInv, e
  <2> QED BY <2>2, <2>6, <2>7 DEF FlowInv
<1>5. CASE TakeView
  <2> DEFINE q == pm.newViewChan
             e == Event("view", Head(q), Self)
  <2>1. /\ work["local"] = <<>> /\ q # <<>> /\ q \in Seq(Nat)
        /\ work' = [work EXCEPT !["local"] = <<Do("put", e)>>]
        /\ pm' = [pm EXCEPT !.newViewChan = Tail(@)]
        /\ newView' = newView /\ eventChan' = eventChan
    BY <1>1, <1>5 DEF TakeView, Starts, Idle, PacemakerState
  <2>2. e \in EventType /\ e.view = Head(q)
    BY <2>1, GoroutinesAssumption DEF Event, EventType
  <2>3. pm'.newViewChan = Tail(q) /\ pm'.curView = pm.curView
    BY <1>1, <2>1 DEF PacemakerState
  <2> HIDE DEF e
  <2>4. Do("put", e) \in Op /\ Do("put", e).do = "put" /\ Do("put", e).e = e
    BY <2>2, OpFacts
  <2>5. ViewsOf(<<Do("put", e)>>, "put") = {Head(q)}
    BY <2>2, <2>4, FewViews
  <2>6. LocalViews = {} /\ LocalViews' = {Head(q)} /\ LoopViews' = LoopViews
    BY <1>1, <2>1, <2>5, FewViews DEF LoopViews, LocalViews
  <2>7. Flow(newView, LoopViews, eventChan, {Head(q)}, Tail(q), pm.curView)
    BY <2>1, <2>6, FlowTakeView DEF FlowInv
  <2> QED BY <2>1, <2>3, <2>6, <2>7 DEF FlowInv
<1>6. CASE TimerFires
  <2> DEFINE e == Event("tmo", pm.curView, Self)
             d == [e EXCEPT !.view = @ + 1]
  <2>1. /\ work' = [work EXCEPT !["local"] = <<Do("advance", e), Do("tmo", d)>>]
        /\ newView' = newView /\ eventChan' = eventChan /\ pm' = pm
    BY <1>6 DEF TimerFires, Starts
  <2>2. e \in EventType /\ d \in EventType
    BY <1>1, GoroutinesAssumption DEF Event, EventType, PacemakerState
  <2> HIDE DEF e, d
  <2>3. /\ Do("advance", e) \in Op /\ Do("advance", e).do = "advance"
        /\ Do("tmo", d) \in Op /\ Do("tmo", d).do = "tmo"
    BY <2>2, OpFacts
  <2>4. ViewsOf(<<Do("advance", e), Do("tmo", d)>>, "put") = {}
    BY <2>3, FewViews
  <2>5. LocalViews' = {} /\ LoopViews' = LoopViews
    BY <1>1, <2>1, <2>4 DEF LoopViews, LocalViews
  <2> QED BY <1>2, <2>1, <2>5
<1>7. CASE Query \/ \E kind \in {"block", "tmo"}, view \in 1..MaxView, q \in Replica \ {Self} :
                      Receive(kind, view, q)
  <2>1. /\ work'["loop"] = work["loop"] /\ work'["local"] = work["local"]
        /\ newView' = newView /\ eventChan' = eventChan /\ pm' = pm
    BY <1>1, <1>7 DEF Query, Receive, Starts
  <2> QED BY <1>2, <2>1 DEF LoopViews, LocalViews
<1> QED BY <1>3, <1>4, <1>5, <1>6, <1>7 DEF Next


\* A quorum of timeouts stays one when more are added.
LEMMA TimeoutsGrow ==
  ASSUME NEW s, NEW t, s.timeouts \subseteq t.timeouts, NEW view,
         superMajority(Timeouts(s, view))
  PROVE  superMajority(Timeouts(t, view))
<1> DEFINE A == Timeouts(s, view)
           B == Timeouts(t, view)
<1>1. A \subseteq B /\ B \subseteq 1..N
  BY DEF Timeouts, Replica
<1>2. N \in Nat
  BY NAssumption
<1>3. IsFiniteSet(1..N)
  BY <1>2, FS_Interval
<1>4. IsFiniteSet(B)
  BY <1>1, <1>3, FS_Subset
<1>5. IsFiniteSet(A) /\ Cardinality(A) <= Cardinality(B)
  BY <1>1, <1>4, FS_Subset
<1>6. Cardinality(A) \in Nat /\ Cardinality(B) \in Nat
  BY <1>4, <1>5, FS_CardinalityType
<1>7. (N * 2) \div 3 \in Nat /\ Cardinality(A) > (N * 2) \div 3
  BY <1>2 DEF superMajority
<1> HIDE DEF A, B
<1>8. Cardinality(B) > (N * 2) \div 3
  BY <1>5, <1>6, <1>7
<1> QED BY <1>8 DEF superMajority, B

\* Every step keeps the certificates apart.
LEMMA CertNext ==
  ASSUME Typed, CertInv, Next
  PROVE  CertInv'
<1>1. pm \in PacemakerState /\ certs \in Seq(Nat) /\ Len(certs) \in Nat
  BY DEF Typed
<1>2. ASSUME certs' = certs, pm.timeouts \subseteq pm'.timeouts
      PROVE  CertInv'
  <2>1. \A i \in 1..Len(certs) : superMajority(Timeouts(pm', certs[i]))
    BY <1>2, TimeoutsGrow DEF CertInv
  <2> QED BY <1>2, <2>1 DEF CertInv, OneCertificate, superMajority, Timeouts
<1>3. ASSUME NEW g \in Goroutine, AddTimeout(g)
      PROVE  CertInv'
  <2> DEFINE a == AcceptTmo(pm, For(g).view, For(g).from)
             v == For(g).view
  <2>1. /\ Doing(g, "tmo") /\ pm' = a.state
        /\ certs' = IF a.isBuilt THEN Append(certs, a.tc) ELSE certs
    BY <1>3 DEF AddTimeout
  <2>2. v \in Nat /\ For(g).from \in Replica
    BY <2>1, DoingFacts
  <2>3. /\ pm.timeouts \subseteq a.state.timeouts /\ a.isBuilt \in BOOLEAN
        /\ a.isBuilt => /\ a.tc = v
                        /\ superMajority(Timeouts(a.state, v))
                        /\ ~superMajority(Timeouts(pm, v))
    BY <1>1, <2>2, AcceptFacts
  <2> HIDE DEF a, v
  <2>4. CASE ~a.isBuilt
    BY <1>2, <2>1, <2>3, <2>4
  <2>5. CASE a.isBuilt
    <3>1. certs' = Append(certs, v)
      BY <2>1, <2>3, <2>5
    <3>2. /\ Len(certs') = Len(certs) + 1 /\ certs'[Len(certs) + 1] = v
          /\ \A i \in 1..Len(certs) : certs'[i] = certs[i]
          /\ DOMAIN certs' = 1..Len(certs') /\ DOMAIN certs = 1..Len(certs)
      BY <1>1, <2>2, <3>1
    <3>3. \A i \in 1..Len(certs) : certs[i] # v
      BY <2>3, <2>5 DEF CertInv
    <3>4. \A i \in 1..Len(certs') : i \in 1..Len(certs) \/ i = Len(certs) + 1
      BY <1>1, <3>2
    <3>5. \A i \in 1..Len(certs') : superMajority(Timeouts(pm', certs'[i]))
      <4> TAKE i \in 1..Len(certs')
      <4>1. CASE i \in 1..Len(certs)
        BY <2>1, <2>3, <3>2, <4>1, TimeoutsGrow DEF CertInv
      <4>2. CASE i = Len(certs) + 1
        BY <2>1, <2>3, <2>5, <3>2, <4>2
      <4> QED BY <3>4, <4>1, <4>2
    <3>6. OneCertificate'
      <4> SUFFICES ASSUME NEW i \in 1..Len(certs'), NEW j \in 1..Len(certs'), i # j
                   PROVE  certs'[i] # certs'[j]
        BY <3>2 DEF OneCertificate
      <4> QED BY <3>2, <3>3, <3>4 DEF CertInv, OneCertificate
    <3> QED BY <3>5, <3>6 DEF CertInv, superMajority, Timeouts
  <2> QED BY <2>3, <2>4, <2>5
<1>4. ASSUME NEW g \in Goroutine, LockAndAdvance(g)
      PROVE  CertInv'
  <2>1. Doing(g, "advance") /\ pm' = AdvanceView(pm, For(g).view) /\ certs' = certs
    BY <1>4 DEF LockAndAdvance
  <2>2. pm'.timeouts = pm.timeouts
    BY <1>1, <2>1, DoingFacts, AdvanceFacts
  <2> QED BY <1>2, <2>1, <2>2
<1>5. CASE TakeView
  <2>1. pm'.timeouts = pm.timeouts /\ certs' = certs
    BY <1>1, <1>5 DEF TakeView, PacemakerState
  <2> QED BY <1>2, <2>1
<1>6. CASE pm' = pm /\ certs' = certs
  BY <1>2, <1>6
<1>7. ASSUME NEW g \in Goroutine, Step(g)
      PROVE  CertInv'
  <2>1. AddTimeout(g) \/ LockAndAdvance(g) \/ (pm' = pm /\ certs' = certs)
    BY <1>7 DEF Step, Load, Store, SendStart, Unlock, CheckView, PutEvent, ProcessNewView, Reply
  <2> QED BY <1>3, <1>4, <1>6, <2>1
<1> QED BY <1>5, <1>6, <1>7 DEF Next, TakeEvent, TimerFires, Receive, Query


\* Every step keeps the start signal in order.
LEMMA StartNext ==
  ASSUME Typed, WorkInv, StartInv, Next
  PROVE  StartInv'
<1>1. /\ DOMAIN work = Goroutine /\ isStarted \in BOOLEAN /\ listening \in BOOLEAN
      /\ \A g \in Goroutine : work[g] \in Seq(Op)
      /\ {"loop", "local", "handle", "txn"} \subseteq Goroutine
  BY DEF Typed, Goroutine
<1>2. ASSUME isStarted' = isStarted, listening' = listening,
             \A h \in Goroutine : work'[h] = work[h] \/ ~Starting(h)'
      PROVE  StartInv'
  <2>1. \A h \in Goroutine : Starting(h)' => Starting(h) /\ work'[h] = work[h]
    BY <1>2 DEF Starting
  <2> QED BY <1>1, <1>2, <2>1 DEF StartInv
<1>3. ASSUME NEW g \in Goroutine, Step(g)
      PROVE  StartInv'
  <2>1. PICK z : Continues(g, z)
    BY <1>3, StepWork
  <2>2. work'[g] = z /\ \A h \in Goroutine \ {g} : work'[h] = work[h]
    BY <1>1, <2>1 DEF Continues
  <2>3. \A h \in Goroutine \ {g} : Starting(h)' <=> Starting(h)
    BY <2>2 DEF Starting
  <2>4. CASE Load(g) /\ ~isStarted /\ z[1].do = "store"
    <3>1. isStarted' = isStarted /\ listening' = listening
      BY <2>4 DEF Load
    <3> QED BY <1>1, <2>2, <2>3, <2>4, <3>1 DEF StartInv
  <2>5. CASE Starting(g)' => Starting(g)
    <3>1. \A h \in Goroutine : Starting(h)' => Starting(h)
      BY <2>3, <2>5
    <3>2. CASE Store(g)
      <4>1. isStarted' = TRUE /\ listening' = listening
        BY <3>2 DEF Store
      <4> QED BY <1>1, <3>1, <4>1 DEF StartInv
    <3>3. CASE SendStart(g)
      <4>1. isStarted' = isStarted /\ listening' = TRUE /\ Doing(g, "send") /\ Then(g, <<>>)
        BY <3>3 DEF SendStart
      <4>2. /\ work[g] # <<>> /\ work[g][1].do = "send" /\ Shape(g, work[g])
            /\ Len(work[g]) \in Nat \ {0}
        BY <4>1, DoingFacts DEF WorkInv
      <4>3. 1 \in 1..Len(work[g]) /\ Starting(g)
        <5>1. 1 \in 1..Len(work[g])
          BY <4>2
        <5> QED BY <4>2, <5>1 DEF Starting, ViewsOf
      <4>4. isStarted /\ g \in {"loop", "txn"}
        BY <4>2, <4>3 DEF StartInv, Shape
      <4>5. ~Starting(g)'
        <5> DEFINE y == <<>> \o Tail(work[g])
        <5>1. y = z
          BY <1>1, <2>2, <4>1 DEF Then
        <5>2. /\ Len(y) = Len(work[g]) - 1
              /\ \A i \in 1..Len(y) : y[i] = work[g][i + 1] /\ i + 1 \in 2..Len(work[g])
          BY <1>1, <4>2
        <5> HIDE DEF y
        <5>3. ASSUME NEW i \in 1..Len(y) PROVE y[i].do # "send"
          <6> DEFINE j == i + 1
          <6>1. y[i] = work[g][j] /\ j \in 2..Len(work[g])
            BY <5>2
          <6> HIDE DEF j
          <6> QED BY <4>2, <6>1 DEF Shape, StartShape
        <5>4. ViewsOf(y, "send") = {}
          BY <5>3 DEF ViewsOf
        <5> QED BY <2>2, <5>1, <5>4 DEF Starting
      <4> QED BY <2>3, <4>1, <4>4, <4>5 DEF StartInv
    <3>4. CASE ~Store(g) /\ ~SendStart(g)
      <4>1. isStarted' = isStarted /\ listening' = listening
        BY <1>3, <3>4 DEF Step, Load, LockAndAdvance, Unlock, AddTimeout, CheckView,
                          PutEvent, ProcessNewView, Reply
      <4>2. Starting(g) => isStarted
        <5> SUFFICES ASSUME Starting(g), work[g][1].do = "store" PROVE FALSE
          BY DEF StartInv
        <5>1. work[g] # <<>> /\ Head(work[g]) = work[g][1]
          <6>1. PICK i \in 1..Len(work[g]) : TRUE
            BY DEF Starting, ViewsOf
          <6> QED BY <1>1, <6>1
        <5>2. \A what : Doing(g, what) => what = "store"
          BY <5>1 DEF Doing
        <5> QED BY <1>3, <3>4, <5>2 DEF Step, Load, LockAndAdvance, Unlock, AddTimeout,
                                       CheckView, PutEvent, ProcessNewView, Reply
      <4> QED BY <1>1, <2>2, <2>3, <3>1, <4>1, <4>2 DEF StartInv
    <3> QED BY <3>2, <3>3, <3>4
  <2>6. (Load(g) /\ ~isStarted /\ z[1].do = "store") \/ (Starting(g)' => Starting(g))
    BY <2>1, <2>2 DEF Continues, Starting
  <2> QED BY <2>4, <2>5, <2>6
<1>4. ASSUME NEW e \in EventType, NEW a \in Op, NEW b \in Op, a.do # "send", b.do # "send"
      PROVE  ViewsOf(<<a>>, "send") = {} /\ ViewsOf(<<a, b>>, "send") = {}
  BY <1>4, FewViews
<1>5. CASE TakeEvent
  <2> DEFINE e == Head(eventChan)
  <2>1. PICK what \in {"advance", "tmo", "view"} :
          work' = [work EXCEPT !["loop"] = <<Do("load", e), Do(what, e)>>]
    BY <1>5, TakeEventWork
  <2>2. e \in EventType
    BY <1>5 DEF Typed, TakeEvent
  <2> HIDE DEF e
  <2>3. ViewsOf(<<Do("load", e), Do(what, e)>>, "send") = {}
    BY ZenonT(40), <1>4, <2>2, OpFacts
  <2>4. work'["loop"] = <<Do("load", e), Do(what, e)>> /\ \A h \in Goroutine \ {"loop"} : work'[h] = work[h]
    BY <1>1, <2>1
  <2> QED BY <1>2, <1>5, <2>3, <2>4 DEF TakeEvent, Starting
<1>6. CASE TakeView
  <2> DEFINE e == Event("view", Head(pm.newViewChan), Self)
  <2>1. pm.newViewChan # <<>> /\ pm.newViewChan \in Seq(Nat)
    BY <1>6 DEF TakeView, Typed, PacemakerState
  <2>2. e \in EventType
    BY <2>1, GoroutinesAssumption DEF Event, EventType
  <2>3. work' = [work EXCEPT !["local"] = <<Do("put", e)>>]
    BY <1>6 DEF TakeView, Starts
  <2> HIDE DEF e
  <2>4. ViewsOf(<<Do("put", e)>>, "send") = {}
    BY <1>4, <2>2, OpFacts
  <2>5. work'["local"] = <<Do("put", e)>> /\ \A h \in Goroutine \ {"local"} : work'[h] = work[h]
    BY <1>1, <2>3
  <2> QED BY <1>2, <1>6, <2>4, <2>5 DEF TakeView, Starting
<1>7. CASE TimerFires
  <2> DEFINE e == Event("tmo", pm.curView, Self)
             d == [e EXCEPT !.view = @ + 1]
  <2>1. work' = [work EXCEPT !["local"] = <<Do("advance", e), Do("tmo", d)>>]
    BY <1>7 DEF TimerFires, Starts
  <2>2. e \in EventType /\ d \in EventType
    <3>1. pm.curView \in Nat
      BY DEF Typed, PacemakerState
    <3> QED BY <3>1, GoroutinesAssumption DEF Event, EventType
  <2> HIDE DEF e, d
  <2>3. ViewsOf(<<Do("advance", e), Do("tmo", d)>>, "send") = {}
    BY ZenonT(40), <1>4, <2>2, OpFacts
  <2>4. work'["local"] = <<Do("advance", e), Do("tmo", d)>> /\ \A h \in Goroutine \ {"local"} : work'[h] = work[h]
    BY <1>1, <2>1
  <2> QED BY <1>2, <1>7, <2>3, <2>4 DEF TimerFires, Starting
<1>8. ASSUME NEW kind \in {"block", "tmo"}, NEW view \in 1..MaxView,
             NEW q \in Replica \ {Self}, Receive(kind, view, q)
      PROVE  StartInv'
  <2>1. \A h \in Goroutine \ {"handle"} : work'[h] = work[h]
    BY <1>1, <1>8 DEF Receive, Starts
  <2>2. ~Starting("handle")'
    <3>1. Shape("handle", work'["handle"])
      BY <1>1, WorkNext DEF WorkInv
    <3> QED BY <3>1 DEF Shape, Starting, ViewsOf
  <2> QED BY <1>2, <1>8, <2>1, <2>2 DEF Receive
<1>9. CASE Query
  <2> DEFINE e == Event("query", 0, Self)
  <2>1. work' = [work EXCEPT !["txn"] = <<Do("load", e), Do("reply", e)>>]
    BY <1>9 DEF Query, Starts
  <2>2. e \in EventType
    BY GoroutinesAssumption DEF Event, EventType
  <2> HIDE DEF e
  <2>3. ViewsOf(<<Do("load", e), Do("reply", e)>>, "send") = {}
    BY <1>4, <2>2, OpFacts
  <2>4. work'["txn"] = <<Do("load", e), Do("reply", e)>> /\ \A h \in Goroutine \ {"txn"} : work'[h] = work[h]
    BY <1>1, <2>1
  <2> QED BY <1>2, <1>9, <2>3, <2>4 DEF Query, Starting
<1> QED BY <1>3, <1>5, <1>6, <1>7, <1>8, <1>9 DEF Next

-----------------------------------------------------------------------------
(* Theorems. *)

\* The invariant holds in every state.
THEOREM GInvariance == Spec => []GInv
<1>1. GInv /\ [Next]_vars => GInv'
  <2> SUFFICES ASSUME GInv, [Next]_vars PROVE GInv'
    OBVIOUS
  <2>1. CASE Next
    BY <2>1, WorkNext, FlowNext, CertNext, StartNext DEF GInv
  <2>2. CASE UNCHANGED vars
    BY <2>2 DEF vars, GInv, Typed, WorkInv, FlowInv, LoopViews, LocalViews, CertInv,
                OneCertificate, StartInv, Starting
  <2> QED BY <2>1, <2>2
<1> QED BY <1>1, GInit, PTL DEF Spec

\* AddTmo builds at most one certificate for a view.
THEOREM CertificatesAreUnique == Spec => []OneCertificate
<1>1. GInv => OneCertificate
  BY DEF GInv, CertInv
<1> QED BY <1>1, GInvariance, PTL

\* At most one goroutine is lost in startSignal: the one that sent the signal
\* had set isStarted, and that was false when the two that may be lost read it.
THEOREM AtMostOneStartIsLost == Spec => []OneStartLost
<1>1. GInv => OneStartLost
  <2> SUFFICES ASSUME GInv, StartLost("loop"), StartLost("txn") PROVE FALSE
    BY DEF OneStartLost
  <2>1. ASSUME NEW g \in {"loop", "txn"} PROVE Starting(g)
    <3>1. g \in Goroutine /\ Doing(g, "send") /\ Typed
      BY DEF Goroutine, StartLost, GInv
    <3>2. Len(work[g]) \in Nat \ {0} /\ work[g][1].do = "send"
      BY <3>1, DoingFacts
    <3>3. 1 \in 1..Len(work[g])
      BY <3>2
    <3> QED BY <3>2, <3>3 DEF Starting, ViewsOf
  <2> QED BY <2>1 DEF GInv, StartInv, StartLost
<1> QED BY <1>1, GInvariance, PTL

\* The event loop processes ascending views: on their way through newViewChan
\* and eventChan they keep the order in which the pacemaker entered them.
THEOREM ProcessedViewsAscend == Spec => ViewsAscend
<1>1. GInv => [ProcessNewView("loop") => newView' > newView]_vars
  <2> SUFFICES ASSUME GInv, ProcessNewView("loop") PROVE newView' > newView
    OBVIOUS
  <2>1. /\ LoopViews = {For("loop").view} /\ newView' = For("loop").view
    BY ProcessFacts DEF GInv, Goroutine
  <2>2. newView < For("loop").view /\ newView \in Nat /\ For("loop").view \in Nat
    BY <2>1 DEF GInv, FlowInv, Flow, Below
  <2> QED BY <2>1, <2>2
<1> QED BY <1>1, GInvariance, PTL DEF ViewsAscend
=============================================================================
