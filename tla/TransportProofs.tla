--------------------------- MODULE TransportProofs --------------------------
(***************************************************************************)
(* A goroutine changes over from one transport to another at most once,    *)
(* for any nodes, any number of messages, and any crashes.                 *)
(***************************************************************************)
EXTENDS Transport, SequenceTheorems, TLAPS

\* s and t are goroutines of one node that send to the same peer.
Peers(s) == {t \in Sender : t.node = s.node /\ t.to = s.to}

\* The transport in use
InUse(s) == nodes[s.node][s.to]

\* s is about to make a transport.
Making(s) == pc[s] \in {"dial", "store"}

NoneMaking(s) == \A t \in Peers(s) : ~Making(t)

\* Every variable holds a value of its kind.
Typed ==
  /\ nodes \in [Node -> [Node -> SUBSET Sender]]
  /\ pc \in [Sender -> {"idle", "dial", "store", "send"}]
  /\ via \in [Sender -> SUBSET Sender]
  /\ count \in [Sender -> Nat]
  /\ queue \in [Sender -> Seq(Sender \X (Nat \ {0}))]
  /\ recv \in [Node -> Seq(Sender \X (Nat \ {0}))]
  /\ \A s \in Sender : count[s] <= MaxSends[s] /\ (pc[s] # "idle" => count[s] < MaxSends[s])

\* A transport is used once it is made; whoever makes one has not sent yet; and
\* s uses another transport than the one stored only after the last was made.
UseInv ==
  \A s \in Sender :
    /\ InUse(s) = {} \/ \E x \in Peers(s) : InUse(s) = {x} /\ ~Making(x)
    /\ InUse(s) = {} => count[s] = 0 /\ pc[s] # "send"
    /\ Making(s) => count[s] = 0
    /\ pc[s] = "send" => \E x \in Peers(s) : via[s] = {x} /\ ~Making(x)
    /\ pc[s] = "send" /\ via[s] # InUse(s) => NoneMaking(s)

\* The messages of s up to k go over x, the others over y, and keep their order.
Ordered(s, k, x, y) ==
  /\ \A t \in Sender : \A i \in DOMAIN queue[t] : queue[t][i][1] = s =>
       /\ queue[t][i][2] <= count[s]
       /\ t = IF queue[t][i][2] <= k THEN x ELSE y
       /\ \A j \in DOMAIN queue[t] :
            i < j /\ queue[t][j][1] = s => queue[t][i][2] < queue[t][j][2]
       /\ \A j \in FromSender(s) :
            (recv[s.to][j][2] <= k <=> queue[t][i][2] <= k) =>
               recv[s.to][j][2] < queue[t][i][2]
  /\ \A i \in FromSender(s) : recv[s.to][i][2] <= count[s]
  /\ \A i, j \in FromSender(s) :
       i < j /\ (recv[s.to][i][2] <= k <=> recv[s.to][j][2] <= k) =>
         recv[s.to][i][2] < recv[s.to][j][2]

\* Before it changes over, s has sent over x only; afterwards it uses y, and
\* no transport will be made any more.
Phase(s, k, x, y) ==
  \/ /\ k = MaxSends[s]
     /\ count[s] > 0 =>
          /\ x \in Peers(s) /\ ~Making(x)
          /\ InUse(s) # {x} => NoneMaking(s)
          /\ pc[s] = "send" /\ via[s] # {x} => via[s] = InUse(s) /\ NoneMaking(s)
  \/ /\ k <= count[s] /\ count[s] > 0
     /\ InUse(s) = {y} /\ NoneMaking(s)
     /\ pc[s] = "send" => via[s] = {y}

RouteInv ==
  \A s \in Sender : \E k \in 0..MaxSends[s] : \E x, y \in Sender :
    Ordered(s, k, x, y) /\ Phase(s, k, x, y)

TInv == Typed /\ UseInv /\ RouteInv


-----------------------------------------------------------------------------

\* At the start no transport is in use and no message on its way.
LEMMA TInvInit == Init => TInv
<1> SUFFICES ASSUME Init PROVE TInv
  OBVIOUS
<1> USE TransportAssumption
<1>1. Typed
  BY DEF Init, Typed
<1>2. UseInv
  BY DEF Init, UseInv, InUse, Making
<1>3. RouteInv
  <2> SUFFICES ASSUME NEW s \in Sender
               PROVE  Ordered(s, MaxSends[s], s, s) /\ Phase(s, MaxSends[s], s, s)
    BY DEF RouteInv
  <2>1. \A t \in Sender : DOMAIN queue[t] = {}
    BY DEF Init
  <2>2. FromSender(s) = {}
    BY DEF Init, FromSender
  <2>3. count[s] = 0
    BY DEF Init
  <2> QED
    BY <2>1, <2>2, <2>3 DEF Ordered, Phase
<1> QED
  BY <1>1, <1>2, <1>3 DEF TInv

\* Goroutines of one node that send to one peer use one entry of sk.nodes.
LEMMA PeersShare ==
  ASSUME NEW s \in Sender, NEW t \in Peers(s)
  PROVE  t \in Sender /\ InUse(t) = InUse(s) /\ Peers(t) = Peers(s) /\ s \in Peers(t)
BY DEF Peers, InUse

\* At most two goroutines of a node send to one peer.
LEMMA PeersAreTwo ==
  ASSUME NEW s \in Sender, NEW t \in Peers(s), NEW u \in Peers(s), t # u
  PROVE  \A v \in Peers(s) : v = t \/ v = u
BY TwoSenders DEF Peers

\* Every step keeps the kinds of the variables.
LEMMA TypedNext == Typed /\ Next => Typed'
<1> SUFFICES ASSUME Typed, Next PROVE Typed'
  OBVIOUS
<1> USE TransportAssumption DEF Typed
<1>1. ASSUME NEW n \in Node, Listen(n) \/ Crash(n) PROVE Typed'
  BY <1>1 DEF Listen, Crash
<1>2. ASSUME NEW s \in Sender, Lookup(s) PROVE Typed'
  <2>1. nodes[s.node][s.to] \in SUBSET Sender
    OBVIOUS
  <2> QED
    BY <1>2, <2>1 DEF Lookup
<1>3. ASSUME NEW s \in Sender, Dial(s) PROVE Typed'
  BY <1>3 DEF Dial
<1>4. ASSUME NEW s \in Sender, StoreTransport(s) PROVE Typed'
  BY <1>4 DEF StoreTransport
<1>5. ASSUME NEW s \in Sender, Send(s) PROVE Typed'
  <2>1. queue' \in [Sender -> Seq(Sender \X (Nat \ {0}))]
    <3>1. CASE s.node \in Silent
      BY <1>5, <3>1 DEF Send
    <3>2. CASE s.node \notin Silent
      <4>1. PICK t \in via[s] : queue' = [queue EXCEPT ![t] = Append(@, <<s, count[s] + 1>>)]
        BY <1>5, <3>2 DEF Send
      <4>2. t \in Sender /\ queue[t] \in Seq(Sender \X (Nat \ {0}))
        OBVIOUS
      <4>3. <<s, count[s] + 1>> \in Sender \X (Nat \ {0})
        OBVIOUS
      <4>4. Append(queue[t], <<s, count[s] + 1>>) \in Seq(Sender \X (Nat \ {0}))
        BY <4>2, <4>3
      <4> QED
        BY <4>1, <4>2, <4>4
    <3> QED
      BY <3>1, <3>2
  <2>2. UNCHANGED <<nodes, via, recv>>
    BY <1>5 DEF Send
  <2>3. count[s] < MaxSends[s]
    BY <1>5 DEF Send
  <2>4. count' = [count EXCEPT ![s] = @ + 1] /\ pc' = [pc EXCEPT ![s] = "idle"]
    BY <1>5 DEF Send
  <2>5. count' \in [Sender -> Nat]
    BY <2>4
  <2>6. pc' \in [Sender -> {"idle", "dial", "store", "send"}]
    BY <2>4
  <2>7. \A u \in Sender :
          count'[u] <= MaxSends[u] /\ (pc'[u] # "idle" => count'[u] < MaxSends[u])
    BY <2>3, <2>4
  <2> QED
    BY <2>1, <2>2, <2>5, <2>6, <2>7
<1>6. ASSUME NEW t \in Sender, Read(t) PROVE Typed'
  <2>1. Head(queue[t]) \in Sender \X (Nat \ {0}) /\ Tail(queue[t]) \in Seq(Sender \X (Nat \ {0}))
    BY <1>6 DEF Read
  <2>2. Append(recv[t.to], Head(queue[t])) \in Seq(Sender \X (Nat \ {0}))
    BY SMTT(30), <2>1
  <2> QED
    BY <1>6, <2>1, <2>2 DEF Read
<1>7. ASSUME NEW t \in Sender, ConnectionLost(t) PROVE Typed'
  BY <1>7 DEF ConnectionLost
<1>8. ASSUME NEW t \in Sender, EncodeFails(t) PROVE Typed'
  <2>1. Tail(queue[t]) \in Seq(Sender \X (Nat \ {0}))
    BY <1>8 DEF EncodeFails
  <2> QED
    BY <1>8, <2>1 DEF EncodeFails
<1> QED
  BY <1>1, <1>2, <1>3, <1>4, <1>5, <1>6, <1>7, <1>8 DEF Next, Steps, Connection


-----------------------------------------------------------------------------
(* Which goroutines make transports, and which transport is in use. *)

\* What every step but Lookup and StoreTransport leaves alone
Quiet ==
  /\ nodes' = nodes
  /\ \A t \in Sender : Making(t)' = Making(t)
  /\ \A t \in Sender : pc'[t] = "send" => pc[t] = "send" /\ via'[t] = via[t]
  /\ \A t \in Sender : count'[t] # count[t] =>
       pc[t] = "send" /\ count'[t] = count[t] + 1

\* The steps that are quiet, and what Lookup and StoreTransport do
LEMMA QuietSteps ==
  ASSUME Typed
  PROVE  /\ \A n \in Node : Listen(n) \/ Crash(n) => Quiet
         /\ \A t \in Sender : Dial(t) \/ Send(t) \/ Connection(t) => Quiet
<1> USE DEF Typed, Quiet, Making
<1>1. ASSUME NEW n \in Node, Listen(n) \/ Crash(n) PROVE Quiet
  BY <1>1 DEF Listen, Crash
<1>2. ASSUME NEW t \in Sender, Dial(t) PROVE Quiet
  BY <1>2 DEF Dial
<1>3. ASSUME NEW t \in Sender, Send(t) PROVE Quiet
  BY <1>3 DEF Send
<1>4. ASSUME NEW t \in Sender, Connection(t) PROVE Quiet
  BY <1>4 DEF Connection, Read, ConnectionLost, EncodeFails
<1> QED
  BY <1>1, <1>2, <1>3, <1>4

\* While a transport is in use, a goroutine that looks it up uses it, and none
\* begins to make another one.
LEMMA LookupKeeps ==
  ASSUME Typed, NEW u \in Sender, Lookup(u)
  PROVE  /\ nodes' = nodes /\ count' = count
         /\ \A t \in Sender : InUse(t) # {} => (Making(t)' = Making(t))
         /\ \A t \in Sender : pc'[t] = "send" =>
              \/ InUse(t) # {} /\ via'[t] = InUse(t)
              \/ pc[t] = "send" /\ via'[t] = via[t]
         /\ \A t \in Sender : Making(t)' => Making(t) \/ InUse(t) = {}
<1> USE DEF Typed, Making, InUse, Lookup
<1>1. \A t \in Sender : t # u => pc'[t] = pc[t] /\ via'[t] = via[t]
  OBVIOUS
<1>2. pc[u] = "idle" /\ via'[u] = InUse(u) /\ pc'[u] = IF InUse(u) = {} THEN "dial" ELSE "send"
  OBVIOUS
<1> QED
  BY <1>1, <1>2

\* The goroutine that stores its transport has not sent, and the other one, if
\* there is another, does not make a transport once it uses one.
LEMMA StoreKeeps ==
  ASSUME Typed, UseInv, NEW u \in Sender, StoreTransport(u)
  PROVE  /\ count' = count /\ Making(u) /\ count[u] = 0 /\ ~Making(u)'
         /\ pc'[u] = "send" /\ via'[u] = {u}
         /\ \A t \in Sender : t # u =>
              pc'[t] = pc[t] /\ via'[t] = via[t] /\ (Making(t)' = Making(t))
         /\ \A t \in Peers(u) : InUse(t)' = {u}
         /\ \A t \in Sender : t \notin Peers(u) => InUse(t)' = InUse(t)
<1> USE TransportAssumption DEF Typed, Making, StoreTransport
<1>1. nodes' = [nodes EXCEPT ![u.node][u.to] = {u}]
  OBVIOUS
<1>2. \A t \in Peers(u) : InUse(t)' = {u}
  BY <1>1 DEF InUse, Peers
<1>3. \A t \in Sender : t \notin Peers(u) => InUse(t)' = InUse(t)
  BY <1>1 DEF InUse, Peers
<1>4. count[u] = 0
  BY DEF UseInv
<1> QED
  BY <1>2, <1>3, <1>4


\* Every step keeps UseInv.
LEMMA UseNext == Typed /\ UseInv /\ Next => UseInv'
<1> SUFFICES ASSUME Typed, UseInv, Next, NEW s \in Sender
             PROVE  /\ (InUse(s) = {} \/ \E x \in Peers(s) : InUse(s) = {x} /\ ~Making(x))'
                    /\ (InUse(s) = {} => count[s] = 0 /\ pc[s] # "send")'
                    /\ (Making(s) => count[s] = 0)'
                    /\ (pc[s] = "send" => \E x \in Peers(s) : via[s] = {x} /\ ~Making(x))'
                    /\ (pc[s] = "send" /\ via[s] # InUse(s) => NoneMaking(s))'
  BY DEF UseInv, Peers
<1> DEFINE Good == /\ (InUse(s) = {} \/ \E x \in Peers(s) : InUse(s) = {x} /\ ~Making(x))'
                   /\ (InUse(s) = {} => count[s] = 0 /\ pc[s] # "send")'
                   /\ (Making(s) => count[s] = 0)'
                   /\ (pc[s] = "send" => \E x \in Peers(s) : via[s] = {x} /\ ~Making(x))'
                   /\ (pc[s] = "send" /\ via[s] # InUse(s) => NoneMaking(s))'
<1>1. /\ InUse(s) = {} \/ \E x \in Peers(s) : InUse(s) = {x} /\ ~Making(x)
      /\ InUse(s) = {} => count[s] = 0 /\ pc[s] # "send"
      /\ Making(s) => count[s] = 0
      /\ pc[s] = "send" => \E x \in Peers(s) : via[s] = {x} /\ ~Making(x)
      /\ pc[s] = "send" /\ via[s] # InUse(s) => NoneMaking(s)
  BY DEF UseInv
<1>2. Peers(s) \subseteq Sender
  BY DEF Peers
<1>3. ASSUME Quiet PROVE Good
  <2>1. (InUse(s) = InUse(s)') /\ \A t \in Peers(s) : Making(t)' = Making(t)
    BY <1>2, <1>3 DEF Quiet, InUse
  <2>2. (NoneMaking(s)' <=> NoneMaking(s))
    BY <2>1 DEF NoneMaking, Peers
  <2>3. pc'[s] = "send" => pc[s] = "send" /\ via'[s] = via[s]
    BY <1>3 DEF Quiet
  <2>4. Making(s)' = Making(s) /\ (count'[s] # count[s] => pc[s] = "send")
    BY <1>3 DEF Quiet
  <2>5. pc[s] = "send" => ~Making(s)
    BY DEF Making
  <2>6. Peers(s)' = Peers(s)
    BY DEF Peers
  <2> QED
    BY <1>1, <2>1, <2>2, <2>3, <2>4, <2>5, <2>6
<1>4. ASSUME NEW u \in Sender, Lookup(u) PROVE Good
  <2>1. (InUse(s)' = InUse(s)) /\ count' = count /\ Peers(s)' = Peers(s)
    BY <1>4, LookupKeeps DEF InUse, Peers
  <2>2. \A t \in Peers(s) : InUse(s) # {} => (Making(t)' = Making(t))
    BY <1>4, <1>2, LookupKeeps, PeersShare
  <2>3. InUse(s) # {} => (NoneMaking(s)' <=> NoneMaking(s))
    BY <2>1, <2>2 DEF NoneMaking, Peers
  <2>4. pc'[s] = "send" => \/ InUse(s) # {} /\ via'[s] = InUse(s)
                           \/ pc[s] = "send" /\ via'[s] = via[s]
    BY <1>4, LookupKeeps
  <2>5. Making(s)' => Making(s) \/ InUse(s) = {}
    BY <1>4, LookupKeeps
  <2> QED
    BY <1>1, <2>1, <2>2, <2>3, <2>4, <2>5
<1>5. ASSUME NEW u \in Sender, StoreTransport(u) PROVE Good
  <2>1. /\ count' = count /\ Making(u) /\ count[u] = 0 /\ ~Making(u)'
        /\ pc'[u] = "send" /\ via'[u] = {u}
        /\ \A t \in Sender : t # u =>
             pc'[t] = pc[t] /\ via'[t] = via[t] /\ (Making(t)' = Making(t))
        /\ \A t \in Peers(u) : InUse(t)' = {u}
        /\ \A t \in Sender : t \notin Peers(u) => InUse(t)' = InUse(t)
    BY <1>5, StoreKeeps
  <2>2. Peers(s)' = Peers(s)
    BY DEF Peers
  <2>3. CASE s \notin Peers(u)
    <3>1. u \notin Peers(s) /\ s # u
      BY <2>3 DEF Peers
    <3>2. (NoneMaking(s)' <=> NoneMaking(s))
      BY <3>1, <2>1, <2>2, <1>2 DEF NoneMaking
    <3>3. \A t \in Peers(s) : Making(t)' = Making(t)
      BY <3>1, <2>1, <1>2
    <3> QED
      BY <1>1, <2>1, <2>2, <2>3, <3>1, <3>2, <3>3
  <2>4. CASE s \in Peers(u) /\ s = u
    BY <2>1, <2>2, <2>4 DEF Making
  <2>5. CASE s \in Peers(u) /\ s # u
    <3>1. InUse(s)' = {u} /\ u \in Peers(s)
      BY <2>1, <2>5, PeersShare
    <3>2. pc'[s] = pc[s] /\ via'[s] = via[s] /\ (Making(s)' = Making(s))
      BY <2>1, <2>5
    <3>3. ASSUME pc'[s] = "send", NEW x \in Peers(s), via[s] = {x}, ~Making(x)
          PROVE  ~Making(x)' /\ NoneMaking(s)'
      <4>1. x # u /\ ~Making(x)'
        BY <3>3, <2>1, <1>2
      <4>2. \A v \in Peers(s) : v = x \/ v = u
        BY <4>1, <3>1, PeersAreTwo
      <4> QED
        BY <4>1, <4>2, <2>1, <2>2 DEF NoneMaking
    <3> QED
      BY <1>1, <2>1, <2>2, <3>1, <3>2, <3>3
  <2> QED
    BY <2>3, <2>4, <2>5
<1> HIDE DEF Good
<1>6. Good
  BY <1>3, <1>4, <1>5, QuietSteps DEF Next, Steps
<1> QED
  BY <1>6 DEF Good


-----------------------------------------------------------------------------
(* Where a goroutine is with respect to its change of transports. *)

\* Every step but a send of s keeps the phase of s.
LEMMA PhaseKept ==
  ASSUME Typed, UseInv, Next, NEW s \in Sender, count'[s] = count[s],
         NEW k, NEW x, NEW y, Phase(s, k, x, y)
  PROVE  Phase(s, k, x, y)'
<1>1. /\ InUse(s) = {} => count[s] = 0
      /\ InUse(s) = {} \/ \E z \in Peers(s) : InUse(s) = {z}
      /\ Making(s) => count[s] = 0
  BY DEF UseInv
<1>2. Peers(s) \subseteq Sender /\ Peers(s)' = Peers(s)
  BY DEF Peers
<1>3. count[s] \in Nat
  BY DEF Typed
<1>4. \/ /\ k = MaxSends[s]
         /\ count[s] > 0 =>
              /\ x \in Peers(s) /\ ~Making(x)
              /\ InUse(s) # {x} => NoneMaking(s)
              /\ pc[s] = "send" /\ via[s] # {x} => via[s] = InUse(s) /\ NoneMaking(s)
      \/ /\ k <= count[s] /\ count[s] > 0
         /\ InUse(s) = {y} /\ NoneMaking(s)
         /\ pc[s] = "send" => via[s] = {y}
  BY DEF Phase
<1> DEFINE Kept ==
      \/ /\ k = MaxSends[s]
         /\ count[s] > 0 =>
              /\ x \in Peers(s) /\ ~Making(x)'
              /\ InUse(s)' # {x} => NoneMaking(s)'
              /\ pc'[s] = "send" /\ via'[s] # {x} => via'[s] = InUse(s)' /\ NoneMaking(s)'
      \/ /\ k <= count[s] /\ count[s] > 0
         /\ InUse(s)' = {y} /\ NoneMaking(s)'
         /\ pc'[s] = "send" => via'[s] = {y}
<1>5. ASSUME Quiet PROVE Kept
  <2>1. InUse(s)' = InUse(s) /\ \A t \in Peers(s) : Making(t)' = Making(t)
    BY <1>2, <1>5 DEF Quiet, InUse
  <2>2. (NoneMaking(s)' <=> NoneMaking(s))
    BY <1>2, <2>1 DEF NoneMaking
  <2>3. pc'[s] = "send" => pc[s] = "send" /\ via'[s] = via[s]
    BY <1>5 DEF Quiet
  <2> QED
    BY <1>4, <2>1, <2>2, <2>3
<1>6. ASSUME NEW u \in Sender, Lookup(u) PROVE Kept
  <2>1. InUse(s)' = InUse(s)
    BY <1>6, LookupKeeps DEF InUse
  <2>2. \A t \in Peers(s) : InUse(s) # {} => (Making(t)' = Making(t))
    BY <1>6, <1>2, LookupKeeps, PeersShare
  <2>3. InUse(s) # {} => (NoneMaking(s)' <=> NoneMaking(s))
    BY <1>2, <2>2 DEF NoneMaking
  <2>4. pc'[s] = "send" => \/ InUse(s) # {} /\ via'[s] = InUse(s)
                           \/ pc[s] = "send" /\ via'[s] = via[s]
    BY <1>6, LookupKeeps
  <2>5. count[s] > 0 => InUse(s) # {}
    BY <1>1, <1>3
  <2> QED
    BY <1>4, <2>1, <2>2, <2>3, <2>4, <2>5
<1>7. ASSUME NEW u \in Sender, StoreTransport(u) PROVE Kept
  <2>1. /\ Making(u) /\ count[u] = 0 /\ ~Making(u)'
        /\ \A t \in Sender : t # u =>
             pc'[t] = pc[t] /\ via'[t] = via[t] /\ (Making(t)' = Making(t))
        /\ \A t \in Peers(u) : InUse(t)' = {u}
        /\ \A t \in Sender : t \notin Peers(u) => InUse(t)' = InUse(t)
    BY <1>7, StoreKeeps
  <2>2. CASE s \notin Peers(u)
    <3>1. u \notin Peers(s) /\ s # u
      BY <2>2 DEF Peers
    <3>2. \A t \in Peers(s) : Making(t)' = Making(t)
      BY <3>1, <2>1, <1>2
    <3>3. (NoneMaking(s)' <=> NoneMaking(s))
      BY <3>2, <1>2 DEF NoneMaking
    <3> QED
      BY <1>4, <2>1, <2>2, <3>1, <3>2, <3>3
  <2>3. CASE s \in Peers(u) /\ count[s] = 0
    BY <1>4, <2>3
  <2>4. CASE s \in Peers(u) /\ count[s] > 0
    <3>1. u \in Peers(s) /\ s # u /\ InUse(s)' = {u}
      BY <2>1, <2>4, PeersShare
    <3>2. ~NoneMaking(s)
      BY <3>1, <2>1 DEF NoneMaking
    <3>3. /\ k = MaxSends[s] /\ x \in Peers(s) /\ ~Making(x)
          /\ pc[s] = "send" => via[s] = {x}
      BY <1>4, <2>4, <3>2
    <3>4. x # u /\ ~Making(x)'
      BY <3>3, <2>1, <1>2
    <3>5. \A v \in Peers(s) : v = x \/ v = u
      BY <3>1, <3>3, <3>4, PeersAreTwo
    <3>6. NoneMaking(s)'
      BY <3>4, <3>5, <2>1, <1>2 DEF NoneMaking
    <3>7. pc'[s] = pc[s] /\ via'[s] = via[s]
      BY <3>1, <2>1
    <3> QED
      BY <3>3, <3>4, <3>6, <3>7
  <2> QED
    BY <2>2, <2>3, <2>4, <1>3
<1> HIDE DEF Kept
<1>8. Kept
  BY <1>5, <1>6, <1>7, QuietSteps DEF Next, Steps
<1> QED
  BY <1>8, <1>2 DEF Kept, Phase


-----------------------------------------------------------------------------
(* The order of messages. *)

\* Queues and what was received are sequences of numbered messages.
LEMMA TypedSeqs ==
  ASSUME Typed
  PROVE  /\ \A t \in Sender : DOMAIN queue[t] \subseteq Nat
         /\ \A t \in Sender : \A i \in DOMAIN queue[t] : queue[t][i][2] \in Nat \ {0}
         /\ \A n \in Node : DOMAIN recv[n] \subseteq Nat
         /\ \A n \in Node : \A i \in DOMAIN recv[n] : recv[n][i][2] \in Nat \ {0}
<1>1. ASSUME NEW q \in Seq(Sender \X (Nat \ {0}))
      PROVE  DOMAIN q \subseteq Nat /\ \A i \in DOMAIN q : q[i][2] \in Nat \ {0}
  <2>1. DOMAIN q \subseteq Nat
    OBVIOUS
  <2>2. ASSUME NEW i \in DOMAIN q PROVE q[i][2] \in Nat \ {0}
    <3>1. q[i] \in Sender \X (Nat \ {0})
      OBVIOUS
    <3> QED
      BY <3>1
  <2> QED
    BY <2>1, <2>2
<1>2. \A t \in Sender : queue[t] \in Seq(Sender \X (Nat \ {0}))
  BY DEF Typed
<1>3. \A n \in Node : recv[n] \in Seq(Sender \X (Nat \ {0}))
  BY DEF Typed
<1> QED
  BY <1>1, <1>2, <1>3

\* The queue of t without its first message
LEMMA TailIndex ==
  ASSUME Typed, NEW t \in Sender, queue[t] # <<>>, queue' = [queue EXCEPT ![t] = Tail(@)]
  PROVE  /\ 1 \in DOMAIN queue[t] /\ Head(queue[t]) = queue[t][1]
         /\ \A v \in Sender : v # t => queue'[v] = queue[v]
         /\ \A i \in DOMAIN queue'[t] :
              i + 1 \in DOMAIN queue[t] /\ queue'[t][i] = queue[t][i + 1] /\ i >= 1
<1>1. queue[t] \in Seq(Sender \X (Nat \ {0})) /\ queue'[t] = Tail(queue[t])
  BY DEF Typed
<1>2. \A v \in Sender : v # t => queue'[v] = queue[v]
  BY DEF Typed
<1>3. ASSUME NEW S, NEW q \in Seq(S), q # <<>>
      PROVE  /\ 1 \in DOMAIN q /\ Head(q) = q[1]
             /\ \A i \in DOMAIN Tail(q) : i + 1 \in DOMAIN q /\ Tail(q)[i] = q[i + 1] /\ i >= 1
  <2>1. Len(q) \in Nat /\ Len(q) # 0 /\ DOMAIN q = 1..Len(q)
    BY <1>3, EmptySeq, LenProperties
  <2>2. Tail(q) \in Seq(S) /\ Len(Tail(q)) = Len(q) - 1
    BY <1>3, HeadTailProperties
  <2>3. DOMAIN Tail(q) = 1..Len(q) - 1
    BY <2>1, <2>2, LenProperties
  <2>4. \A i \in 1..Len(Tail(q)) : Tail(q)[i] = q[i + 1]
    BY <1>3, HeadTailProperties
  <2> QED
    BY <2>1, <2>2, <2>3, <2>4
<1>4. 1 \in DOMAIN queue[t] /\ Head(queue[t]) = queue[t][1]
  BY <1>1, <1>3
<1>5. \A i \in DOMAIN Tail(queue[t]) :
        i + 1 \in DOMAIN queue[t] /\ Tail(queue[t])[i] = queue[t][i + 1] /\ i >= 1
  BY <1>1, <1>3
<1> QED
  BY <1>1, <1>2, <1>4, <1>5

\* Message i of the queue of v, after the first one of t has left its queue
WaitsInOrder(s, k, x, y, t, v, i) ==
  /\ queue'[v][i][2] <= count[s]
  /\ v = IF queue'[v][i][2] <= k THEN x ELSE y
  /\ \A j \in DOMAIN queue'[v] :
       i < j /\ queue'[v][j][1] = s => queue'[v][i][2] < queue'[v][j][2]
  /\ \A j \in FromSender(s) :
       (recv[s.to][j][2] <= k <=> queue'[v][i][2] <= k) =>
          recv[s.to][j][2] < queue'[v][i][2]
  /\ queue[t][1][1] = s /\ (queue[t][1][2] <= k <=> queue'[v][i][2] <= k) =>
       queue[t][1][2] < queue'[v][i][2]

\* Messages that wait keep their order when the first one leaves the queue.
LEMMA OrderedQueue ==
  ASSUME Typed, Typed', NEW s \in Sender, NEW k \in Nat, NEW x, NEW y, Ordered(s, k, x, y),
         NEW t \in Sender, queue[t] # <<>>, queue' = [queue EXCEPT ![t] = Tail(@)],
         NEW v \in Sender, NEW i \in DOMAIN queue'[v], queue'[v][i][1] = s
  PROVE  WaitsInOrder(s, k, x, y, t, v, i)
<1> USE DEF WaitsInOrder
<1>1. /\ 1 \in DOMAIN queue[t]
      /\ \A w \in Sender : w # t => queue'[w] = queue[w]
      /\ \A j \in DOMAIN queue'[t] :
           j + 1 \in DOMAIN queue[t] /\ queue'[t][j] = queue[t][j + 1] /\ j >= 1
  BY TailIndex
<1>2. /\ DOMAIN queue'[v] \subseteq Nat
      /\ \A w \in Sender : DOMAIN queue[w] \subseteq Nat
      /\ \A w \in Sender : \A j \in DOMAIN queue[w] : queue[w][j][2] \in Nat
  <2>1. queue'[v] \in Seq(Sender \X (Nat \ {0}))
    BY DEF Typed
  <2> QED
    BY <2>1, TypedSeqs
<1>3. \A w \in Sender : \A n \in DOMAIN queue[w] : queue[w][n][1] = s =>
       /\ queue[w][n][2] <= count[s]
       /\ w = IF queue[w][n][2] <= k THEN x ELSE y
       /\ \A j \in DOMAIN queue[w] :
            n < j /\ queue[w][j][1] = s => queue[w][n][2] < queue[w][j][2]
       /\ \A j \in FromSender(s) :
            (recv[s.to][j][2] <= k <=> queue[w][n][2] <= k) =>
               recv[s.to][j][2] < queue[w][n][2]
  BY DEF Ordered
<1>4. CASE v = t
  <2>1. i + 1 \in DOMAIN queue[t] /\ queue'[t][i] = queue[t][i + 1] /\ 1 < i + 1
    BY <1>1, <1>2, <1>4
  <2>2. \A j \in DOMAIN queue'[v] : i < j => j + 1 \in DOMAIN queue[t] /\ queue'[t][j] = queue[t][j + 1] /\ i + 1 < j + 1
    BY <1>1, <1>2, <1>4
  <2> QED
    BY <1>1, <1>3, <1>4, <2>1, <2>2
<1>5. CASE v # t
  BY <1>1, <1>2, <1>3, <1>5
<1> QED
  BY <1>4, <1>5


\* A message that cannot be sent is dropped; the others keep their order.
LEMMA OrderedFails ==
  ASSUME Typed, Typed', NEW s \in Sender, NEW k \in Nat, NEW x, NEW y, Ordered(s, k, x, y),
         NEW t \in Sender, EncodeFails(t)
  PROVE  Ordered(s, k, x, y)'
<1>1. /\ queue[t] # <<>> /\ queue' = [queue EXCEPT ![t] = Tail(@)]
      /\ count' = count /\ recv' = recv
  BY DEF EncodeFails
<1>2. FromSender(s)' = FromSender(s)
  BY <1>1 DEF FromSender
<1>3. /\ \A i \in FromSender(s) : recv[s.to][i][2] <= count[s]
      /\ \A i, j \in FromSender(s) :
           i < j /\ (recv[s.to][i][2] <= k <=> recv[s.to][j][2] <= k) =>
             recv[s.to][i][2] < recv[s.to][j][2]
  BY DEF Ordered
<1>4. ASSUME NEW v \in Sender, NEW i \in DOMAIN queue'[v], queue'[v][i][1] = s
      PROVE
         /\ queue'[v][i][2] <= count[s]
         /\ v = IF queue'[v][i][2] <= k THEN x ELSE y
         /\ \A j \in DOMAIN queue'[v] :
              i < j /\ queue'[v][j][1] = s => queue'[v][i][2] < queue'[v][j][2]
         /\ \A j \in FromSender(s) :
              (recv[s.to][j][2] <= k <=> queue'[v][i][2] <= k) =>
                 recv[s.to][j][2] < queue'[v][i][2]
  <2>1. WaitsInOrder(s, k, x, y, t, v, i)
    BY <1>1, <1>4, OrderedQueue
  <2> QED
    BY <2>1 DEF WaitsInOrder
<1> QED
  BY <1>1, <1>2, <1>3, <1>4 DEF Ordered

\* A message that is read comes after those before it, and before the rest.
LEMMA OrderedRead ==
  ASSUME Typed, Typed', NEW s \in Sender, NEW k \in Nat, NEW x, NEW y, Ordered(s, k, x, y),
         NEW t \in Sender, Read(t)
  PROVE  Ordered(s, k, x, y)'
<1>1. /\ queue[t] # <<>> /\ queue' = [queue EXCEPT ![t] = Tail(@)]
      /\ count' = count /\ recv' = [recv EXCEPT ![t.to] = Append(@, Head(queue[t]))]
  BY DEF Read
<1> DEFINE h == queue[t][1]
           new == Len(recv[s.to]) + 1
<1>2. 1 \in DOMAIN queue[t] /\ Head(queue[t]) = h
  BY <1>1, TailIndex
<1>3. s.to \in Node /\ t.to \in Node /\ recv[s.to] \in Seq(Sender \X (Nat \ {0}))
  BY TransportAssumption DEF Typed
<1>4. /\ FromSender(s) \subseteq DOMAIN recv[s.to]
      /\ \A i \in FromSender(s) : i \in Nat /\ i < new /\ recv[s.to][i][1] = s
  BY <1>3 DEF FromSender
<1>5. /\ \A i \in FromSender(s) : recv'[s.to][i] = recv[s.to][i]
      /\ \A i \in FromSender(s)' :
           \/ i \in FromSender(s)
           \/ i = new /\ recv'[s.to][i] = h /\ h[1] = s
  <2>1. CASE t.to = s.to
    <3>1. recv'[s.to] = Append(recv[s.to], h)
      BY <1>1, <1>2, <1>3, <2>1 DEF Typed
    <3>2. h \in Sender \X (Nat \ {0})
      BY <1>2 DEF Typed
    <3>3. /\ DOMAIN recv'[s.to] = DOMAIN recv[s.to] \cup {new}
          /\ \A i \in DOMAIN recv[s.to] : recv'[s.to][i] = recv[s.to][i]
          /\ recv'[s.to][new] = h
      BY SMTT(30), <3>1, <3>2, <1>3
    <3> QED
      BY <3>3, <1>4 DEF FromSender
  <2>2. CASE t.to # s.to
    <3>1. recv'[s.to] = recv[s.to]
      BY <1>1, <1>3, <2>2 DEF Typed
    <3> QED
      BY <3>1 DEF FromSender
  <2> QED
    BY <2>1, <2>2
<1> HIDE DEF h, new
<1>6. /\ \A i \in FromSender(s) : recv[s.to][i][2] <= count[s]
      /\ \A i, j \in FromSender(s) :
           i < j /\ (recv[s.to][i][2] <= k <=> recv[s.to][j][2] <= k) =>
             recv[s.to][i][2] < recv[s.to][j][2]
  BY DEF Ordered
<1>7. h[1] = s =>
        /\ h[2] <= count[s]
        /\ \A j \in FromSender(s) :
             (recv[s.to][j][2] <= k <=> h[2] <= k) => recv[s.to][j][2] < h[2]
  BY <1>2 DEF Ordered, h
<1>8. \A i \in FromSender(s)' : recv'[s.to][i][2] <= count[s]
  BY <1>5, <1>6, <1>7
<1>9. ASSUME NEW i \in FromSender(s)', NEW j \in FromSender(s)', i < j,
             recv'[s.to][i][2] <= k <=> recv'[s.to][j][2] <= k
      PROVE  recv'[s.to][i][2] < recv'[s.to][j][2]
  <2>1. i \in FromSender(s)
    <3>1. new \in Nat
      BY <1>3 DEF new
    <3> QED
      BY <1>4, <1>5, <1>9, <3>1
  <2>2. CASE j \in FromSender(s)
    BY <1>5, <1>6, <1>9, <2>1, <2>2
  <2>3. CASE j = new /\ recv'[s.to][j] = h /\ h[1] = s
    BY <1>5, <1>7, <1>9, <2>1, <2>3
  <2> QED
    BY <1>5, <2>2, <2>3
<1>10. ASSUME NEW v \in Sender, NEW i \in DOMAIN queue'[v], queue'[v][i][1] = s
       PROVE  /\ queue'[v][i][2] <= count[s]
              /\ v = IF queue'[v][i][2] <= k THEN x ELSE y
              /\ \A j \in DOMAIN queue'[v] :
                   i < j /\ queue'[v][j][1] = s => queue'[v][i][2] < queue'[v][j][2]
              /\ \A j \in FromSender(s)' :
                   (recv'[s.to][j][2] <= k <=> queue'[v][i][2] <= k) =>
                      recv'[s.to][j][2] < queue'[v][i][2]
  <2>1. /\ queue'[v][i][2] <= count[s]
        /\ v = IF queue'[v][i][2] <= k THEN x ELSE y
        /\ \A j \in DOMAIN queue'[v] :
              i < j /\ queue'[v][j][1] = s => queue'[v][i][2] < queue'[v][j][2]
        /\ \A j \in FromSender(s) :
              (recv[s.to][j][2] <= k <=> queue'[v][i][2] <= k) =>
                 recv[s.to][j][2] < queue'[v][i][2]
        /\ h[1] = s /\ (h[2] <= k <=> queue'[v][i][2] <= k) => h[2] < queue'[v][i][2]
    <3>1. WaitsInOrder(s, k, x, y, t, v, i)
      BY <1>1, <1>10, OrderedQueue
    <3> QED
      BY <3>1 DEF WaitsInOrder, h
  <2>2. ASSUME NEW j \in FromSender(s)', recv'[s.to][j][2] <= k <=> queue'[v][i][2] <= k
        PROVE  recv'[s.to][j][2] < queue'[v][i][2]
    BY <1>5, <2>1, <2>2
  <2> QED
    BY <2>1, <2>2
<1> QED
  BY <1>1, <1>8, <1>9, <1>10 DEF Ordered


\* Message i of the queue of t is the one that u has just sent over z.
JustSent(u, z, t, i) ==
  /\ t = z
  /\ i = Len(queue[z]) + 1
  /\ queue'[t][i] = <<u, count[u] + 1>>
  /\ \A j \in DOMAIN queue'[t] : j <= i

\* What Send does to the queues
LEMMA SendIndex ==
  ASSUME Typed, NEW u \in Sender, Send(u), NEW z \in Sender, via[u] = {z}
  PROVE  \A t \in Sender : \A i \in DOMAIN queue'[t] :
           \/ i \in DOMAIN queue[t] /\ queue'[t][i] = queue[t][i]
           \/ JustSent(u, z, t, i)
<1>1. CASE u.node \in Silent
  BY <1>1 DEF Send
<1>2. CASE u.node \notin Silent
  <2> DEFINE m == <<u, count[u] + 1>>
  <2>1. queue' = [queue EXCEPT ![z] = Append(@, m)]
    BY <1>2 DEF Send
  <2>2. queue \in [Sender -> Seq(Sender \X (Nat \ {0}))] /\ m \in Sender \X (Nat \ {0})
    BY DEF Typed
  <2> HIDE DEF m
  <2>3. queue'[z] = Append(queue[z], m) /\ \A t \in Sender : t # z => queue'[t] = queue[t]
    BY <2>1, <2>2
  <2>4. /\ DOMAIN queue'[z] = 1..Len(queue[z]) + 1 /\ DOMAIN queue[z] = 1..Len(queue[z])
        /\ Len(queue[z]) \in Nat
        /\ \A i \in DOMAIN queue[z] : queue'[z][i] = queue[z][i]
        /\ queue'[z][Len(queue[z]) + 1] = m
    BY <2>2, <2>3
  <2>5. ASSUME NEW i \in DOMAIN queue'[z]
        PROVE  \/ i \in DOMAIN queue[z] /\ queue'[z][i] = queue[z][i]
               \/ JustSent(u, z, z, i)
    BY <2>4 DEF JustSent, m
  <2> QED
    BY <2>3, <2>5
<1> QED
  BY <1>1, <1>2

\* A message that is sent over the transport its number calls for comes last.
LEMMA OrderedSend ==
  ASSUME Typed, NEW u \in Sender, Send(u), NEW z \in Sender, via[u] = {z},
         NEW s \in Sender, NEW k \in Nat, NEW x, NEW y, Ordered(s, k, x, y),
         u = s => z = IF count[s] + 1 <= k THEN x ELSE y
  PROVE  Ordered(s, k, x, y)'
<1>1. recv' = recv /\ FromSender(s)' = FromSender(s)
  BY DEF Send, FromSender
<1>2. /\ count[s] \in Nat /\ count'[s] \in Nat /\ count'[s] >= count[s]
      /\ u = s => count'[s] = count[s] + 1
  BY DEF Typed, Send
<1>3. \A w \in Sender : \A n \in DOMAIN queue[w] : queue[w][n][1] = s =>
       /\ queue[w][n][2] <= count[s]
       /\ w = IF queue[w][n][2] <= k THEN x ELSE y
       /\ \A j \in DOMAIN queue[w] :
            n < j /\ queue[w][j][1] = s => queue[w][n][2] < queue[w][j][2]
       /\ \A j \in FromSender(s) :
            (recv[s.to][j][2] <= k <=> queue[w][n][2] <= k) =>
               recv[s.to][j][2] < queue[w][n][2]
  BY DEF Ordered
<1>4. /\ \A i \in FromSender(s) : recv[s.to][i][2] <= count[s]
      /\ \A i, j \in FromSender(s) :
           i < j /\ (recv[s.to][i][2] <= k <=> recv[s.to][j][2] <= k) =>
             recv[s.to][i][2] < recv[s.to][j][2]
  BY DEF Ordered
<1>5. /\ \A t \in Sender : DOMAIN queue[t] \subseteq Nat
      /\ \A t \in Sender : \A i \in DOMAIN queue[t] : queue[t][i][2] \in Nat
      /\ \A i \in FromSender(s) : recv[s.to][i][2] \in Nat
  BY TypedSeqs, TransportAssumption DEF FromSender
<1>6. ASSUME NEW v \in Sender, NEW i \in DOMAIN queue'[v], queue'[v][i][1] = s
      PROVE  /\ queue'[v][i][2] <= count'[s]
             /\ v = IF queue'[v][i][2] <= k THEN x ELSE y
             /\ \A j \in DOMAIN queue'[v] :
                  i < j /\ queue'[v][j][1] = s => queue'[v][i][2] < queue'[v][j][2]
             /\ \A j \in FromSender(s) :
                  (recv[s.to][j][2] <= k <=> queue'[v][i][2] <= k) =>
                     recv[s.to][j][2] < queue'[v][i][2]
  <2>1. CASE i \in DOMAIN queue[v] /\ queue'[v][i] = queue[v][i]
    <3>1. queue[v][i][2] <= count[s] /\ queue[v][i][2] \in Nat
      BY <1>3, <1>5, <1>6, <2>1
    <3>2. ASSUME NEW j \in DOMAIN queue'[v], i < j, queue'[v][j][1] = s
          PROVE  queue'[v][i][2] < queue'[v][j][2]
      <4>1. CASE j \in DOMAIN queue[v] /\ queue'[v][j] = queue[v][j]
        BY <1>3, <1>6, <2>1, <3>2, <4>1
      <4>2. CASE JustSent(u, z, v, j)
        BY <1>2, <2>1, <3>1, <3>2, <4>2 DEF JustSent
      <4> QED
        BY <4>1, <4>2, SendIndex
    <3> QED
      BY <1>2, <1>3, <1>6, <2>1, <3>1, <3>2
  <2>2. CASE JustSent(u, z, v, i)
    <3>1. u = s /\ queue'[v][i][2] = count[s] + 1 /\ v = z
      BY <1>6, <2>2 DEF JustSent
    <3>2. i = Len(queue[z]) + 1 /\ Len(queue[z]) \in Nat /\ \A j \in DOMAIN queue'[v] : j <= i
      BY <2>2 DEF JustSent, Typed
    <3>3. ASSUME NEW j \in DOMAIN queue'[v] PROVE ~(i < j)
      <4>1. j \in Nat
        BY <1>5, <3>2, SendIndex DEF JustSent
      <4> QED
        BY <3>2, <4>1
    <3> QED
      BY <1>2, <1>4, <1>5, <3>1, <3>3
  <2> QED
    BY <2>1, <2>2, SendIndex
<1>7. \A i \in FromSender(s) : recv[s.to][i][2] <= count'[s]
  BY <1>2, <1>4, <1>5
<1> QED
  BY <1>1, <1>4, <1>6, <1>7 DEF Ordered


\* As long as s has not changed over, any later k and transport fit what it has sent.
LEMMA OrderedSwitch ==
  ASSUME Typed, NEW s \in Sender, NEW x, NEW y, NEW z, Ordered(s, MaxSends[s], x, y)
  PROVE  Ordered(s, count[s], x, z)
<1>1. count[s] \in Nat /\ MaxSends[s] \in Nat /\ count[s] <= MaxSends[s]
  BY TransportAssumption DEF Typed
<1>2. /\ \A t \in Sender : \A i \in DOMAIN queue[t] : queue[t][i][2] \in Nat
      /\ \A i \in FromSender(s) : recv[s.to][i][2] \in Nat
  BY TypedSeqs, TransportAssumption DEF FromSender
<1>3. \A i \in FromSender(s) :
        recv[s.to][i][2] <= count[s] /\ recv[s.to][i][2] <= MaxSends[s]
  BY <1>1, <1>2 DEF Ordered
<1>4. \A i, j \in FromSender(s) : i < j => recv[s.to][i][2] < recv[s.to][j][2]
  BY <1>3 DEF Ordered
<1>5. ASSUME NEW t \in Sender, NEW i \in DOMAIN queue[t], queue[t][i][1] = s
      PROVE  /\ queue[t][i][2] <= count[s]
             /\ t = x
             /\ \A j \in DOMAIN queue[t] :
                  i < j /\ queue[t][j][1] = s => queue[t][i][2] < queue[t][j][2]
             /\ \A j \in FromSender(s) : recv[s.to][j][2] < queue[t][i][2]
  <2>1. queue[t][i][2] <= count[s] /\ queue[t][i][2] <= MaxSends[s]
    BY <1>1, <1>2, <1>5 DEF Ordered
  <2> QED
    BY <1>3, <1>5, <2>1 DEF Ordered
<1> QED
  BY <1>3, <1>4, <1>5 DEF Ordered

\* A goroutine that has sent nothing may still take any transport.
LEMMA OrderedFresh ==
  ASSUME Typed, NEW s \in Sender, count[s] = 0, NEW k, NEW x, NEW y, Ordered(s, k, x, y),
         NEW l, NEW z
  PROVE  Ordered(s, l, z, z)
<1>1. /\ \A t \in Sender : \A i \in DOMAIN queue[t] : queue[t][i][2] \in Nat \ {0}
      /\ \A i \in FromSender(s) : recv[s.to][i][2] \in Nat \ {0}
  BY TypedSeqs, TransportAssumption DEF FromSender
<1>2. \A t \in Sender : \A i \in DOMAIN queue[t] : queue[t][i][1] # s
  BY <1>1 DEF Ordered
<1>3. FromSender(s) = {}
  BY <1>1 DEF Ordered
<1> QED
  BY <1>2, <1>3 DEF Ordered

\* Every step keeps RouteInv.
LEMMA RouteNext == TInv /\ Next => RouteInv'
<1> SUFFICES ASSUME TInv, Next, NEW s \in Sender
             PROVE  \E k \in 0..MaxSends[s] : \E x, y \in Sender :
                      Ordered(s, k, x, y)' /\ Phase(s, k, x, y)'
  BY DEF RouteInv
<1>1. PICK k \in 0..MaxSends[s], x \in Sender, y \in Sender :
        Ordered(s, k, x, y) /\ Phase(s, k, x, y)
  BY DEF TInv, RouteInv
<1>2. Typed /\ UseInv /\ Typed' /\ UseInv' /\ k \in Nat /\ MaxSends[s] \in Nat
  BY TypedNext, UseNext, TransportAssumption DEF TInv
<1>3. ASSUME ~Send(s) PROVE count'[s] = count[s]
  BY ZenonT(40), <1>2, <1>3 DEF Next, Steps, Connection, Listen, Crash, Lookup, Dial, StoreTransport, Send,
       Read, ConnectionLost, EncodeFails, Typed
<1>4. ASSUME ~Send(s) PROVE Ordered(s, k, x, y)'
  <2>1. ASSUME queue' = queue, recv' = recv PROVE Ordered(s, k, x, y)'
    BY <1>1, <1>3, <1>4, <2>1 DEF Ordered, FromSender
  <2>2. ASSUME NEW n \in Node, Listen(n) \/ Crash(n) PROVE Ordered(s, k, x, y)'
    BY <2>1, <2>2 DEF Listen, Crash
  <2>3. ASSUME NEW u \in Sender, Lookup(u) \/ Dial(u) \/ StoreTransport(u) \/ ConnectionLost(u)
        PROVE  Ordered(s, k, x, y)'
    BY <2>1, <2>3 DEF Lookup, Dial, StoreTransport, ConnectionLost
  <2>4. ASSUME NEW u \in Sender, Read(u) PROVE Ordered(s, k, x, y)'
    BY <1>1, <1>2, <2>4, OrderedRead
  <2>5. ASSUME NEW u \in Sender, EncodeFails(u) PROVE Ordered(s, k, x, y)'
    BY <1>1, <1>2, <2>5, OrderedFails
  <2>6. ASSUME NEW u \in Sender, Send(u) PROVE Ordered(s, k, x, y)'
    <3>1. PICK z \in Sender : via[u] = {z}
      BY <1>2, <2>6 DEF UseInv, Send, Peers
    <3>2. u # s
      BY <1>4, <2>6
    <3> QED
      BY <1>1, <1>2, <2>6, <3>1, <3>2, OrderedSend
  <2> QED
    BY <2>2, <2>3, <2>4, <2>5, <2>6 DEF Next, Steps, Connection
<1>5. CASE ~Send(s)
  <2>1. Phase(s, k, x, y)'
    BY <1>1, <1>2, <1>3, <1>5, PhaseKept
  <2> QED
    BY <1>4, <1>5, <2>1
<1>6. CASE Send(s)
  <2>1. PICK z \in Peers(s) : via[s] = {z} /\ ~Making(z)
    BY <1>2, <1>6 DEF UseInv, Send
  <2>2. z \in Sender /\ Peers(s)' = Peers(s)
    BY DEF Peers
  <2>3. /\ count[s] \in Nat /\ count[s] < MaxSends[s] /\ count'[s] = count[s] + 1
        /\ pc[s] = "send" /\ pc'[s] = "idle" /\ InUse(s)' = InUse(s)
        /\ \A t \in Sender : Making(t)' = Making(t)
    BY <1>2, <1>6 DEF Send, Typed, InUse, Making
  <2>4. (NoneMaking(s)' <=> NoneMaking(s))
    BY <2>2, <2>3 DEF NoneMaking, Peers
  <2>5. via[s] # InUse(s) => NoneMaking(s)
    BY <1>2, <2>3 DEF UseInv
  <2>6. CASE count[s] = 0
    <3>1. Ordered(s, MaxSends[s], z, z)
      BY <1>1, <1>2, <2>6, OrderedFresh
    <3>2. Ordered(s, MaxSends[s], z, z)'
      BY <1>2, <1>6, <2>1, <2>2, <3>1, OrderedSend
    <3>3. Phase(s, MaxSends[s], z, z)'
      BY <2>1, <2>2, <2>3, <2>4, <2>5 DEF Phase
    <3> QED
      BY <1>2, <2>2, <3>2, <3>3
  <2>7. CASE count[s] > 0 /\ k = MaxSends[s] /\ z = x
    <3>1. Ordered(s, k, x, y)'
      BY <1>1, <1>2, <1>6, <2>1, <2>2, <2>3, <2>7, OrderedSend
    <3>2. Phase(s, k, x, y)'
      BY <2>1, <2>2, <2>3, <2>4, <2>5, <2>7 DEF Phase
    <3> QED
      BY <3>1, <3>2
  <2>8. CASE /\ count[s] > 0 /\ k = MaxSends[s] /\ z # x
             /\ via[s] = InUse(s) /\ NoneMaking(s)
    <3>1. PICK l \in Nat : l = count[s]
      BY <2>3
    <3>2. Ordered(s, l, x, z)
      BY <1>1, <1>2, <2>8, <3>1, OrderedSwitch
    <3>3. ~(count[s] + 1 <= l)
      BY <2>3, <3>1
    <3>4. Ordered(s, l, x, z)'
      BY <1>2, <1>6, <2>1, <2>2, <3>2, <3>3, OrderedSend
    <3>5. Phase(s, l, x, z)'
      BY <2>1, <2>3, <2>4, <2>8, <3>1 DEF Phase
    <3>6. l \in 0..MaxSends[s]
      BY <1>2, <2>3, <3>1
    <3> QED
      BY <2>2, <3>4, <3>5, <3>6
  <2>9. CASE /\ k <= count[s] /\ count[s] > 0
             /\ InUse(s) = {y} /\ NoneMaking(s) /\ via[s] = {y}
    <3>1. z = y /\ ~(count[s] + 1 <= k)
      BY <1>2, <2>1, <2>3, <2>9
    <3>2. Ordered(s, k, x, y)'
      BY <1>1, <1>2, <1>6, <2>1, <2>2, <3>1, OrderedSend
    <3>3. Phase(s, k, x, y)'
      BY <1>2, <2>3, <2>4, <2>9 DEF Phase
    <3> QED
      BY <3>2, <3>3
  <2> QED
    BY <1>1, <2>1, <2>3, <2>6, <2>7, <2>8, <2>9 DEF Phase
<1> QED
  BY <1>5, <1>6

\* TInv holds in every state that can be reached.
THEOREM TInvariance == Spec => []TInv
<1>1. TInv /\ [Next]_vars => TInv'
  <2>1. TInv /\ Next => TInv'
    BY TypedNext, UseNext, RouteNext DEF TInv
  <2>2. TInv /\ UNCHANGED vars => TInv'
    <3> SUFFICES ASSUME TInv, UNCHANGED vars PROVE TInv'
      OBVIOUS
    <3>1. Typed'
      BY DEF vars, TInv, Typed
    <3>2. UseInv'
      BY DEF vars, TInv, UseInv, Peers, InUse, Making, NoneMaking
    <3>3. ASSUME NEW s \in Sender, NEW k, NEW x, NEW y
          PROVE  (Ordered(s, k, x, y) => Ordered(s, k, x, y)')
                 /\ (Phase(s, k, x, y) => Phase(s, k, x, y)')
      BY DEF vars, Ordered, Phase, FromSender, Peers, InUse, Making, NoneMaking
    <3>4. RouteInv'
      BY <3>3 DEF TInv, RouteInv
    <3> QED
      BY <3>1, <3>2, <3>4 DEF TInv
  <2> QED
    BY <2>1, <2>2
<1> QED
  BY TInvInit, <1>1, PTL DEF Spec

\* Whatever two goroutines do at the same time in socket.Send, whichever nodes are
\* silent, crash or fail to be dialled: what a goroutine sends to a peer arrives in
\* order, except that it may change over to another connection, once.
THEOREM ChangesOverOnce == Spec => []OneChangeover
<1>1. TInv => OneChangeover
  BY DEF TInv, RouteInv, Ordered, OneChangeover
<1> QED
  BY TInvariance, <1>1, PTL
=============================================================================
