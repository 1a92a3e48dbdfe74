----------------------------- MODULE Transport ------------------------------
(***************************************************************************)
(* socket/socket.go and the tcp part of transport/transport.go: how        *)
(* messages get from one node to another, what happens when two goroutines *)
(* of a node dial the same peer, and what when a node goes down.           *)
(*                                                                         *)
(* A sender is a goroutine of a node with the peer it sends to; it dials   *)
(* that peer at most once, so that the sender also names the transport it  *)
(* has made.  The channel send of a transport and the stream of its        *)
(* connection are one queue.  Every peer has an address.                   *)
(***************************************************************************)
EXTENDS Naturals, Sequences, SequencesExt

CONSTANTS Node,
          Sender,      \* records [node, g, to]
          Silent,      \* the nodes run with isByz
          Attempts,    \* how often Retry dials: 100 in the code
          MaxSends,    \* bound: the messages of each sender
          MayCrash     \* bound: the nodes that may crash by themselves

ASSUME TransportAssumption ==
  /\ \A s \in Sender : s.node \in Node /\ s.to \in Node \ {s.node}
  /\ Silent \subseteq Node
  /\ Attempts \in Nat \ {0}
  /\ MaxSends \in [Sender -> Nat]
  /\ MayCrash \subseteq Node

\* The event loop and ListenLocalEvent are the goroutines that send.
ASSUME TwoSenders ==
  \A s, t, u \in Sender :
    s.node = t.node /\ t.node = u.node /\ s.to = t.to /\ t.to = u.to =>
      s = t \/ t = u \/ s = u

VARIABLES
  status,  \* of a node: "off" (does not listen yet), "up" or "down"
  nodes,   \* nodes[n][p]: the transport of n to p, if any (a set)
  pc,      \* pc[s]: where in socket.Send a sender is
  tries,   \* tries[s]: the failed attempts to dial
  via,     \* via[s]: the transport Send has found or made (a set)
  count,   \* count[s]: the messages s has sent
  queue,   \* queue[t]: the messages on the way on transport t
  open,    \* the transports that have a connection
  recv     \* recv[n]: history: what n has received

vars == <<status, nodes, pc, tries, via, count, queue, open, recv>>

Init ==
  /\ status = [n \in Node |-> "off"]
  /\ nodes = [n \in Node |-> [p \in Node |-> {}]]
  /\ pc = [s \in Sender |-> "idle"]
  /\ tries = [s \in Sender |-> 0]
  /\ via = [s \in Sender |-> {}]
  /\ count = [s \in Sender |-> 0]
  /\ queue = [s \in Sender |-> <<>>]
  /\ open = {}
  /\ recv = [n \in Node |-> <<>>]

-----------------------------------------------------------------------------
(* A node. *)

\* NewSocket: the transport of the node itself listens.
Listen(n) ==
  /\ status[n] = "off"
  /\ status' = [status EXCEPT ![n] = "up"]
  /\ UNCHANGED <<nodes, pc, tries, via, count, queue, open, recv>>

\* The process ends.
GoesDown(n) == status' = [status EXCEPT ![n] = "down"]

Crash(n) ==
  /\ n \in MayCrash
  /\ status[n] = "up"
  /\ GoesDown(n)
  /\ UNCHANGED <<nodes, pc, tries, via, count, queue, open, recv>>

-----------------------------------------------------------------------------
(* socket.Send, up to the channel of the transport. *)

\* The node looks for a transport, under the lock.
Lookup(s) ==
  /\ status[s.node] = "up"
  /\ pc[s] = "idle"
  /\ count[s] < MaxSends[s]
  /\ via' = [via EXCEPT ![s] = nodes[s.node][s.to]]
  /\ pc' = [pc EXCEPT ![s] = IF via'[s] = {} THEN "dial" ELSE "send"]
  /\ UNCHANGED <<status, nodes, tries, count, queue, open, recv>>

\* Retry: one attempt to dial; the last failure is a panic.
Dial(s) ==
  /\ status[s.node] = "up"
  /\ pc[s] = "dial"
  /\ IF status[s.to] = "up"
     THEN /\ open' = open \cup {s}
          /\ pc' = [pc EXCEPT ![s] = "store"]
          /\ UNCHANGED <<status, tries>>
     ELSE /\ tries' = [tries EXCEPT ![s] = @ + 1]
          /\ IF tries'[s] = Attempts THEN GoesDown(s.node) ELSE UNCHANGED status
          /\ UNCHANGED <<open, pc>>
  /\ UNCHANGED <<nodes, via, count, queue, recv>>

\* The new transport takes the place of one that another sender has made.
StoreTransport(s) ==
  /\ status[s.node] = "up"
  /\ pc[s] = "store"
  /\ nodes' = [nodes EXCEPT ![s.node][s.to] = {s}]
  /\ via' = [via EXCEPT ![s] = {s}]
  /\ pc' = [pc EXCEPT ![s] = "send"]
  /\ UNCHANGED <<status, tries, count, queue, open, recv>>

\* A silent node has dialled, but sends nothing.
Send(s) ==
  /\ status[s.node] = "up"
  /\ pc[s] = "send"
  /\ IF s.node \in Silent THEN UNCHANGED queue
     ELSE \E t \in via[s] : queue' = [queue EXCEPT ![t] = Append(@, <<s, count[s] + 1>>)]
  /\ count' = [count EXCEPT ![s] = @ + 1]
  /\ pc' = [pc EXCEPT ![s] = "idle"]
  /\ UNCHANGED <<status, nodes, tries, via, open, recv>>

-----------------------------------------------------------------------------
(* The goroutines of a connection. *)

\* Mutants: messages overtake each other; only the transport in use is read.
MutantDatagram(t) ==
  /\ status[t.to] = "up"
  /\ \E i \in DOMAIN queue[t] :
       /\ recv' = [recv EXCEPT ![t.to] = Append(@, queue[t][i])]
       /\ queue' = [queue EXCEPT ![t] = RemoveAt(@, i)]
  /\ UNCHANGED <<status, nodes, pc, tries, via, count, open>>
MutantReadInUse(t) ==
  /\ status[t.to] = "up"
  /\ queue[t] # <<>>
  /\ t \in nodes[t.node][t.to]
  /\ recv' = [recv EXCEPT ![t.to] = Append(@, Head(queue[t]))]
  /\ queue' = [queue EXCEPT ![t] = Tail(@)]
  /\ UNCHANGED <<status, nodes, pc, tries, via, count, open>>

\* Encode, then Decode: the message goes to the channel recv of the peer.
Read(t) ==
  /\ status[t.to] = "up"
  /\ queue[t] # <<>>
  /\ recv' = [recv EXCEPT ![t.to] = Append(@, Head(queue[t]))]
  /\ queue' = [queue EXCEPT ![t] = Tail(@)]
  /\ UNCHANGED <<status, nodes, pc, tries, via, count, open>>

\* Mutant: the reader returns.
MutantConnectionLost(t) ==
  /\ t \in open
  /\ status[t.node] = "down" /\ status[t.to] = "up"
  /\ open' = open \ {t}
  /\ UNCHANGED <<status, nodes, pc, tries, via, count, queue, recv>>

\* The node that dialled is down, and what it had not written is lost: Decode
\* returns an error, and the reader panics.
ConnectionLost(t) ==
  /\ t \in open
  /\ status[t.node] = "down" /\ status[t.to] = "up"
  /\ GoesDown(t.to)
  /\ UNCHANGED <<nodes, pc, tries, via, count, queue, open, recv>>

\* Encode fails, since the peer is down, and the error is logged.
EncodeFails(t) ==
  /\ status[t.node] = "up" /\ status[t.to] = "down"
  /\ queue[t] # <<>>
  /\ queue' = [queue EXCEPT ![t] = Tail(@)]
  /\ UNCHANGED <<status, nodes, pc, tries, via, count, open, recv>>

Steps(s) ==
  Lookup(s) \/ Dial(s) \/ StoreTransport(s) \/ Send(s)

Connection(t) == Read(t) \/ ConnectionLost(t) \/ EncodeFails(t)

Next ==
  \/ \E n \in Node : Listen(n) \/ Crash(n)
  \/ \E s \in Sender : Steps(s) \/ Connection(s)

Spec == Init /\ [][Next]_vars

\* The goroutines of a node that is up go on, connections deliver what was
\* written, and a connection that is lost is noticed.
FairSpec ==
  /\ Spec
  /\ \A s \in Sender : WF_vars(Steps(s)) /\ WF_vars(Connection(s))

-----------------------------------------------------------------------------
(* Properties. *)

\* The messages of s that have arrived: where in recv
FromSender(s) == {i \in DOMAIN recv[s.to] : recv[s.to][i][1] = s}

\* When two goroutines dial a peer at once there are two transports to it, and
\* later messages may overtake earlier ones; but a goroutine changes over at
\* most once, after k messages: those before and those after arrive in order.
OneChangeover ==
  \A s \in Sender : \E k \in 0..MaxSends[s] :
    \A i, j \in FromSender(s) :
      LET m == recv[s.to][i][2]
          n == recv[s.to][j][2]
      IN  i < j /\ (m <= k <=> n <= k) => m < n

\* What is sent arrives, also on the transport that another one has replaced,
\* unless one of the two nodes is down or the sender is silent.
EverythingArrives ==
  \A s \in {x \in Sender : x.node \notin Silent} : \A k \in 1..MaxSends[s] :
    (count[s] >= k) ~> (<<s, k>> \in Range(recv[s.to])
                         \/ status[s.node] = "down" \/ status[s.to] = "down")

\* A node that goes down, a silent one too, takes with it every node it has
\* dialled, since their readers panic.
CrashSpreads ==
  \A s \in Sender :
    (s \in open /\ status[s.node] = "down") ~> (status[s.to] = "down")
=============================================================================
