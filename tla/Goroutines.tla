----------------------------- MODULE Goroutines -----------------------------
(***************************************************************************)
(* The goroutines of one replica of replica/replica_view.go that runs      *)
(* HotStuff, with the channels and the mutex between them:                 *)
(*   loop    the event loop of Start                                       *)
(*   local   ListenLocalEvent: the start signal, new views and the timer   *)
(*   handle  node.handle: the messages of the peers                        *)
(*   txn     node.txn: the queries of clients                              *)
(* What they do to blocks is left out: a message is worth the certificate  *)
(* or the timeout it brings to the pacemaker.                              *)
(*                                                                         *)
(* work[g] holds the operations goroutine g has to do, one after the       *)
(* other, before it waits for something new.  A channel is a sequence.     *)
(* AdvanceView sends to newViewChan while it holds pm.mu: a view beyond    *)
(* the capacity stands for its blocked sender.                             *)
(***************************************************************************)
EXTENDS Pacemaker

CONSTANTS Self,      \* the replica
          EventCap,  \* the capacity of eventChan: 100 in the code
          ViewCap,   \* the capacity of newViewChan: 100 in the code
          MaxView    \* bound: the highest view messages and the timer name

ASSUME GoroutinesAssumption ==
  /\ Self \in Replica
  /\ EventCap \in Nat \ {0} /\ ViewCap \in Nat \ {0}
  /\ MaxView \in Nat

VARIABLES
  work,       \* work[g]: what goroutine g is about to do
  eventChan,
  pm,         \* the Pacemaker
  mu,         \* who holds pm.mu
  isStarted,
  listening,  \* ListenLocalEvent has received the start signal
  certs,      \* history: the views of the timeout certificates built
  newView     \* history: the last view the event loop has processed

vars == <<work, eventChan, pm, mu, isStarted, listening, certs, newView>>

Goroutine == {"loop", "local", "handle", "txn"}

Init ==
  /\ work = [g \in Goroutine |-> <<>>]
  /\ eventChan = <<>>
  /\ pm = NewPacemaker
  /\ mu = "free"
  /\ isStarted = FALSE
  /\ listening = FALSE
  /\ certs = <<>>
  /\ newView = 0

-----------------------------------------------------------------------------
(* Operations: what is done, and the event it is done for. *)

Event(kind, view, from) == [kind |-> kind, view |-> view, from |-> from]
Do(what, e) == [do |-> what, e |-> e]

Idle(g) == work[g] = <<>>
Doing(g, what) == ~Idle(g) /\ Head(work[g]).do = what
For(g) == Head(work[g]).e

\* g has done its first operation, and the ones in ops come next.
Then(g, ops) == work' = [work EXCEPT ![g] = ops \o Tail(@)]

\* Mutant: the goroutine stores and sends whatever it has loaded.
MutantLoad(g) ==
  /\ Doing(g, "load")
  /\ Then(g, <<Do("store", For(g)), Do("send", For(g))>>)
  /\ UNCHANGED <<eventChan, pm, mu, isStarted, listening, certs, newView>>

\* startSignal: isStarted is loaded, stored, and the signal is sent.
Load(g) ==
  /\ Doing(g, "load")
  /\ Then(g, IF isStarted THEN <<>> ELSE <<Do("store", For(g)), Do("send", For(g))>>)
  /\ UNCHANGED <<eventChan, pm, mu, isStarted, listening, certs, newView>>

\* Mutant: the signal is not sent.
MutantStore(g) ==
  /\ Doing(g, "store")
  /\ isStarted' = TRUE
  /\ work' = [work EXCEPT ![g] = Tail(Tail(@))]
  /\ UNCHANGED <<eventChan, pm, mu, listening, certs, newView>>

Store(g) ==
  /\ Doing(g, "store")
  /\ isStarted' = TRUE
  /\ Then(g, <<>>)
  /\ UNCHANGED <<eventChan, pm, mu, listening, certs, newView>>

\* start has no buffer: the signal is sent when ListenLocalEvent takes it.
SendStart(g) ==
  /\ Doing(g, "send")
  /\ ~listening
  /\ listening' = TRUE
  /\ Then(g, <<>>)
  /\ UNCHANGED <<eventChan, pm, mu, isStarted, certs, newView>>

\* Mutant: the early return leaves the mutex locked.
MutantLockAndAdvance(g) ==
  /\ Doing(g, "advance")
  /\ mu = "free"
  /\ mu' = g
  /\ pm' = AdvanceView(pm, For(g).view)
  /\ Then(g, IF pm' = pm THEN <<>> ELSE <<Do("unlock", For(g))>>)
  /\ UNCHANGED <<eventChan, isStarted, listening, certs, newView>>

\* AdvanceView
LockAndAdvance(g) ==
  /\ Doing(g, "advance")
  /\ mu = "free"
  /\ mu' = g
  /\ pm' = AdvanceView(pm, For(g).view)
  /\ Then(g, <<Do("unlock", For(g))>>)
  /\ UNCHANGED <<eventChan, isStarted, listening, certs, newView>>

Unlock(g) ==
  /\ Doing(g, "unlock")
  /\ Len(pm.newViewChan) <= ViewCap
  /\ mu' = "free"
  /\ Then(g, <<>>)
  /\ UNCHANGED <<eventChan, pm, isStarted, listening, certs, newView>>

\* ProcessRemoteTmo, and processTC if a certificate is built
AddTimeout(g) ==
  LET added == AcceptTmo(pm, For(g).view, For(g).from)
  IN  /\ Doing(g, "tmo")
      /\ pm' = added.state
      /\ certs' = IF added.isBuilt THEN Append(certs, added.tc) ELSE certs
      /\ Then(g, IF added.isBuilt THEN <<Do("advance", For(g))>> ELSE <<>>)
      /\ UNCHANGED <<eventChan, mu, isStarted, listening, newView>>

\* GetCurView, by which HandleVote and HandleTmo drop what is stale
CheckView(g) ==
  /\ Doing(g, "check")
  /\ mu = "free"
  /\ IF For(g).view < pm.curView THEN work' = [work EXCEPT ![g] = <<>>] ELSE Then(g, <<>>)
  /\ UNCHANGED <<eventChan, pm, mu, isStarted, listening, certs, newView>>

PutEvent(g) ==
  /\ Doing(g, "put")
  /\ Len(eventChan) < EventCap
  /\ eventChan' = Append(eventChan, For(g))
  /\ Then(g, <<>>)
  /\ UNCHANGED <<pm, mu, isStarted, listening, certs, newView>>

\* processNewView, whose proposal is left out
ProcessNewView(g) ==
  /\ Doing(g, "view")
  /\ newView' = For(g).view
  /\ Then(g, <<>>)
  /\ UNCHANGED <<eventChan, pm, mu, isStarted, listening, certs>>

\* The client gets its answer.
Reply(g) ==
  /\ Doing(g, "reply")
  /\ Then(g, <<>>)
  /\ UNCHANGED <<eventChan, pm, mu, isStarted, listening, certs, newView>>

Step(g) ==
  \/ Load(g) \/ Store(g) \/ SendStart(g)
  \/ LockAndAdvance(g) \/ Unlock(g) \/ AddTimeout(g)
  \/ CheckView(g) \/ PutEvent(g) \/ ProcessNewView(g) \/ Reply(g)

-----------------------------------------------------------------------------
(* What the goroutines wait for. *)

Starts(g, ops) == Idle(g) /\ work' = [work EXCEPT ![g] = ops]

\* A block brings a certificate, which advances the view; so may a vote.
Handling(e) ==
  CASE e.kind = "block" -> <<Do("advance", e)>>
    [] e.kind = "tmo"   -> <<Do("tmo", e)>>
    [] e.kind = "view"  -> <<Do("view", e)>>

\* The event loop takes an event.
TakeEvent ==
  /\ eventChan # <<>>
  /\ Starts("loop", <<Do("load", Head(eventChan))>> \o Handling(Head(eventChan)))
  /\ eventChan' = Tail(eventChan)
  /\ UNCHANGED <<pm, mu, isStarted, listening, certs, newView>>

\* ListenLocalEvent takes a view.
TakeView ==
  /\ listening
  /\ pm.newViewChan # <<>>
  /\ Starts("local", <<Do("put", Event("view", Head(pm.newViewChan), Self))>>)
  /\ pm' = [pm EXCEPT !.newViewChan = Tail(@)]
  /\ UNCHANGED <<eventChan, mu, isStarted, listening, certs, newView>>

\* The timer fires: ProcessLocalTmo with what GetCurView returns
TimerFires ==
  LET e == Event("tmo", pm.curView, Self)
  IN  /\ listening
      /\ mu = "free"
      /\ pm.curView < MaxView
      /\ Starts("local", <<Do("advance", e), Do("tmo", [e EXCEPT !.view = @ + 1])>>)
      /\ UNCHANGED <<eventChan, pm, mu, isStarted, listening, certs, newView>>

\* A message of q: HandleBlock or HandleTmo, which is like HandleVote
Receive(kind, view, q) ==
  LET e == Event(kind, view, q)
  IN  /\ Starts("handle", (IF kind = "block" THEN <<>> ELSE <<Do("check", e)>>)
                            \o <<Do("put", e)>>)
      /\ UNCHANGED <<eventChan, pm, mu, isStarted, listening, certs, newView>>

\* handleQuery
Query ==
  LET e == Event("query", 0, Self)
  IN  /\ Starts("txn", <<Do("load", e), Do("reply", e)>>)
      /\ UNCHANGED <<eventChan, pm, mu, isStarted, listening, certs, newView>>

Next ==
  \/ \E g \in Goroutine : Step(g)
  \/ TakeEvent
  \/ TakeView
  \/ TimerFires
  \/ \E kind \in {"block", "tmo"}, view \in 1..MaxView, q \in Replica \ {Self} :
       Receive(kind, view, q)
  \/ Query

Spec == Init /\ [][Next]_vars

\* The scheduler runs every goroutine that can run.
FairSpec ==
  /\ Spec
  /\ \A g \in Goroutine : WF_vars(Step(g))
  /\ WF_vars(TakeEvent)
  /\ WF_vars(TakeView)

-----------------------------------------------------------------------------
(* Properties. *)

\* The event loop processes ascending views, each at most once, although it
\* and the timer both advance the pacemaker, with views they have read before.
ViewsAscend == [][ProcessNewView("loop") => newView' > newView]_vars

\* AddTmo builds at most one certificate for a view, although both goroutines
\* add timeouts, and repeated ones.
OneCertificate ==
  \A i, j \in DOMAIN certs : i # j => certs[i] # certs[j]

\* g waits forever to send on start.
StartLost(g) == listening /\ Doing(g, "send")

\* Event loop and queries may both find isStarted false, and one of them
\* waits forever to send; never both.
OneStartLost == ~(StartLost("loop") /\ StartLost("txn"))

\* Once a goroutine has set isStarted, ListenLocalEvent gets going.
StartReaches == isStarted ~> listening

\* newViewChan is full and its only reader waits: for room in eventChan, or
\* for pm.mu, or for room in newViewChan itself.
CircularWait ==
  /\ Len(pm.newViewChan) > ViewCap
  /\ \/ Doing("local", "put") /\ Len(eventChan) = EventCap
     \/ Doing("local", "unlock")
     \/ Doing("local", "advance")

\* The event loop comes back to its next event, unless it has lost the race
\* for the start signal, or newViewChan and eventChan are both stuck.
LoopReturns ==
  []<>Idle("loop") \/ <>[]StartLost("loop") \/ <>[]CircularWait
=============================================================================
