----------------------------- MODULE Pacemaker ------------------------------
(***************************************************************************)
(* pacemaker/: the view a replica is in, and the timeouts it has heard of, *)
(* as operators on a record with the fields                                *)
(*   curView      the current view                                         *)
(*   newViewChan  the views entered, not yet seen by the event loop        *)
(*   timeouts     <<view, q>>: the timeout of q for this view was received *)
(* A state may have more fields than these.                                *)
(***************************************************************************)
EXTENDS Naturals, Sequences, FiniteSets

CONSTANT N   \* config.N, the number of replicas

ASSUME NAssumption == N \in Nat \ {0}

Replica == 1..N

\* Mutant: exactly two thirds are enough.
MutantSuperMajority(votes) == Cardinality(votes) >= (N * 2) \div 3

\* TimeoutController and Quorum count alike.
superMajority(votes) == Cardinality(votes) > (N * 2) \div 3

NewPacemaker == [curView |-> 0, newViewChan |-> <<>>, timeouts |-> {}]

\* Mutant: the current view may be entered again.
MutantAdvanceView(s, view) ==
  IF view + 1 < s.curView
  THEN s
  ELSE [s EXCEPT !.curView = view + 1, !.newViewChan = Append(@, view + 1)]

AdvanceView(s, view) ==
  IF view < s.curView
  THEN s
  ELSE [s EXCEPT !.curView = view + 1, !.newViewChan = Append(@, view + 1)]

Timeouts(s, view) == {q \in Replica : <<view, q>> \in s.timeouts}

\* A timeout certificate is the view it is for; NoTC is the nil of the code.
NoTC == 0

\* Mutants: the two keys are swapped; a certificate is built again and again.
MutantSwappedTmo(s, view, q) ==
  LET t == [s EXCEPT !.timeouts = @ \cup {<<q, view>>}]
  IN  [state |-> t, isBuilt |-> FALSE, tc |-> NoTC]
MutantAddTmo(s, view, q) ==
  LET t == [s EXCEPT !.timeouts = @ \cup {<<view, q>>}]
      built == superMajority(Timeouts(t, view))
  IN  [state |-> t, isBuilt |-> built, tc |-> IF built THEN view ELSE NoTC]

\* AddTmo of the TimeoutController: the state and what is returned.
AddTmo(s, view, q) ==
  LET t == [s EXCEPT !.timeouts = @ \cup {<<view, q>>}]
      built == superMajority(Timeouts(t, view))
  IN  IF superMajority(Timeouts(s, view))
      THEN [state |-> s, isBuilt |-> FALSE, tc |-> NoTC]
      ELSE [state |-> t, isBuilt |-> built, tc |-> IF built THEN view ELSE NoTC]

\* ProcessRemoteTmo of the Pacemaker: the timeout of q for view
AcceptTmo(s, view, q) ==
  IF view < s.curView
  THEN [state |-> s, isBuilt |-> FALSE, tc |-> NoTC]
  ELSE AddTmo(s, view, q)
=============================================================================
