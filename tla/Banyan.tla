------------------------------- MODULE Banyan -------------------------------
(***************************************************************************)
(* protocol/banyan.go and NSharesBagBanyan of blockchain/notarization.go:  *)
(* the handlers of the Banyan protocol on the state of one replica.        *)
(***************************************************************************)
EXTENDS Protocol

\* Mutant: every vote is counted as a fast one.
MutantAddNShare(s, v, b, fast) ==
  [s EXCEPT !.nShares = @ \cup {<<b, v>>}, !.fastVotes[b.height] = @ + 1]

\* NSharesBagBanyan.Add: the votes are a set per block, the fast votes a
\* number per height.
AddNShareBanyan(s, v, b, fast) ==
  [s EXCEPT !.nShares   = @ \cup {<<b, v>>},
            !.fastVotes[b.height] = IF fast THEN @ + 1 ELSE @]

\* Mutant: one fast vote less than needed.
MutantIsFastFinalized(s, b, fast) == fast /\ s.fastVotes[b.height] >= N - P - 1

\* The two results of NSharesBagBanyan.Add
IsNotarizedBanyan(s, b) == Cardinality(Votes(s.nShares, b)) * 2 > N + F
IsFastFinalized(s, b, fast) == fast /\ s.fastVotes[b.height] >= N - P

\* Mutant: the block is finalized on the fast path in place of notarized.
MutantProcessNotarizationShare(r, s, v, b, fast) ==
  IF b \in s.isFinalized \/ (b \in s.isNotarized /\ ~fast)
  THEN {s}
  ELSE LET t == AddNShareBanyan(s, v, b, fast)
       IN  IF IsFastFinalized(t, b, fast) THEN Finalize(t, b)
           ELSE IF b \notin s.isNotarized /\ IsNotarizedBanyan(t, b)
                THEN Notarize(r, t, b)
                ELSE {t}

BanyanProcessNotarizationShare(r, s, v, b, fast) ==
  IF b \in s.isFinalized \/ (b \in s.isNotarized /\ ~fast)
  THEN {s}
  ELSE LET t == AddNShareBanyan(s, v, b, fast)
           u == IF b \notin s.isNotarized /\ IsNotarizedBanyan(t, b)
                THEN Notarize(r, t, b)
                ELSE {t}
       IN  IF IsFastFinalized(t, b, fast)
           THEN UNION {Finalize(x, b) : x \in u}
           ELSE u

\* Mutant: the rank of the share, -1 if it is fast, is remembered in the
\* place of the rank of the block.
MutantSendNShare(r, s, b) ==
  LET h == b.height
      fast == b.rank = 0 /\ s.sentNSharesNo[h] = 0
  IN  IF /\ ~s.ledger.halted
         /\ s.headHeight < h
         /\ s.sentNSharesNo[h] = 0 \/ s.sentNRank[h] > b.rank
      THEN BanyanProcessNotarizationShare(r,
             Broadcast(
               [s EXCEPT !.sentNSharesNo[h] = @ + 1,
                         !.sentNRank[h]     = IF fast THEN 0 - 1 ELSE b.rank,
                         !.sentNShareId[h]  = b],
               NShareMsg(b, fast)),
             r, b, fast)
      ELSE {s}

\* A notarization share for b: the first of this height, or one for a smaller
\* rank than before.  It is a fast one if b has rank zero and is the first.
BanyanSendNShare(r, s, b) ==
  LET h == b.height
      fast == b.rank = 0 /\ s.sentNSharesNo[h] = 0
  IN  IF /\ ~s.ledger.halted
         /\ s.headHeight < h
         /\ s.sentNSharesNo[h] = 0 \/ s.sentNRank[h] > b.rank
      THEN BanyanProcessNotarizationShare(r,
             Broadcast(
               [s EXCEPT !.sentNSharesNo[h] = @ + 1,
                         !.sentNRank[h]     = b.rank,
                         !.sentNShareId[h]  = b],
               NShareMsg(b, fast)),
             r, b, fast)
      ELSE {s}

BanyanProcessBlock(r, s, b) ==
  IF ~Accepts(s, b)
  THEN {s}
  ELSE LET stored == StoreBlock(s, b)
           voted == UNION {BanyanSendNShare(r, t, b) : t \in stored}
       IN  UNION {IF b \in t.isNotarized THEN SendFShare(r, t, b) ELSE {t} :
                    t \in voted}
=============================================================================
