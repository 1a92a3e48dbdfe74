-------------------------------- MODULE Icc ---------------------------------
(***************************************************************************)
(* protocol/icc_actually.go and NSharesBag of blockchain/notarization.go:  *)
(* the handlers of the Internet Computer Consensus protocol on the state   *)
(* of one replica.  It votes for every block above its head and has no     *)
(* fast path.                                                              *)
(***************************************************************************)
EXTENDS Protocol

IccProcessNotarizationShare(r, s, v, b) ==
  IF b \in s.isNotarized
  THEN {s}
  ELSE LET t == [s EXCEPT !.nShares = @ \cup {<<b, v>>}]
       IN  IF superMajority(t.nShares, b) THEN Notarize(r, t, b) ELSE {t}

IccSendNShare(r, s, b) ==
  LET h == b.height
  IN  IF ~s.ledger.halted /\ s.headHeight < h
      THEN IccProcessNotarizationShare(r,
             Broadcast(
               [s EXCEPT !.sentNSharesNo[h] = @ + 1, !.sentNShareId[h] = b],
               NShareMsg(b, FALSE)),
             r, b)
      ELSE {s}

IccProcessBlock(r, s, b) ==
  IF ~Accepts(s, b)
  THEN {s}
  ELSE LET stored == StoreBlock(s, b)
           voted == UNION {IccSendNShare(r, t, b) : t \in stored}
       IN  UNION {IF b \in t.isNotarized THEN SendFShare(r, t, b) ELSE {t} :
                    t \in voted}
=============================================================================
