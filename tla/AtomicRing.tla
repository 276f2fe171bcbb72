----------------------------- MODULE AtomicRing -----------------------------
(***************************************************************************)
(* What registration promises to the readers of the ring: the value under  *)
(* consulKey changes only by one whole ingester operation applied to the   *)
(* current value, however many ingesters race for it.                      *)
(***************************************************************************)
EXTENDS RingDesc

VARIABLES ring,     \* the ring descriptor
          mine      \* the tokens each ingester believes it registered

vars == <<ring, mine>>

Init == ring = newDesc /\ mine = [i \in Ingesters |-> NoTokens]

\* pickTokens.  An ingester that never hears of its success has put tokens
\* in the ring and does not know them.
Join(i) ==
  \E b \in generateTokens(NumTokens, takenTokens(ring)) :
     /\ AddsIngester(ring, i, b, ring')
     /\ mine' \in {mine, [mine EXCEPT ![i] = b]}

\* heartbeat, when the ingester is missing from the ring.
Rejoin(i) ==
  /\ i \notin ring.ingesters
  /\ AddsIngester(ring, i, mine[i], ring')
  /\ UNCHANGED mine

\* unregister
Leave(i) ==
  /\ ring' = removeIngester(ring, i, mine[i])
  /\ UNCHANGED mine

Next == \E i \in Ingesters : Join(i) \/ Rejoin(i) \/ Leave(i)

Spec == Init /\ [][Next]_vars
=============================================================================
