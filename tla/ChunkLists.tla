----------------------------- MODULE ChunkLists -----------------------------
(***************************************************************************)
(* The list algorithms of the chunk store (chunk/chunk_store.go), on lists *)
(* of chunk IDs (type ByID): unique, merge and nWayIntersect.              *)
(***************************************************************************)
EXTENDS Naturals, SequencesExt

unique(cs) ==
  FoldLeft(LAMBDA result, c : IF result # <<>> /\ Last(result) = c
                              THEN result ELSE Append(result, c),
           <<>>, cs)

RECURSIVE mergeFrom(_, _)
mergeFrom(a, b) ==
  IF a = <<>> THEN b
  ELSE IF b = <<>> THEN a
  ELSE IF Head(a) < Head(b) THEN <<Head(a)>> \o mergeFrom(Tail(a), b)
  ELSE IF Head(a) > Head(b) THEN <<Head(b)>> \o mergeFrom(a, Tail(b))
  ELSE <<Head(a)>> \o mergeFrom(Tail(a), Tail(b))

\* Mutant: what is left of the second list is dropped.
MutMerge(a, b) ==
  SelectSeq(mergeFrom(a, b), LAMBDA c : a # <<>> /\ c <= Last(a))

merge(a, b) == mergeFrom(a, b)

RECURSIVE intersect(_, _)
intersect(left, right) ==
  IF left = <<>> \/ right = <<>> THEN <<>>
  ELSE (IF Head(left) = Head(right) THEN <<Head(left)>> ELSE <<>>) \o
       (IF Head(left) < Head(right) THEN intersect(Tail(left), right)
                                    ELSE intersect(left, Tail(right)))

RECURSIVE nWayIntersect(_)
nWayIntersect(sets) ==
  LET l == Len(sets) IN
  CASE l = 0 -> <<>>
    [] l = 1 -> sets[1]
    [] l = 2 -> intersect(sets[1], sets[2])
    [] OTHER -> intersect(nWayIntersect(SubSeq(sets, 1, l \div 2)),
                          nWayIntersect(SubSeq(sets, l \div 2 + 1, l)))
=============================================================================
