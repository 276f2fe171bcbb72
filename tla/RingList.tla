------------------------------ MODULE RingList ------------------------------
(***************************************************************************)
(* The slice algorithms of the ring: Desc.Tokens as the sorted slice the   *)
(* code keeps (ring/model.go), and the readers of it, search, Get and      *)
(* Collect (ring/ring.go).  Its operations are checked to implement those  *)
(* of RingDesc, on every slice that joins, heartbeats and unregistrations  *)
(* can build, equal tokens of several ingesters included.                  *)
(***************************************************************************)
EXTENDS Integers, FiniteSets, SequencesExt, Functions

CONSTANTS Ingesters,
          MaxToken,     \* stands for math.MaxUint32
          NumTokens,    \* numTokens
          MaxEntries    \* bound: length of Desc.Tokens

VARIABLES ingesters,    \* keys of Desc.Ingesters
          tokens,       \* Desc.Tokens: sequence of [token, ingester]
          mine          \* each ingester's own sorted []uint32

vars == <<ingesters, tokens, mine>>

Token == 0 .. MaxToken
Key == Token
TokenDesc == [token : Token, ingester : Ingesters]

SortedByToken(s) ==
  \A j, k \in DOMAIN s : j < k => s[j].token <= s[k].token

\* sort.Sort is not stable: any sorted rearrangement of the slice.
Sort(s) ==
  {r \in {[k \in DOMAIN s |-> s[p[k]]] : p \in Bijection(DOMAIN s, DOMAIN s)} :
     SortedByToken(r)}

generateTokens(numTokens, taken) ==
  {s \in [1 .. numTokens -> Token \ taken] :
     \A j, k \in 1 .. numTokens : j < k => s[j] <= s[k]}

TakenTokens == {tokens[k].token : k \in DOMAIN tokens}

addIngester(i, own) ==
  /\ ingesters' = ingesters \cup {i}
  /\ tokens' \in
       Sort(tokens \o [k \in DOMAIN own |-> [token |-> own[k], ingester |-> i]])

\* The walk of removeIngester over the slice and the sorted tokens.
RECURSIVE Surviving(_, _)
Surviving(entries, gone) ==
  IF entries = <<>> \/ gone = <<>> THEN entries
  ELSE IF Head(entries).token < Head(gone)
       THEN <<Head(entries)>> \o Surviving(Tail(entries), gone)
  ELSE IF Head(entries).token > Head(gone)
       THEN Surviving(entries, Tail(gone))
  ELSE Surviving(Tail(entries), Tail(gone))

\* Mutant: one entry too few is removed.
MutRemoveIngester(i, own) ==
  /\ ingesters' = ingesters \ {i}
  /\ tokens' = Surviving(tokens, IF own = <<>> THEN own ELSE Tail(own))

removeIngester(i, own) ==
  /\ ingesters' = ingesters \ {i}
  /\ tokens' = Surviving(tokens, own)
-----------------------------------------------------------------------------
Init ==
  /\ ingesters = {} /\ tokens = <<>>
  /\ mine = [i \in Ingesters |-> <<>>]

HasRoom(i) == Len(tokens) + NumTokens <= MaxEntries

\* The callback of pickTokens
Join(i) ==
  /\ HasRoom(i)
  /\ \E own \in generateTokens(NumTokens, TakenTokens) :
       addIngester(i, own) /\ mine' = [mine EXCEPT ![i] = own]

\* The callback of heartbeat, when the ingester is not in the ring
Rejoin(i) ==
  /\ HasRoom(i) /\ i \notin ingesters
  /\ addIngester(i, mine[i])
  /\ UNCHANGED mine

\* The callback of unregister
Leave(i) == removeIngester(i, mine[i]) /\ UNCHANGED mine

Next == \E i \in Ingesters : Join(i) \/ Rejoin(i) \/ Leave(i)

Spec == Init /\ [][Next]_vars
-----------------------------------------------------------------------------
\* sort.Search(n, f): bisection for the first index in 0 .. n-1 where f holds.
RECURSIVE Bisect(_, _, _)
Bisect(i, j, key) ==
  LET h == (i + j) \div 2
  IN  IF i >= j THEN i
      ELSE IF tokens[h + 1].token > key THEN Bisect(i, h, key)
      ELSE Bisect(h + 1, j, key)

\* Mutant: the wrap past the last token is off by one.
MutSearch(key) ==
  LET i == Bisect(0, Len(tokens), key)
  IN  IF i >= Len(tokens) THEN Len(tokens) - 1 ELSE i

\* Index of the token that serves a key.
search(key) ==
  LET i == Bisect(0, Len(tokens), key) IN IF i >= Len(tokens) THEN 0 ELSE i

Nobody == "nobody"

\* The ingester Get looks up in Desc.Ingesters; ErrEmptyRing is Nobody.
Get(key) == IF tokens = <<>> THEN Nobody ELSE tokens[search(key) + 1].ingester

\* uint32 arithmetic
Wrap(n) == n % (MaxToken + 1)

MutDiff(k) ==
  IF k = Len(tokens) THEN Wrap(MaxToken - tokens[k].token)
                     ELSE Wrap(tokens[k + 1].token - tokens[k].token)

\* The share Collect gives to the ingester of the k-th token.
Diff(k) ==
  IF k = Len(tokens)
  THEN Wrap(Wrap(MaxToken - tokens[k].token) + tokens[1].token)
  ELSE Wrap(tokens[k + 1].token - tokens[k].token)

\* Collect: the gauge of one ingester, times MaxUint32.
Owned(i) ==
  FoldLeft(LAMBDA sum, k : Wrap(sum + Diff(k)), 0,
           SetToSeq({k \in DOMAIN tokens : tokens[k].ingester = i}))
-----------------------------------------------------------------------------
\* The slice algorithms implement the operations of RingDesc.
Owners == [t \in Token |->
  LET here == SelectSeq(tokens, LAMBDA e : e.token = t)
  IN  [k \in DOMAIN here |-> here[k].ingester]]
Count(s) == [t \in Token |-> Cardinality({k \in DOMAIN s : s[k] = t})]

Ring == INSTANCE AtomicRing
          WITH ring <- [ingesters |-> ingesters, tokens |-> Owners],
               mine <- [i \in Ingesters |-> Count(mine[i])]
SliceOperations == Ring!Spec

\* A key is served by the first token after it, clockwise: bisection over the
\* slice finds it, whatever was inserted and removed before.
ClockwiseDistance(key, t) == IF t > key THEN t - key ELSE t - key + MaxToken + 1
GetIsNextToken ==
  \A key \in Key : tokens # <<>> =>
    \A k \in DOMAIN tokens :
      ClockwiseDistance(key, tokens[search(key) + 1].token)
        <= ClockwiseDistance(key, tokens[k].token)

\* A key changes hands only to an ingester that joins or from one that leaves
\* (while no token an ingester registered has another's entry).
NoForeignTokens ==
  \A i \in Ingesters : \A k \in DOMAIN tokens :
    tokens[k].token \in Range(mine[i]) => tokens[k].ingester = i
MinimalMovement ==
  [][NoForeignTokens =>
       LET moved == {key \in Key : Get(key)' # Get(key)}
       IN  \E i \in Ingesters :
             \/ \A key \in moved : Get(key)' = i
             \/ \A key \in moved : Get(key) = i]_vars

\* The ownership gauges of a ring add up to 100%, uint32 wrap included.
OwnershipTotals ==
  tokens # <<>> =>
    MaxToken = FoldLeft(LAMBDA sum, i : sum + Owned(i), 0, SetToSeq(Ingesters))
=============================================================================
