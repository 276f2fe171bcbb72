-------------------------- MODULE ConsulCASProofs ---------------------------
(* What the operations on the ring descriptor do; and that registration is *)
(* type correct, and its CAS atomic, for any set of ingesters, any token   *)
(* space, and any number of tokens and attempts.                           *)
EXTENDS ConsulRing, FiniteSetTheorems, TLAPS

\* newDesc is an empty ring, in which nobody owns a token.
LEMMA NewDescFacts ==
  /\ newDesc \in Desc
  /\ \A i \in Ingesters, t \in Token : ~Owns(newDesc, i, t)
  BY DEF newDesc, Desc, Owns

\* generateTokens draws no token that is taken.
LEMMA GenerateTokensFacts ==
  ASSUME NEW taken, NEW b \in generateTokens(NumTokens, taken)
  PROVE  b \in TokenBag /\ \A t \in Token \cap taken : b[t] = 0
<1>1. PICK draws \in [1 .. NumTokens -> Token \ taken] : b = Sorted(draws)
  BY DEF generateTokens
<1> DEFINE At(t) == {k \in DOMAIN draws : draws[k] = t}
<1>2. \A t \in Token : Cardinality(At(t)) \in Nat
  <2> TAKE t \in Token
  <2>1. IsFiniteSet(1 .. NumTokens)
    BY TokensAssumption, FS_Interval
  <2>2. At(t) \in SUBSET (1 .. NumTokens)
    OBVIOUS
  <2> HIDE DEF At
  <2> QED BY <2>1, <2>2, FS_Subset, FS_CardinalityType
<1>3. \A t \in Token \cap taken : Cardinality(At(t)) = 0
  <2> TAKE t \in Token \cap taken
  <2>1. At(t) = {}
    OBVIOUS
  <2> HIDE DEF At
  <2> QED BY <2>1, FS_EmptySet
<1>4. b = [t \in Token |-> Cardinality(At(t))]
  BY <1>1 DEF Sorted
<1> HIDE DEF At
<1> QED BY <1>2, <1>3, <1>4 DEF TokenBag

\* Sorting equal tokens neither adds, drops nor changes an entry.
LEMMA ReorderingsFacts ==
  ASSUME NEW s \in Seq(Ingesters), NEW r \in Reorderings(s)
  PROVE  /\ r \in Seq(Ingesters) /\ Len(r) = Len(s)
         /\ \A i : (\E k \in DOMAIN r : r[k] = i) <=> (\E k \in DOMAIN s : s[k] = i)
<1>1. PICK p \in Surjection(DOMAIN s, DOMAIN s) :
        r = [k \in DOMAIN s |-> s[p[k]]]
  BY DEF Reorderings
<1>2. /\ p \in [DOMAIN s -> DOMAIN s]
      /\ \A l \in DOMAIN s : \E k \in DOMAIN s : p[k] = l
  BY DEF Surjection
<1>3. DOMAIN s = 1 .. Len(s) /\ Len(s) \in Nat
  OBVIOUS
<1>4. r \in [1 .. Len(s) -> Ingesters]
  BY <1>1, <1>2, <1>3
<1>5. r \in Seq(Ingesters) /\ Len(r) = Len(s)
  BY <1>3, <1>4
<1>6. DOMAIN r = DOMAIN s
  BY <1>1
<1>7. ASSUME NEW i
      PROVE  (\E k \in DOMAIN r : r[k] = i) <=> (\E k \in DOMAIN s : s[k] = i)
  BY <1>1, <1>2, <1>6
<1> QED BY <1>5, <1>7

\* WithOwner appends n entries of one ingester.
LEMMA WithOwnerFacts ==
  ASSUME NEW s \in Seq(Ingesters), NEW id \in Ingesters, NEW n \in Nat
  PROVE  /\ WithOwner(s, id, n) \in Seq(Ingesters)
         /\ Len(WithOwner(s, id, n)) = Len(s) + n
         /\ \A i : (\E k \in DOMAIN WithOwner(s, id, n) : WithOwner(s, id, n)[k] = i)
                     <=> (\E k \in DOMAIN s : s[k] = i) \/ (i = id /\ n > 0)
<1> DEFINE u == [k \in 1 .. n |-> id]
           w == s \o u
<1>1. u \in Seq(Ingesters) /\ Len(u) = n
  OBVIOUS
<1>2. w \in Seq(Ingesters) /\ Len(w) = Len(s) + n
  BY <1>1
<1>3. \A k \in 1 .. Len(s) : w[k] = s[k]
  BY <1>1
<1>4. \A k \in 1 .. n : w[Len(s) + k] = id
  BY <1>1
<1>5. \A k \in 1 .. Len(w) : k > Len(s) => w[k] = id
  <2> SUFFICES ASSUME NEW k \in 1 .. Len(w), k > Len(s) PROVE w[k] = id
    OBVIOUS
  <2>1. k - Len(s) \in 1 .. n /\ k = Len(s) + (k - Len(s))
    BY <1>2
  <2> QED BY <1>4, <2>1
<1>6. DOMAIN w = 1 .. Len(w) /\ DOMAIN s = 1 .. Len(s) /\ Len(s) \in Nat
  BY <1>2
<1>7. WithOwner(s, id, n) = w
  BY DEF WithOwner
<1> HIDE DEF w
<1>8. ASSUME NEW i
      PROVE  (\E k \in DOMAIN w : w[k] = i)
               <=> (\E k \in DOMAIN s : s[k] = i) \/ (i = id /\ n > 0)
  <2>1. ASSUME NEW k \in DOMAIN w, w[k] = i
        PROVE  (\E l \in DOMAIN s : s[l] = i) \/ (i = id /\ n > 0)
    BY <1>2, <1>3, <1>5, <1>6, <2>1
  <2>2. ASSUME NEW k \in DOMAIN s, s[k] = i
        PROVE  k \in DOMAIN w /\ w[k] = i
    BY <1>2, <1>3, <1>6, <2>2
  <2>3. ASSUME i = id, n > 0
        PROVE  Len(s) + 1 \in DOMAIN w /\ w[Len(s) + 1] = i
    BY <1>2, <1>4, <1>6, <2>3
  <2> QED BY <2>1, <2>2, <2>3
<1> QED BY <1>2, <1>7, <1>8

\* Registering adds the ingester and exactly the entries it registers.
LEMMA AddsIngesterFacts ==
  ASSUME NEW d \in Desc, NEW id \in Ingesters, NEW b \in TokenBag, NEW e,
         AddsIngester(d, id, b, e)
  PROVE  /\ e.ingesters = d.ingesters \cup {id}
         /\ \A t \in Token :
              /\ e.tokens[t] \in Seq(Ingesters)
              /\ Len(e.tokens[t]) = Len(d.tokens[t]) + b[t]
              /\ \A i : Owns(e, i, t) <=> Owns(d, i, t) \/ (i = id /\ b[t] > 0)
<1>1. e.ingesters = d.ingesters \cup {id}
  BY DEF AddsIngester
<1>2. ASSUME NEW t \in Token
      PROVE  /\ e.tokens[t] \in Seq(Ingesters)
             /\ Len(e.tokens[t]) = Len(d.tokens[t]) + b[t]
             /\ \A i : Owns(e, i, t) <=> Owns(d, i, t) \/ (i = id /\ b[t] > 0)
  <2> DEFINE w == WithOwner(d.tokens[t], id, b[t])
  <2>1. d.tokens[t] \in Seq(Ingesters) /\ b[t] \in Nat
    BY DEF Desc, TokenBag
  <2>2. /\ w \in Seq(Ingesters)
        /\ Len(w) = Len(d.tokens[t]) + b[t]
        /\ \A i : (\E k \in DOMAIN w : w[k] = i)
                    <=> Owns(d, i, t) \/ (i = id /\ b[t] > 0)
    BY <2>1, WithOwnerFacts DEF Owns
  <2>3. e.tokens[t] \in Reorderings(w)
    BY DEF AddsIngester
  <2> HIDE DEF w
  <2>4. /\ e.tokens[t] \in Seq(Ingesters) /\ Len(e.tokens[t]) = Len(w)
        /\ \A i : Owns(e, i, t) <=> (\E k \in DOMAIN w : w[k] = i)
    BY <2>2, <2>3, ReorderingsFacts DEF Owns
  <2> QED BY <2>2, <2>4
<1> QED BY <1>1, <1>2

\* The results of addIngester are ring descriptors.
LEMMA AddIngesterFacts ==
  ASSUME NEW d \in Desc, NEW id \in Ingesters, NEW b \in TokenBag,
         NEW e \in addIngester(d, id, b)
  PROVE  e \in Desc /\ AddsIngester(d, id, b, e)
<1>1. AddsIngester(d, id, b, e)
  BY DEF addIngester
<1>2. \A t \in Token : e.tokens[t] \in Seq(Ingesters)
  BY <1>1, AddsIngesterFacts
<1> DEFINE Slots == UNION {Reorderings(WithOwner(d.tokens[t], id, b[t])) : t \in Token}
<1>3. e \in [ingesters : {d.ingesters \cup {id}}, tokens : [Token -> Slots]]
  BY DEF addIngester
<1>4. /\ e = [ingesters |-> e.ingesters, tokens |-> e.tokens]
      /\ e.ingesters = d.ingesters \cup {id}
      /\ e.tokens \in [Token -> Slots]
  <2> HIDE DEF Slots
  <2> QED BY <1>3
<1>5. e.tokens = [t \in Token |-> e.tokens[t]]
  <2> HIDE DEF Slots
  <2> QED BY <1>4
<1>6. e.tokens \in [Token -> Seq(Ingesters)]
  BY <1>2, <1>5
<1> QED BY <1>1, <1>4, <1>6 DEF Desc

\* What removeIngester leaves of the entries of one token.
Drop(s, n) == SubSeq(s, n + 1, Len(s))

\* It adds no owner, drops nothing for a token not given, and everything once
\* the token is given as often as it has entries.
LEMMA DropFacts ==
  ASSUME NEW s \in Seq(Ingesters), NEW n \in Nat
  PROVE  /\ Drop(s, n) \in Seq(Ingesters)
         /\ n = 0 => Drop(s, n) = s
         /\ Len(Drop(s, n)) <= Len(s)
         /\ n >= Len(s) => DOMAIN Drop(s, n) = {}
         /\ \A i : (\E k \in DOMAIN Drop(s, n) : Drop(s, n)[k] = i)
                     => \E k \in DOMAIN s : s[k] = i
<1> DEFINE r == SubSeq(s, n + 1, Len(s))
<1>1. Len(s) \in Nat /\ DOMAIN s = 1 .. Len(s) /\ \A k \in 1 .. Len(s) : s[k] \in Ingesters
  OBVIOUS
<1>2. CASE n >= Len(s)
  <2>1. r = <<>>
    BY <1>1, <1>2
  <2>2. n = 0 => s = <<>>
    BY <1>1, <1>2
  <2> QED BY <1>1, <2>1, <2>2 DEF Drop
<1>3. CASE n < Len(s)
  <2>1. r = [k \in 1 .. (Len(s) - n) |-> s[k + n]]
    BY <1>1, <1>3
  <2>2. \A k \in 1 .. (Len(s) - n) : k + n \in 1 .. Len(s)
    BY <1>1, <1>3
  <2> HIDE DEF r
  <2>3. r \in [1 .. (Len(s) - n) -> Ingesters] /\ Len(s) - n \in Nat
    BY <1>1, <1>3, <2>1, <2>2
  <2>4. r \in Seq(Ingesters) /\ Len(r) = Len(s) - n /\ DOMAIN r = 1 .. (Len(s) - n)
    BY <2>3
  <2>5. n = 0 => r = s
    BY <1>1, <2>1, <2>4
  <2>6. \A i : (\E k \in DOMAIN r : r[k] = i) => \E k \in DOMAIN s : s[k] = i
    BY <1>1, <2>1, <2>2, <2>4
  <2>7. Drop(s, n) = r
    BY DEF r, Drop
  <2>8. Len(r) <= Len(s)
    BY <1>1, <2>4
  <2>9. n >= Len(s) => DOMAIN r = {}
    BY <1>1, <1>3
  <2> QED BY <2>4, <2>5, <2>6, <2>7, <2>8, <2>9, Zenon
<1> QED BY <1>1, <1>2, <1>3

\* Unregistering takes away the ingester and, of each token, as many entries
\* as the ingester registered: nobody gains an entry.
LEMMA RemoveIngesterFacts ==
  ASSUME NEW d \in Desc, NEW id \in Ingesters, NEW b \in TokenBag
  PROVE  LET e == removeIngester(d, id, b)
         IN  /\ e \in Desc
             /\ e.ingesters = d.ingesters \ {id}
             /\ \A t \in Token :
                  /\ b[t] = 0 => e.tokens[t] = d.tokens[t]
                  /\ Len(e.tokens[t]) <= Len(d.tokens[t])
                  /\ b[t] >= Len(d.tokens[t]) => \A i : ~Owns(e, i, t)
                  /\ \A i : Owns(e, i, t) => Owns(d, i, t)
<1> DEFINE e == removeIngester(d, id, b)
<1>1. /\ e.ingesters = d.ingesters \ {id}
      /\ e = [ingesters |-> e.ingesters, tokens |-> e.tokens]
      /\ e.tokens = [t \in Token |-> e.tokens[t]]
      /\ \A t \in Token : e.tokens[t] = Drop(d.tokens[t], b[t])
  BY DEF removeIngester, Drop
<1>2. \A t \in Token : d.tokens[t] \in Seq(Ingesters) /\ b[t] \in Nat
  BY DEF Desc, TokenBag
<1> HIDE DEF e
<1>3. \A t \in Token : e.tokens[t] \in Seq(Ingesters)
  BY <1>1, <1>2, DropFacts
<1>4. e.tokens \in [Token -> Seq(Ingesters)] /\ e.ingesters \in SUBSET Ingesters
  BY <1>1, <1>3 DEF Desc
<1>5. e \in Desc
  BY <1>1, <1>4 DEF Desc
<1>6. ASSUME NEW t \in Token
      PROVE  /\ b[t] = 0 => e.tokens[t] = d.tokens[t]
             /\ Len(e.tokens[t]) <= Len(d.tokens[t])
             /\ b[t] >= Len(d.tokens[t]) => \A i : ~Owns(e, i, t)
             /\ \A i : Owns(e, i, t) => Owns(d, i, t)
  <2> DEFINE s == d.tokens[t]
             r == Drop(s, b[t])
  <2>1. e.tokens[t] = r
    BY <1>1
  <2>2. /\ b[t] = 0 => r = s
        /\ Len(r) <= Len(s)
        /\ b[t] >= Len(s) => DOMAIN r = {}
        /\ \A i : (\E k \in DOMAIN r : r[k] = i) => \E k \in DOMAIN s : s[k] = i
    <3>1. s \in Seq(Ingesters) /\ b[t] \in Nat
      BY <1>2
    <3> HIDE DEF s
    <3> QED BY <3>1, DropFacts
  <2>3. \A i : Owns(d, i, t) <=> \E k \in DOMAIN s : s[k] = i
    BY DEF Owns
  <2>4. \A i : Owns(e, i, t) <=> \E k \in DOMAIN r : r[k] = i
    BY <2>1 DEF Owns
  <2> HIDE DEF r
  <2> QED BY <2>1, <2>2, <2>3, <2>4
<1> QED BY <1>1, <1>5, <1>6 DEF e
-----------------------------------------------------------------------------
Labels == {"down", "get", "put", "wait", "exited"}

\* The locals of the CAS loop keep their types.
CASTypeOK ==
  /\ pc \in [Ingesters -> Labels]
  /\ op \in [Ingesters -> Calls]
  /\ tries \in [Ingesters -> 0 .. Retries - 1]
  /\ index \in [Ingesters -> Nat]
  /\ found \in [Ingesters -> BOOLEAN]
  /\ snap \in [Ingesters -> Desc]

\* The control step Goto keeps the CAS locals well typed.
LEMMA GotoTyped ==
  ASSUME TypeOK, NEW i \in Ingesters, NEW label \in Labels, NEW call \in Calls,
         NEW n \in 0 .. Retries - 1, NEW idx \in Nat,
         Goto(i, label, call, n, idx)
  PROVE  CASTypeOK'
  BY NewDescFacts DEF TypeOK, CASTypeOK, Goto, Labels

\* So does the return of a CAS call,
LEMMA ReturnTyped ==
  ASSUME TypeOK, NEW i \in Ingesters, NEW label \in Labels, Return(i, label)
  PROVE  CASTypeOK'
<1>1. 0 \in 0 .. Retries - 1 /\ "pickTokens" \in Calls
  BY BoundsAssumption DEF Calls
<1> QED BY <1>1, GotoTyped DEF Return

\* the start of one,
LEMMA CallTyped ==
  ASSUME TypeOK, NEW i \in Ingesters, NEW call \in Calls, Call(i, call)
  PROVE  CASTypeOK'
<1>1. 0 \in 0 .. Retries - 1 /\ "get" \in Labels
  BY BoundsAssumption DEF Labels
<1> QED BY <1>1, GotoTyped DEF Call

\* and the next attempt of its loop, whose counter stays below Retries.
LEMMA ContinueTyped ==
  ASSUME TypeOK, NEW i \in Ingesters, Continue(i)
  PROVE  CASTypeOK'
<1>1. CASE tries[i] + 1 < Retries
  <2>1. /\ tries[i] + 1 \in 0 .. Retries - 1 /\ index[i] \in Nat
        /\ op[i] \in Calls /\ "get" \in Labels
    BY <1>1, BoundsAssumption DEF TypeOK, Labels
  <2> QED BY <1>1, <2>1, GotoTyped DEF Continue
<1>2. CASE ~(tries[i] + 1 < Retries)
  <2>1. (IF op[i] = "heartbeat" THEN "wait" ELSE "down") \in Labels
    BY DEF Labels
  <2> QED BY <1>2, <2>1, ReturnTyped DEF Continue, Fail
<1> QED BY <1>1, <1>2

\* What each callback may put, and which tokens the process knows afterwards.
LEMMA OutcomesFacts ==
  ASSUME TypeOK, NEW i \in Ingesters, NEW out \in Outcomes(i)
  PROVE  /\ out[1] \in Desc /\ out[2] \in TokenBag
         /\ op[i] = "pickTokens" =>
              /\ AddsIngester(snap[i], i, out[2], out[1])
              /\ out[2] \in generateTokens(NumTokens, takenTokens(snap[i]))
         /\ op[i] = "heartbeat" =>
              /\ out[2] = mine[i]
              /\ \/ i \in snap[i].ingesters /\ out[1] = snap[i]
                 \/ i \notin snap[i].ingesters
                    /\ AddsIngester(snap[i], i, mine[i], out[1])
         /\ op[i] = "unregister" =>
              /\ out[2] = mine[i]
              /\ out[1] = removeIngester(snap[i], i, mine[i])
<1>1. snap[i] \in Desc /\ mine[i] \in TokenBag /\ op[i] \in Calls
  BY DEF TypeOK
<1>2. CASE op[i] = "pickTokens"
  <2>1. out \in pickTokens(i)
    BY <1>2 DEF Outcomes
  <2>2. PICK b \in generateTokens(NumTokens, takenTokens(snap[i])) :
          out \in addIngester(snap[i], i, b) \X {b}
    BY <2>1 DEF pickTokens
  <2>3. out[1] \in addIngester(snap[i], i, b) /\ out[2] = b
    BY <2>2
  <2>4. b \in TokenBag
    BY GenerateTokensFacts
  <2>5. out[1] \in Desc /\ AddsIngester(snap[i], i, b, out[1])
    BY <1>1, <2>3, <2>4, AddIngesterFacts
  <2> QED BY <1>2, <2>3, <2>4, <2>5
<1>3. CASE op[i] = "heartbeat"
  <2>1. out \in heartbeat(i)
    BY <1>3 DEF Outcomes
  <2>2. CASE i \in snap[i].ingesters
    <3>1. out[1] = snap[i] /\ out[2] = mine[i]
      BY <2>1, <2>2 DEF heartbeat
    <3> QED BY <1>1, <1>3, <2>2, <3>1
  <2>3. CASE i \notin snap[i].ingesters
    <3>1. out[1] \in addIngester(snap[i], i, mine[i]) /\ out[2] = mine[i]
      BY <2>1, <2>3 DEF heartbeat
    <3>2. out[1] \in Desc /\ AddsIngester(snap[i], i, mine[i], out[1])
      BY <1>1, <3>1, AddIngesterFacts
    <3> QED BY <1>1, <1>3, <2>3, <3>1, <3>2
  <2> QED BY <2>2, <2>3
<1>4. CASE op[i] = "unregister"
  <2>1. out = <<removeIngester(snap[i], i, mine[i]), mine[i]>>
    BY <1>4 DEF Outcomes, unregister
  <2>2. removeIngester(snap[i], i, mine[i]) \in Desc
    BY <1>1, RemoveIngesterFacts
  <2> QED BY <1>1, <1>4, <2>1, <2>2
<1> QED BY <1>1, <1>2, <1>3, <1>4 DEF Calls
-----------------------------------------------------------------------------
\* The initial state is well typed.
LEMMA InitTyped == Init => TypeOK
<1> SUFFICES ASSUME Init PROVE TypeOK
  OBVIOUS
<1>1. 0 \in 0 .. Retries - 1
  BY BoundsAssumption
<1>2. NoTokens \in TokenBag
  BY DEF NoTokens, TokenBag
<1> QED BY <1>1, <1>2, NewDescFacts DEF Init, TypeOK, Calls

\* A conditional Put writes a ring descriptor.
LEMMA PutTyped ==
  ASSUME TypeOK, NEW i \in Ingesters, NEW out \in Outcomes(i),
         CheckAndSet(i, out[1])
  PROVE  /\ ring' \in Desc /\ modIndex' \in Nat /\ raft' \in Nat
         /\ restarts' = restarts
  BY OutcomesFacts DEF TypeOK, CheckAndSet

\* Every step of registration keeps the types.
LEMMA StepTyped == TypeOK /\ [Next]_vars => TypeOK'
<1> SUFFICES ASSUME TypeOK, [Next]_vars PROVE TypeOK'
  OBVIOUS
<1> USE DEF Labels, Calls
<1>1. ASSUME NEW i \in Ingesters, RegisterIngester(i) PROVE TypeOK'
  <2>1. CASTypeOK'
    BY <1>1, CallTyped DEF RegisterIngester
  <2>2. starts' \in [Ingesters -> Nat] /\ quit' \in [Ingesters -> BOOLEAN]
    BY <1>1 DEF RegisterIngester, TypeOK
  <2> QED BY <1>1, <2>1, <2>2 DEF RegisterIngester, TypeOK, CASTypeOK, consul
<1>2. ASSUME NEW i \in Ingesters, Unregister(i) PROVE TypeOK'
  BY <1>2 DEF Unregister, TypeOK, consul, casVars
<1>3. ASSUME NEW i \in Ingesters, Tick(i) PROVE TypeOK'
  <2>1. CASTypeOK'
    BY <1>3, CallTyped DEF Tick
  <2>2. ticks' \in [Ingesters -> Nat]
    BY <1>3 DEF Tick, TypeOK
  <2> QED BY <1>3, <2>1, <2>2 DEF Tick, TypeOK, CASTypeOK, consul
<1>4. ASSUME NEW i \in Ingesters, Quit(i) PROVE TypeOK'
  <2>1. CASTypeOK'
    BY <1>4, CallTyped DEF Quit
  <2> QED BY <1>4, <2>1 DEF Quit, TypeOK, CASTypeOK, consul
<1>5. ASSUME NEW i \in Ingesters, CASGet(i) PROVE TypeOK'
  BY <1>5 DEF CASGet, TypeOK, consul
<1>6. ASSUME NEW i \in Ingesters, CASGetError(i) PROVE TypeOK'
  <2>1. CASTypeOK'
    BY <1>6, ContinueTyped DEF CASGetError
  <2> QED BY <1>6, <2>1 DEF CASGetError, FatalLeaves, TypeOK, CASTypeOK, consul
<1>7. ASSUME NEW i \in Ingesters, CASPut(i) PROVE TypeOK'
  <2>1. PICK out \in Outcomes(i) :
          CheckAndSet(i, out[1]) /\ mine' = [mine EXCEPT ![i] = out[2]]
    BY <1>7 DEF CASPut
  <2>2. /\ ring' \in Desc /\ modIndex' \in Nat /\ raft' \in Nat
        /\ restarts' = restarts
    BY <2>1, PutTyped
  <2>3. mine' \in [Ingesters -> TokenBag]
    BY <2>1, OutcomesFacts DEF TypeOK
  <2>4. CASTypeOK'
    BY <1>7, ReturnTyped DEF CASPut, Succeed
  <2> QED BY <1>7, <2>2, <2>3, <2>4 DEF CASPut, TypeOK, CASTypeOK
<1>8. ASSUME NEW i \in Ingesters, CASPutLost(i) PROVE TypeOK'
  <2>1. PICK out \in Outcomes(i) : CheckAndSet(i, out[1])
    BY <1>8 DEF CASPutLost
  <2>2. /\ ring' \in Desc /\ modIndex' \in Nat /\ raft' \in Nat
        /\ restarts' = restarts
    BY <2>1, PutTyped
  <2>3. CASTypeOK'
    BY <1>8, ContinueTyped DEF CASPutLost
  <2> QED BY <1>8, <2>2, <2>3 DEF CASPutLost, TypeOK, CASTypeOK
<1>9. ASSUME NEW i \in Ingesters, CASPutRejected(i) \/ CASPutError(i) PROVE TypeOK'
  <2>1. CASTypeOK'
    BY <1>9, ContinueTyped DEF CASPutRejected, CASPutError
  <2>2. dirty' \in [Ingesters -> BOOLEAN]
    BY <1>9 DEF CASPutRejected, CASPutError, FatalLeaves, TypeOK
  <2>3. UNCHANGED <<consul, mine, quit, starts, ticks, lostLeave>>
    BY <1>9 DEF CASPutRejected, CASPutError
  <2> QED BY <2>1, <2>2, <2>3 DEF TypeOK, CASTypeOK, Labels, consul
<1>10. ASSUME NEW i \in Ingesters, EmptyRing(i) PROVE TypeOK'
  <2>1. CASTypeOK'
    BY <1>10, ReturnTyped DEF EmptyRing, Fail
  <2> QED BY <1>10, <2>1 DEF EmptyRing, TypeOK, CASTypeOK, consul
<1>11. ASSUME NEW i \in Ingesters, Crash(i) PROVE TypeOK'
  <2>1. CASTypeOK'
    BY <1>11, ReturnTyped DEF Crash
  <2> QED BY <1>11, <2>1 DEF Crash, TypeOK, CASTypeOK, consul, Registered, Member, InCall
<1>12. ASSUME ConsulRestart PROVE TypeOK'
  BY <1>12, NewDescFacts DEF ConsulRestart, TypeOK, casVars
<1>13. CASE UNCHANGED vars
  BY <1>13 DEF vars, TypeOK
<1> QED BY <1>1, <1>2, <1>3, <1>4, <1>5, <1>6, <1>7, <1>8, <1>9, <1>10, <1>11,
           <1>12, <1>13 DEF Next, Step

\* The state of the registration protocol keeps its types: the ring stays a
\* ring descriptor and a CAS call never makes more than its attempts.
THEOREM TypeCorrect == Spec => []TypeOK
  BY InitTyped, StepTyped, PTL DEF Spec
-----------------------------------------------------------------------------
\* A step of process i leaves the CAS calls of the others alone.
Local(i) ==
  \A j \in Ingesters \ {i} :
    pc'[j] = pc[j] /\ op'[j] = op[j] /\ index'[j] = index[j] /\ snap'[j] = snap[j]

\* What Goto does to the locals of one ingester and to those of the others.
LEMMA GotoEffect ==
  ASSUME TypeOK, NEW i \in Ingesters, NEW label, NEW call, NEW n, NEW idx,
         Goto(i, label, call, n, idx)
  PROVE  Local(i) /\ pc'[i] = label /\ op'[i] = call /\ index'[i] = idx
  BY DEF TypeOK, Goto, Local

\* After Continue the process is at another Get, or its call has ended: a
\* heartbeat waits for the next tick, the others are down, and only after the
\* last attempt.
LEMMA ContinueEffect ==
  ASSUME TypeOK, NEW i \in Ingesters, Continue(i)
  PROVE  /\ Local(i) /\ index'[i] \in {0, index[i]}
         /\ \/ pc'[i] = "get" /\ op'[i] = op[i]
            \/ pc'[i] = "wait" /\ op[i] = "heartbeat"
            \/ pc'[i] = "down" /\ op[i] # "heartbeat" /\ tries[i] + 1 >= Retries
  BY GotoEffect, BoundsAssumption DEF Continue, Fail, Return, TypeOK

\* Between steps that write the ring, an index that matches stays one that
\* was read with the current value.
LEMMA SnapshotsStep == TypeOK /\ SnapshotsCurrent /\ [Next]_vars => SnapshotsCurrent'
<1> SUFFICES ASSUME TypeOK, SnapshotsCurrent, [Next]_vars, restarts' = 0
             PROVE  SnapshotsCurrent'
  BY DEF SnapshotsCurrent
<1>1. ASSUME NEW i \in Ingesters, restarts = 0, Local(i),
             UNCHANGED consul, pc'[i] # "put", index'[i] \in {0, index[i]}
      PROVE  SnapshotsCurrent'
  BY <1>1 DEF SnapshotsCurrent, Local, consul, TypeOK
<1>2. ASSUME NEW i \in Ingesters, RegisterIngester(i) \/ Tick(i) \/ Quit(i)
      PROVE  UNCHANGED consul /\ Local(i) /\ pc'[i] = "get" /\ index'[i] = 0
  BY <1>2, GotoEffect DEF RegisterIngester, Tick, Quit, Call
<1>3. ASSUME NEW i \in Ingesters, EmptyRing(i) \/ Crash(i)
      PROVE  UNCHANGED consul /\ Local(i) /\ pc'[i] \in {"wait", "down"} /\ index'[i] = 0
  BY <1>3, GotoEffect DEF EmptyRing, Crash, Fail, Return
<1>4. ASSUME NEW i \in Ingesters, CASGetError(i) \/ CASPutRejected(i) \/ CASPutError(i)
      PROVE  UNCHANGED consul /\ Local(i) /\ pc'[i] # "put" /\ index'[i] \in {0, index[i]}
  BY <1>4, ContinueEffect DEF CASGetError, CASPutRejected, CASPutError
<1>5. ASSUME NEW i \in Ingesters, CASGet(i)
      PROVE  SnapshotsCurrent'
  BY <1>5 DEF CASGet, SnapshotsCurrent, consul, TypeOK
<1>6. ASSUME NEW i \in Ingesters, NEW value, restarts = 0, Local(i),
             CheckAndSet(i, value), index'[i] \in {0, index[i]}
      PROVE  SnapshotsCurrent'
  BY <1>6 DEF CheckAndSet, Local, SnapshotsCurrent, TypeOK
<1>7. ASSUME NEW i \in Ingesters, CASPut(i)
      PROVE  /\ restarts' = restarts /\ Local(i) /\ index'[i] = 0
             /\ \E value : CheckAndSet(i, value)
  <2>1. Local(i) /\ index'[i] = 0
    BY <1>7, GotoEffect DEF CASPut, Succeed, Return
  <2> QED  BY <1>7, <2>1 DEF CASPut, CheckAndSet
<1>8. ASSUME NEW i \in Ingesters, CASPutLost(i)
      PROVE  /\ restarts' = restarts /\ Local(i) /\ index'[i] \in {0, index[i]}
             /\ \E value : CheckAndSet(i, value)
  BY <1>8, ContinueEffect DEF CASPutLost, CheckAndSet
<1>9. ASSUME NEW i \in Ingesters, Unregister(i)
      PROVE  UNCHANGED <<consul, casVars>>
  BY <1>9 DEF Unregister
<1>10. ASSUME UNCHANGED <<consul, casVars>>
       PROVE  SnapshotsCurrent'
  BY <1>10 DEF SnapshotsCurrent, consul, casVars
<1>11. ASSUME ConsulRestart PROVE FALSE
  BY <1>11 DEF ConsulRestart, TypeOK
<1>12. CASE UNCHANGED vars
  BY <1>10, <1>12 DEF vars, consul, casVars
<1>13. ASSUME NEW i \in Ingesters,
              \/ RegisterIngester(i) \/ Tick(i) \/ Quit(i) \/ EmptyRing(i) \/ Crash(i)
              \/ CASGetError(i) \/ CASPutRejected(i) \/ CASPutError(i)
       PROVE  SnapshotsCurrent'
  <2>1. UNCHANGED consul /\ Local(i) /\ pc'[i] # "put" /\ index'[i] \in {0, index[i]}
    BY <1>2, <1>3, <1>4, <1>13
  <2>2. restarts = 0
    BY <2>1 DEF consul
  <2> QED BY <1>1, <2>1, <2>2
<1>14. ASSUME NEW i \in Ingesters, CASPut(i) \/ CASPutLost(i)
       PROVE  SnapshotsCurrent'
  BY <1>6, <1>7, <1>8, <1>14
<1> QED BY <1>5, <1>9, <1>10, <1>11, <1>12, <1>13, <1>14 DEF Next, Step
-----------------------------------------------------------------------------
\* While Consul keeps its data, a conditional Put applies its callback to the
\* current value.
LEMMA PutOnCurrent ==
  ASSUME TypeOK, SnapshotsCurrent, restarts = 0, NEW i \in Ingesters, HasValue(i),
         NEW out \in Outcomes(i), CheckAndSet(i, out[1])
  PROVE  snap[i] = ring /\ ring' = out[1]
  BY DEF SnapshotsCurrent, HasValue, CheckAndSet

\* The operations AtomicRing instantiates are the ones ConsulRing extends.
LEMMA SameOperations ==
  /\ Atomic!Token = Token /\ Atomic!newDesc = newDesc /\ Atomic!NoTokens = NoTokens
  /\ \A d, id, b, e : AddsIngester(d, id, b, e) => Atomic!AddsIngester(d, id, b, e)
  /\ \A n, taken : Atomic!generateTokens(n, taken) = generateTokens(n, taken)
  /\ \A d : Atomic!takenTokens(d) = takenTokens(d)
  /\ \A d, id, b : Atomic!removeIngester(d, id, b) = removeIngester(d, id, b)
<1>1. Atomic!Token = Token
  BY DEF Atomic!Token, Token
<1>2. Atomic!newDesc = newDesc /\ Atomic!NoTokens = NoTokens
  BY <1>1 DEF Atomic!newDesc, newDesc, Atomic!NoTokens, NoTokens
<1>3. \A s : Atomic!Reorderings(s) = Reorderings(s)
  BY DEF Atomic!Reorderings, Reorderings, Atomic!Surjection, Surjection
<1>4. \A s, id, n : Atomic!WithOwner(s, id, n) = WithOwner(s, id, n)
  BY DEF Atomic!WithOwner, WithOwner
<1>5. \A d, id, b, e : AddsIngester(d, id, b, e) => Atomic!AddsIngester(d, id, b, e)
  BY <1>1, <1>3, <1>4 DEF Atomic!AddsIngester, AddsIngester
<1>6. \A draws : Atomic!Sorted(draws) = Sorted(draws)
  BY <1>1 DEF Atomic!Sorted, Sorted, Atomic!Cardinality, Cardinality,
     Atomic!IsFiniteSet, IsFiniteSet
<1>7. \A n, taken : Atomic!generateTokens(n, taken) = generateTokens(n, taken)
  BY <1>1, <1>6 DEF Atomic!generateTokens, generateTokens
<1>8. \A d : Atomic!takenTokens(d) = takenTokens(d)
  BY <1>1 DEF Atomic!takenTokens, takenTokens
<1>9. \A d, id, b : Atomic!removeIngester(d, id, b) = removeIngester(d, id, b)
  BY <1>1 DEF Atomic!removeIngester, removeIngester
<1> QED BY <1>1, <1>2, <1>5, <1>7, <1>8, <1>9

\* A successful Put of CAS is one operation of AtomicRing.
LEMMA AtomicPut ==
  ASSUME TypeOK, SnapshotsCurrent, restarts = 0, NEW i \in Ingesters, HasValue(i),
         NEW out \in Outcomes(i), CheckAndSet(i, out[1]),
         mine' \in {mine, [mine EXCEPT ![i] = out[2]]}
  PROVE  [Atomic!Next]_<<ring, mine>>
<1>1. op[i] \in Calls /\ mine \in [Ingesters -> TokenBag]
  BY DEF TypeOK
<1>2. snap[i] = ring /\ ring' = out[1]
  BY PutOnCurrent
<1>3. CASE op[i] = "pickTokens"
  <2>1. /\ AddsIngester(ring, i, out[2], ring')
        /\ out[2] \in generateTokens(NumTokens, takenTokens(ring))
    BY <1>3, <1>2, OutcomesFacts
  <2>2. Atomic!Join(i)
    BY <2>1, SameOperations DEF Atomic!Join
  <2> QED BY <2>2 DEF Atomic!Next
<1>4. CASE op[i] = "heartbeat"
  <2>1. mine' = mine
    BY <1>1, <1>4, OutcomesFacts
  <2>2. CASE i \in ring.ingesters
    <3>1. ring' = ring
      BY <1>4, <1>2, <2>2, OutcomesFacts
    <3> QED BY <2>1, <3>1
  <2>3. CASE i \notin ring.ingesters
    <3>1. AddsIngester(ring, i, mine[i], ring')
      BY <1>4, <1>2, <2>3, OutcomesFacts
    <3>2. Atomic!Rejoin(i)
      BY <2>1, <2>3, <3>1, SameOperations DEF Atomic!Rejoin
    <3> QED BY <3>2 DEF Atomic!Next
  <2> QED BY <2>2, <2>3
<1>5. CASE op[i] = "unregister"
  <2>1. out[2] = mine[i] /\ out[1] = removeIngester(snap[i], i, mine[i])
    BY <1>5, OutcomesFacts
  <2>2. mine' = mine
    BY <1>1, <2>1
  <2>3. ring' = removeIngester(ring, i, mine[i])
    BY <1>2, <2>1
  <2>4. Atomic!Leave(i)
    BY <2>2, <2>3, SameOperations DEF Atomic!Leave
  <2> QED BY <2>4 DEF Atomic!Next
<1> QED BY <1>1, <1>3, <1>4, <1>5 DEF Calls

\* CAS is atomic: as long as Consul keeps its data, whatever the interleaving
\* of attempts, errors, lost answers and crashes, each change of the ring is
\* one whole ingester operation on the ring before it, so no update is lost.
THEOREM CASAtomic ==
  ASSUME MaxRestarts = 0
  PROVE  Spec => CASIsAtomic
<1>1. Init => Atomic!Init /\ SnapshotsCurrent /\ restarts = 0
  BY SameOperations DEF Init, Atomic!Init, SnapshotsCurrent
<1>2. restarts = 0 /\ [Next]_vars => (restarts = 0)'
  <2> SUFFICES ASSUME restarts = 0, [Next]_vars PROVE restarts' = 0
    OBVIOUS
  <2>1. ASSUME ConsulRestart PROVE FALSE
    BY <2>1 DEF ConsulRestart
  <2> QED BY <2>1 DEF Next, Step, RegisterIngester, Unregister, Tick, Quit, CASGet,
             CASGetError, CASPut, CASPutLost, CASPutRejected, CASPutError, EmptyRing,
             Crash, CheckAndSet, consul, vars
<1>3. TypeOK /\ SnapshotsCurrent /\ restarts = 0 /\ [Next]_vars
        => [Atomic!Next]_<<ring, mine>>
  <2> SUFFICES ASSUME TypeOK, SnapshotsCurrent, restarts = 0, [Next]_vars
               PROVE  [Atomic!Next]_<<ring, mine>>
    OBVIOUS
  <2>1. ASSUME NEW i \in Ingesters, CASPut(i) PROVE [Atomic!Next]_<<ring, mine>>
    BY <2>1, AtomicPut DEF CASPut
  <2>2. ASSUME NEW i \in Ingesters, CASPutLost(i) PROVE [Atomic!Next]_<<ring, mine>>
    BY <2>2, AtomicPut DEF CASPutLost
  <2>3. ASSUME NEW i \in Ingesters,
               \/ RegisterIngester(i) \/ Unregister(i) \/ Tick(i) \/ Quit(i)
               \/ CASGet(i) \/ CASGetError(i) \/ CASPutRejected(i) \/ CASPutError(i)
               \/ EmptyRing(i) \/ Crash(i)
        PROVE  UNCHANGED <<ring, mine>>
    BY <2>3 DEF RegisterIngester, Unregister, Tick, Quit, CASGet, CASGetError,
       CASPutRejected, CASPutError, EmptyRing, Crash, consul
  <2>4. ASSUME ConsulRestart PROVE FALSE
    BY <2>4 DEF ConsulRestart
  <2>5. CASE UNCHANGED vars
    BY <2>5 DEF vars
  <2> QED BY <2>1, <2>2, <2>3, <2>4, <2>5 DEF Next, Step
<1>4. Spec => [](TypeOK /\ SnapshotsCurrent /\ restarts = 0)
  BY <1>1, <1>2, InitTyped, StepTyped, SnapshotsStep, PTL DEF Spec
<1> QED BY <1>1, <1>3, <1>4, PTL DEF Spec, CASIsAtomic, Atomic!Spec, Atomic!vars
=============================================================================
