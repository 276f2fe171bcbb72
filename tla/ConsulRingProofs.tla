-------------------------- MODULE ConsulRingProofs --------------------------
(* Registration is safe for any set of ingesters, any token space, any      *)
(* number of tokens, attempts, heartbeats, process restarts and faults.     *)
EXTENDS ConsulCASProofs

\* A step that leaves the ring and the tokens alone, and lets an ingester out
\* of the registered state only with the fault on record, or into unregister.
LEMMA QuietPreserves ==
  ASSUME TokensAccounted, UNCHANGED <<ring, mine, restarts, lostLeave>>,
         \A j \in Ingesters :
           /\ Member(j)' => Member(j)
           /\ Registered(j)' => Registered(j)
           /\ ~dirty'[j] => ~dirty[j] /\ (Registered(j) => Registered(j)')
  PROVE  TokensAccounted'
<1> SUFFICES ASSUME restarts = 0 PROVE TokensAccounted'
  BY DEF TokensAccounted, TokensExclusive
<1>1. TokensExclusive'
  BY DEF TokensAccounted, TokensExclusive, Owns
<1>2. ASSUME NEW j \in Ingesters PROVE Member(j)' => j \in ring'.ingesters
  BY DEF TokensAccounted
<1>3. ASSUME NEW j \in Ingesters, ~lostLeave', Registered(j)' PROVE Held(j)'
  <2>1. Held(j)
    BY <1>3 DEF TokensAccounted
  <2> QED BY <2>1 DEF Held, Owns
<1>4. ASSUME NEW j \in Ingesters, ~dirty'[j] PROVE Accounted(j)'
  <2>1. Accounted(j) /\ (Registered(j)' <=> Registered(j)) /\ (Member(j) => j \in ring.ingesters)
    BY <1>4 DEF TokensAccounted
  <2>2. InCall(j, "unregister")' => InCall(j, "unregister") \/ Member(j)
    BY <2>1 DEF Registered
  <2> QED BY <2>1, <2>2 DEF Accounted, Absent, Owns
<1> QED BY <1>1, <1>2, <1>3, <1>4 DEF TokensAccounted

\* The effect of pickTokens on a ring: the tokens drawn were nobody's.
Joins(i, b) ==
  /\ ring'.ingesters = ring.ingesters \cup {i}
  /\ b \in TokenBag
  /\ \A t \in Token :
       /\ Len(ring'.tokens[t]) = Len(ring.tokens[t]) + b[t]
       /\ Len(ring.tokens[t]) \in Nat
       /\ b[t] > 0 => Len(ring.tokens[t]) = 0 /\ \A j \in Ingesters : ~Owns(ring, j, t)
       /\ \A j \in Ingesters :
            Owns(ring', j, t) <=> Owns(ring, j, t) \/ (j = i /\ b[t] > 0)

\* What the callback of pickTokens puts: entries of the new ingester on
\* tokens that nobody had.
LEMMA PickTokensJoins ==
  ASSUME TypeOK, SnapshotsCurrent, restarts = 0, NEW i \in Ingesters, HasValue(i),
         op[i] = "pickTokens", NEW out \in Outcomes(i), CheckAndSet(i, out[1])
  PROVE  Joins(i, out[2])
<1> DEFINE b == out[2]
<1>1. snap[i] = ring /\ ring' = out[1]
  BY PutOnCurrent
<1>2. /\ b \in TokenBag
      /\ AddsIngester(ring, i, b, ring')
      /\ b \in generateTokens(NumTokens, takenTokens(ring))
  BY <1>1, OutcomesFacts
<1>3. ring \in Desc
  BY DEF TypeOK
<1> HIDE DEF b
<1>4. /\ ring'.ingesters = ring.ingesters \cup {i}
      /\ \A t \in Token :
           /\ Len(ring'.tokens[t]) = Len(ring.tokens[t]) + b[t]
           /\ \A j : Owns(ring', j, t) <=> Owns(ring, j, t) \/ (j = i /\ b[t] > 0)
  BY <1>2, <1>3, AddsIngesterFacts
<1>5. ASSUME NEW t \in Token
      PROVE  /\ Len(ring.tokens[t]) \in Nat
             /\ b[t] > 0 => Len(ring.tokens[t]) = 0 /\ \A j \in Ingesters : ~Owns(ring, j, t)
  <2>1. ring.tokens[t] \in Seq(Ingesters)
    BY <1>3 DEF Desc
  <2>2. ring.tokens[t] # <<>> => b[t] = 0
    BY <1>2, GenerateTokensFacts DEF takenTokens
  <2>3. ring.tokens[t] = <<>> => Len(ring.tokens[t]) = 0 /\ DOMAIN ring.tokens[t] = {}
    BY <2>1
  <2>4. ring.tokens[t] = <<>> => \A j \in Ingesters : ~Owns(ring, j, t)
    BY <2>3 DEF Owns
  <2>5. b[t] > 0 => ring.tokens[t] = <<>>
    BY <2>2
  <2>6. Len(ring.tokens[t]) \in Nat
    BY <2>1
  <2> QED BY <2>3, <2>4, <2>5, <2>6
<1> QED BY <1>2, <1>4, <1>5 DEF Joins, b

\* The other processes are where they were.
LEMMA LocalStatus ==
  ASSUME NEW i \in Ingesters, Local(i), NEW j \in Ingesters \ {i}
  PROVE  /\ Member(j)' <=> Member(j)
         /\ Registered(j)' <=> Registered(j)
         /\ InCall(j, "unregister")' <=> InCall(j, "unregister")
  BY DEF Local, Member, Registered, InCall

\* Registration, answered or not.
LEMMA JoinPreserves ==
  ASSUME TypeOK, TokensAccounted, restarts = 0, restarts' = 0, lostLeave' = lostLeave,
         NEW i \in Ingesters, InCall(i, "pickTokens"), Local(i), NEW b, Joins(i, b),
         \A j \in Ingesters \ {i} : mine'[j] = mine[j] /\ dirty'[j] = dirty[j],
         \/ pc'[i] = "wait" /\ mine'[i] = b /\ dirty'[i] = dirty[i]
         \/ ~Registered(i)' /\ dirty'[i]
  PROVE  TokensAccounted'
<1>1. ~Registered(i)
  BY DEF Registered, Member, InCall
<1>2. pc'[i] = "wait" => Member(i)' /\ Registered(i)' /\ ~InCall(i, "unregister")'
  BY DEF Registered, Member, InCall
<1>3. Member(i)' => Registered(i)'
  BY DEF Registered
<1>4. TokensExclusive'
  BY DEF TokensAccounted, TokensExclusive, Joins
<1>5. ASSUME NEW j \in Ingesters, Member(j)' PROVE j \in ring'.ingesters
  BY <1>5, LocalStatus DEF TokensAccounted, Joins
<1>6. ASSUME NEW j \in Ingesters, ~lostLeave', Registered(j)' PROVE Held(j)'
  <2>1. CASE j = i
    BY <1>6, <2>1 DEF Joins, Held, TokenBag
  <2>2. CASE j # i
    <3>1. Held(j) /\ mine'[j] = mine[j]
      BY <1>6, <2>2, LocalStatus DEF TokensAccounted
    <3>2. mine[j] \in TokenBag
      BY DEF TypeOK
    <3> QED BY <3>1, <3>2 DEF Joins, Held, TokenBag
  <2> QED BY <2>1, <2>2
<1>7. ASSUME NEW j \in Ingesters, ~dirty'[j] PROVE Accounted(j)'
  <2>1. CASE j = i
    <3>1. /\ pc'[i] = "wait" /\ mine'[i] = b /\ ~dirty[i]
      BY <1>7, <2>1
    <3>2. Absent(i)
      BY <1>1, <3>1 DEF TokensAccounted, Accounted
    <3>3. ASSUME NEW t \in Token, Owns(ring', i, t)
          PROVE  Len(ring'.tokens[t]) <= b[t]
      <4>1. b[t] > 0 /\ b[t] \in Nat
        BY <3>2, <3>3 DEF Joins, Absent, TokenBag
      <4>2. Len(ring'.tokens[t]) = Len(ring.tokens[t]) + b[t] /\ Len(ring.tokens[t]) = 0
        BY <4>1 DEF Joins
      <4> QED BY <4>1, <4>2
    <3> QED BY <1>2, <2>1, <3>1, <3>3 DEF Accounted
  <2>2. CASE j # i
    <3>1. Accounted(j) /\ mine'[j] = mine[j]
      BY <1>7, <2>2 DEF TokensAccounted
    <3>2. \A t \in Token : Owns(ring', j, t) =>
            Owns(ring, j, t) /\ Len(ring'.tokens[t]) = Len(ring.tokens[t])
      <4> SUFFICES ASSUME NEW t \in Token, Owns(ring', j, t)
                   PROVE  Owns(ring, j, t) /\ Len(ring'.tokens[t]) = Len(ring.tokens[t])
        OBVIOUS
      <4>1. Owns(ring, j, t)
        BY <2>2 DEF Joins
      <4>2. ~(b[t] > 0) /\ b[t] \in Nat
        BY <4>1 DEF Joins, TokenBag
      <4>3. Len(ring'.tokens[t]) = Len(ring.tokens[t]) + b[t] /\ Len(ring.tokens[t]) \in Nat
        BY DEF Joins
      <4> QED BY <4>1, <4>2, <4>3
    <3> QED BY <2>2, <3>1, <3>2, LocalStatus DEF Joins, Accounted, Absent
  <2> QED BY <2>1, <2>2
<1> QED BY <1>4, <1>5, <1>6, <1>7 DEF TokensAccounted

\* Unregistration, answered or not.
LEMMA LeavePreserves ==
  ASSUME TypeOK, TokensAccounted, restarts = 0, restarts' = 0, mine' = mine,
         NEW i \in Ingesters, InCall(i, "unregister"), Local(i),
         ring' = removeIngester(ring, i, mine[i]),
         \A j \in Ingesters \ {i} : dirty'[j] = dirty[j],
         dirty[i] => dirty'[i],
         \/ pc'[i] = "exited" /\ lostLeave' = lostLeave
         \/ InCall(i, "unregister")' /\ lostLeave'
         \/ pc'[i] = "down" /\ dirty'[i] /\ lostLeave'
  PROVE  TokensAccounted'
<1>1. Registered(i) /\ ~Member(i)' /\ (pc'[i] = "exited" => ~Registered(i)')
  BY DEF Registered, Member, InCall
<1>2. /\ ring \in Desc
      /\ \A j \in Ingesters : mine[j] \in TokenBag
      /\ \A j \in Ingesters, t \in Token : mine[j][t] \in Nat
      /\ \A t \in Token : Len(ring.tokens[t]) \in Nat
  <2>1. ring \in Desc /\ \A j \in Ingesters : mine[j] \in TokenBag
    BY DEF TypeOK
  <2>2. \A j \in Ingesters, t \in Token : mine[j][t] \in Nat
    BY <2>1 DEF TokenBag
  <2>3. \A t \in Token : ring.tokens[t] \in Seq(Ingesters)
    BY <2>1 DEF Desc
  <2>4. \A t \in Token : Len(ring.tokens[t]) \in Nat
    BY <2>3
  <2> QED BY <2>1, <2>2, <2>4
<1>3. /\ ring'.ingesters = ring.ingesters \ {i}
      /\ \A t \in Token :
           /\ mine[i][t] = 0 => ring'.tokens[t] = ring.tokens[t]
           /\ Len(ring'.tokens[t]) <= Len(ring.tokens[t])
           /\ mine[i][t] >= Len(ring.tokens[t]) => \A j : ~Owns(ring', j, t)
           /\ \A j : Owns(ring', j, t) => Owns(ring, j, t)
  BY <1>2, RemoveIngesterFacts
<1>4. TokensExclusive'
  BY <1>3 DEF TokensAccounted, TokensExclusive
<1>5. ASSUME NEW j \in Ingesters, Member(j)' PROVE j \in ring'.ingesters
  BY <1>1, <1>3, <1>5, LocalStatus DEF TokensAccounted
<1>6. ASSUME NEW j \in Ingesters, ~lostLeave', Registered(j)' PROVE Held(j)'
  <2>1. j # i /\ ~lostLeave
    BY <1>1, <1>6
  <2>2. Held(i) /\ Held(j)
    BY <1>1, <1>6, <2>1, LocalStatus DEF TokensAccounted
  <2>3. ASSUME NEW t \in Token, mine[j][t] > 0
        PROVE  Owns(ring', j, t) /\ Len(ring'.tokens[t]) >= mine[j][t]
    <3>1. Owns(ring, j, t) /\ Len(ring.tokens[t]) >= mine[j][t]
      BY <2>2, <2>3 DEF Held
    <3>2. ~Owns(ring, i, t)
      BY <2>1, <3>1 DEF TokensAccounted, TokensExclusive
    <3>3. mine[i][t] = 0
      BY <1>2, <2>2, <3>2 DEF Held
    <3>4. ring'.tokens[t] = ring.tokens[t]
      BY <1>3, <3>3
    <3>5. Owns(ring', j, t)
      BY <3>1, <3>4 DEF Owns
    <3> QED BY <3>1, <3>4, <3>5
  <2>4. j \in ring'.ingesters
    BY <1>3, <2>1, <2>2 DEF Held
  <2> QED BY <2>3, <2>4 DEF Held
<1>7. ASSUME NEW j \in Ingesters, ~dirty'[j] PROVE Accounted(j)'
  <2>1. CASE j = i
    <3>1. Accounted(i)
      BY <1>7, <2>1 DEF TokensAccounted
    <3>2. Absent(i)'
      BY <1>1, <1>2, <1>3, <3>1 DEF Accounted, Absent
    <3> QED BY <2>1, <3>2 DEF Accounted, Absent
  <2>2. CASE j # i
    <3>1. Accounted(j)
      BY <1>7, <2>2 DEF TokensAccounted
    <3>2. \A t \in Token : Len(ring'.tokens[t]) \in Nat
      <4>1. ring' \in Desc
        BY <1>2, RemoveIngesterFacts
      <4>2. \A t \in Token : ring'.tokens[t] \in Seq(Ingesters)
        BY <4>1 DEF Desc
      <4> QED BY <4>2
    <3>3. Absent(j) => Absent(j)'
      BY <1>3 DEF Absent
    <3>4. j \in ring.ingesters => j \in ring'.ingesters
      BY <1>3, <2>2
    <3>5. Registered(j) => \A t \in Token :
             Owns(ring', j, t) => Len(ring'.tokens[t]) <= mine[j][t]
      BY <1>2, <1>3, <3>1, <3>2 DEF Accounted
    <3> QED BY <2>2, <3>1, <3>3, <3>4, <3>5, LocalStatus DEF Accounted
  <2> QED BY <2>1, <2>2
<1> QED BY <1>4, <1>5, <1>6, <1>7 DEF TokensAccounted

\* A step of one process that does not touch the ring.
LEMMA QuietLocal ==
  ASSUME TokensAccounted, UNCHANGED <<ring, mine, restarts, lostLeave>>,
         NEW i \in Ingesters, Local(i),
         \A j \in Ingesters \ {i} : dirty'[j] = dirty[j],
         Member(i)' => Member(i), Registered(i)' => Registered(i),
         ~dirty'[i] => ~dirty[i] /\ (Registered(i) => Registered(i)')
  PROVE  TokensAccounted'
  BY LocalStatus, QuietPreserves

\* heartbeat finds its ingester in the ring, and puts back what it read.
LEMMA HeartbeatKeepsRing ==
  ASSUME TypeOK, Inductive, restarts = 0, NEW i \in Ingesters, HasValue(i),
         op[i] = "heartbeat", NEW out \in Outcomes(i), CheckAndSet(i, out[1])
  PROVE  ring' = ring
<1>1. snap[i] = ring /\ ring' = out[1]
  BY PutOnCurrent DEF Inductive
<1>2. i \in ring.ingesters
  BY DEF Inductive, TokensAccounted, Member, InCall, HasValue
<1> QED BY <1>1, <1>2, OutcomesFacts

\* Every step preserves the accounting of tokens.
LEMMA AccountedStep ==
  TypeOK /\ Inductive /\ [Next]_vars => TokensAccounted'
<1> SUFFICES ASSUME TypeOK, Inductive, [Next]_vars, restarts' = 0
             PROVE  TokensAccounted'
  BY DEF TokensAccounted, TokensExclusive
<1> USE DEF Inductive
<1>1. ASSUME NEW i \in Ingesters, RegisterIngester(i) PROVE TokensAccounted'
  <2>1. Local(i) /\ pc'[i] = "get" /\ op'[i] = "pickTokens"
    BY <1>1, GotoEffect DEF RegisterIngester, Call
  <2> QED BY <1>1, <2>1, QuietLocal
          DEF RegisterIngester, consul, Member, Registered, InCall
<1>2. ASSUME NEW i \in Ingesters, Unregister(i) PROVE TokensAccounted'
  BY <1>2, QuietPreserves DEF Unregister, consul, casVars, Member, Registered, InCall
<1>3. ASSUME NEW i \in Ingesters, Tick(i) PROVE TokensAccounted'
  <2>1. Local(i) /\ pc'[i] = "get" /\ op'[i] = "heartbeat"
    BY <1>3, GotoEffect DEF Tick, Call
  <2> QED BY <1>3, <2>1, QuietLocal DEF Tick, consul, Member, Registered, InCall
<1>4. ASSUME NEW i \in Ingesters, Quit(i) PROVE TokensAccounted'
  <2>1. Local(i) /\ pc'[i] = "get" /\ op'[i] = "unregister"
    BY <1>4, GotoEffect DEF Quit, Call
  <2> QED BY <1>4, <2>1, QuietLocal DEF Quit, consul, Member, Registered, InCall
<1>5. ASSUME NEW i \in Ingesters, CASGet(i) PROVE TokensAccounted'
  <2>1. Local(i) /\ pc[i] = "get" /\ pc'[i] = "put" /\ op' = op
    BY <1>5 DEF CASGet, Local, TypeOK
  <2> QED BY <1>5, <2>1, QuietLocal DEF CASGet, consul, Member, Registered, InCall
<1>6. ASSUME NEW i \in Ingesters, CASGetError(i) \/ CASPutRejected(i) \/ CASPutError(i)
      PROVE  TokensAccounted'
  <2>1. pc[i] \in {"get", "put"} /\ Continue(i) /\ FatalLeaves(i)
    BY <1>6 DEF CASGetError, CASPutRejected, CASPutError, HasValue
  <2>2. /\ Local(i)
        /\ \/ pc'[i] = "get" /\ op'[i] = op[i]
           \/ pc'[i] = "wait" /\ op[i] = "heartbeat"
           \/ pc'[i] = "down" /\ op[i] # "heartbeat" /\ tries[i] + 1 >= Retries
    BY <2>1, ContinueEffect
  <2>3. /\ \A j \in Ingesters \ {i} : dirty'[j] = dirty[j]
        /\ dirty[i] => dirty'[i]
        /\ pc'[i] = "down" /\ op[i] = "unregister" => dirty'[i]
    BY <2>1, <2>2 DEF FatalLeaves, TypeOK
  <2>4. /\ Member(i)' => Member(i)
        /\ Registered(i)' => Registered(i)
        /\ Registered(i) => Registered(i)' \/ dirty'[i]
    BY <2>1, <2>2, <2>3 DEF Member, Registered, InCall
  <2>5. UNCHANGED <<ring, mine, restarts, lostLeave>>
    BY <1>6 DEF CASGetError, CASPutRejected, CASPutError, consul
  <2> QED BY <2>2, <2>3, <2>4, <2>5, QuietLocal
<1>7. ASSUME NEW i \in Ingesters, CASPut(i) PROVE TokensAccounted'
  <2>1. PICK out \in Outcomes(i) :
          CheckAndSet(i, out[1]) /\ mine' = [mine EXCEPT ![i] = out[2]]
    BY <1>7 DEF CASPut
  <2>2. HasValue(i) /\ restarts = 0 /\ lostLeave' = lostLeave /\ dirty' = dirty
    BY <1>7, <2>1 DEF CASPut, CheckAndSet
  <2>3. /\ Local(i)
        /\ pc'[i] = IF op[i] = "unregister" THEN "exited" ELSE "wait"
    BY <1>7, GotoEffect DEF CASPut, Succeed, Return
  <2>4. op[i] \in Calls /\ mine \in [Ingesters -> TokenBag]
    BY DEF TypeOK
  <2>5. CASE op[i] = "pickTokens"
    <3>1. Joins(i, out[2])
      BY <2>1, <2>2, <2>5, PickTokensJoins
    <3>2. InCall(i, "pickTokens")
      BY <2>2, <2>5 DEF InCall, HasValue
    <3> QED BY <2>1, <2>2, <2>3, <2>4, <2>5, <3>1, <3>2, JoinPreserves
  <2>6. CASE op[i] = "heartbeat"
    <3>1. ring' = ring /\ mine' = mine
      BY <2>1, <2>2, <2>4, <2>6, HeartbeatKeepsRing, OutcomesFacts
    <3>2. Member(i) /\ Registered(i) /\ Member(i)' /\ Registered(i)'
      BY <2>2, <2>3, <2>6 DEF Member, Registered, InCall, HasValue
    <3> QED BY <2>2, <2>3, <3>1, <3>2, QuietLocal
  <2>7. CASE op[i] = "unregister"
    <3>1. ring' = removeIngester(ring, i, mine[i]) /\ mine' = mine
      <4>1. snap[i] = ring /\ ring' = out[1]
        BY <2>1, <2>2, PutOnCurrent
      <4>2. out[2] = mine[i] /\ out[1] = removeIngester(snap[i], i, mine[i])
        BY <2>7, OutcomesFacts
      <4>3. mine' = mine
        BY <2>1, <2>4, <4>2
      <4> QED BY <4>1, <4>2, <4>3
    <3>2. InCall(i, "unregister")
      BY <2>2, <2>7 DEF InCall, HasValue
    <3> QED BY <2>2, <2>3, <2>7, <3>1, <3>2, LeavePreserves
  <2> QED BY <2>4, <2>5, <2>6, <2>7 DEF Calls
<1>8. ASSUME NEW i \in Ingesters, CASPutLost(i) PROVE TokensAccounted'
  <2>1. PICK out \in Outcomes(i) : CheckAndSet(i, out[1])
    BY <1>8 DEF CASPutLost
  <2>2. /\ HasValue(i) /\ restarts = 0 /\ mine' = mine
        /\ lostLeave' = (lostLeave \/ op[i] = "unregister")
    BY <1>8, <2>1 DEF CASPutLost, CheckAndSet
  <2>3. /\ Local(i)
        /\ \/ pc'[i] = "get" /\ op'[i] = op[i]
           \/ pc'[i] = "wait" /\ op[i] = "heartbeat"
           \/ pc'[i] = "down" /\ op[i] # "heartbeat" /\ tries[i] + 1 >= Retries
    BY <1>8, ContinueEffect DEF CASPutLost
  <2>4. /\ \A j \in Ingesters \ {i} : dirty'[j] = dirty[j]
        /\ dirty'[i] = (\/ dirty[i] \/ op[i] = "pickTokens"
                        \/ op[i] = "unregister" /\ tries[i] + 1 >= Retries)
    BY <1>8 DEF CASPutLost, TypeOK
  <2>5. op[i] \in Calls /\ pc[i] = "put"
    BY <2>2 DEF TypeOK, HasValue
  <2>6. CASE op[i] = "pickTokens"
    <3>1. Joins(i, out[2])
      BY <2>1, <2>2, <2>6, PickTokensJoins
    <3>2. InCall(i, "pickTokens") /\ ~Registered(i)'
      BY <2>3, <2>5, <2>6 DEF InCall, Registered, Member
    <3>3. lostLeave' = lostLeave
      BY <2>2, <2>6 DEF TypeOK
    <3>4. dirty'[i]
      BY <2>4, <2>6
    <3> QED BY <2>2, <2>3, <2>4, <3>1, <3>2, <3>3, <3>4, JoinPreserves
  <2>7. CASE op[i] = "heartbeat"
    <3>1. ring' = ring
      BY <2>1, <2>2, <2>7, HeartbeatKeepsRing
    <3>2. Member(i) /\ Registered(i) /\ Member(i)' /\ Registered(i)'
      BY <2>3, <2>5, <2>7 DEF Member, Registered, InCall
    <3>3. (dirty'[i] <=> dirty[i]) /\ (lostLeave' <=> lostLeave)
      BY <2>2, <2>4, <2>7
    <3>4. lostLeave' = lostLeave
      BY <2>2, <2>7 DEF TypeOK
    <3> QED BY <2>2, <2>3, <2>4, <3>1, <3>2, <3>3, <3>4, QuietLocal
  <2>8. CASE op[i] = "unregister"
    <3>1. ring' = removeIngester(ring, i, mine[i])
      <4>1. snap[i] = ring /\ ring' = out[1]
        BY <2>1, <2>2, PutOnCurrent
      <4>2. out[1] = removeIngester(snap[i], i, mine[i])
        BY <2>8, OutcomesFacts
      <4> QED BY <4>1, <4>2
    <3>2. InCall(i, "unregister")
      BY <2>5, <2>8 DEF InCall
    <3>3. lostLeave'
      BY <2>2, <2>8
    <3>4. dirty[i] => dirty'[i]
      BY <2>4
    <3>5. \/ InCall(i, "unregister")'
          \/ pc'[i] = "down" /\ dirty'[i]
      BY <2>3, <2>4, <2>8 DEF InCall
    <3> QED BY <2>2, <2>3, <2>4, <3>1, <3>2, <3>3, <3>4, <3>5, LeavePreserves
  <2> QED BY <2>5, <2>6, <2>7, <2>8 DEF Calls
<1>9. ASSUME NEW i \in Ingesters, EmptyRing(i) \/ Crash(i) PROVE TokensAccounted'
  <2>1. Local(i) /\ pc'[i] \in {"wait", "down"} /\ (pc'[i] = "wait" => EmptyRing(i) /\ op[i] = "heartbeat")
    BY <1>9, GotoEffect DEF EmptyRing, Crash, Fail, Return
  <2>2. /\ ~Registered(i)' /\ ~Member(i)'
    BY <1>9, <2>1 DEF EmptyRing, RefusesRing, Member, Registered, InCall
  <2>3. /\ \A j \in Ingesters \ {i} : dirty'[j] = dirty[j]
        /\ dirty[i] => dirty'[i]
        /\ Registered(i) => dirty'[i]
    BY <1>9 DEF EmptyRing, Crash, TypeOK
  <2>4. UNCHANGED <<ring, mine, restarts, lostLeave>>
    BY <1>9 DEF EmptyRing, Crash, consul
  <2> QED BY <2>1, <2>2, <2>3, <2>4, QuietLocal
<1>10. ASSUME ConsulRestart PROVE FALSE
  BY <1>10 DEF ConsulRestart, TypeOK
<1>11. CASE UNCHANGED vars
  BY <1>11, QuietPreserves DEF vars, Member, Registered, InCall
<1> QED BY <1>1, <1>2, <1>3, <1>4, <1>5, <1>6, <1>7, <1>8, <1>9, <1>10, <1>11
        DEF Next, Step

\* Inductive is an invariant.
THEOREM InductiveInvariant == Spec => []Inductive
<1>1. Init => Inductive
  <2> SUFFICES ASSUME Init PROVE Inductive
    OBVIOUS
  <2>1. \A i \in Ingesters : ~Registered(i) /\ ~Member(i) /\ ~InCall(i, "unregister")
    BY DEF Init, Registered, Member, InCall
  <2>2. \A i \in Ingesters : Absent(i)
    BY NewDescFacts DEF Init, Absent, newDesc
  <2>3. TokensExclusive
    BY NewDescFacts DEF Init, TokensExclusive
  <2>4. SnapshotsCurrent
    BY DEF Init, SnapshotsCurrent
  <2> QED BY <2>1, <2>2, <2>3, <2>4 DEF Inductive, TokensAccounted, Accounted
<1>2. TypeOK /\ Inductive /\ [Next]_vars => Inductive'
  BY SnapshotsStep, AccountedStep DEF Inductive
<1> QED BY <1>1, <1>2, TypeCorrect, PTL DEF Spec

\* No two ingesters hold the same token, for any number of ingesters, tokens,
\* attempts, crashes and lost answers, as long as Consul keeps its data.
THEOREM ExclusiveTokens == Spec => []TokensExclusive
<1>1. Inductive => TokensExclusive
  BY DEF Inductive, TokensAccounted
<1> QED BY <1>1, InductiveInvariant, PTL

\* A member of the ring keeps all its tokens until it unregisters.
THEOREM MembersKeep == Spec => []MembersKeepTokens
<1>1. Inductive => MembersKeepTokens
  BY DEF Inductive, TokensAccounted, MembersKeepTokens, Registered, Held
<1> QED BY <1>1, InductiveInvariant, PTL

\* Only a fault of an ingester leaves tokens that lead nowhere ...
THEOREM NoOrphans == Spec => []OrphansOnlyFromFaults
<1>1. Inductive => OrphansOnlyFromFaults
  BY DEF Inductive, TokensAccounted, OrphansOnlyFromFaults, Accounted, Absent, Registered
<1> QED BY <1>1, InductiveInvariant, PTL

\* ... or leaves anything behind once unregister has returned.
THEOREM ExitIsClean == Spec => []CleanExit
<1>1. Inductive => CleanExit
  BY DEF Inductive, TokensAccounted, CleanExit, Accounted, Registered, Member, InCall
<1> QED BY <1>1, InductiveInvariant, PTL
=============================================================================
