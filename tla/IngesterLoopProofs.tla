------------------------- MODULE IngesterLoopProofs -------------------------
(* The rest of the invariant through the steps that leave chunks alone:       *)
(* flushUser, getStateFor, and what flushSeries decides.                      *)
EXTENDS IngesterFlushProofs

LEMMA SpawnUserRest ==
  ASSUME Inductive, NEW own \in todo, NEW id \in todo, SpawnUser(own, id)
  PROVE  Rest'
<1> DEFINE new == [own |-> own, id |-> id, state |-> 0, pairs |-> {}]
<1>1. /\ UNCHANGED <<load, userState, states, objects, store, appending, loop, flushing, main, acked>>
      /\ todo' = todo \ {own} /\ flushUsers' = flushUsers \cup {new}
      /\ faults' = faults \cup capture(own, id)
  BY DEF SpawnUser, dataVars
<1>2. /\ new.own = own /\ new.id = id /\ new.state = 0 /\ new.pairs = {}
  OBVIOUS
<1> HIDE DEF new
<1>3. faults \subseteq faults' /\ (Clean' => Clean /\ own = id)
  BY <1>1 DEF Clean, capture
<1>4. ASSUME Clean'  PROVE  OneFlushPerUser' /\ OneFlushPerSeries'
  <2>1. OneFlushPerUser /\ OneFlushPerSeries
    BY <1>3, <1>4 DEF Inductive, Workers
  <2>2. OneFlushPerUser'
    BY <1>1, <1>2, <1>3, <1>4, <2>1 DEF OneFlushPerUser
  <2>3. OneFlushPerSeries'
    BY <1>1, <2>1 DEF OneFlushPerSeries
  <2> QED  BY <2>2, <2>3
<1>5. Workers'
  BY <1>4 DEF Workers
<1>6. Fronts'
  BY <1>1, <1>3 DEF Inductive, Fronts, InFront, Stored
<1>7. Kept'
  BY <1>1, <1>3, SamplesSame DEF Inductive, Kept
<1>8. ASSUME NEW x \in acked, InStore(x[1], x[2]) \/ Pending(x[1])
      PROVE  (InStore(x[1], x[2]) \/ Pending(x[1]))'
  <2>1. CASE InStore(x[1], x[2])
    BY <1>1, <2>1, SamplesSame
  <2>2. CASE owner[x[1]] \in todo
    BY <1>1, <1>2, <2>2 DEF Pending, owner
  <2>3. CASE Pending(x[1]) /\ owner[x[1]] \notin todo
    BY <1>1, <2>3 DEF Pending, owner
  <2> QED  BY <1>8, <2>1, <2>2, <2>3
<1>9. LastFlush'
  <2>1. loop \notin {"select", "done"}
    BY DEF Inductive, LastFlush
  <2> QED  BY <1>1, <1>3, <1>8, <2>1 DEF Inductive, LastFlush
<1> QED  BY <1>5, <1>6, <1>7, <1>9 DEF Rest

\* flushUser has found the series of its user: those with samples in memory are
\* among them.
LEMMA UserBeginRest ==
  ASSUME Inductive, NEW g \in flushUsers, UserBegin(g)
  PROVE  Rest'
<1> DEFINE st == userState[g.id]
           new == [own |-> g.own, id |-> g.id, state |-> st, pairs |-> SeriesOf(st)]
<1>1. /\ UNCHANGED <<load, userState, states, objects, store, appending, loop, todo, flushing, main,
                     acked, faults>>
      /\ flushUsers' = (flushUsers \ {g}) \cup (IF st = 0 THEN {} ELSE {new})
      /\ g.state = 0
  BY DEF UserBegin, dataVars, SeriesOf
<1>2. /\ new.own = g.own /\ new.id = g.id /\ new.state = st /\ new.pairs = SeriesOf(st)
      /\ \A p \in SeriesOf(st) : p[2] = states[st][p[1]]
  BY DEF SeriesOf
<1> HIDE DEF new
<1>3. Clean' = Clean
  BY <1>1 DEF Clean
<1>4. ASSUME Clean  PROVE  OneFlushPerUser' /\ OneFlushPerSeries'
  <2>1. OneFlushPerUser /\ OneFlushPerSeries
    BY <1>4 DEF Inductive, Workers
  <2>2. OneFlushPerUser'
    BY <1>1, <1>2, <2>1 DEF OneFlushPerUser
  <2>3. OneFlushPerSeries'
    <3>1. ASSUME NEW f \in flushing
          PROVE  \E h \in flushUsers' : /\ h.own = f.by /\ h.state = f.state
                                        /\ \A p \in h.pairs : p[1] # f.fp
      <4>1. PICK h \in flushUsers : /\ h.own = f.by /\ h.state = f.state
                                    /\ \A p \in h.pairs : p[1] # f.fp
        BY <2>1 DEF OneFlushPerSeries
      <4>2. f.state # 0
        BY GoodWorkers DEF GoodSeries, Inductive, Base
      <4> QED  BY <1>1, <4>1, <4>2
    <3> QED  BY <1>1, <2>1, <3>1 DEF OneFlushPerSeries
  <2> QED  BY <2>2, <2>3
<1>5. Workers'
  BY <1>3, <1>4 DEF Workers
<1>6. Fronts'
  BY <1>1, <1>3 DEF Inductive, Fronts, InFront, Stored
<1>7. Kept'
  BY <1>1, <1>3, SamplesSame DEF Inductive, Kept
<1>8. ASSUME Clean, NEW x \in acked, InStore(x[1], x[2]) \/ Pending(x[1])
      PROVE  (InStore(x[1], x[2]) \/ Pending(x[1]))'
  <2>1. CASE InStore(x[1], x[2])
    BY <1>1, <2>1, SamplesSame
  <2>2. CASE ~InStore(x[1], x[2])
    <3>1. InMemory(x[1], x[2]) /\ x[1] \in Series
      BY <1>8, <2>2, AckedType DEF Inductive, Kept
    <3>2. CASE owner[x[1]] \in todo
      BY <1>1, <3>2 DEF Pending, owner
    <3>3. ASSUME NEW h \in flushUsers, h.own = owner[x[1]], h # g,
                 \/ h.state = 0
                 \/ \E p \in h.pairs : p[1] = x[1]
                 \/ \E f \in flushing : f.by = h.own /\ f.fp = x[1] /\ f.pc # "remove"
          PROVE  Pending(x[1])'
      BY <1>1, <3>3 DEF Pending, owner
    <3>4. CASE g.own = owner[x[1]]
      <4>1. g.id = g.own
        BY <1>8 DEF Inductive, Workers, OneFlushPerUser
      <4>2. st # 0 /\ states[st][x[1]] # 0
        BY <3>1, <3>4, <4>1 DEF InMemory
      <4>3. <<x[1], states[st][x[1]]>> \in SeriesOf(st)
        BY <3>1, <4>2 DEF SeriesOf
      <4>4. \E p \in new.pairs : p[1] = x[1]
        BY <1>2, <4>3
      <4>5. new \in flushUsers' /\ new.own = owner'[x[1]]
        BY <1>1, <1>2, <3>4, <4>2 DEF owner
      <4> QED  BY <4>4, <4>5 DEF Pending
    <3> QED  BY <1>8, <2>2, <3>2, <3>3, <3>4 DEF Pending
  <2> QED  BY <2>1, <2>2
<1>9. LastFlush'
  <2>1. loop \notin {"select", "done"}
    BY DEF Inductive, LastFlush
  <2> QED  BY <1>1, <1>3, <1>8, <2>1 DEF Inductive, LastFlush
<1> QED  BY <1>5, <1>6, <1>7, <1>9 DEF Rest

\* flushUser is done: it drops its state only if no series is left there.
LEMMA UserEndRest ==
  ASSUME Inductive, NEW g \in flushUsers, UserEnd(g)
  PROVE  Rest'
<1>1. /\ UNCHANGED <<load, states, objects, store, appending, loop, todo, flushing, main, acked, faults>>
      /\ flushUsers' = flushUsers \ {g} /\ g.state # 0 /\ g.pairs = {}
      /\ \A f \in flushing : f.by # g.own
      /\ userState' = IF \A fp \in Series : states[g.state][fp] = 0
                      THEN [userState EXCEPT ![g.id] = 0] ELSE userState
  BY DEF UserEnd
<1>2. Clean' = Clean /\ userState \in [Users -> Nat] /\ g.id \in Users
      /\ \A h \in flushUsers : h.id \in Users
  BY <1>1, Typed DEF Clean, Inductive, TypeOK
<1>3. \A u \in Users : u # g.id => userState'[u] = userState[u]
  BY <1>1, <1>2
<1>4. ASSUME Clean  PROVE  OneFlushPerUser' /\ OneFlushPerSeries'
  <2>1. OneFlushPerUser /\ OneFlushPerSeries
    BY <1>4 DEF Inductive, Workers
  <2>2. \A h \in flushUsers' : userState'[h.id] = userState[h.id]
    BY <1>1, <1>2, <1>3, <2>1 DEF OneFlushPerUser
  <2>3. OneFlushPerUser'
    BY <1>1, <2>1, <2>2 DEF OneFlushPerUser
  <2>4. OneFlushPerSeries'
    BY <1>1, <2>1 DEF OneFlushPerSeries
  <2> QED  BY <2>3, <2>4
<1>5. Workers'
  BY <1>2, <1>4 DEF Workers
<1>6. Fronts'
  BY <1>1, <1>2 DEF Inductive, Fronts, InFront, Stored
<1>7. ASSUME Clean, NEW x \in acked  PROVE  (InMemory(x[1], x[2]) \/ InStore(x[1], x[2]))'
  <2>1. CASE InStore(x[1], x[2])
    BY <1>1, <2>1 DEF InStore
  <2>2. CASE InMemory(x[1], x[2])
    <3>1. x[1] \in Series /\ owner[x[1]] \in Users
      BY AckedType DEF Inductive
    <3>2. userState'[owner[x[1]]] = userState[owner[x[1]]]
      <4>1. userState[g.id] = g.state
        BY <1>1, <1>7 DEF Inductive, Workers, OneFlushPerUser
      <4>2. states[userState[owner[x[1]]]][x[1]] # 0
        BY <2>2 DEF InMemory
      <4>3. CASE owner[x[1]] = g.id
        BY <1>1, <3>1, <4>1, <4>2, <4>3
      <4>4. CASE owner[x[1]] # g.id
        BY <1>3, <3>1, <4>4
      <4> QED  BY <4>3, <4>4
    <3> QED  BY <1>1, <2>2, <3>2 DEF InMemory, owner
  <2> QED  BY <1>7, <2>1, <2>2 DEF Inductive, Kept
<1>8. Kept'
  BY <1>1, <1>2, <1>7 DEF Inductive, Kept
<1>9. ASSUME NEW x \in acked, InStore(x[1], x[2]) \/ Pending(x[1])
      PROVE  (InStore(x[1], x[2]) \/ Pending(x[1]))'
  <2>1. CASE InStore(x[1], x[2])
    BY <1>1, <2>1 DEF InStore
  <2>2. CASE Pending(x[1])
    BY <1>1, <2>2 DEF Pending, owner
  <2> QED  BY <1>9, <2>1, <2>2
<1>10. LastFlush'
  <2>1. loop \notin {"select", "done"}
    BY DEF Inductive, LastFlush
  <2> QED  BY <1>1, <1>2, <1>9, <2>1 DEF Inductive, LastFlush
<1> QED  BY <1>5, <1>6, <1>8, <1>10 DEF Rest

\* A series that is being flushed is not among those that flushUser has still to
\* start a goroutine for.
LEMMA NotFlushing ==
  ASSUME Inductive, Clean, NEW g \in flushUsers, NEW p \in g.pairs, NEW h \in flushing
  PROVE  h.object # p[2]
<1>1. SUFFICES ASSUME h.object = p[2]  PROVE  FALSE
  OBVIOUS
<1>2. OneFlushPerUser /\ OneFlushPerSeries /\ Base
  BY DEF Inductive, Workers, Base
<1>3. PICK k \in flushUsers : k.own = h.by /\ k.state = h.state /\ \A q \in k.pairs : q[1] # h.fp
  BY <1>2 DEF OneFlushPerSeries
<1>4. /\ h.object = states[h.state][h.fp] /\ p[2] = states[g.state][p[1]]
      /\ k.id = k.own /\ g.id = g.own
      /\ k.state # 0 => userState[k.id] = k.state
      /\ g.state # 0 => userState[g.id] = g.state
  BY <1>2 DEF OneFlushPerUser, OneFlushPerSeries
<1>5. /\ h.state \in 1 .. Len(states) /\ g.state \in 1 .. Len(states) /\ h.object # 0
      /\ p[1] \in Series /\ h.fp \in Series /\ k.id \in Users /\ g.id \in Users
  <2>1. /\ h.state \in Nat /\ g.state \in Nat /\ Len(states) \in Nat /\ p[1] \in Series
        /\ h.fp \in Series /\ k.id \in Users /\ g.id \in Users
    BY <1>2, Typed DEF Base
  <2>2. GoodUser(g) /\ GoodSeries(h)
    BY <1>2, GoodWorkers
  <2> QED  BY <2>1, <2>2 DEF GoodUser, GoodSeries
<1>6. h.state = g.state /\ h.fp = p[1]
  <2>1. states[h.state][h.fp] # 0 /\ states[h.state][h.fp] = states[g.state][p[1]]
    BY Zenon, <1>1, <1>4, <1>5
  <2> QED  BY <1>2, <1>5, <2>1 DEF Base, Pointers, Entries
<1>7. k.id = g.id
  <2>1. userState[k.id] # 0 /\ userState[k.id] = userState[g.id]
    BY <1>3, <1>4, <1>5, <1>6
  <2> QED  BY <1>2, <1>5, <2>1 DEF Base, Pointers, UserStates
<1>8. k = g
  BY <1>2, <1>4, <1>7 DEF OneFlushPerUser
<1> QED  BY <1>3, <1>6, <1>8

LEMMA SpawnSeriesRest ==
  ASSUME Inductive, NEW g \in flushUsers, NEW own \in g.pairs, NEW pair \in g.pairs,
         SpawnSeries(g, own, pair)
  PROVE  Rest'
<1> DEFINE ng == [g EXCEPT !.pairs = g.pairs \ {own}]
           nf == [by |-> g.own, own |-> own[1], state |-> g.state, fp |-> pair[1],
                  object |-> pair[2], chunks |-> <<>>, pc |-> "decide"]
<1>1. /\ UNCHANGED <<load, userState, states, objects, store, appending, loop, todo, main, acked>>
      /\ flushUsers' = (flushUsers \ {g}) \cup {ng} /\ flushing' = flushing \cup {nf}
      /\ faults' = faults \cup capture(own, pair)
  BY DEF SpawnSeries, dataVars
<1>2. /\ ng.own = g.own /\ ng.id = g.id /\ ng.state = g.state /\ ng.pairs = g.pairs \ {own}
      /\ g.pairs \subseteq Series \X Nat
  <2>1. g \in UserWorker /\ g.pairs \subseteq Series \X Nat
    BY Typed DEF Inductive
  <2>2. g.pairs \ {own} \in SUBSET (Series \X Nat)
    BY <2>1
  <2>3. ng = [own |-> g.own, id |-> g.id, state |-> g.state, pairs |-> g.pairs \ {own}]
    BY <2>1, <2>2, PairsUpdate
  <2> QED  BY <2>1, <2>3
<1>3. nf.by = g.own /\ nf.state = g.state /\ nf.fp = pair[1] /\ nf.object = pair[2] /\ nf.pc = "decide"
  OBVIOUS
<1> HIDE DEF ng, nf
<1>4. faults \subseteq faults' /\ (Clean' => Clean /\ own = pair)
  BY <1>1 DEF Clean, capture
<1>5. ASSUME Clean'  PROVE  OneFlushPerUser' /\ OneFlushPerSeries'
  <2>1. OneFlushPerUser /\ OneFlushPerSeries
    BY <1>4, <1>5 DEF Inductive, Workers
  <2>2. OneFlushPerUser'
    BY <1>1, <1>2, <2>1 DEF OneFlushPerUser
  <2>3. ASSUME NEW f \in flushing'
        PROVE  /\ f.object = states[f.state][f.fp]
               /\ \E h \in flushUsers' : /\ h.own = f.by /\ h.state = f.state
                                         /\ \A p \in h.pairs : p[1] # f.fp
    <3>1. CASE f \in flushing
      <4>1. PICK h \in flushUsers : /\ h.own = f.by /\ h.state = f.state
                                    /\ \A p \in h.pairs : p[1] # f.fp
        BY <2>1, <3>1 DEF OneFlushPerSeries
      <4>2. f.object = states[f.state][f.fp]
        BY <2>1, <3>1 DEF OneFlushPerSeries
      <4>3. CASE h = g
        BY <1>1, <1>2, <4>1, <4>2, <4>3
      <4>4. CASE h # g
        BY <1>1, <4>1, <4>2, <4>4
      <4> QED  BY <4>3, <4>4
    <3>2. CASE f = nf
      <4>1. \A p \in g.pairs : p[2] = states[g.state][p[1]] /\ p = <<p[1], p[2]>>
        BY <1>2, <2>1 DEF OneFlushPerUser
      <4>2. \A p \in ng.pairs : p[1] # pair[1]
        BY <1>2, <1>4, <1>5, <4>1
      <4> QED  BY <1>1, <1>2, <1>3, <3>2, <4>1, <4>2
    <3> QED  BY <1>1, <3>1, <3>2
  <2>4. \A f \in flushing : f.object # nf.object
    BY <1>3, <1>4, <1>5, NotFlushing
  <2>5. \A f, h \in flushing' : f.object = h.object => f = h
    BY <1>1, <2>1, <2>4 DEF OneFlushPerSeries
  <2>6. OneFlushPerSeries'
    BY <1>1, <2>3, <2>5 DEF OneFlushPerSeries
  <2> QED  BY <2>2, <2>6
<1>6. Workers'
  BY <1>5 DEF Workers
<1>7. Fronts'
  BY <1>1, <1>3, <1>4 DEF Inductive, Fronts, InFront, Stored
<1>8. Kept'
  BY <1>1, <1>4, SamplesSame DEF Inductive, Kept
<1>9. ASSUME Clean', NEW x \in acked, InStore(x[1], x[2]) \/ Pending(x[1])
      PROVE  (InStore(x[1], x[2]) \/ Pending(x[1]))'
  <2>1. CASE InStore(x[1], x[2])
    BY <1>1, <2>1, SamplesSame
  <2>2. CASE owner[x[1]] \in todo
    BY <1>1, <2>2 DEF Pending, owner
  <2>3. ASSUME NEW h \in flushUsers, h.own = owner[x[1]],
               \/ h.state = 0
               \/ \E f \in flushing : f.by = h.own /\ f.fp = x[1] /\ f.pc # "remove"
        PROVE  Pending(x[1])'
    BY <1>1, <1>2, <2>3 DEF Pending, owner
  <2>4. ASSUME NEW h \in flushUsers, h.own = owner[x[1]], NEW p \in h.pairs, p[1] = x[1]
        PROVE  Pending(x[1])'
    <3>1. CASE h # g
      BY <1>1, <2>4, <3>1 DEF Pending, owner
    <3>2. CASE h = g /\ p # own
      BY <1>1, <1>2, <2>4, <3>2 DEF Pending, owner
    <3>3. CASE h = g /\ p = own
      BY <1>1, <1>2, <1>3, <1>4, <1>9, <2>4, <3>3 DEF Pending, owner
    <3> QED  BY <3>1, <3>2, <3>3
  <2> QED  BY <1>9, <2>1, <2>2, <2>3, <2>4 DEF Pending
<1>10. LastFlush'
  <2>1. loop \notin {"select", "done"}
    BY DEF Inductive, LastFlush
  <2> QED  BY <1>1, <1>3, <1>4, <1>9, <2>1 DEF Inductive, LastFlush
<1> QED  BY <1>6, <1>7, <1>8, <1>10 DEF Rest
-----------------------------------------------------------------------------
(* Appends, and queries that make a state. *)

LEMMA GetStateRest ==
  ASSUME Inductive, NEW u \in Users, getStateFor(u),
         UNCHANGED <<load, objects, store, loop, todo, flushUsers, flushing, main, acked, faults>>,
         main \notin {"serving", "locking", "crashed"} => appending' = {}
  PROVE  Rest'
<1>1. /\ Len(states) \in Nat
      /\ \A i \in 1 .. Len(states) : states'[i] = states[i]
      /\ \A v \in Users : v # u => userState'[v] = userState[v]
      /\ userState[u] # 0 => userState'[u] = userState[u]
  BY StateMade, Typed DEF Inductive
<1>2. \A v \in Users : userState[v] # 0 => userState'[v] = userState[v]
  BY <1>1
<1>3. Clean' = Clean
  BY DEF Clean
<1>4. ASSUME Clean  PROVE  OneFlushPerUser' /\ OneFlushPerSeries'
  <2>1. OneFlushPerUser /\ OneFlushPerSeries
    BY <1>4 DEF Inductive, Workers
  <2>2. /\ \A g \in flushUsers : g.id \in Users /\ g.state \in Nat /\ g.state <= Len(states)
             /\ (g.state = 0 => g.pairs = {})
        /\ \A f \in flushing : f.state \in 1 .. Len(states)
    <3>1. /\ \A g \in flushUsers : g.state <= Len(states) /\ (g.state = 0 => g.pairs = {})
          /\ \A f \in flushing : f.state # 0 /\ f.state <= Len(states)
      BY DEF Inductive, Pointers, WorkerPointers
    <3>2. /\ \A g \in flushUsers : g.id \in Users /\ g.state \in Nat
          /\ \A f \in flushing : f.state \in Nat
          /\ Len(states) \in Nat
      BY Typed DEF Inductive
    <3> QED  BY <3>1, <3>2
  <2>3. OneFlushPerUser'
    <3>1. ASSUME NEW g \in flushUsers
          PROVE  /\ g.state # 0 => userState'[g.id] = g.state
                 /\ \A p \in g.pairs : p[2] = states'[g.state][p[1]]
      <4>1. CASE g.state = 0
        BY <2>2, <4>1
      <4>2. CASE g.state # 0
        <5>1. g.state \in 1 .. Len(states) /\ userState[g.id] = g.state
          BY <1>1, <2>1, <2>2, <4>2 DEF OneFlushPerUser
        <5> QED  BY <1>1, <1>2, <2>1, <2>2, <4>2, <5>1 DEF OneFlushPerUser
      <4> QED  BY <4>1, <4>2
    <3> QED  BY <2>1, <3>1 DEF OneFlushPerUser
  <2>4. OneFlushPerSeries'
    BY <1>1, <2>1, <2>2 DEF OneFlushPerSeries
  <2> QED  BY <2>3, <2>4
<1>5. Workers'
  BY <1>3, <1>4 DEF Workers
<1>6. Fronts'
  BY <1>3 DEF Inductive, Fronts, InFront, Stored
<1>7. ASSUME NEW x \in acked  PROVE  /\ InMemory(x[1], x[2]) => InMemory(x[1], x[2])'
                                     /\ InStore(x[1], x[2]) => InStore(x[1], x[2])'
  <2>1. InStore(x[1], x[2]) => InStore(x[1], x[2])'
    BY DEF InStore
  <2>2. ASSUME InMemory(x[1], x[2])  PROVE  InMemory(x[1], x[2])'
    <3>1. x[1] \in Series
      BY AckedType DEF Inductive
    <3>2. owner[x[1]] \in Users /\ userState[owner[x[1]]] \in 1 .. Len(states)
      BY <2>2, <3>1, InMemoryPlace DEF Inductive, Base
    <3>3. Grown(seriesOf(x[1]))
      BY DEF Grown
    <3>4. /\ userState'[owner[x[1]]] = userState[owner[x[1]]]
          /\ states'[userState[owner[x[1]]]][x[1]] = seriesOf(x[1])
      BY <1>1, <1>2, <3>2 DEF seriesOf
    <3> QED  BY <2>2, <3>3, <3>4, MemoryKept
  <2> QED  BY <2>1, <2>2
<1>8. Kept'
  BY <1>3, <1>7 DEF Inductive, Kept
<1>9. \A x \in acked : InStore(x[1], x[2]) \/ Pending(x[1]) => InStore(x[1], x[2])' \/ Pending(x[1])'
  BY <1>7 DEF Pending, owner
<1>10. LastFlush'
  BY <1>3, <1>9 DEF Inductive, LastFlush
<1> QED  BY <1>5, <1>6, <1>8, <1>10 DEF Rest

\* A goroutine in flushSeries moves on, or ends.
LEMMA FlushSeriesWorkers ==
  ASSUME Inductive, Clean, NEW f \in flushing, NEW nf,
         nf.by = f.by, nf.state = f.state, nf.fp = f.fp, nf.object = f.object,
         flushing' = flushing \ {f} \/ flushing' = (flushing \ {f}) \cup {nf},
         UNCHANGED <<userState, states, todo, flushUsers>>
  PROVE  OneFlushPerUser' /\ OneFlushPerSeries'
<1>1. OneFlushPerUser /\ OneFlushPerSeries
  BY DEF Inductive, Workers
<1>2. OneFlushPerUser'
  BY <1>1 DEF OneFlushPerUser
<1>3. ASSUME NEW h \in flushing'
      PROVE  /\ h.object = states[h.state][h.fp]
             /\ \E g \in flushUsers : /\ g.own = h.by /\ g.state = h.state
                                      /\ \A p \in g.pairs : p[1] # h.fp
  BY <1>1 DEF OneFlushPerSeries
<1>4. \A h, k \in flushing' : h.object = k.object => h = k
  BY <1>1 DEF OneFlushPerSeries
<1>5. OneFlushPerSeries'
  BY <1>3, <1>4 DEF OneFlushPerSeries
<1> QED  BY <1>2, <1>5

LEMMA DecideRest ==
  ASSUME Inductive, NEW f \in flushing, NEW old \in BOOLEAN, Decide(f, old)
  PROVE  Rest'
<1> DEFINE n == toFlush(f, old)
           nf == decided(f, n)
           cs == objects[f.object].chunks
<1>1. /\ f.pc = "decide" /\ cs # <<>> /\ cs \in Seq(SUBSET Nat)
      /\ UNCHANGED <<load, userState, states, store, appending, loop, todo,
                     flushUsers, flushes, main, acked, faults>>
      /\ objects' \in Seq(Object) /\ Len(objects') = Len(objects)
      /\ \A k \in 1 .. Len(objects) : objects'[k].chunks = objects[k].chunks
      /\ \A k \in 1 .. Len(objects) : objects[k].closed => objects'[k].closed
      /\ closes(f, old) => objects'[f.object].closed
      /\ f.object \in 1 .. Len(objects) /\ n \in 0 .. Len(cs)
      /\ flushing' = (flushing \ {f}) \cup (IF n = 0 THEN {} ELSE {nf})
  BY Decided DEF Inductive, Base
<1>2. /\ nf.by = f.by /\ nf.state = f.state /\ nf.fp = f.fp /\ nf.object = f.object
      /\ nf.chunks = SubSeq(cs, 1, n) /\ nf.pc = "put"
  BY Zenon DEF decided
<1>3. n = (IF closes(f, old) THEN Len(cs) ELSE Len(cs) - 1) /\ Len(cs) \in Nat /\ Len(cs) # 0
  BY <1>1 DEF toFlush
<1>4. Len(nf.chunks) = n /\ \A k \in 1 .. n : nf.chunks[k] = cs[k]
  BY <1>1, <1>2
<1>5. Clean' = Clean /\ \A h \in flushing : h.object \in 1 .. Len(objects)
  <2>1. \A h \in flushing : GoodSeries(h) /\ h.object \in Nat /\ Len(objects) \in Nat
    BY GoodWorkers, Typed DEF Inductive, Base
  <2> QED  BY <1>1, <2>1 DEF Clean, GoodSeries
<1> HIDE DEF n, nf, cs
<1>6. Workers'
  <2>1. flushing' = flushing \ {f} \/ flushing' = (flushing \ {f}) \cup {nf}
    BY <1>1
  <2> QED  BY <1>1, <1>2, <1>5, <2>1, FlushSeriesWorkers DEF Workers
<1>7. ASSUME Clean  PROVE  \A h \in flushing' : h.pc # "decide" => InFront(h)'
  <2>1. ASSUME NEW h \in flushing, h.pc # "decide"  PROVE  InFront(h)'
    <3>1. InFront(h)
      BY <1>7, <2>1 DEF Inductive, Fronts
    <3>2. objects'[h.object].chunks = objects[h.object].chunks
          /\ (objects[h.object].closed => objects'[h.object].closed)
      BY <1>1, <1>5
    <3> QED  BY <3>1, <3>2 DEF InFront
  <2>2. ASSUME NEW h \in flushing', h = nf  PROVE  InFront(h)'
    <3>1. objects'[h.object].chunks = cs
      BY <1>1, <1>2, <2>2 DEF cs
    <3>2. n = Len(cs) => objects'[h.object].closed
      BY <1>1, <1>2, <1>3, <2>2
    <3>3. n <= Len(cs) /\ Len(h.chunks) = n /\ \A k \in 1 .. n : h.chunks[k] = cs[k]
      BY <1>1, <1>3, <1>4, <2>2
    <3> QED  BY <3>1, <3>2, <3>3 DEF InFront
  <2> QED  BY <1>1, <2>1, <2>2
<1>8. ASSUME Clean  PROVE  \A h \in flushing' : h.pc = "remove" => Stored(h)'
  BY <1>1, <1>2, <1>8 DEF Inductive, Fronts, Stored
<1>9. ASSUME Clean  PROVE  \A i \in 1 .. Len(objects') : objects'[i].chunks # <<>>
  BY <1>1, <1>9 DEF Inductive, Fronts
<1>10. Fronts'
  BY <1>5, <1>7, <1>8, <1>9 DEF Fronts
<1>11. ASSUME NEW x \in acked  PROVE  /\ InMemory(x[1], x[2]) => InMemory(x[1], x[2])'
                                      /\ InStore(x[1], x[2]) => InStore(x[1], x[2])'
  <2>1. InStore(x[1], x[2]) => InStore(x[1], x[2])'
    BY <1>1 DEF InStore
  <2>2. ASSUME InMemory(x[1], x[2])  PROVE  InMemory(x[1], x[2])'
    <3>1. x[1] \in Series
      BY AckedType DEF Inductive
    <3>2. seriesOf(x[1]) \in 1 .. Len(objects)
      BY <2>2, <3>1, InMemoryPlace DEF Inductive, Base
    <3>3. Grown(seriesOf(x[1]))
      BY Zenon, <1>1, <3>2 DEF Grown
    <3> QED  BY <1>1, <2>2, <3>3, MemoryKept DEF seriesOf
  <2> QED  BY <2>1, <2>2
<1>12. Kept'
  BY <1>1, <1>5, <1>11 DEF Inductive, Kept
<1>13. ASSUME Clean, loop = "last"
       PROVE  \A h \in flushing' : h.pc # "decide" => Len(h.chunks) = Len(objects'[h.object].chunks)
  <2>1. n = Len(cs)
    BY <1>3, <1>13 DEF closes, immediate
  <2>2. Len(nf.chunks) = Len(objects'[nf.object].chunks)
    BY <1>1, <1>2, <1>4, <2>1 DEF cs
  <2>3. \A h \in flushing : h.pc # "decide" => Len(h.chunks) = Len(objects'[h.object].chunks)
    BY <1>1, <1>5, <1>13 DEF Inductive, LastFlush
  <2> QED  BY <1>1, <2>2, <2>3
<1>14. ASSUME loop = "last", NEW x \in acked, Pending(x[1])
       PROVE  Pending(x[1])'
  <2>1. n # 0
    BY <1>3, <1>14 DEF closes, immediate
  <2>2. \A h \in flushing : \E k \in flushing' :
          k.by = h.by /\ k.fp = h.fp /\ (h.pc # "remove" => k.pc # "remove")
    BY <1>1, <1>2, <2>1
  <2> QED  BY <1>1, <1>14, <2>2 DEF Pending, owner
<1>15. LastFlush'
  <2>1. loop # "done" \/ ~Clean
    BY NoneFlushing
  <2>2. Clean /\ loop = "last" /\ "put" \notin faults =>
          \A x \in acked : InStore(x[1], x[2]) \/ Pending(x[1])
    BY DEF Inductive, LastFlush
  <2>3. /\ main \notin {"serving", "locking", "crashed"} => appending = {}
        /\ loop \in {"last", "done"} => main \notin {"serving", "locking"}
        /\ loop \in {"select", "done"} => todo = {} /\ flushUsers = {}
    BY DEF Inductive, LastFlush
  <2>4. ASSUME Clean, loop = "last", "put" \notin faults, NEW x \in acked
        PROVE  InStore(x[1], x[2])' \/ Pending(x[1])'
    BY <1>11, <1>14, <2>2, <2>4
  <2> QED  BY <1>1, <1>5, <1>13, <2>1, <2>3, <2>4 DEF LastFlush
<1> QED  BY <1>6, <1>10, <1>12, <1>15 DEF Rest

\* A sample in memory stays there when another is added.
LEMMA AddInMemory ==
  ASSUME Base, load' = load, userState' = userState, NEW a, NEW o \in Nat, Adds(a, o),
         \A i \in 1 .. Len(states), fp \in Series :
           states[i][fp] # 0 => states'[i][fp] = states[i][fp],
         NEW fq \in Series, NEW t, InMemory(fq, t)
  PROVE  InMemory(fq, t)'
<1> DEFINE m == seriesOf(fq)
           st == userState[owner[fq]]
<1>1. st \in 1 .. Len(states) /\ m \in 1 .. Len(objects) /\ objects[m].chunks \in Seq(SUBSET Nat)
  BY InMemoryPlace
<1>2. states[st][fq] = m /\ m # 0
  BY <1>1 DEF seriesOf
<1> HIDE DEF m, st
<1>3. states'[st][fq] = m
  BY <1>1, <1>2
<1>4. Grown(m)
  <2>1. CASE m # o
    BY Zenon, <1>1, <2>1 DEF Adds, Grown
  <2>2. CASE m = o
    <3> DEFINE old == objects[m].chunks
               new == objects'[m].chunks
    <3>1. objects'[m] \in Object /\ m <= Len(objects)
      BY <1>1, <2>2 DEF Adds
    <3>2. new \in Seq(SUBSET Nat) /\ old \in Seq(SUBSET Nat)
      BY <1>1, <3>1 DEF Object
    <3>3. /\ Len(new) \in {Len(old), Len(old) + 1} /\ Len(old) \in Nat
          /\ \A k \in 1 .. Len(old) : old[k] \subseteq new[k]
      BY <2>2, <3>1 DEF Adds
    <3> HIDE DEF old, new
    <3>4. \A c \in ChunkSet(old) : \E d \in ChunkSet(new) : c \subseteq d
      <4> TAKE c \in ChunkSet(old)
      <4>1. PICK k \in 1 .. Len(old) : c = old[k]
        BY <3>2 DEF ChunkSet
      <4>2. k \in 1 .. Len(new) /\ c \subseteq new[k]
        BY <3>3, <4>1
      <4>3. new[k] \in ChunkSet(new)
        BY <3>2, <4>2 DEF ChunkSet
      <4> QED  BY <4>2, <4>3
    <3> QED  BY <3>4 DEF Grown, old, new
  <2> QED  BY <2>1, <2>2
<1>5. /\ userState'[owner[fq]] = userState[owner[fq]]
      /\ states'[userState[owner[fq]]][fq] = seriesOf(fq) /\ Grown(seriesOf(fq))
  BY <1>3, <1>4 DEF m, st
<1> QED  BY <1>5, MemoryKept
=============================================================================
