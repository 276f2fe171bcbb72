--------------------------- MODULE IngesterProofs ---------------------------
(* The objects of an ingester, and the goroutines that hold pointers to them, *)
(* are in order (Pointers): through appends, the flush loop and main.         *)
EXTENDS Ingester, SequenceTheorems, TLAPS

Object == [chunks : Seq(SUBSET Nat), closed : BOOLEAN, lastTime : Int]

\* Replacing an element of a sequence.
LEMMA SeqUpdate ==
  ASSUME NEW S, NEW sq \in Seq(S), NEW i \in 1 .. Len(sq), NEW e \in S
  PROVE  /\ [sq EXCEPT ![i] = e] \in Seq(S)
         /\ Len([sq EXCEPT ![i] = e]) = Len(sq)
         /\ \A k \in 1 .. Len(sq) : [sq EXCEPT ![i] = e][k] = IF k = i THEN e ELSE sq[k]
  OBVIOUS

\* Appending an element to a sequence.
LEMMA SeqAppend ==
  ASSUME NEW S, NEW sq \in Seq(S), NEW e \in S
  PROVE  /\ Append(sq, e) \in Seq(S)
         /\ Len(Append(sq, e)) = Len(sq) + 1
         /\ \A k \in 1 .. Len(sq) : Append(sq, e)[k] = sq[k]
         /\ Append(sq, e)[Len(sq) + 1] = e
  OBVIOUS

\* A series without samples.
LEMMA NewSeriesType == NewSeries \in Object /\ NewSeries.chunks = <<>> /\ ~NewSeries.closed
  BY DEF NewSeries, Object, Earliest

\* memorySeries.add keeps every chunk but the open head as it is, puts the sample
\* into the last chunk, which is open, and after a closed head starts a new chunk.
LEMMA Added ==
  ASSUME NEW o \in Object, NEW t \in Nat
  PROVE  /\ add(o, t) \in Object
         /\ Len(add(o, t).chunks) \in {Len(o.chunks), Len(o.chunks) + 1}
         /\ add(o, t).chunks # <<>>
         /\ t \in add(o, t).chunks[Len(add(o, t).chunks)]
         /\ o.closed => Len(add(o, t).chunks) = Len(o.chunks) + 1
         /\ \A k \in 1 .. Len(o.chunks) :
              /\ o.chunks[k] \subseteq add(o, t).chunks[k]
              /\ k < Len(o.chunks) \/ o.closed => o.chunks[k] = add(o, t).chunks[k]
<1> DEFINE n == Len(o.chunks)
<1>1. o.chunks \in Seq(SUBSET Nat) /\ n \in Nat /\ o.closed \in BOOLEAN /\ {t} \in SUBSET Nat
  BY DEF Object
<1>2. CASE n = 0 \/ o.closed \/ Cardinality(o.chunks[n]) >= ChunkLen
  <2>1. add(o, t) = [chunks |-> Append(o.chunks, {t}), closed |-> FALSE, lastTime |-> t]
    BY Zenon, <1>2 DEF add
  <2>2. /\ Append(o.chunks, {t}) \in Seq(SUBSET Nat)
        /\ Len(Append(o.chunks, {t})) = n + 1
        /\ \A k \in 1 .. n : Append(o.chunks, {t})[k] = o.chunks[k]
        /\ Append(o.chunks, {t})[n + 1] = {t}
    BY <1>1, SeqAppend
  <2> QED  BY <1>1, <2>1, <2>2 DEF Object
<1>3. CASE ~(n = 0 \/ o.closed \/ Cardinality(o.chunks[n]) >= ChunkLen)
  <2> DEFINE e == o.chunks[n] \cup {t}
             cs == [o.chunks EXCEPT ![n] = e]
  <2>1. n \in 1 .. n /\ e \in SUBSET Nat
    BY <1>1, <1>3
  <2>2. add(o, t) = [chunks |-> cs, closed |-> FALSE, lastTime |-> t]
    BY <1>3 DEF add
  <2>3. /\ cs \in Seq(SUBSET Nat) /\ Len(cs) = n
        /\ \A k \in 1 .. n : cs[k] = IF k = n THEN e ELSE o.chunks[k]
    BY <1>1, <2>1, SeqUpdate
  <2> HIDE DEF cs
  <2>4. add(o, t) \in Object /\ add(o, t).chunks = cs
    BY <2>2, <2>3 DEF Object
  <2> QED  BY <1>1, <1>3, <2>1, <2>3, <2>4
<1> QED  BY <1>2, <1>3
-----------------------------------------------------------------------------
Base == TypeOK /\ Pointers

UserWorker == [own : Users, id : Users, state : Nat, pairs : SUBSET (Series \X Nat)]
SeriesWorker == [by : Users, own : Series, state : Nat, fp : Series, object : Nat,
                 chunks : Seq(SUBSET Nat), pc : {"decide", "put", "remove"}]

\* Closing the head of a series.
LEMMA ClosedUpdate ==
  ASSUME NEW ob \in Seq(Object), NEW i \in 1 .. Len(ob), NEW c \in BOOLEAN
  PROVE  /\ [ob EXCEPT ![i].closed = c] \in Seq(Object)
         /\ Len([ob EXCEPT ![i].closed = c]) = Len(ob)
         /\ \A k \in 1 .. Len(ob) : [ob EXCEPT ![i].closed = c][k].chunks = ob[k].chunks
<1>1. ob[i] \in Object
  OBVIOUS
<1>2. [ob[i] EXCEPT !.closed = c] \in Object /\ [ob[i] EXCEPT !.closed = c].chunks = ob[i].chunks
  BY Zenon, <1>1 DEF Object
<1> QED  BY <1>1, <1>2

\* Replacing the chunks of a series.
LEMMA ChunksUpdate ==
  ASSUME NEW ob \in Seq(Object), NEW i \in 1 .. Len(ob), NEW cs \in Seq(SUBSET Nat)
  PROVE  /\ [ob EXCEPT ![i].chunks = cs] \in Seq(Object)
         /\ Len([ob EXCEPT ![i].chunks = cs]) = Len(ob)
         /\ [ob EXCEPT ![i].chunks = cs][i].chunks = cs
         /\ [ob EXCEPT ![i].chunks = cs][i].closed = ob[i].closed
         /\ \A k \in 1 .. Len(ob) : k # i => [ob EXCEPT ![i].chunks = cs][k] = ob[k]
<1>1. ob[i] \in Object
  OBVIOUS
<1>2. /\ [ob[i] EXCEPT !.chunks = cs] \in Object /\ [ob[i] EXCEPT !.chunks = cs].chunks = cs
      /\ [ob[i] EXCEPT !.chunks = cs].closed = ob[i].closed
  BY Zenon, <1>1 DEF Object
<1> QED  BY <1>1, <1>2

\* The updates of goroutines.
LEMMA PairsUpdate ==
  ASSUME NEW g \in UserWorker, NEW ps \in SUBSET (Series \X Nat)
  PROVE  [g EXCEPT !.pairs = ps] = [own |-> g.own, id |-> g.id, state |-> g.state, pairs |-> ps]
  BY DEF UserWorker

LEMMA RemoveUpdate ==
  ASSUME NEW f \in SeriesWorker
  PROVE  [f EXCEPT !.pc = "remove"] =
           [by |-> f.by, own |-> f.own, state |-> f.state, fp |-> f.fp,
            object |-> f.object, chunks |-> f.chunks, pc |-> "remove"]
  BY DEF SeriesWorker

\* What the types say about the elements of the sets and sequences.
LEMMA Typed ==
  ASSUME TypeOK
  PROVE  /\ Len(states) \in Nat /\ Len(objects) \in Nat /\ objects \in Seq(Object)
         /\ \A u \in Users : userState[u] \in Nat
         /\ \A i \in 1 .. Len(states) : states[i] \in [Series -> Nat]
         /\ \A i \in 1 .. Len(states), fp \in Series : states[i][fp] \in Nat
         /\ \A a \in appending : a.state \in Nat /\ a.fp \in Series /\ a.time \in Nat
         /\ \A g \in flushUsers : g \in UserWorker /\ g.own \in Users /\ g.id \in Users
              /\ g.state \in Nat /\ g.pairs \subseteq Series \X Nat
         /\ \A g \in flushUsers : \A p \in g.pairs : p[1] \in Series /\ p[2] \in Nat
         /\ \A f \in flushing : f \in SeriesWorker /\ f.by \in Users /\ f.state \in Nat
              /\ f.fp \in Series /\ f.object \in Nat /\ f.chunks \in Seq(SUBSET Nat)
         /\ owner \in [Series -> Users]
<1> USE DEF TypeOK
<1>1. Len(states) \in Nat /\ Len(objects) \in Nat /\ objects \in Seq(Object)
  BY DEF Object
<1>2. \A u \in Users : userState[u] \in Nat
  OBVIOUS
<1>3. \A i \in 1 .. Len(states) : states[i] \in [Series -> Nat]
  OBVIOUS
<1>4. \A i \in 1 .. Len(states), fp \in Series : states[i][fp] \in Nat
  BY <1>3
<1>5. \A a \in appending : a.state \in Nat /\ a.fp \in Series /\ a.time \in Nat
  OBVIOUS
<1>6. \A g \in flushUsers : g \in UserWorker /\ g.own \in Users /\ g.id \in Users
              /\ g.state \in Nat /\ g.pairs \subseteq Series \X Nat
  BY DEF UserWorker
<1>7. \A g \in flushUsers : \A p \in g.pairs : p[1] \in Series /\ p[2] \in Nat
  BY <1>6
<1>8. \A f \in flushing : f \in SeriesWorker /\ f.by \in Users /\ f.state \in Nat
              /\ f.fp \in Series /\ f.object \in Nat /\ f.chunks \in Seq(SUBSET Nat)
  BY DEF SeriesWorker
<1>9. owner \in [Series -> Users]
  BY IngesterAssumption DEF owner
<1> QED  BY <1>1, <1>2, <1>3, <1>4, <1>5, <1>6, <1>7, <1>8, <1>9

\* Every state is of its type.
LEMMA InitBase == Init => Base
  BY IngesterAssumption DEF Init, Base, TypeOK, Pointers, UserStates, Entries, OwnSeries,
       AppendStates, WorkerPointers

\* getStateFor leaves pointers in order, and makes the state it returns.
LEMMA StateMade ==
  ASSUME TypeOK, Pointers, NEW u \in Users, getStateFor(u)
  PROVE  /\ userState' \in [Users -> Nat] /\ states' \in Seq([Series -> Nat])
         /\ Len(states') >= Len(states) /\ Len(states') \in Nat
         /\ \A i \in 1 .. Len(states) : states'[i] = states[i]
         /\ \A i \in Len(states) + 1 .. Len(states'), fp \in Series : states'[i][fp] = 0
         /\ \A v \in Users : v # u => userState'[v] = userState[v]
         /\ userState[u] # 0 => userState'[u] = userState[u]
         /\ userState[u] = 0 => userState'[u] = Len(states) + 1 /\ Len(states') = Len(states) + 1
         /\ userState'[u] = StateFor(u) /\ StateFor(u) \in 1 .. Len(states')
<1> USE DEF TypeOK
<1>1. Len(states) \in Nat /\ userState[u] \in Nat /\ userState[u] <= Len(states)
  BY DEF Pointers, UserStates
<1>2. CASE userState[u] # 0
  BY <1>1, <1>2 DEF getStateFor, StateFor
<1>3. CASE userState[u] = 0
  <2> DEFINE new == [fp \in Series |-> 0]
  <2>1. new \in [Series -> Nat]
    OBVIOUS
  <2>2. /\ states' = Append(states, new)
        /\ userState' = [userState EXCEPT ![u] = Len(states) + 1]
    BY <1>3 DEF getStateFor
  <2>3. /\ states' \in Seq([Series -> Nat]) /\ Len(states') = Len(states) + 1
        /\ \A k \in 1 .. Len(states) : states'[k] = states[k]
        /\ states'[Len(states) + 1] = new
    BY <2>1, <2>2, SeqAppend
  <2>4. \A fp \in Series : new[fp] = 0
    OBVIOUS
  <2> HIDE DEF new
  <2> QED  BY <1>1, <1>3, <2>2, <2>3, <2>4 DEF StateFor
<1> QED  BY <1>2, <1>3

\* Appends and queries that get their state: what they leave in order.
LEMMA GetStatePointers ==
  ASSUME TypeOK, Pointers, NEW u \in Users, getStateFor(u),
         UNCHANGED <<load, objects, flushUsers, flushing>>
  PROVE  UserStates' /\ Entries' /\ OwnSeries' /\ WorkerPointers'
<1>1. /\ userState' \in [Users -> Nat] /\ states' \in Seq([Series -> Nat])
      /\ Len(states') >= Len(states) /\ Len(states') \in Nat /\ Len(states) \in Nat
      /\ \A i \in 1 .. Len(states) : states'[i] = states[i]
      /\ \A i \in Len(states) + 1 .. Len(states'), fp \in Series : states'[i][fp] = 0
      /\ \A v \in Users : v # u => userState'[v] = userState[v]
      /\ userState[u] # 0 => userState'[u] = userState[u]
      /\ userState[u] = 0 => userState'[u] = Len(states) + 1 /\ Len(states') = Len(states) + 1
  BY StateMade, Typed
<1>2. UserStates'
  <2>1. /\ \A v \in Users : userState[v] \in Nat /\ userState[v] <= Len(states)
        /\ \A v, w \in Users : userState[v] # 0 /\ userState[v] = userState[w] => v = w
    BY Typed DEF Pointers, UserStates
  <2>2. \A v \in Users : userState'[v] <= Len(states')
    BY <1>1, <2>1
  <2>3. ASSUME NEW v \in Users, NEW w \in Users, userState'[v] # 0, userState'[v] = userState'[w]
        PROVE  v = w
    <3>1. CASE v = u \/ w = u
      BY <1>1, <2>1, <2>3, <3>1
    <3>2. CASE v # u /\ w # u
      BY <1>1, <2>1, <2>3, <3>2
    <3> QED  BY <3>1, <3>2
  <2> QED  BY <2>2, <2>3 DEF UserStates
<1>3. \A i \in 1 .. Len(states'), fp \in Series :
        \/ i \in 1 .. Len(states) /\ states'[i][fp] = states[i][fp]
        \/ states'[i][fp] = 0
  <2>1. SUFFICES ASSUME NEW i \in 1 .. Len(states')
                 PROVE  \/ i \in 1 .. Len(states) /\ states'[i] = states[i]
                        \/ \A fp \in Series : states'[i][fp] = 0
    OBVIOUS
  <2>2. CASE i <= Len(states)
    BY <1>1, <2>2
  <2>3. CASE i > Len(states)
    <3>1. i \in Len(states) + 1 .. Len(states')
      BY <1>1, <2>3
    <3> QED  BY <1>1, <3>1
  <2> QED  BY <1>1, <2>2, <2>3
<1>4. Entries'
  <2>1. /\ Len(objects) \in Nat /\ objects' = objects
        /\ \A i \in 1 .. Len(states), fp \in Series : states[i][fp] <= Len(objects)
        /\ \A i, j \in 1 .. Len(states), fp, fq \in Series :
             states[i][fp] # 0 /\ states[i][fp] = states[j][fq] => i = j /\ fp = fq
    BY Typed DEF Pointers, Entries
  <2>2. \A i \in 1 .. Len(states'), fp \in Series : states'[i][fp] <= Len(objects')
    BY <1>3, <2>1
  <2>3. \A i, j \in 1 .. Len(states'), fp, fq \in Series :
          states'[i][fp] # 0 /\ states'[i][fp] = states'[j][fq] => i = j /\ fp = fq
    BY <1>3, <2>1
  <2> QED  BY <2>2, <2>3 DEF Entries
<1>5. OwnSeries'
  <2>1. SUFFICES ASSUME NEW v \in Users, NEW fp \in Series,
                        userState'[v] # 0, states'[userState'[v]][fp] # 0
                 PROVE  owner[fp] = v
    BY DEF OwnSeries, owner
  <2>2. userState'[v] \in 1 .. Len(states')
    BY <1>1, <1>2, <2>1 DEF UserStates
  <2>3. userState'[v] \in 1 .. Len(states) /\ states[userState'[v]][fp] # 0
    BY <1>3, <2>1, <2>2
  <2>4. userState'[v] = userState[v]
    BY <1>1, <2>3
  <2> QED  BY <2>1, <2>3, <2>4 DEF Pointers, OwnSeries
<1>6. WorkerPointers'
  BY <1>1, Typed DEF Pointers, WorkerPointers
<1> QED  BY <1>2, <1>4, <1>5, <1>6

LEMMA BaseAppendBegin ==
  ASSUME Base, NEW x \in load.samples, AppendBegin(x[1], x[2])
  PROVE  Base'
<1> DEFINE fp == x[1]
           u == owner[fp]
           new == [state |-> StateFor(u), fp |-> fp, time |-> x[2]]
<1>1. fp \in Series /\ x[2] \in Nat /\ u \in Users
  BY IngesterAssumption DEF Base, TypeOK, owner
<1>2. /\ getStateFor(u) /\ appending' = appending \cup {new}
      /\ UNCHANGED <<load, objects, store, loop, todo, flushUsers, flushing, flushes, main, acked, faults>>
  BY DEF AppendBegin, flushVars
<1>3. UserStates' /\ Entries' /\ OwnSeries' /\ WorkerPointers'
  BY <1>1, <1>2, GetStatePointers DEF Base
<1>4. /\ userState' \in [Users -> Nat] /\ states' \in Seq([Series -> Nat])
      /\ Len(states') >= Len(states) /\ Len(states') \in Nat /\ Len(states) \in Nat
      /\ \A v \in Users : v # u => userState'[v] = userState[v]
      /\ userState[u] # 0 => userState'[u] = userState[u]
      /\ userState[u] = 0 => userState'[u] = Len(states) + 1
      /\ userState'[u] = StateFor(u) /\ StateFor(u) \in 1 .. Len(states')
  BY <1>1, <1>2, StateMade, Typed DEF Base
<1>5. new \in [state : Nat, fp : Series, time : Nat]
  BY <1>1, <1>4
<1>6. TypeOK'
  BY Zenon, <1>2, <1>4, <1>5 DEF Base, TypeOK
<1>7. AppendStates'
  <2>1. SUFFICES ASSUME NEW a \in appending'
                 PROVE  /\ a.state # 0 /\ a.state <= Len(states')
                        /\ \A v \in Users : userState'[v] = a.state => owner[a.fp] = v
    BY <1>2 DEF AppendStates, owner
  <2>2. CASE a \in appending
    <3>1. /\ a.state \in Nat /\ a.state # 0 /\ a.state <= Len(states)
          /\ \A v \in Users : userState[v] = a.state => owner[a.fp] = v
      BY <2>2, Typed DEF Base, Pointers, AppendStates
    <3>2. a.state <= Len(states') /\ a.state # Len(states) + 1
      BY <1>4, <3>1
    <3>3. ASSUME NEW v \in Users, userState'[v] = a.state  PROVE  userState[v] = a.state
      <4>1. CASE v = u
        BY <1>4, <3>2, <3>3, <4>1
      <4>2. CASE v # u
        BY <1>4, <3>3, <4>2
      <4> QED  BY <4>1, <4>2
    <3> QED  BY <3>1, <3>2, <3>3
  <2>3. CASE a = new
    <3>1. a.state = userState'[u] /\ a.state \in 1 .. Len(states') /\ a.fp = fp
      BY <1>4, <2>3
    <3>2. \A v \in Users : userState'[v] = a.state => v = u
      BY <1>1, <1>3, <1>4, <3>1 DEF UserStates
    <3> QED  BY <1>4, <3>1, <3>2
  <2> QED  BY <1>2, <2>2, <2>3
<1> QED  BY <1>3, <1>6, <1>7 DEF Base, Pointers

LEMMA BaseQueryState ==
  ASSUME Base, NEW u \in Users, QueryState(u)
  PROVE  Base'
<1>1. /\ getStateFor(u)
      /\ UNCHANGED <<load, objects, store, appending, loop, todo, flushUsers, flushing, flushes,
                     main, acked, faults>>
  BY DEF QueryState, flushVars
<1>2. UserStates' /\ Entries' /\ OwnSeries' /\ WorkerPointers'
  BY <1>1, GetStatePointers DEF Base
<1>3. /\ userState' \in [Users -> Nat] /\ states' \in Seq([Series -> Nat])
      /\ Len(states') >= Len(states) /\ Len(states') \in Nat /\ Len(states) \in Nat
      /\ \A v \in Users : v # u => userState'[v] = userState[v]
      /\ userState[u] # 0 => userState'[u] = userState[u]
      /\ userState[u] = 0 => userState'[u] = Len(states) + 1
  BY <1>1, StateMade, Typed DEF Base
<1>4. TypeOK'
  BY <1>1, <1>3 DEF Base, TypeOK
<1>5. AppendStates'
  BY <1>1, <1>3, Typed DEF Base, Pointers, AppendStates, owner
<1> QED  BY <1>2, <1>4, <1>5 DEF Base, Pointers

\* Changing the entry of a series in a state.
LEMMA EntryUpdate ==
  ASSUME NEW sts \in Seq([Series -> Nat]), NEW i \in 1 .. Len(sts), NEW fp \in Series, NEW n \in Nat
  PROVE  /\ [sts EXCEPT ![i][fp] = n] \in Seq([Series -> Nat])
         /\ Len([sts EXCEPT ![i][fp] = n]) = Len(sts)
         /\ \A k \in 1 .. Len(sts), fq \in Series :
              [sts EXCEPT ![i][fp] = n][k][fq] = IF k = i /\ fq = fp THEN n ELSE sts[k][fq]
<1> DEFINE e == [sts[i] EXCEPT ![fp] = n]
           T == [Series -> Nat]
<1>1. e \in T /\ \A fq \in Series : e[fq] = IF fq = fp THEN n ELSE sts[i][fq]
  OBVIOUS
<1>2. sts \in Seq(T) /\ e \in T
  BY <1>1
<1>3. [sts EXCEPT ![i][fp] = n] = [sts EXCEPT ![i] = e]
  OBVIOUS
<1> HIDE DEF e, T
<1>4. /\ [sts EXCEPT ![i] = e] \in Seq(T)
      /\ Len([sts EXCEPT ![i] = e]) = Len(sts)
      /\ \A k \in 1 .. Len(sts) : [sts EXCEPT ![i] = e][k] = IF k = i THEN e ELSE sts[k]
  BY <1>2, SeqUpdate
<1> QED  BY <1>1, <1>3, <1>4 DEF T

\* A new series: it is entered for the first time, and only there.
LEMMA BaseAppendNew ==
  ASSUME Base, NEW a \in appending, AppendAdd(a), states[a.state][a.fp] = 0
  PROVE  Base'
<1> DEFINE s == a.state
           fp == a.fp
           n == Len(objects) + 1
           new == add(NewSeries, a.time)
<1>1. /\ appending' = appending \ {a} /\ objects' = Append(objects, new)
      /\ states' = [states EXCEPT ![s][fp] = n]
      /\ acked' = acked \cup {<<fp, a.time>>}
      /\ faults' \subseteq faults \cup {"orphan"}
      /\ UNCHANGED <<load, userState, store, loop, todo, flushUsers, flushing, flushes, main>>
  BY DEF AppendAdd, flushVars
<1>2. /\ s \in Nat /\ fp \in Series /\ a.time \in Nat /\ s \in 1 .. Len(states)
      /\ \A u \in Users : userState[u] = s => owner[fp] = u
      /\ Len(objects) \in Nat /\ n \in Nat /\ objects \in Seq(Object)
      /\ states \in Seq([Series -> Nat]) /\ Len(states) \in Nat
  <2>1. s \in Nat /\ fp \in Series /\ a.time \in Nat /\ Len(objects) \in Nat /\ Len(states) \in Nat
        /\ objects \in Seq(Object)
    BY Typed DEF Base
  <2>2. s # 0 /\ s <= Len(states) /\ \A u \in Users : userState[u] = s => owner[fp] = u
    BY DEF Base, Pointers, AppendStates
  <2> QED  BY <2>1, <2>2 DEF Base, TypeOK
<1>3. new \in Object
  BY <1>2, NewSeriesType, Added
<1>4. objects' \in Seq(Object) /\ Len(objects') = n
  BY <1>1, <1>2, <1>3, SeqAppend
<1>5. /\ states' \in Seq([Series -> Nat]) /\ Len(states') = Len(states)
      /\ \A k \in 1 .. Len(states), fq \in Series :
           states'[k][fq] = IF k = s /\ fq = fp THEN n ELSE states[k][fq]
  <2> HIDE DEF s, fp, n, new
  <2>1. /\ states \in Seq([Series -> Nat]) /\ s \in 1 .. Len(states)
        /\ fp \in Series /\ n \in Nat /\ states' = [states EXCEPT ![s][fp] = n]
    BY <1>1, <1>2
  <2> DEFINE T == [Series -> Nat]
             e == [states[s] EXCEPT ![fp] = n]
  <2>2. states \in Seq(T) /\ s \in 1 .. Len(states) /\ states' = [states EXCEPT ![s] = e]
    BY <2>1
  <2> HIDE DEF T, e
  <2>3. \A k \in 1 .. Len(states) : states[k] \in T
    BY Zenon, <2>2, ElementOfSeq
  <2>4. e \in T /\ \A fq \in Series : e[fq] = IF fq = fp THEN n ELSE states[s][fq]
    <3>1. states[s] \in [Series -> Nat] /\ fp \in Series /\ n \in Nat
      BY <2>1, <2>3 DEF T
    <3> QED  BY <3>1 DEF T, e
  <2>5. /\ states' \in Seq(T) /\ Len(states') = Len(states)
        /\ \A k \in 1 .. Len(states) : states'[k] = IF k = s THEN e ELSE states[k]
    BY <2>2, <2>4, SeqUpdate
  <2> QED  BY <2>4, <2>5 DEF T
<1>6. TypeOK'
  <2>1. acked' \subseteq Series \X Nat /\ faults' \subseteq {"capture", "orphan", "put"}
    BY <1>1, <1>2 DEF Base, TypeOK
  <2> QED  BY Zenon, <1>1, <1>4, <1>5, <2>1 DEF Base, TypeOK, Object
<1> HIDE DEF s, fp, n, new
<1>7. UserStates'
  BY <1>1, <1>5 DEF Base, Pointers, UserStates
<1>8. Entries'
  <2>1. /\ \A i \in 1 .. Len(states), fq \in Series :
             states[i][fq] \in Nat /\ states[i][fq] <= Len(objects) /\ states[i][fq] # n
        /\ \A i, j \in 1 .. Len(states), fq, fr \in Series :
             states[i][fq] # 0 /\ states[i][fq] = states[j][fr] => i = j /\ fq = fr
    BY Typed DEF Base, Pointers, Entries, n
  <2>2. \A i \in 1 .. Len(states'), fq \in Series : states'[i][fq] <= Len(objects')
    <3>1. ASSUME NEW i \in 1 .. Len(states), NEW fq \in Series
          PROVE  states'[i][fq] <= n
      <4>1. Len(objects) <= n /\ n <= n /\ states[i][fq] \in Nat /\ states[i][fq] <= Len(objects)
        BY <1>2, <2>1 DEF n
      <4>2. states[i][fq] <= n
        BY <1>2, <4>1
      <4> QED  BY Zenon, <1>5, <4>1, <4>2
    <3> QED  BY <1>4, <1>5, <3>1
  <2>3. \A i, j \in 1 .. Len(states'), fq, fr \in Series :
          states'[i][fq] # 0 /\ states'[i][fq] = states'[j][fr] => i = j /\ fq = fr
    <3>1. SUFFICES ASSUME NEW i \in 1 .. Len(states), NEW j \in 1 .. Len(states),
                          NEW fq \in Series, NEW fr \in Series,
                          states'[i][fq] # 0, states'[i][fq] = states'[j][fr]
                   PROVE  i = j /\ fq = fr
      BY <1>5
    <3>2. CASE (i = s /\ fq = fp) \/ (j = s /\ fr = fp)
      <4>1. \A k \in 1 .. Len(states), fs \in Series :
              states'[k][fs] = n <=> k = s /\ fs = fp
        <5> TAKE k \in 1 .. Len(states), fs \in Series
        <5>1. states[k][fs] # n
          BY <2>1
        <5>2. states'[k][fs] = IF k = s /\ fs = fp THEN n ELSE states[k][fs]
          BY Zenon, <1>5
        <5> QED  BY <5>1, <5>2
      <4> QED  BY <3>1, <3>2, <4>1
    <3>3. CASE ~(i = s /\ fq = fp) /\ ~(j = s /\ fr = fp)
      <4>1. states[i][fq] # 0 /\ states[i][fq] = states[j][fr]
        BY <1>5, <3>1, <3>3
      <4> QED  BY <2>1, <4>1
    <3> QED  BY <3>2, <3>3
  <2> QED  BY <2>2, <2>3 DEF Entries
<1>9. OwnSeries'
  <2>1. SUFFICES ASSUME NEW u \in Users, NEW fq \in Series,
                        userState[u] # 0, states'[userState[u]][fq] # 0
                 PROVE  owner[fq] = u
    BY <1>1 DEF OwnSeries, owner
  <2>2. userState[u] \in 1 .. Len(states)
    BY <1>2, <2>1, Typed DEF Base, Pointers, UserStates
  <2>3. CASE userState[u] = s /\ fq = fp
    BY <1>2, <2>3
  <2>4. CASE ~(userState[u] = s /\ fq = fp)
    <3>1. states[userState[u]][fq] # 0
      BY <1>5, <2>1, <2>2, <2>4
    <3> QED  BY <2>1, <3>1 DEF Base, Pointers, OwnSeries
  <2> QED  BY <2>3, <2>4
<1>10. AppendStates'
  BY <1>1, <1>5 DEF Base, Pointers, AppendStates, owner
<1>11. WorkerPointers'
  <2>1. Len(objects') = Len(objects) + 1 /\ Len(objects) \in Nat
    BY <1>2, <1>4 DEF n
  <2>2. ASSUME NEW g \in flushUsers
        PROVE  /\ g.state <= Len(states') /\ (g.state = 0 => g.pairs = {})
               /\ \A p \in g.pairs : p[2] # 0 /\ p[2] <= Len(objects')
    <3>1. /\ g.state <= Len(states) /\ (g.state = 0 => g.pairs = {})
          /\ \A p \in g.pairs : p[2] # 0 /\ p[2] <= Len(objects)
      BY DEF Base, Pointers, WorkerPointers
    <3>2. \A p \in g.pairs : p[2] \in Nat
      BY Typed DEF Base
    <3> QED  BY <1>5, <2>1, <3>1, <3>2
  <2>3. ASSUME NEW f \in flushing
        PROVE  /\ f.state # 0 /\ f.state <= Len(states')
               /\ f.object # 0 /\ f.object <= Len(objects')
               /\ f.pc # "decide" => f.chunks # <<>>
    BY <1>5, <2>1, Typed DEF Base, Pointers, WorkerPointers
  <2> QED  BY <1>1, <2>2, <2>3 DEF WorkerPointers
<1> QED  BY <1>6, <1>7, <1>8, <1>9, <1>10, <1>11 DEF Base, Pointers

\* A sample for a series there is.
LEMMA BaseAppendOld ==
  ASSUME Base, NEW a \in appending, AppendAdd(a), states[a.state][a.fp] # 0
  PROVE  Base'
<1> DEFINE o == states[a.state][a.fp]
<1>1. /\ appending' = appending \ {a}
      /\ UNCHANGED <<load, states, userState, store, loop, todo, flushUsers, flushing, flushes, main>>
      /\ \/ objects' = [objects EXCEPT ![o] = add(objects[o], a.time)]
         \/ objects' = objects
      /\ acked' \subseteq acked \cup {<<a.fp, a.time>>}
      /\ faults' \subseteq faults \cup {"orphan"}
  BY DEF AppendAdd, flushVars
<1>2. /\ a.fp \in Series /\ a.time \in Nat /\ a.state \in 1 .. Len(states)
      /\ o \in 1 .. Len(objects) /\ objects \in Seq(Object) /\ objects[o] \in Object
  <2>1. a.state \in Nat /\ a.fp \in Series /\ a.time \in Nat /\ Len(objects) \in Nat
        /\ Len(states) \in Nat /\ objects \in Seq(Object)
    BY Typed DEF Base
  <2>2. a.state \in 1 .. Len(states)
    BY <2>1 DEF Base, Pointers, AppendStates
  <2>3. o \in Nat /\ o <= Len(objects) /\ o # 0
    BY <2>1, <2>2, Typed DEF Base, Pointers, Entries
  <2> QED  BY <2>1, <2>2, <2>3
<1> HIDE DEF o
<1>3. objects' \in Seq(Object) /\ Len(objects') = Len(objects)
  <2>1. add(objects[o], a.time) \in Object
    BY <1>2, Added
  <2> HIDE DEF add
  <2> QED  BY <1>1, <1>2, <2>1, SeqUpdate
<1>4. TypeOK'
  <2>1. acked' \subseteq Series \X Nat
    <3>1. <<a.fp, a.time>> \in Series \X Nat /\ acked \subseteq Series \X Nat
      BY Zenon, <1>2 DEF Base, TypeOK
    <3>2. acked' \subseteq acked \cup {<<a.fp, a.time>>}
      BY <1>1
    <3> QED  BY <3>1, <3>2
  <2>2. faults' \subseteq {"capture", "orphan", "put"}
    BY Zenon, <1>1 DEF Base, TypeOK
  <2> QED  BY <1>1, <1>3, <2>1, <2>2 DEF Base, TypeOK, Object
<1>5. Pointers'
  BY <1>1, <1>3 DEF Base, Pointers, UserStates, Entries, OwnSeries, AppendStates,
       WorkerPointers, owner
<1> QED  BY <1>4, <1>5 DEF Base

\* Goroutines whose pointers lead to a state and a series there are.
GoodUser(g) ==
  /\ g \in UserWorker /\ g.state <= Len(states) /\ (g.state = 0 => g.pairs = {})
  /\ \A p \in g.pairs : p[2] # 0 /\ p[2] <= Len(objects)

GoodSeries(f) ==
  /\ f \in SeriesWorker
  /\ f.state # 0 /\ f.state <= Len(states) /\ f.object # 0 /\ f.object <= Len(objects)
  /\ f.pc # "decide" => f.chunks # <<>>

LEMMA GoodWorkers ==
  ASSUME Base
  PROVE  (\A g \in flushUsers : GoodUser(g)) /\ (\A f \in flushing : GoodSeries(f))
  BY Typed DEF Base, Pointers, WorkerPointers, GoodUser, GoodSeries

\* Users, and entries of series, may only go.
LEMMA KeptUserStates ==
  ASSUME TypeOK, UserStates, Len(states') = Len(states),
         \A u \in Users : userState'[u] \in {0, userState[u]}
  PROVE  UserStates'
<1>1. \A u \in Users : userState[u] <= Len(states) /\ 0 <= Len(states)
  BY Typed DEF UserStates
<1>2. \A u \in Users : userState'[u] <= Len(states')
  BY <1>1
<1>3. ASSUME NEW u \in Users, NEW v \in Users, userState'[u] # 0, userState'[u] = userState'[v]
      PROVE  u = v
  <2>1. userState'[u] = userState[u] /\ userState'[v] = userState[v]
    BY Zenon, <1>3
  <2> QED  BY Zenon, <1>3, <2>1 DEF UserStates
<1> QED  BY Zenon, <1>2, <1>3 DEF UserStates

LEMMA KeptEntries ==
  ASSUME TypeOK, Entries, Len(states') = Len(states), Len(objects') = Len(objects),
         \A i \in 1 .. Len(states), fp \in Series : states'[i][fp] \in {0, states[i][fp]}
  PROVE  Entries'
<1>1. \A i \in 1 .. Len(states), fp \in Series :
        states[i][fp] <= Len(objects) /\ 0 <= Len(objects)
  BY Typed DEF Entries
<1>2. \A i \in 1 .. Len(states'), fp \in Series : states'[i][fp] <= Len(objects')
  BY <1>1
<1>3. ASSUME NEW i \in 1 .. Len(states'), NEW j \in 1 .. Len(states'),
             NEW fp \in Series, NEW fq \in Series,
             states'[i][fp] # 0, states'[i][fp] = states'[j][fq]
      PROVE  i = j /\ fp = fq
  <2>1. i \in 1 .. Len(states) /\ j \in 1 .. Len(states)
    OBVIOUS
  <2>2. states'[i][fp] = states[i][fp] /\ states'[j][fq] = states[j][fq]
    BY Zenon, <1>3, <2>1
  <2>3. states[i][fp] # 0 /\ states[i][fp] = states[j][fq]
    BY Zenon, <1>3, <2>2
  <2> QED  BY <2>1, <2>3 DEF Entries
<1> QED  BY <1>2, <1>3 DEF Entries

\* A step that makes no state and no series, and only clears entries, leaves the
\* pointers in order if those of its goroutines are.
LEMMA BaseKept ==
  ASSUME Base, UNCHANGED <<load, appending, acked>>,
         userState' \in [Users -> Nat],
         \A u \in Users : userState'[u] \in {0, userState[u]},
         states' \in Seq([Series -> Nat]), Len(states') = Len(states),
         \A i \in 1 .. Len(states), fp \in Series : states'[i][fp] \in {0, states[i][fp]},
         objects' \in Seq(Object), Len(objects') = Len(objects),
         \A g \in flushUsers' : GoodUser(g), \A f \in flushing' : GoodSeries(f),
         loop' \in {"select", "flush", "last", "done"}, todo' \subseteq Users, flushes' \in Nat,
         store' \subseteq Series \X SUBSET Nat,
         main' \in {"serving", "locking", "stopping", "leaving", "left", "exited", "crashed"},
         faults' \subseteq {"capture", "orphan", "put"}
  PROVE  Base'
<1>1. flushUsers' \subseteq UserWorker /\ flushing' \subseteq SeriesWorker
  BY DEF GoodUser, GoodSeries
<1>2. TypeOK'
  BY <1>1 DEF Base, TypeOK, Object, UserWorker, SeriesWorker
<1>3. UserStates /\ Entries /\ TypeOK
  BY DEF Base, Pointers
<1>4. UserStates'
  BY Zenon, <1>3, KeptUserStates
<1>5. Entries'
  BY Zenon, <1>3, KeptEntries
<1>6. OwnSeries'
  <2>1. SUFFICES ASSUME NEW u \in Users, NEW fp \in Series,
                        userState'[u] # 0, states'[userState'[u]][fp] # 0
                 PROVE  owner[fp] = u
    BY DEF OwnSeries, owner
  <2>2. userState'[u] = userState[u] /\ userState[u] \in 1 .. Len(states)
    <3>1. userState'[u] = userState[u]
      BY Zenon, <2>1
    <3>2. userState[u] \in Nat /\ userState[u] <= Len(states) /\ Len(states) \in Nat
      BY <1>3, Typed DEF UserStates
    <3> QED  BY <2>1, <3>1, <3>2
  <2>3. states[userState[u]][fp] # 0
    BY <2>1, <2>2
  <2> QED  BY <2>1, <2>2, <2>3 DEF Base, Pointers, OwnSeries
<1>7. AppendStates'
  <2>1. SUFFICES ASSUME NEW a \in appending
                 PROVE  /\ a.state # 0 /\ a.state <= Len(states')
                        /\ \A u \in Users : userState'[u] = a.state => owner[a.fp] = u
    BY DEF AppendStates, owner
  <2> QED  BY DEF Base, Pointers, AppendStates
<1>8. WorkerPointers'
  BY DEF GoodUser, GoodSeries, WorkerPointers
<1> QED  BY <1>2, <1>4, <1>5, <1>6, <1>7, <1>8 DEF Base, Pointers

\* What a step leaves alone is of its type.
LEMMA Unchanged ==
  ASSUME Base
  PROVE  /\ userState \in [Users -> Nat] /\ states \in Seq([Series -> Nat])
         /\ objects \in Seq(Object)
         /\ loop \in {"select", "flush", "last", "done"} /\ todo \subseteq Users
         /\ flushes \in Nat /\ store \subseteq Series \X SUBSET Nat
         /\ main \in {"serving", "locking", "stopping", "leaving", "left", "exited", "crashed"}
         /\ faults \subseteq {"capture", "orphan", "put"}
  BY DEF Base, TypeOK, Object

LEMMA BaseLoop ==
  ASSUME Base, Tick \/ Quit \/ FlushEnd
  PROVE  Base'
<1>1. /\ UNCHANGED <<load, dataVars, appending, flushUsers, flushing, main, acked, faults>>
      /\ loop' \in {"select", "flush", "last", "done"} /\ todo' \subseteq Users /\ flushes' \in Nat
  BY Unchanged DEF Tick, Quit, FlushEnd, FlushAllUsers
<1> QED  BY <1>1, Unchanged, GoodWorkers, BaseKept DEF dataVars

LEMMA BaseMain ==
  ASSUME Base, NEW from, NEW to \in {"locking", "stopping", "leaving", "left", "exited"},
         MainStep(from, to)
  PROVE  Base'
<1>1. /\ UNCHANGED <<load, dataVars, appending, flushVars, acked, faults>>
      /\ main' = to
  BY DEF MainStep
<1> QED  BY <1>1, Unchanged, GoodWorkers, BaseKept DEF dataVars, flushVars
=============================================================================
