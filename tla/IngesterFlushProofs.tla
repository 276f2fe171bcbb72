------------------------ MODULE IngesterFlushProofs ------------------------
(* The flush of an ingester leaves pointers in order; what an append adds to  *)
(* a series; and the loop and main keep the rest of the invariant.            *)
EXTENDS IngesterProofs

LEMMA BaseSpawnUser ==
  ASSUME Base, NEW own \in todo, NEW id \in todo, SpawnUser(own, id)
  PROVE  Base'
<1> DEFINE new == [own |-> own, id |-> id, state |-> 0, pairs |-> {}]
<1>1. /\ UNCHANGED <<load, userState, states, objects, store, appending, loop, flushing, flushes, main, acked>>
      /\ todo' \subseteq todo /\ flushUsers' = flushUsers \cup {new}
      /\ faults' \subseteq faults \cup {"capture"}
  BY DEF SpawnUser, dataVars, capture
<1>2. GoodUser(new)
  <2>1. Len(states) \in Nat
    BY Typed DEF Base
  <2> QED  BY <2>1, Unchanged DEF GoodUser, UserWorker
<1> HIDE DEF new
<1>3. todo' \subseteq Users /\ faults' \subseteq {"capture", "orphan", "put"}
  BY <1>1, Unchanged
<1> QED  BY <1>1, <1>2, <1>3, Unchanged, GoodWorkers, BaseKept

\* The series that flushUser finds in the state st.
SeriesOf(st) == {<<fp, states[st][fp]>> : fp \in {f \in Series : states[st][f] # 0}}

LEMMA BaseUserBegin ==
  ASSUME Base, NEW g \in flushUsers, UserBegin(g)
  PROVE  Base'
<1> DEFINE st == userState[g.id]
           new == [own |-> g.own, id |-> g.id, state |-> st, pairs |-> SeriesOf(st)]
<1>1. /\ UNCHANGED <<load, userState, states, objects, store, appending, loop, todo, flushing, flushes,
                     main, acked, faults>>
      /\ flushUsers' \subseteq flushUsers \cup (IF st = 0 THEN {} ELSE {new})
  BY DEF UserBegin, dataVars, SeriesOf
<1>2. ASSUME st # 0  PROVE  GoodUser(new)
  <2>1. /\ g.own \in Users /\ g.id \in Users /\ st \in Nat /\ st <= Len(states) /\ Len(states) \in Nat
    BY Typed DEF Base, Pointers, UserStates
  <2>2. st \in 1 .. Len(states)
    BY <1>2, <2>1
  <2>3. \A fp \in Series : states[st][fp] \in Nat /\ states[st][fp] <= Len(objects)
    BY <2>2, Typed DEF Base, Pointers, Entries
  <2> HIDE DEF st
  <2>4. /\ SeriesOf(st) \subseteq Series \X Nat
        /\ \A p \in SeriesOf(st) : p[2] # 0 /\ p[2] <= Len(objects)
    BY <2>3 DEF SeriesOf
  <2>5. new \in UserWorker /\ new.state = st /\ new.pairs = SeriesOf(st)
    BY <2>1, <2>4 DEF UserWorker
  <2> HIDE DEF new
  <2> QED  BY <1>2, <2>1, <2>4, <2>5 DEF GoodUser
<1> HIDE DEF new, st
<1>3. \A h \in flushUsers' : GoodUser(h)
  BY <1>1, <1>2, GoodWorkers
<1> QED  BY <1>1, <1>3, Unchanged, GoodWorkers, BaseKept

LEMMA BaseSpawnSeries ==
  ASSUME Base, NEW g \in flushUsers, NEW own \in g.pairs, NEW pair \in g.pairs,
         SpawnSeries(g, own, pair)
  PROVE  Base'
<1> DEFINE ng == [g EXCEPT !.pairs = g.pairs \ {own}]
           nf == [by |-> g.own, own |-> own[1], state |-> g.state, fp |-> pair[1],
                  object |-> pair[2], chunks |-> <<>>, pc |-> "decide"]
<1>1. /\ UNCHANGED <<load, userState, states, objects, store, appending, loop, todo, flushes, main, acked>>
      /\ flushUsers' = (flushUsers \ {g}) \cup {ng} /\ flushing' = flushing \cup {nf}
      /\ faults' \subseteq faults \cup {"capture"}
  BY DEF SpawnSeries, dataVars, capture
<1>2. GoodUser(g) /\ g \in UserWorker
  BY GoodWorkers DEF GoodUser
<1>3. /\ ng = [own |-> g.own, id |-> g.id, state |-> g.state, pairs |-> g.pairs \ {own}]
      /\ g.own \in Users /\ g.id \in Users /\ g.state \in Nat /\ g.pairs \subseteq Series \X Nat
      /\ pair[1] \in Series /\ pair[2] \in Nat /\ own[1] \in Series
  <2>1. g.own \in Users /\ g.id \in Users /\ g.state \in Nat /\ g.pairs \subseteq Series \X Nat
    BY Typed DEF Base
  <2>2. g.pairs \ {own} \in SUBSET (Series \X Nat)
    BY <2>1
  <2>3. ng = [own |-> g.own, id |-> g.id, state |-> g.state, pairs |-> g.pairs \ {own}]
    BY <1>2, <2>2, PairsUpdate
  <2> QED  BY <2>1, <2>3
<1>4. GoodUser(ng)
  <2>1. /\ ng \in UserWorker /\ ng.state = g.state /\ ng.pairs = g.pairs \ {own}
    BY <1>3 DEF UserWorker
  <2> HIDE DEF ng
  <2> QED  BY <1>2, <2>1 DEF GoodUser
<1>5. GoodSeries(nf)
  <2>1. g.state # 0 /\ g.state <= Len(states) /\ pair[2] # 0 /\ pair[2] <= Len(objects)
    BY <1>2 DEF GoodUser
  <2>2. <<>> \in Seq(SUBSET Nat)
    OBVIOUS
  <2>3. nf \in SeriesWorker /\ nf.state = g.state /\ nf.object = pair[2] /\ nf.pc = "decide"
    BY <1>3, <2>2 DEF SeriesWorker
  <2> HIDE DEF nf
  <2> QED  BY <2>1, <2>3 DEF GoodSeries
<1> HIDE DEF ng, nf
<1>6. faults' \subseteq {"capture", "orphan", "put"}
  BY <1>1, Unchanged
<1>7. (\A h \in flushUsers' : GoodUser(h)) /\ (\A f \in flushing' : GoodSeries(f))
  BY <1>1, <1>4, <1>5, GoodWorkers
<1> QED  BY <1>1, <1>6, <1>7, Unchanged, BaseKept

\* What flushSeries decides: to close the head or not, and how many chunks to
\* flush, a head that is open excepted.
closes(f, old) == objects[f.object].closed \/ immediate \/ old
toFlush(f, old) ==
  IF closes(f, old) THEN Len(objects[f.object].chunks) ELSE Len(objects[f.object].chunks) - 1
decided(f, n) ==
  [by |-> f.by, own |-> f.own, state |-> f.state, fp |-> f.fp, object |-> f.object,
   chunks |-> SubSeq(objects[f.object].chunks, 1, n), pc |-> "put"]

LEMMA Decided ==
  ASSUME Base, NEW f \in flushing, NEW old \in BOOLEAN, Decide(f, old)
  PROVE  /\ f.pc = "decide" /\ objects[f.object].chunks # <<>>
         /\ UNCHANGED <<load, userState, states, store, appending, loop, todo,
                        flushUsers, flushes, main, acked, faults>>
         /\ objects' \in Seq(Object) /\ Len(objects') = Len(objects)
         /\ \A k \in 1 .. Len(objects) : objects'[k].chunks = objects[k].chunks
         /\ \A k \in 1 .. Len(objects) : objects[k].closed => objects'[k].closed
         /\ closes(f, old) => objects'[f.object].closed
         /\ f.object \in 1 .. Len(objects) /\ toFlush(f, old) \in 0 .. Len(objects[f.object].chunks)
         /\ objects[f.object].chunks \in Seq(SUBSET Nat)
         /\ flushing' = (flushing \ {f}) \cup
              (IF toFlush(f, old) = 0 THEN {} ELSE {decided(f, toFlush(f, old))})
         /\ toFlush(f, old) # 0 => GoodSeries(decided(f, toFlush(f, old)))
<1> DEFINE o == f.object
           cs == objects[o].chunks
           c == closes(f, old)
<1>1. /\ f.pc = "decide" /\ cs # <<>>
      /\ objects' = [objects EXCEPT ![o].closed = c]
      /\ flushing' = (flushing \ {f}) \cup
              (IF toFlush(f, old) = 0 THEN {} ELSE {decided(f, toFlush(f, old))})
      /\ UNCHANGED <<load, userState, states, store, appending, loop, todo,
                     flushUsers, flushes, main, acked, faults>>
  BY DEF Decide, Replace, closes, toFlush, decided
<1>2. GoodSeries(f) /\ f \in SeriesWorker
  BY GoodWorkers DEF GoodSeries
<1>3. /\ objects \in Seq(Object) /\ o \in 1 .. Len(objects) /\ f.by \in Users /\ f.state \in Nat
      /\ f.fp \in Series /\ f.own \in Series /\ o \in Nat /\ Len(objects) \in Nat
  <2>1. objects \in Seq(Object) /\ f.by \in Users /\ f.state \in Nat /\ f.fp \in Series /\ o \in Nat
        /\ Len(objects) \in Nat
    BY Typed DEF Base
  <2>2. f.own \in Series
    BY <1>2 DEF SeriesWorker
  <2> QED  BY <1>2, <2>1, <2>2 DEF GoodSeries
<1>4. objects[o] \in Object /\ cs \in Seq(SUBSET Nat) /\ Len(cs) \in Nat /\ Len(cs) # 0
      /\ objects[o].closed \in BOOLEAN
  <2>1. objects[o] \in Object
    BY <1>3
  <2>2. cs \in Seq(SUBSET Nat) /\ objects[o].closed \in BOOLEAN
    BY <2>1 DEF Object
  <2> HIDE DEF cs
  <2> QED  BY <1>1, <2>1, <2>2
<1>5. c \in BOOLEAN
  BY <1>4 DEF closes, immediate
<1>6. toFlush(f, old) \in 0 .. Len(cs)
  BY <1>4 DEF toFlush
<1> HIDE DEF c
<1>7. /\ objects' \in Seq(Object) /\ Len(objects') = Len(objects)
      /\ \A k \in 1 .. Len(objects) : objects'[k].chunks = objects[k].chunks
  BY <1>1, <1>3, <1>5, ClosedUpdate
<1>8. /\ objects'[o] = [objects[o] EXCEPT !.closed = c]
      /\ \A k \in 1 .. Len(objects) : k # o => objects'[k] = objects[k]
  BY <1>1, <1>3
<1>9. objects'[o].closed = c
  BY <1>4, <1>8 DEF Object
<1>10. objects[o].closed => c
  BY DEF closes, c
<1>11. \A k \in 1 .. Len(objects) : objects[k].closed => objects'[k].closed
  BY Zenon, <1>8, <1>9, <1>10
<1>12. ASSUME NEW n \in 1 .. Len(cs)  PROVE  GoodSeries(decided(f, n))
  <2>1. SubSeq(cs, 1, n) \in Seq(SUBSET Nat) /\ Len(SubSeq(cs, 1, n)) = n /\ n # 0
    BY <1>4, <1>12
  <2>2. /\ decided(f, n) \in SeriesWorker /\ decided(f, n).state = f.state
        /\ decided(f, n).object = o /\ decided(f, n).chunks # <<>>
    BY Zenon, <1>3, <2>1 DEF decided, SeriesWorker
  <2> QED  BY <1>2, <2>2 DEF GoodSeries
<1>13. (c => objects'[o].closed) /\ (toFlush(f, old) # 0 => GoodSeries(decided(f, toFlush(f, old))))
  BY <1>6, <1>9, <1>12
<1> QED  BY <1>1, <1>3, <1>4, <1>6, <1>7, <1>11, <1>13 DEF c

LEMMA BaseDecide ==
  ASSUME Base, NEW f \in flushing, NEW old \in BOOLEAN, Decide(f, old)
  PROVE  Base'
<1> DEFINE n == toFlush(f, old)
<1>1. /\ UNCHANGED <<load, userState, states, store, appending, loop, todo,
                     flushUsers, flushes, main, acked, faults>>
      /\ objects' \in Seq(Object) /\ Len(objects') = Len(objects)
      /\ flushing' = (flushing \ {f}) \cup (IF n = 0 THEN {} ELSE {decided(f, n)})
      /\ n # 0 => GoodSeries(decided(f, n))
  BY Decided
<1>2. \A h \in flushing' : GoodSeries(h)
  BY <1>1, GoodWorkers
<1> QED  BY <1>1, <1>2, Unchanged, GoodWorkers, BaseKept

\* What a Put sends is stored, or some of it.
LEMMA BasePutChunks ==
  ASSUME Base, NEW f \in flushing, PutChunks(f)
  PROVE  Base'
<1> DEFINE sent == {<<f.fp, c>> : c \in ChunkSet(f.chunks)}
           nf == [f EXCEPT !.pc = "remove"]
<1>1. /\ UNCHANGED <<load, userState, states, objects, appending, loop, todo,
                     flushUsers, flushes, main, acked>>
      /\ store' \subseteq store \cup sent /\ flushing' \subseteq flushing \cup {nf}
      /\ faults' \subseteq faults \cup {"put"} /\ f.pc = "put"
  BY DEF PutChunks, Replace
<1>2. GoodSeries(f) /\ f \in SeriesWorker /\ f.fp \in Series /\ f.chunks \in Seq(SUBSET Nat)
  BY GoodWorkers, Typed DEF GoodSeries, Base
<1>3. sent \subseteq Series \X SUBSET Nat
  <2>1. ChunkSet(f.chunks) \subseteq SUBSET Nat
    BY <1>2 DEF ChunkSet
  <2> QED  BY <1>2, <2>1
<1>4. nf = [by |-> f.by, own |-> f.own, state |-> f.state, fp |-> f.fp,
            object |-> f.object, chunks |-> f.chunks, pc |-> "remove"]
  BY <1>2, RemoveUpdate
<1>5. GoodSeries(nf)
  <2>1. nf \in SeriesWorker /\ nf.state = f.state /\ nf.object = f.object /\ nf.chunks = f.chunks
    BY <1>2, <1>4 DEF SeriesWorker
  <2> HIDE DEF nf
  <2> QED  BY <1>1, <1>2, <2>1 DEF GoodSeries
<1> HIDE DEF nf, sent
<1>6. store' \subseteq Series \X SUBSET Nat /\ faults' \subseteq {"capture", "orphan", "put"}
  BY <1>1, <1>3, Unchanged
<1>7. \A h \in flushing' : GoodSeries(h)
  BY <1>1, <1>5, GoodWorkers
<1> QED  BY <1>1, <1>6, <1>7, Unchanged, GoodWorkers, BaseKept

\* What is left of a series when the chunks that f flushed are removed.
remaining(f) ==
  SubSeq(objects[f.object].chunks, Len(f.chunks), Len(objects[f.object].chunks))

LEMMA Removed ==
  ASSUME Base, NEW f \in flushing, RemoveChunks(f)
  PROVE  /\ f.pc = "remove" /\ flushing' = flushing \ {f}
         /\ UNCHANGED <<load, userState, store, appending, loop, todo,
                        flushUsers, flushes, main, acked, faults>>
         /\ f.object \in 1 .. Len(objects) /\ f.state \in 1 .. Len(states) /\ f.fp \in Series
         /\ Len(f.chunks) \in Nat \ {0} /\ Len(f.chunks) - 1 <= Len(objects[f.object].chunks)
         /\ objects[f.object].chunks \in Seq(SUBSET Nat)
         /\ objects' \in Seq(Object) /\ Len(objects') = Len(objects)
         /\ objects'[f.object].chunks = remaining(f)
         /\ objects'[f.object].closed = objects[f.object].closed
         /\ \A k \in 1 .. Len(objects) : k # f.object => objects'[k] = objects[k]
         /\ remaining(f) # <<>> => states' = states
         /\ states' \in Seq([Series -> Nat]) /\ Len(states') = Len(states)
         /\ \A i \in 1 .. Len(states), fp \in Series : states'[i][fp] \in {0, states[i][fp]}
<1> DEFINE o == f.object
           cs == objects[o].chunks
           n == Len(f.chunks)
<1>1. /\ f.pc = "remove" /\ flushing' = flushing \ {f} /\ n - 1 <= Len(cs)
      /\ UNCHANGED <<load, userState, store, appending, loop, todo,
                     flushUsers, flushes, main, acked, faults>>
      /\ objects' = [objects EXCEPT ![o].chunks = remaining(f)]
      /\ states' = IF remaining(f) = <<>> THEN [states EXCEPT ![f.state][f.fp] = 0] ELSE states
  BY DEF RemoveChunks, Replace, remaining
<1>2. GoodSeries(f) /\ f.fp \in Series /\ f.chunks \in Seq(SUBSET Nat) /\ o \in Nat /\ f.state \in Nat
      /\ Len(objects) \in Nat /\ Len(states) \in Nat
  BY GoodWorkers, Typed DEF Base
<1>3. /\ o \in 1 .. Len(objects) /\ f.state \in 1 .. Len(states) /\ n \in Nat \ {0}
  <2>1. f.chunks # <<>>
    BY <1>1, <1>2 DEF GoodSeries
  <2> QED  BY <1>2, <2>1 DEF GoodSeries
<1>4. objects \in Seq(Object) /\ states \in Seq([Series -> Nat])
  BY Unchanged
<1>5. objects[o] \in Object
  BY <1>3, <1>4
<1>6. cs \in Seq(SUBSET Nat)
  BY <1>5 DEF Object
<1>7. remaining(f) \in Seq(SUBSET Nat)
  BY <1>1, <1>3, <1>6 DEF remaining
<1>8. /\ objects' \in Seq(Object) /\ Len(objects') = Len(objects)
      /\ objects'[o].chunks = remaining(f) /\ objects'[o].closed = objects[o].closed
      /\ \A k \in 1 .. Len(objects) : k # o => objects'[k] = objects[k]
  <2> DEFINE r == remaining(f)
             ob == [objects EXCEPT ![o].chunks = r]
  <2>1. o \in 1 .. Len(objects) /\ r \in Seq(SUBSET Nat) /\ objects \in Seq(Object) /\ objects' = ob
    BY <1>1, <1>3, <1>4, <1>7
  <2> HIDE DEF r, o
  <2>2. /\ ob \in Seq(Object) /\ Len(ob) = Len(objects)
        /\ ob[o].chunks = r /\ ob[o].closed = objects[o].closed
        /\ \A k \in 1 .. Len(objects) : k # o => ob[k] = objects[k]
    BY <2>1, ChunksUpdate
  <2> HIDE DEF ob
  <2> QED  BY <2>1, <2>2 DEF r
<1>9. /\ states' \in Seq([Series -> Nat]) /\ Len(states') = Len(states)
      /\ \A i \in 1 .. Len(states), fp \in Series : states'[i][fp] \in {0, states[i][fp]}
  <2>1. CASE remaining(f) = <<>>
    <3>1. 0 \in Nat /\ states' = [states EXCEPT ![f.state][f.fp] = 0]
      BY <1>1, <2>1
    <3> QED  BY <1>2, <1>3, <1>4, <3>1, EntryUpdate
  <2>2. CASE remaining(f) # <<>>
    BY <1>1, <1>4, <2>2
  <2> QED  BY <2>1, <2>2
<1> QED  BY <1>1, <1>2, <1>3, <1>6, <1>8, <1>9

LEMMA BaseRemoveChunks ==
  ASSUME Base, NEW f \in flushing, RemoveChunks(f)
  PROVE  Base'
<1>1. /\ flushing' = flushing \ {f}
      /\ UNCHANGED <<load, userState, store, appending, loop, todo,
                     flushUsers, flushes, main, acked, faults>>
      /\ objects' \in Seq(Object) /\ Len(objects') = Len(objects)
      /\ states' \in Seq([Series -> Nat]) /\ Len(states') = Len(states)
      /\ \A i \in 1 .. Len(states), fp \in Series : states'[i][fp] \in {0, states[i][fp]}
  BY Removed
<1> QED  BY <1>1, Unchanged, GoodWorkers, BaseKept

LEMMA BaseUserEnd ==
  ASSUME Base, NEW g \in flushUsers, UserEnd(g)
  PROVE  Base'
<1>1. /\ flushUsers' = flushUsers \ {g}
      /\ userState' = userState \/ userState' = [userState EXCEPT ![g.id] = 0]
      /\ UNCHANGED <<load, states, objects, store, appending, loop, todo, flushing,
                     flushes, main, acked, faults>>
  BY DEF UserEnd
<1>2. userState' \in [Users -> Nat] /\ \A u \in Users : userState'[u] \in {0, userState[u]}
  BY <1>1, Unchanged
<1> QED  BY <1>1, <1>2, Unchanged, GoodWorkers, BaseKept

LEMMA BasePanic ==
  ASSUME Base, NEW f \in flushing, Panic(f)
  PROVE  Base'
<1>1. /\ UNCHANGED <<load, dataVars, appending, flushVars, acked, faults>>
      /\ main' = "crashed"
  BY DEF Panic
<1> QED  BY <1>1, Unchanged, GoodWorkers, BaseKept DEF dataVars, flushVars
-----------------------------------------------------------------------------
(* What an append adds. *)

\* The series of the sample has the sample, and of every other chunk as much as
\* it had; no other series changes.
Adds(a, o) ==
  /\ objects' \in Seq(Object) /\ o \in 1 .. Len(objects')
  /\ \A k \in 1 .. Len(objects) : k # o => objects'[k] = objects[k]
  /\ Len(objects') \in {Len(objects), Len(objects) + 1}
  /\ Len(objects') = Len(objects) + 1 => o = Len(objects')
  /\ objects'[o].chunks # <<>> /\ \E c \in ChunkSet(objects'[o].chunks) : a.time \in c
  /\ o <= Len(objects) =>
       /\ Len(objects'[o].chunks) \in {Len(objects[o].chunks), Len(objects[o].chunks) + 1}
       /\ Len(objects[o].chunks) \in Nat /\ objects[o].chunks \in Seq(SUBSET Nat)
       /\ objects[o].closed => Len(objects'[o].chunks) = Len(objects[o].chunks) + 1
       /\ \A k \in 1 .. Len(objects[o].chunks) :
            /\ objects[o].chunks[k] \subseteq objects'[o].chunks[k]
            /\ k < Len(objects[o].chunks) \/ objects[o].closed =>
                 objects[o].chunks[k] = objects'[o].chunks[k]

LEMMA Adding ==
  ASSUME Base, NEW a \in appending, AppendAdd(a), acked' # acked \/ objects' # objects
  PROVE  \E o \in Nat :
           /\ Adds(a, o) /\ states'[a.state][a.fp] = o /\ o # 0
           /\ \A i \in 1 .. Len(states), fp \in Series :
                states[i][fp] # 0 => states'[i][fp] = states[i][fp]
           /\ acked' = acked \cup {<<a.fp, a.time>>}
           /\ a.state \in 1 .. Len(states) /\ a.fp \in Series /\ a.time \in Nat
           /\ Clean' => userState[owner[a.fp]] = a.state
<1> DEFINE s == a.state
           fp == a.fp
           t == a.time
<1>1. /\ s \in 1 .. Len(states) /\ fp \in Series /\ t \in Nat /\ Len(objects) \in Nat
      /\ Len(states) \in Nat /\ objects \in Seq(Object) /\ states \in Seq([Series -> Nat])
  <2>1. s \in Nat /\ fp \in Series /\ t \in Nat /\ Len(objects) \in Nat /\ Len(states) \in Nat
        /\ objects \in Seq(Object)
    BY Typed DEF Base
  <2>2. s # 0 /\ s <= Len(states)
    BY DEF Base, Pointers, AppendStates
  <2> QED  BY <2>1, <2>2 DEF Base, TypeOK
<1>2. acked' = acked \cup {<<fp, t>>} /\ (Clean' => userState[owner[fp]] = s)
  BY DEF AppendAdd, Clean
<1>3. CASE states[s][fp] = 0
  <2> DEFINE new == add(NewSeries, t)
             n == Len(objects) + 1
  <2>1. objects' = Append(objects, new) /\ states' = [states EXCEPT ![s][fp] = n]
    BY <1>3 DEF AppendAdd
  <2>2. /\ new \in Object /\ new.chunks # <<>> /\ t \in new.chunks[Len(new.chunks)]
        /\ new.chunks \in Seq(SUBSET Nat)
    <3>1. new \in Object /\ new.chunks # <<>> /\ t \in new.chunks[Len(new.chunks)]
      BY <1>1, NewSeriesType, Added
    <3> HIDE DEF new
    <3> QED  BY <3>1 DEF Object
  <2> HIDE DEF new
  <2>3. /\ objects' \in Seq(Object) /\ Len(objects') = n /\ objects'[n] = new
        /\ \A k \in 1 .. Len(objects) : objects'[k] = objects[k]
    BY <1>1, <2>1, <2>2, SeqAppend
  <2>4. n \in Nat /\ n \in 1 .. n /\ n # 0 /\ ~(n <= Len(objects))
    BY <1>1
  <2>5. \E c \in ChunkSet(new.chunks) : t \in c
    BY <2>2 DEF ChunkSet
  <2>6. Adds(a, n)
    BY <2>2, <2>3, <2>4, <2>5 DEF Adds
  <2> HIDE DEF n
  <2>7. \A i \in 1 .. Len(states), fq \in Series :
          states'[i][fq] = IF i = s /\ fq = fp THEN n ELSE states[i][fq]
    <3>1. /\ states' = [states EXCEPT ![s][fp] = n] /\ n \in Nat /\ states \in Seq([Series -> Nat])
          /\ s \in 1 .. Len(states) /\ fp \in Series
      BY <1>1, <2>1, <2>4
    <3> HIDE DEF s, fp
    <3> QED  BY <3>1, EntryUpdate
  <2>8. /\ states'[s][fp] = n
        /\ \A i \in 1 .. Len(states), fq \in Series : states[i][fq] # 0 => states'[i][fq] = states[i][fq]
    BY Zenon, <1>1, <1>3, <2>7
  <2> QED  BY <1>1, <1>2, <2>4, <2>6, <2>8
<1>4. CASE states[s][fp] # 0
  <2> DEFINE o == states[s][fp]
             new == add(objects[o], t)
  <2>1. objects' = [objects EXCEPT ![o] = new] /\ states' = states
    BY <1>4 DEF AppendAdd
  <2>2. o \in 1 .. Len(objects) /\ o \in Nat /\ o # 0 /\ objects[o] \in Object
    <3>1. o \in Nat /\ o <= Len(objects)
      BY <1>1, Typed DEF Base, Pointers, Entries
    <3>2. o \in 1 .. Len(objects)
      BY <1>1, <1>4, <3>1
    <3> QED  BY <1>1, <1>4, <3>1, <3>2
  <2> HIDE DEF o
  <2>3. /\ new \in Object
        /\ Len(new.chunks) \in {Len(objects[o].chunks), Len(objects[o].chunks) + 1}
        /\ new.chunks # <<>>
        /\ t \in new.chunks[Len(new.chunks)]
        /\ objects[o].closed => Len(new.chunks) = Len(objects[o].chunks) + 1
        /\ \A k \in 1 .. Len(objects[o].chunks) :
             /\ objects[o].chunks[k] \subseteq new.chunks[k]
             /\ k < Len(objects[o].chunks) \/ objects[o].closed => objects[o].chunks[k] = new.chunks[k]
    BY Zenon, <1>1, <2>2, Added
  <2> HIDE DEF new
  <2>4. new.chunks \in Seq(SUBSET Nat) /\ objects[o].chunks \in Seq(SUBSET Nat)
    BY <2>2, <2>3 DEF Object
  <2>5. /\ objects' \in Seq(Object) /\ Len(objects') = Len(objects) /\ objects'[o] = new
        /\ \A k \in 1 .. Len(objects) : k # o => objects'[k] = objects[k]
    <3>1. new \in Object
      BY <2>3
    <3> QED  BY <1>1, <2>1, <2>2, <3>1, SeqUpdate
  <2>6. \E c \in ChunkSet(new.chunks) : t \in c
    BY <2>3, <2>4 DEF ChunkSet
  <2>7. Len(objects[o].chunks) \in Nat /\ Len(objects) # Len(objects) + 1
    BY <1>1, <2>4
  <2>8. Adds(a, o)
    BY <2>2, <2>3, <2>4, <2>5, <2>6, <2>7 DEF Adds
  <2> QED  BY <1>1, <1>2, <2>1, <2>2, <2>8 DEF o
<1> QED  BY <1>3, <1>4
-----------------------------------------------------------------------------
Rest == Workers /\ Fronts /\ Kept /\ LastFlush

\* A fault is remembered.
LEMMA CleanBefore ==
  ASSUME faults \subseteq faults', Clean'
  PROVE  Clean
  BY DEF Clean

LEMMA AckedType ==
  ASSUME TypeOK, NEW x \in acked
  PROVE  x[1] \in Series /\ x[2] \in Nat /\ owner[x[1]] \in Users
  BY Typed DEF TypeOK

\* Where a sample is depends on these variables.
LEMMA SamplesSame ==
  ASSUME UNCHANGED <<load, userState, states, objects, store>>, NEW fp, NEW t
  PROVE  /\ InMemory(fp, t)' <=> InMemory(fp, t)
         /\ InStore(fp, t)' <=> InStore(fp, t)
         /\ owner' = owner
  BY DEF InMemory, InStore, owner

\* A chunk stays in its series, or grows there.
Grown(o) ==
  \A c \in ChunkSet(objects[o].chunks) : \E d \in ChunkSet(objects'[o].chunks) : c \subseteq d

\* The series of fp in memory.
seriesOf(fp) == states[userState[owner[fp]]][fp]

\* A sample in memory stays there when its series keeps its place and its chunks.
LEMMA MemoryKept ==
  ASSUME NEW fp, NEW t, InMemory(fp, t), load' = load,
         userState'[owner[fp]] = userState[owner[fp]],
         states'[userState[owner[fp]]][fp] = seriesOf(fp), Grown(seriesOf(fp))
  PROVE  InMemory(fp, t)'
<1>1. userState[owner[fp]] # 0 /\ seriesOf(fp) # 0 /\ \E c \in ChunkSet(objects[seriesOf(fp)].chunks) : t \in c
  BY DEF InMemory, seriesOf
<1>2. \E c \in ChunkSet(objects'[seriesOf(fp)].chunks) : t \in c
  BY <1>1 DEF Grown
<1>3. userState'[owner'[fp]] = userState[owner[fp]] /\ states'[userState'[owner'[fp]]][fp] = seriesOf(fp)
  BY DEF owner
<1> QED  BY <1>1, <1>2, <1>3 DEF InMemory, ChunkSet

\* Where a series in memory is.
LEMMA InMemoryPlace ==
  ASSUME Base, NEW fp \in Series, NEW t, InMemory(fp, t)
  PROVE  /\ owner[fp] \in Users /\ userState[owner[fp]] \in 1 .. Len(states)
         /\ seriesOf(fp) \in 1 .. Len(objects) /\ objects[seriesOf(fp)].chunks \in Seq(SUBSET Nat)
         /\ \E k \in 1 .. Len(objects[seriesOf(fp)].chunks) : t \in objects[seriesOf(fp)].chunks[k]
<1> DEFINE st == userState[owner[fp]]
           o == seriesOf(fp)
<1>1. st # 0 /\ o # 0 /\ \E c \in ChunkSet(objects[o].chunks) : t \in c
  BY DEF InMemory, seriesOf
<1>2. /\ owner[fp] \in Users /\ st \in Nat /\ st <= Len(states) /\ Len(states) \in Nat
      /\ Len(objects) \in Nat /\ objects \in Seq(Object)
  BY Typed DEF Base, Pointers, UserStates
<1>3. st \in 1 .. Len(states)
  BY <1>1, <1>2
<1>4. o \in 1 .. Len(objects)
  <2>1. o \in Nat /\ o <= Len(objects)
    BY <1>3, Typed DEF Base, Pointers, Entries, seriesOf
  <2> QED  BY <1>1, <1>2, <2>1
<1> HIDE DEF o, st
<1>5. objects[o] \in Object
  BY <1>2, <1>4
<1>6. objects[o].chunks \in Seq(SUBSET Nat)
  BY <1>5 DEF Object
<1>7. \E k \in 1 .. Len(objects[o].chunks) : t \in objects[o].chunks[k]
  BY <1>1, <1>6 DEF ChunkSet
<1> QED  BY <1>2, <1>3, <1>4, <1>6, <1>7 DEF o, st
-----------------------------------------------------------------------------
(* The steps of the loop and of main. *)

LEMMA NoneFlushing ==
  ASSUME Inductive, loop \in {"select", "done"}
  PROVE  todo = {} /\ flushUsers = {} /\ (Clean => flushing = {})
  BY DEF Inductive, LastFlush, Workers, OneFlushPerSeries

LEMMA LoopRest ==
  ASSUME Inductive, Tick \/ Quit
  PROVE  Rest'
<1>1. /\ loop = "select" /\ todo' = {u \in Users : userState[u] # 0}
      /\ UNCHANGED <<load, userState, states, objects, store, appending, flushUsers, flushing,
                     main, acked, faults>>
      /\ \/ loop' = "flush"
         \/ loop' = "last" /\ main \in {"stopping", "leaving", "left"}
  BY DEF Tick, Quit, FlushAllUsers, dataVars, Stopping
<1>2. flushUsers = {} /\ (Clean => flushing = {}) /\ Clean' = Clean
  BY <1>1, NoneFlushing DEF Clean
<1>3. Workers'
  BY <1>1, <1>2 DEF Workers, OneFlushPerUser, OneFlushPerSeries
<1>4. Fronts'
  BY <1>1, <1>2 DEF Fronts, Inductive
<1>5. Kept'
  BY <1>1, <1>2, SamplesSame DEF Kept, Inductive
<1>6. ASSUME Clean, NEW x \in acked  PROVE  InStore(x[1], x[2])' \/ Pending(x[1])'
  <2>1. CASE InStore(x[1], x[2])
    BY <1>1, <2>1, SamplesSame
  <2>2. CASE InMemory(x[1], x[2])
    BY <1>1, <2>2, AckedType DEF InMemory, Pending, owner, Inductive
  <2> QED  BY <1>6, <2>1, <2>2 DEF Inductive, Kept
<1>7. LastFlush'
  <2>1. /\ main \notin {"serving", "locking", "crashed"} => appending = {}
    BY DEF Inductive, LastFlush
  <2> QED  BY <1>1, <1>2, <1>6, <2>1 DEF LastFlush
<1> QED  BY <1>3, <1>4, <1>5, <1>7 DEF Rest

LEMMA FlushEndRest ==
  ASSUME Inductive, FlushEnd
  PROVE  Rest'
<1>1. /\ loop \in {"flush", "last"} /\ todo = {} /\ flushUsers = {}
      /\ loop' = IF loop = "last" THEN "done" ELSE "select"
      /\ UNCHANGED <<load, userState, states, objects, store, appending, todo, flushUsers, flushing,
                     main, acked, faults>>
  BY DEF FlushEnd, dataVars, immediate
<1>2. (Clean => flushing = {}) /\ Clean' = Clean
  BY <1>1 DEF Clean, Inductive, Workers, OneFlushPerSeries
<1>3. Workers'
  BY <1>1, <1>2 DEF Workers, OneFlushPerUser, OneFlushPerSeries
<1>4. Fronts'
  BY <1>1, <1>2 DEF Fronts, Inductive
<1>5. Kept'
  BY <1>1, <1>2, SamplesSame DEF Kept, Inductive
<1>6. ASSUME Clean, loop = "last", "put" \notin faults, NEW x \in acked
      PROVE  InStore(x[1], x[2])'
  BY <1>1, <1>6, SamplesSame DEF Inductive, LastFlush, Pending
<1>7. LastFlush'
  BY <1>1, <1>2, <1>6 DEF LastFlush, Inductive
<1> QED  BY <1>3, <1>4, <1>5, <1>7 DEF Rest

\* Nothing of the flush or the data changes: only main may.
LEMMA MainRest ==
  ASSUME Inductive, UNCHANGED <<load, dataVars, appending, flushVars, acked, faults>>,
         main' = "crashed" => main = "crashed",
         main' \notin {"serving", "locking", "crashed"} => appending = {},
         loop \in {"last", "done"} => main' \notin {"serving", "locking"}
  PROVE  Rest'
<1>1. UNCHANGED <<load, userState, states, objects, store, appending, loop, todo, flushUsers, flushing,
                  acked, faults>>
  BY DEF dataVars, flushVars
<1>2. Workers' /\ Fronts'
  BY <1>1 DEF Inductive, Workers, OneFlushPerUser, OneFlushPerSeries, Fronts, InFront, Stored, Clean
<1>3. Kept'
  BY <1>1, SamplesSame DEF Inductive, Kept, Clean
<1>4. \A x \in acked : InStore(x[1], x[2]) \/ Pending(x[1]) <=> (InStore(x[1], x[2]) \/ Pending(x[1]))'
  BY <1>1 DEF InStore, Pending, owner
<1>5. LastFlush'
  <2>1. loop \in {"select", "done"} => todo = {} /\ flushUsers = {}
    BY DEF Inductive, LastFlush
  <2>2. Clean /\ loop = "last" =>
          \A f \in flushing : f.pc # "decide" => Len(f.chunks) = Len(objects[f.object].chunks)
    BY DEF Inductive, LastFlush
  <2>3. Clean /\ loop \in {"last", "done"} /\ "put" \notin faults =>
          \A x \in acked : InStore(x[1], x[2]) \/ Pending(x[1])
    BY DEF Inductive, LastFlush
  <2>4. Clean' = Clean
    BY <1>1 DEF Clean
  <2> QED  BY <1>1, <1>4, <2>1, <2>2, <2>3, <2>4 DEF LastFlush
<1> QED  BY <1>2, <1>3, <1>5 DEF Rest

LEMMA ShutdownRest ==
  ASSUME Inductive, Term \/ StopLocked \/ StopDone \/ Unregister \/ Exit
  PROVE  Rest'
<1>1. /\ UNCHANGED <<load, dataVars, appending, flushVars, acked, faults>>
      /\ \/ main = "serving" /\ main' = "locking"
         \/ main = "locking" /\ main' = "stopping" /\ appending = {}
         \/ main \in {"stopping", "leaving", "left"} /\ main' \in {"leaving", "left", "exited"}
  BY DEF Term, StopLocked, StopDone, Unregister, Exit, MainStep
<1>2. /\ main' # "crashed"
      /\ main' \notin {"serving", "locking", "crashed"} => appending = {}
      /\ loop \in {"last", "done"} => main' \notin {"serving", "locking"}
  BY <1>1 DEF Inductive, LastFlush
<1> QED  BY <1>1, <1>2, MainRest

\* A goroutine that panics had a series without chunks, or with fewer than it
\* flushed: there is none unless it read the series of another one.
LEMMA PanicRest ==
  ASSUME Inductive, NEW f \in flushing, Panic(f)
  PROVE  Rest'
<1>1. /\ UNCHANGED <<load, dataVars, appending, flushVars, acked, faults>> /\ main' = "crashed"
      /\ \/ f.pc = "decide" /\ objects[f.object].chunks = <<>>
         \/ f.pc = "remove" /\ Len(f.chunks) - 1 > Len(objects[f.object].chunks)
  BY DEF Panic
<1>2. ~Clean
  <2>1. SUFFICES ASSUME Clean  PROVE FALSE
    OBVIOUS
  <2>2. f.object \in 1 .. Len(objects) /\ Len(f.chunks) \in Nat /\ Len(objects[f.object].chunks) \in Nat
    <3>1. GoodSeries(f) /\ f.object \in Nat /\ Len(objects) \in Nat /\ objects \in Seq(Object)
          /\ f.chunks \in Seq(SUBSET Nat)
      BY GoodWorkers, Typed DEF Inductive, Base
    <3>2. f.object \in 1 .. Len(objects)
      BY <3>1 DEF GoodSeries
    <3>3. objects[f.object] \in Object
      BY <3>1, <3>2
    <3>4. objects[f.object].chunks \in Seq(SUBSET Nat)
      BY <3>3 DEF Object
    <3> QED  BY <3>1, <3>2, <3>4
  <2>3. objects[f.object].chunks # <<>>
    BY <2>1, <2>2 DEF Inductive, Fronts
  <2>4. f.pc = "remove" => Len(f.chunks) <= Len(objects[f.object].chunks)
    BY <2>1 DEF Inductive, Fronts, InFront
  <2> QED  BY <1>1, <2>2, <2>3, <2>4
<1>3. /\ ~Clean' /\ UNCHANGED <<appending, loop, todo, flushUsers>>
  BY <1>1, <1>2 DEF Clean, flushVars
<1>4. LastFlush'
  BY <1>1, <1>3 DEF Inductive, LastFlush
<1> QED  BY <1>3, <1>4 DEF Rest, Workers, Fronts, Kept
=============================================================================
