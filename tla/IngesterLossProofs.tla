------------------------- MODULE IngesterLossProofs -------------------------
(* An ingester loses no sample that it acknowledged: NoneLost, for any number *)
(* of users, series, appends and flushes.                                     *)
EXTENDS IngesterLoopProofs

\* After the Put all that the goroutine holds is in the store; in the last flush
\* that is all of the series.
LEMMA PutChunksRest ==
  ASSUME Inductive, NEW f \in flushing, PutChunks(f)
  PROVE  Rest'
<1> DEFINE sent == {<<f.fp, c>> : c \in ChunkSet(f.chunks)}
           nf == [f EXCEPT !.pc = "remove"]
<1>1. /\ UNCHANGED <<load, userState, states, objects, appending, loop, todo,
                     flushUsers, flushes, main, acked>>
      /\ store \subseteq store' /\ f.pc = "put" /\ faults \subseteq faults'
      /\ \/ /\ flushing' = (flushing \ {f}) \cup {nf} /\ sent \subseteq store' /\ faults' = faults
         \/ /\ flushing' = flushing \ {f}
            /\ loop = "last" => "put" \in faults'
      /\ faults' \subseteq faults \cup {"put"}
  BY DEF PutChunks, Replace, immediate
<1>2. /\ nf.by = f.by /\ nf.state = f.state /\ nf.fp = f.fp /\ nf.object = f.object
      /\ nf.chunks = f.chunks /\ nf.pc = "remove" /\ f.chunks \in Seq(SUBSET Nat)
  <2>1. f \in SeriesWorker /\ f.chunks \in Seq(SUBSET Nat)
    BY Typed DEF Inductive
  <2>2. nf = [by |-> f.by, own |-> f.own, state |-> f.state, fp |-> f.fp,
              object |-> f.object, chunks |-> f.chunks, pc |-> "remove"]
    BY <2>1, RemoveUpdate
  <2> QED  BY <2>1, <2>2
<1>3. \A k \in 1 .. Len(f.chunks) : <<f.fp, f.chunks[k]>> \in sent
  BY <1>2 DEF ChunkSet
<1> HIDE DEF nf, sent
<1>4. Clean' = Clean
  BY <1>1 DEF Clean
<1>5. Workers'
  <2>1. flushing' = flushing \ {f} \/ flushing' = (flushing \ {f}) \cup {nf}
    BY <1>1
  <2> QED  BY <1>1, <1>2, <1>4, <2>1, FlushSeriesWorkers DEF Workers
<1>6. Fronts'
  <2>1. SUFFICES ASSUME Clean
                 PROVE  /\ \A i \in 1 .. Len(objects') : objects'[i].chunks # <<>>
                        /\ \A h \in flushing' : h.pc # "decide" => InFront(h)'
                        /\ \A h \in flushing' : h.pc = "remove" => Stored(h)'
    BY <1>4 DEF Fronts
  <2>2. /\ \A i \in 1 .. Len(objects) : objects[i].chunks # <<>>
        /\ \A h \in flushing : h.pc # "decide" => InFront(h)
        /\ \A h \in flushing : h.pc = "remove" => Stored(h)
    BY <2>1 DEF Inductive, Fronts
  <2>3. ASSUME NEW h \in flushing', h.pc # "decide"  PROVE  InFront(h)'
    <3>1. PICK k \in flushing : InFront(k) /\ h.object = k.object /\ h.chunks = k.chunks
      BY <1>1, <1>2, <2>2, <2>3
    <3> QED  BY <1>1, <3>1 DEF InFront
  <2>4. ASSUME NEW h \in flushing', h.pc = "remove"  PROVE  Stored(h)'
    <3>1. CASE h \in flushing
      BY <1>1, <2>2, <2>4, <3>1 DEF Stored
    <3>2. CASE h = nf /\ sent \subseteq store'
      BY <1>2, <1>3, <3>2 DEF Stored
    <3> QED  BY <1>1, <3>1, <3>2
  <2> QED  BY <1>1, <2>2, <2>3, <2>4
<1>7. ASSUME NEW x \in acked  PROVE  /\ InMemory(x[1], x[2]) => InMemory(x[1], x[2])'
                                     /\ InStore(x[1], x[2]) => InStore(x[1], x[2])'
  BY <1>1 DEF InMemory, InStore, owner
<1>8. Kept'
  BY <1>1, <1>4, <1>7 DEF Inductive, Kept
<1>9. ASSUME Clean, loop = "last", "put" \notin faults', NEW x \in acked,
             Pending(x[1]), ~InStore(x[1], x[2])
      PROVE  InStore(x[1], x[2])' \/ Pending(x[1])'
  <2>1. sent \subseteq store' /\ flushing' = (flushing \ {f}) \cup {nf}
    BY <1>1, <1>9
  <2>2. CASE owner[x[1]] \in todo
    BY <1>1, <2>2 DEF Pending, owner
  <2>3. ASSUME NEW g \in flushUsers, g.own = owner[x[1]],
               g.state = 0 \/ \E p \in g.pairs : p[1] = x[1]
        PROVE  Pending(x[1])'
    BY <1>1, <2>3 DEF Pending, owner
  <2>4. ASSUME NEW g \in flushUsers, g.own = owner[x[1]], NEW h \in flushing,
               h.by = g.own, h.fp = x[1], h.pc # "remove", h # f
        PROVE  Pending(x[1])'
    BY <1>1, <2>1, <2>4 DEF Pending, owner
  <2>5. ASSUME NEW g \in flushUsers, g.own = owner[x[1]], f.by = g.own, f.fp = x[1]
        PROVE  InStore(x[1], x[2])'
    <3>1. OneFlushPerUser /\ OneFlushPerSeries /\ InMemory(x[1], x[2]) /\ x[1] \in Series
      BY <1>9, AckedType DEF Inductive, Workers, Kept
    <3>2. f.state = userState[owner[x[1]]]
      <4>1. f.state # 0
        BY GoodWorkers DEF GoodSeries, Inductive, Base
      <4>2. PICK k \in flushUsers : k.own = f.by /\ k.state = f.state
        BY <3>1 DEF OneFlushPerSeries
      <4>3. k.id = k.own /\ userState[k.id] = k.state
        BY <3>1, <4>1, <4>2 DEF OneFlushPerUser
      <4> QED  BY <2>5, <4>2, <4>3
    <3>3. f.object = seriesOf(x[1])
      BY <2>5, <3>1, <3>2 DEF OneFlushPerSeries, seriesOf
    <3>4. PICK k \in 1 .. Len(objects[f.object].chunks) : x[2] \in objects[f.object].chunks[k]
      BY <3>1, <3>3, InMemoryPlace DEF Inductive, Base
    <3>5. Len(f.chunks) = Len(objects[f.object].chunks) /\ f.chunks[k] = objects[f.object].chunks[k]
      <4>1. Len(f.chunks) = Len(objects[f.object].chunks)
        BY <1>1, <1>9 DEF Inductive, LastFlush
      <4>2. InFront(f)
        BY <1>1, <1>9 DEF Inductive, Fronts
      <4> QED  BY <3>4, <4>1, <4>2 DEF InFront
    <3>6. <<x[1], f.chunks[k]>> \in store'
      BY <1>3, <2>1, <2>5, <3>4, <3>5
    <3> QED  BY <3>4, <3>5, <3>6 DEF InStore
  <2> QED  BY <1>9, <2>2, <2>3, <2>4, <2>5 DEF Pending
<1>10. LastFlush'
  <2>1. loop # "done" \/ ~Clean
    BY NoneFlushing
  <2>2. Clean /\ loop = "last" /\ "put" \notin faults =>
          \A x \in acked : InStore(x[1], x[2]) \/ Pending(x[1])
    BY DEF Inductive, LastFlush
  <2>3. /\ main \notin {"serving", "locking", "crashed"} => appending = {}
        /\ loop \in {"last", "done"} => main \notin {"serving", "locking"}
        /\ loop \in {"select", "done"} => todo = {} /\ flushUsers = {}
    BY DEF Inductive, LastFlush
  <2>4. ASSUME Clean, loop = "last", "put" \notin faults', NEW x \in acked
        PROVE  InStore(x[1], x[2])' \/ Pending(x[1])'
    <3>1. "put" \notin faults
      BY <1>1, <2>4
    <3> QED  BY <1>7, <1>9, <2>2, <2>4, <3>1
  <2>5. ASSUME Clean, loop = "last", NEW h \in flushing', h.pc # "decide"
        PROVE  Len(h.chunks) = Len(objects[h.object].chunks)
    <3>1. PICK k \in flushing : k.pc # "decide" /\ h.object = k.object /\ h.chunks = k.chunks
      BY <1>1, <1>2, <2>5
    <3> QED  BY <2>5, <3>1 DEF Inductive, LastFlush
  <2> QED  BY <1>1, <1>4, <2>1, <2>3, <2>4, <2>5 DEF LastFlush
<1> QED  BY <1>5, <1>6, <1>8, <1>10 DEF Rest

\* The chunks that go are in the store.
LEMMA RemoveChunksRest ==
  ASSUME Inductive, NEW f \in flushing, RemoveChunks(f)
  PROVE  Rest'
<1> DEFINE o == f.object
           cs == objects[o].chunks
           n == Len(f.chunks)
<1>1. /\ f.pc = "remove" /\ flushing' = flushing \ {f}
      /\ UNCHANGED <<load, userState, store, appending, loop, todo,
                     flushUsers, flushes, main, acked, faults>>
      /\ o \in 1 .. Len(objects) /\ n \in Nat \ {0} /\ cs \in Seq(SUBSET Nat)
      /\ objects' \in Seq(Object) /\ Len(objects') = Len(objects)
      /\ objects'[o].chunks = remaining(f) /\ objects'[o].closed = objects[o].closed
      /\ \A k \in 1 .. Len(objects) : k # o => objects'[k] = objects[k]
      /\ remaining(f) # <<>> => states' = states
  BY Removed DEF Inductive, Base
<1>2. Clean' = Clean
  BY <1>1 DEF Clean
<1>3. ASSUME Clean
      PROVE  /\ InFront(f) /\ Stored(f) /\ remaining(f) # <<>> /\ states' = states
             /\ \A k \in 1 .. Len(cs) : \/ k < n
                                        \/ \E j \in DOMAIN remaining(f) : remaining(f)[j] = cs[k]
  <2>1. InFront(f) /\ Stored(f)
    BY <1>1, <1>3 DEF Inductive, Fronts
  <2>2. n <= Len(cs) /\ Len(cs) \in Nat
    BY <1>1, <2>1 DEF InFront
  <2>3. /\ remaining(f) \in Seq(SUBSET Nat) /\ Len(remaining(f)) = Len(cs) - n + 1
        /\ \A i \in 1 .. Len(cs) - n + 1 : remaining(f)[i] = cs[n + i - 1]
    BY <1>1, <2>2 DEF remaining
  <2>4. remaining(f) # <<>>
    BY <1>1, <2>2, <2>3
  <2>5. ASSUME NEW k \in 1 .. Len(cs), ~(k < n)
        PROVE  \E j \in DOMAIN remaining(f) : remaining(f)[j] = cs[k]
    <3>1. k - n + 1 \in 1 .. Len(cs) - n + 1 /\ n + (k - n + 1) - 1 = k
      BY <1>1, <2>2, <2>5
    <3>2. remaining(f)[k - n + 1] = cs[k]
      BY Zenon, <2>3, <3>1
    <3>3. k - n + 1 \in 1 .. Len(remaining(f))
      BY <2>3, <3>1
    <3>4. k - n + 1 \in DOMAIN remaining(f)
      <4>1. remaining(f) \in Seq(SUBSET Nat)
        BY <2>3
      <4>2. DOMAIN remaining(f) = 1 .. Len(remaining(f))
        BY <4>1
      <4> QED  BY <3>3, <4>2
    <3> QED  BY <3>2, <3>4
  <2> QED  BY <1>1, <2>1, <2>4, <2>5
<1>4. ASSUME Clean  PROVE  OneFlushPerUser /\ OneFlushPerSeries /\ OneFlushPerUser' /\ OneFlushPerSeries'
  BY <1>1, <1>3, <1>4, FlushSeriesWorkers DEF Inductive, Workers
<1>5. Workers'
  BY <1>2, <1>4 DEF Workers
<1>6. ASSUME Clean, NEW h \in flushing'  PROVE  objects'[h.object] = objects[h.object]
  <2>1. h.object \in 1 .. Len(objects)
    <3>1. GoodSeries(h) /\ h.object \in Nat /\ Len(objects) \in Nat
      BY <1>1, GoodWorkers, Typed DEF Inductive, Base
    <3> QED  BY <3>1 DEF GoodSeries
  <2>2. h.object # o
    BY <1>1, <1>4, <1>6 DEF OneFlushPerSeries
  <2> QED  BY <1>1, <2>1, <2>2
<1>7. Fronts'
  <2>1. SUFFICES ASSUME Clean
                 PROVE  /\ \A i \in 1 .. Len(objects') : objects'[i].chunks # <<>>
                        /\ \A h \in flushing' : h.pc # "decide" => InFront(h)'
                        /\ \A h \in flushing' : h.pc = "remove" => Stored(h)'
    BY <1>2 DEF Fronts
  <2>2. /\ \A i \in 1 .. Len(objects) : objects[i].chunks # <<>>
        /\ \A h \in flushing : h.pc # "decide" => InFront(h)
        /\ \A h \in flushing : h.pc = "remove" => Stored(h)
    BY <2>1 DEF Inductive, Fronts
  <2>3. ASSUME NEW h \in flushing', h.pc # "decide"  PROVE  InFront(h)'
    <3>1. objects'[h.object] = objects[h.object]
      BY <1>6, <2>1, <2>3
    <3>2. InFront(h)
      BY <1>1, <2>2, <2>3
    <3> QED  BY Zenon, <3>1, <3>2 DEF InFront
  <2>4. ASSUME NEW h \in flushing', h.pc = "remove"  PROVE  Stored(h)'
    BY <1>1, <2>2, <2>4 DEF Stored
  <2>5. \A i \in 1 .. Len(objects') : objects'[i].chunks # <<>>
    BY <1>1, <1>3, <2>1, <2>2
  <2> QED  BY <2>3, <2>4, <2>5
<1>8. ASSUME Clean, NEW x \in acked  PROVE  InMemory(x[1], x[2])' \/ InStore(x[1], x[2])'
  <2>1. CASE InStore(x[1], x[2])
    BY <1>1, <2>1 DEF InStore
  <2>2. CASE InMemory(x[1], x[2])
    <3>1. x[1] \in Series /\ Base
      BY AckedType DEF Inductive, Base
    <3> DEFINE m == seriesOf(x[1])
    <3>2. /\ m \in 1 .. Len(objects) /\ owner[x[1]] \in Users /\ userState[owner[x[1]]] \in 1 .. Len(states)
          /\ \E k \in 1 .. Len(objects[m].chunks) : x[2] \in objects[m].chunks[k]
      BY <2>2, <3>1, InMemoryPlace
    <3>3. CASE m # o
      <4>1. Grown(m)
        BY Zenon, <1>1, <3>2, <3>3 DEF Grown
      <4> QED  BY <1>1, <1>3, <1>8, <2>2, <4>1, MemoryKept DEF seriesOf
    <3>4. CASE m = o
      <4>1. PICK k \in 1 .. Len(cs) : x[2] \in cs[k]
        BY <3>2, <3>4
      <4>2. CASE k < n
        <5>1. f.fp = x[1]
          <6>1. states[f.state][f.fp] = seriesOf(x[1]) /\ seriesOf(x[1]) # 0
            BY <1>4, <1>8, <3>2, <3>4 DEF OneFlushPerSeries
          <6>2. f.state \in 1 .. Len(states) /\ f.fp \in Series
            BY <3>1, Removed
          <6>3. \A i, j \in 1 .. Len(states), fp, fq \in Series :
                  states[i][fp] # 0 /\ states[i][fp] = states[j][fq] => i = j /\ fp = fq
            BY <3>1 DEF Base, Pointers, Entries
          <6> DEFINE fq == x[1]
                     st == userState[owner[x[1]]]
          <6>4. states[f.state][f.fp] = states[st][fq] /\ states[f.state][f.fp] # 0
            BY <6>1 DEF seriesOf
          <6>5. st \in 1 .. Len(states) /\ fq \in Series
            BY <3>1, <3>2
          <6> HIDE DEF st, fq
          <6>6. f.fp = fq
            BY <6>2, <6>3, <6>4, <6>5
          <6> QED  BY <6>6 DEF fq
        <5>2. k \in 1 .. n
          BY <1>1, <4>2
        <5>3. f.chunks[k] = cs[k] /\ <<f.fp, f.chunks[k]>> \in store
          BY <1>3, <1>8, <5>2 DEF InFront, Stored
        <5> QED  BY <1>1, <4>1, <5>1, <5>3 DEF InStore
      <4>3. CASE ~(k < n)
        <5>1. PICK j \in DOMAIN remaining(f) : remaining(f)[j] = cs[k]
          BY <1>3, <1>8, <4>3
        <5>2. \E c \in ChunkSet(objects'[m].chunks) : x[2] \in c
          BY <1>1, <3>4, <4>1, <5>1 DEF ChunkSet
        <5>3. userState'[owner'[x[1]]] = userState[owner[x[1]]] /\ states'[userState'[owner'[x[1]]]][x[1]] = m
          BY <1>1, <1>3, <1>8 DEF seriesOf, owner
        <5>4. userState[owner[x[1]]] # 0 /\ m # 0
          BY <2>2 DEF InMemory, seriesOf
        <5> HIDE DEF m
        <5> QED  BY <5>2, <5>3, <5>4 DEF InMemory, ChunkSet
      <4> QED  BY <4>2, <4>3
    <3> QED  BY <3>3, <3>4
  <2> QED  BY <1>8, <2>1, <2>2 DEF Inductive, Kept
<1>9. Kept'
  BY <1>1, <1>2, <1>8 DEF Inductive, Kept
<1>10. ASSUME NEW x \in acked, InStore(x[1], x[2]) \/ Pending(x[1])
       PROVE  InStore(x[1], x[2])' \/ Pending(x[1])'
  <2>1. CASE InStore(x[1], x[2])
    BY <1>1, <2>1 DEF InStore
  <2>2. CASE Pending(x[1])
    BY <1>1, <2>2 DEF Pending, owner
  <2> QED  BY <1>10, <2>1, <2>2
<1>11. LastFlush'
  <2>1. Clean /\ loop \in {"last", "done"} /\ "put" \notin faults =>
          \A x \in acked : InStore(x[1], x[2]) \/ Pending(x[1])
    BY DEF Inductive, LastFlush
  <2>2. /\ main \notin {"serving", "locking", "crashed"} => appending = {}
        /\ loop \in {"last", "done"} => main \notin {"serving", "locking"}
        /\ loop \in {"select", "done"} => todo = {} /\ flushUsers = {}
    BY DEF Inductive, LastFlush
  <2>3. ASSUME Clean, loop = "last", NEW h \in flushing', h.pc # "decide"
        PROVE  Len(h.chunks) = Len(objects'[h.object].chunks)
    BY <1>1, <1>6, <2>3 DEF Inductive, LastFlush
  <2> QED  BY <1>1, <1>2, <1>10, <2>1, <2>2, <2>3 DEF LastFlush
<1> QED  BY <1>5, <1>7, <1>9, <1>11 DEF Rest

LEMMA AppendAddRest ==
  ASSUME Inductive, Alive, NEW a \in appending, AppendAdd(a)
  PROVE  Rest'
<1>1. /\ UNCHANGED <<load, userState, store, loop, todo, flushUsers, flushing, main>>
      /\ appending' = appending \ {a} /\ faults \subseteq faults'
  BY DEF AppendAdd, flushVars
<1>2. Base /\ (Clean' => Clean)
  BY <1>1, CleanBefore DEF Inductive, Base
<1>3. LastFlush'
  <2>1. loop \notin {"last", "done"}
    BY DEF Inductive, LastFlush, Alive
  <2> QED  BY <1>1, <2>1 DEF Inductive, LastFlush
<1>4. CASE acked' = acked /\ objects' = objects
  <2>1. states' = states
    <3>1. objects # Append(objects, add(NewSeries, a.time))
      <4>1. objects \in Seq(Object) /\ Len(objects) \in Nat /\ a.time \in Nat
        BY <1>2, Typed DEF Base
      <4>2. add(NewSeries, a.time) \in Object
        BY <4>1, NewSeriesType, Added
      <4>3. Len(Append(objects, add(NewSeries, a.time))) = Len(objects) + 1
        BY <4>1, <4>2, SeqAppend
      <4> QED  BY <4>1, <4>3
    <3> QED  BY <1>4, <3>1 DEF AppendAdd
  <2>2. Workers' /\ Fronts'
    BY <1>1, <1>2, <1>4, <2>1 DEF Inductive, Workers, OneFlushPerUser, OneFlushPerSeries, Fronts,
         InFront, Stored
  <2>3. Kept'
    BY <1>1, <1>2, <1>4, <2>1, SamplesSame DEF Inductive, Kept
  <2> QED  BY <1>3, <2>2, <2>3 DEF Rest
<1>5. CASE acked' # acked \/ objects' # objects
  <2>1. PICK o \in Nat :
           /\ Adds(a, o) /\ states'[a.state][a.fp] = o /\ o # 0
           /\ \A i \in 1 .. Len(states), fp \in Series :
                states[i][fp] # 0 => states'[i][fp] = states[i][fp]
           /\ acked' = acked \cup {<<a.fp, a.time>>}
           /\ a.state \in 1 .. Len(states) /\ a.fp \in Series /\ a.time \in Nat
           /\ Clean' => userState[owner[a.fp]] = a.state
    BY <1>2, <1>5, Adding
  <2>2. SUFFICES ASSUME Clean'
                 PROVE  /\ OneFlushPerUser' /\ OneFlushPerSeries'
                        /\ \A i \in 1 .. Len(objects') : objects'[i].chunks # <<>>
                        /\ \A f \in flushing : f.pc # "decide" => InFront(f)'
                        /\ \A f \in flushing : f.pc = "remove" => Stored(f)'
                        /\ main # "crashed"
                        /\ \A x \in acked' : InMemory(x[1], x[2])' \/ InStore(x[1], x[2])'
    BY <1>1, <1>3 DEF Rest, Workers, Fronts, Kept
  <2>3. /\ Clean /\ OneFlushPerUser /\ OneFlushPerSeries
        /\ \A i \in 1 .. Len(objects) : objects[i].chunks # <<>>
        /\ \A f \in flushing : f.pc # "decide" => InFront(f)
        /\ \A f \in flushing : f.pc = "remove" => Stored(f)
        /\ main # "crashed"
        /\ \A x \in acked : InMemory(x[1], x[2]) \/ InStore(x[1], x[2])
    BY <1>2, <2>2 DEF Inductive, Workers, Fronts, Kept
  <2>4. OneFlushPerUser'
    <3>1. ASSUME NEW g \in flushUsers, NEW p \in g.pairs  PROVE  p[2] = states'[g.state][p[1]]
      <4>1. GoodUser(g) /\ g.state \in Nat /\ p[1] \in Series /\ Len(states) \in Nat
        BY <1>2, GoodWorkers, Typed DEF Base
      <4>2. g.state \in 1 .. Len(states) /\ p[2] # 0
        BY <4>1 DEF GoodUser
      <4>3. p[2] = states[g.state][p[1]]
        BY <2>3 DEF OneFlushPerUser
      <4> QED  BY <2>1, <4>1, <4>2, <4>3
    <3> QED  BY <1>1, <2>3, <3>1 DEF OneFlushPerUser
  <2>5. \A f \in flushing : f.object \in 1 .. Len(objects) /\ f.object = states'[f.state][f.fp]
    <3>1. SUFFICES ASSUME NEW f \in flushing
                   PROVE  f.object \in 1 .. Len(objects) /\ f.object = states'[f.state][f.fp]
      OBVIOUS
    <3>2. /\ GoodSeries(f) /\ f.state \in Nat /\ f.fp \in Series /\ f.object \in Nat
          /\ Len(states) \in Nat /\ Len(objects) \in Nat
      BY <1>2, GoodWorkers, Typed DEF Base
    <3>3. f.state \in 1 .. Len(states) /\ f.object \in 1 .. Len(objects) /\ f.object # 0
      BY <3>2 DEF GoodSeries
    <3>4. f.object = states[f.state][f.fp]
      BY <2>3 DEF OneFlushPerSeries
    <3> QED  BY <2>1, <3>2, <3>3, <3>4
  <2>6. OneFlushPerSeries'
    BY <1>1, <2>3, <2>5 DEF OneFlushPerSeries
  <2>7. \A i \in 1 .. Len(objects') : objects'[i].chunks # <<>>
    <3> TAKE i \in 1 .. Len(objects')
    <3>1. Len(objects) \in Nat
      BY <1>2, Typed DEF Base
    <3>2. i = o \/ (i \in 1 .. Len(objects) /\ i # o)
      BY <2>1, <3>1 DEF Adds
    <3> QED  BY <2>1, <2>3, <3>2 DEF Adds
  <2>8. ASSUME NEW f \in flushing, f.pc # "decide"  PROVE  InFront(f)'
    <3>1. InFront(f) /\ f.object \in 1 .. Len(objects) /\ Len(f.chunks) \in Nat
      BY <1>2, <2>3, <2>5, <2>8, Typed DEF Base
    <3>2. CASE f.object # o
      <4>1. objects'[f.object] = objects[f.object]
        BY <2>1, <3>1, <3>2 DEF Adds
      <4> QED  BY <3>1, <4>1 DEF InFront
    <3>3. CASE f.object = o
      <4> DEFINE old == objects[o].chunks
                 new == objects'[o].chunks
      <4>1. /\ Len(new) \in {Len(old), Len(old) + 1} /\ Len(old) \in Nat
            /\ objects[o].closed => Len(new) = Len(old) + 1
            /\ \A k \in 1 .. Len(old) : k < Len(old) \/ objects[o].closed => old[k] = new[k]
        <5>1. o <= Len(objects)
          BY <3>1, <3>3
        <5> QED  BY <2>1, <5>1 DEF Adds
      <4>2. /\ Len(f.chunks) <= Len(old)
            /\ \A k \in 1 .. Len(f.chunks) : f.chunks[k] = old[k]
            /\ Len(f.chunks) = Len(old) => objects[o].closed
        BY <3>1, <3>3 DEF InFront
      <4> HIDE DEF old, new
      <4>3. Len(f.chunks) <= Len(new) /\ Len(f.chunks) # Len(new)
        BY <3>1, <4>1, <4>2
      <4>4. \A k \in 1 .. Len(f.chunks) : f.chunks[k] = new[k]
        BY <3>1, <4>1, <4>2
      <4> QED  BY <3>3, <4>3, <4>4 DEF InFront, new
    <3> QED  BY <3>2, <3>3
  <2>9. \A f \in flushing : f.pc = "remove" => Stored(f)'
    BY <1>1, <2>3 DEF Stored
  <2>10. ASSUME NEW x \in acked  PROVE  InMemory(x[1], x[2])' \/ InStore(x[1], x[2])'
    <3>1. CASE InStore(x[1], x[2])
      BY <1>1, <3>1 DEF InStore
    <3>2. CASE InMemory(x[1], x[2])
      <4>1. x[1] \in Series
        BY AckedType DEF Inductive
      <4>2. /\ load' = load /\ userState' = userState /\ Adds(a, o)
            /\ \A i \in 1 .. Len(states), fp \in Series :
                 states[i][fp] # 0 => states'[i][fp] = states[i][fp]
        BY <1>1, <2>1
      <4> QED  BY <1>2, <3>2, <4>1, <4>2, AddInMemory
    <3> QED  BY <2>3, <3>1, <3>2
  <2>11. InMemory(a.fp, a.time)'
    <3>1. userState'[owner'[a.fp]] = a.state /\ a.state # 0
      <4>1. userState' = userState /\ userState[owner[a.fp]] = a.state /\ a.state \in 1 .. Len(states)
        BY <1>1, <2>1, <2>2
      <4>2. owner' = owner
        BY <1>1 DEF owner
      <4> QED  BY <4>1, <4>2
    <3>2. \E c \in ChunkSet(objects'[o].chunks) : a.time \in c
      BY <2>1 DEF Adds
    <3> QED  BY <2>1, <3>1, <3>2 DEF InMemory, ChunkSet
  <2>12. \A x \in acked' : InMemory(x[1], x[2])' \/ InStore(x[1], x[2])'
    BY <2>1, <2>10, <2>11
  <2> QED  BY <2>3, <2>4, <2>6, <2>7, <2>8, <2>9, <2>12
<1> QED  BY <1>4, <1>5
-----------------------------------------------------------------------------
LEMMA StutterInductive ==
  ASSUME Inductive, UNCHANGED vars
  PROVE  Inductive'
<1>1. /\ UNCHANGED <<load, dataVars, appending, flushVars, acked, faults>>
      /\ UNCHANGED <<load, userState, states, objects, store, appending, loop, todo, flushUsers,
                     flushing, flushes, acked, faults>> /\ main' = main
  BY DEF vars, dataVars, flushVars
<1>2. Base'
  BY <1>1, Unchanged, GoodWorkers, BaseKept DEF Inductive, Base
<1>3. /\ main' = "crashed" => main = "crashed"
      /\ main' \notin {"serving", "locking", "crashed"} => appending = {}
      /\ loop \in {"last", "done"} => main' \notin {"serving", "locking"}
  BY <1>1 DEF Inductive, LastFlush
<1>4. Rest'
  BY <1>1, <1>3, MainRest
<1> QED  BY <1>2, <1>4 DEF Inductive, Base, Rest

LEMMA StepInductive ==
  ASSUME Inductive, Step
  PROVE  Inductive'
<1>1. Base /\ Alive /\ load \in Loads
  BY DEF Inductive, Base, Step, TypeOK
<1>2. SUFFICES Base' /\ Rest'
  BY DEF Inductive, Base, Rest
<1>3. ASSUME NEW x \in load.samples, AppendBegin(x[1], x[2])  PROVE  Base' /\ Rest'
  <2>1. owner[x[1]] \in Users
    BY <1>1, IngesterAssumption DEF owner
  <2>2. /\ getStateFor(owner[x[1]]) /\ main = "serving"
        /\ UNCHANGED <<load, objects, store, loop, todo, flushUsers, flushing, main, acked, faults>>
    BY <1>3 DEF AppendBegin, flushVars
  <2> QED  BY <1>1, <1>3, <2>1, <2>2, BaseAppendBegin, GetStateRest
<1>4. ASSUME NEW a \in appending, AppendAdd(a)  PROVE  Base' /\ Rest'
  BY <1>1, <1>4, BaseAppendNew, BaseAppendOld, AppendAddRest
<1>5. ASSUME NEW u \in load.readers, QueryState(u)  PROVE  Base' /\ Rest'
  <2>1. u \in Users
    BY <1>1, IngesterAssumption
  <2>2. /\ getStateFor(u)
        /\ UNCHANGED <<load, objects, store, loop, todo, flushUsers, flushing, main, acked, faults>>
        /\ appending' = appending
    BY <1>5 DEF QueryState, flushVars
  <2>3. main \notin {"serving", "locking", "crashed"} => appending' = {}
    BY <2>2 DEF Inductive, LastFlush
  <2> QED  BY <1>1, <1>5, <2>1, <2>2, <2>3, BaseQueryState, GetStateRest
<1>6. ASSUME Tick \/ Quit  PROVE  Base' /\ Rest'
  BY <1>1, <1>6, BaseLoop, LoopRest
<1>7. ASSUME FlushEnd  PROVE  Base' /\ Rest'
  BY <1>1, <1>7, BaseLoop, FlushEndRest
<1>8. ASSUME NEW own \in todo, NEW id \in todo, SpawnUser(own, id)  PROVE  Base' /\ Rest'
  BY <1>1, <1>8, BaseSpawnUser, SpawnUserRest
<1>9. ASSUME NEW g \in flushUsers, UserBegin(g) \/ UserEnd(g)  PROVE  Base' /\ Rest'
  BY <1>1, <1>9, BaseUserBegin, BaseUserEnd, UserBeginRest, UserEndRest
<1>10. ASSUME NEW g \in flushUsers, NEW own \in g.pairs, NEW pair \in g.pairs,
              SpawnSeries(g, own, pair)
       PROVE  Base' /\ Rest'
  BY <1>1, <1>10, BaseSpawnSeries, SpawnSeriesRest
<1>11. ASSUME NEW f \in flushing, PutChunks(f) \/ RemoveChunks(f) \/ Panic(f)
       PROVE  Base' /\ Rest'
  BY <1>1, <1>11, BasePutChunks, PutChunksRest, BaseRemoveChunks, RemoveChunksRest,
     BasePanic, PanicRest
<1>12. ASSUME NEW f \in flushing, NEW old \in BOOLEAN, Decide(f, old)  PROVE  Base' /\ Rest'
  BY <1>1, <1>12, BaseDecide, DecideRest
<1>13. ASSUME Term \/ StopLocked \/ StopDone \/ Unregister \/ Exit  PROVE  Base' /\ Rest'
  <2>1. PICK from \in {"serving", "locking", "stopping", "leaving", "left"},
             to \in {"locking", "stopping", "leaving", "left", "exited"} : MainStep(from, to)
    BY <1>13 DEF Term, StopLocked, StopDone, Unregister, Exit
  <2> QED  BY <1>1, <1>13, <2>1, BaseMain, ShutdownRest
<1> QED
  BY <1>3, <1>4, <1>5, <1>6, <1>7, <1>8, <1>9, <1>10, <1>11, <1>12, <1>13 DEF Step, Flusher

\* Pointers, goroutines, chunks and samples are in order in every reachable state,
\* whatever the users, the series, the samples and the limits.
THEOREM InductiveHolds == Spec => []Inductive
<1>1. Init => Inductive
  <2> SUFFICES ASSUME Init  PROVE  Inductive
    OBVIOUS
  <2>1. Base
    BY InitBase
  <2>2. Workers /\ Fronts /\ Kept /\ LastFlush
    BY DEF Init, Workers, OneFlushPerUser, OneFlushPerSeries, Fronts, Kept, LastFlush
  <2> QED  BY <2>1, <2>2 DEF Base, Inductive
<1>2. Inductive /\ [Step]_vars => Inductive'
  BY StepInductive, StutterInductive
<1> QED  BY <1>1, <1>2, PTL DEF Spec

\* An acknowledged sample is in memory or in the store through appends, flushes
\* and removals in any order, flushSeries does not panic, and after a last flush
\* without a failure every sample is in the store; unless a goroutine read a loop
\* variable late, or a sample went to a user state that a flush had dropped.
THEOREM NoneLostHolds == Spec => []NoneLost
<1>1. Inductive => NoneLost
  BY DEF Inductive, NoneLost, Kept, LastFlush, Pending, Clean
<1> QED  BY <1>1, InductiveHolds, PTL
=============================================================================
