------------------------------ MODULE Ingester ------------------------------
(* The in-memory store of an ingester: appends, the flush loop and Stop       *)
(* (vendored frankenstein.go), with the order in which main shuts it down.    *)
(*                                                                            *)
(* User states and series are Go objects that goroutines hold pointers to     *)
(* while the maps change, so both are numbered as they are made and 0 is nil. *)
(* A sample is its timestamp, a chunk the set of its samples.  The inverted   *)
(* index of a state changes together with its map, and is not kept apart.     *)
EXTENDS Integers, Sequences, FiniteSets

CONSTANTS Users, Series,
          Loads,         \* what clients send: see load
          ChunkLen,      \* samples that fit into a chunk
          MaxStates,     \* bound on the user states ever made
          MaxAppending,  \* bound on the appends in progress
          MaxFlushes,    \* bound on the periodic flushes
          maxConcurrentFlushSeries

ASSUME IngesterAssumption ==
  /\ \A l \in Loads : /\ l.owner \in [Series -> Users]
                      /\ l.samples \subseteq Series \X Nat /\ l.readers \subseteq Users
  /\ ChunkLen \in Nat \ {0}
  /\ {MaxStates, MaxAppending, MaxFlushes} \subseteq Nat
  /\ maxConcurrentFlushSeries \in Nat \ {0}

VARIABLES load,         \* the user of each series, the samples sent, the users that read
          userState,    \* i.userState
          states,       \* user states made: fpToSeries of each
          objects,      \* series made
          appending,    \* appends past getStateFor, holding stopLock
          loop,         \* where the flush loop is
          todo,         \* users flushAllUsers has still to start a goroutine for
          flushUsers,   \* goroutines in flushUser
          flushing,     \* goroutines in flushSeries
          flushes,      \* periodic flushes so far
          store,        \* chunks Put has stored, as <<series, chunk>>
          main,         \* where main is
          acked,        \* samples appended without an error, as <<series, time>>
          faults        \* what happened that may lose samples

dataVars  == <<userState, states, objects, store>>
flushVars == <<loop, todo, flushUsers, flushing, flushes>>
vars == <<load, dataVars, appending, flushVars, main, acked, faults>>

\* model.Earliest, before every timestamp.
Earliest == -1000
owner == load.owner

NewSeries == [chunks |-> <<>>, closed |-> FALSE, lastTime |-> Earliest]

ChunkSet(cs) == {cs[i] : i \in DOMAIN cs}

\* Stop has closed quit.
Stopping == main \in {"stopping", "leaving", "left"}
Alive == main \notin {"exited", "crashed"}

\* Mutant: Unregister is deferred after Stop, and so runs before it.
MutInRing == main \in {"serving", "crashed"}

\* main defers Unregister before Stop, so that Stop runs first.
InRing == main \in {"serving", "locking", "stopping", "leaving", "crashed"}

Init ==
  /\ load \in Loads
  /\ userState = [u \in Users |-> 0]
  /\ states = <<>> /\ objects = <<>> /\ store = {}
  /\ appending = {} /\ acked = {} /\ faults = {}
  /\ loop = "select" /\ todo = {} /\ flushUsers = {} /\ flushing = {} /\ flushes = 0
  /\ main = "serving"
-----------------------------------------------------------------------------
(* Appends and queries find or make the state of their user. *)

\* The state getStateFor returns.
StateFor(u) == IF userState[u] # 0 THEN userState[u] ELSE Len(states) + 1

getStateFor(u) ==
  \/ userState[u] # 0 /\ UNCHANGED <<userState, states>>
  \/ /\ userState[u] = 0 /\ Len(states) < MaxStates
     /\ states' = Append(states, [fp \in Series |-> 0])
     /\ userState' = [userState EXCEPT ![u] = Len(states) + 1]

\* Query and LabelValuesForLabelName, too, make the state of a user without one.
\* What they read is in QueryPath.
QueryState(u) ==
  /\ getStateFor(u)
  /\ UNCHANGED <<load, objects, store, appending, flushVars, main, acked, faults>>

\* append up to getStateFor; Stop waits for the lock that it holds from here on,
\* and appends that come after Stop wait, and are refused.
AppendBegin(fp, t) ==
  /\ main = "serving"
  /\ Cardinality(appending) < MaxAppending
  /\ getStateFor(owner[fp])
  /\ appending' = appending \cup {[state |-> StateFor(owner[fp]), fp |-> fp, time |-> t]}
  /\ UNCHANGED <<load, objects, store, flushVars, main, acked, faults>>

\* memorySeries.add: a closed or a full head chunk is followed by a new one.
add(o, t) ==
  LET n == Len(o.chunks)
  IN  [chunks |-> IF n = 0 \/ o.closed \/ Cardinality(o.chunks[n]) >= ChunkLen
                  THEN Append(o.chunks, {t}) ELSE [o.chunks EXCEPT ![n] = @ \cup {t}],
       closed |-> FALSE, lastTime |-> t]

\* append from getOrCreateSeries on.  A sample that is not newer than the last
\* one changes nothing: an error, or nil for the same sample again.  For a newer one
\* add does not fail: its errors are of a sample older than its chunk, or of a chunk
\* that is not well formed.
AppendAdd(a) ==
  LET o == states[a.state][a.fp]
      orphan == IF userState[owner[a.fp]] = a.state THEN {} ELSE {"orphan"}
  IN  /\ a \in appending
      /\ appending' = appending \ {a}
      /\ \/ /\ o = 0
            /\ objects' = Append(objects, add(NewSeries, a.time))
            /\ states' = [states EXCEPT ![a.state][a.fp] = Len(objects) + 1]
            /\ acked' = acked \cup {<<a.fp, a.time>>}
            /\ faults' = faults \cup orphan
         \/ /\ o # 0 /\ a.time > objects[o].lastTime
            /\ objects' = [objects EXCEPT ![o] = add(@, a.time)]
            /\ acked' = acked \cup {<<a.fp, a.time>>}
            /\ faults' = faults \cup orphan
            /\ UNCHANGED states
         \/ /\ o # 0 /\ a.time <= objects[o].lastTime
            /\ UNCHANGED <<objects, states, acked, faults>>
      /\ UNCHANGED <<load, userState, store, flushVars, main>>
-----------------------------------------------------------------------------
(* The flush loop.  The goroutines of both levels read the variable of the    *)
(* loop that started them, which may have moved on to any later value.        *)

\* flushAllUsers reads the users there are.
FlushAllUsers(kind) ==
  /\ loop = "select" /\ loop' = kind
  /\ todo' = {u \in Users : userState[u] # 0}
  /\ UNCHANGED <<load, dataVars, appending, flushUsers, flushing, main, acked, faults>>

Tick == /\ flushes < MaxFlushes /\ flushes' = flushes + 1
        /\ FlushAllUsers("flush")

\* quit is closed: loop returns, and its deferred function flushes everything.
Quit == /\ Stopping /\ UNCHANGED flushes
        /\ FlushAllUsers("last")

immediate == loop = "last"

capture(own, read) == IF own = read THEN {} ELSE {"capture"}

\* An iteration of flushAllUsers for the user own; its goroutine reads id.
SpawnUser(own, id) ==
  /\ {own, id} \subseteq todo
  /\ todo' = todo \ {own}
  /\ flushUsers' = flushUsers \cup {[own |-> own, id |-> id, state |-> 0, pairs |-> {}]}
  /\ faults' = faults \cup capture(own, id)
  /\ UNCHANGED <<load, dataVars, appending, loop, flushing, flushes, main, acked>>

\* flushUser looks up the state, and iterates over the series it has.
UserBegin(g) ==
  LET st == userState[g.id]
      pairs == {<<fp, states[st][fp]>> : fp \in {f \in Series : states[st][f] # 0}}
  IN  /\ g \in flushUsers /\ g.state = 0
      /\ flushUsers' = (flushUsers \ {g}) \cup
           (IF st = 0 THEN {} ELSE {[own |-> g.own, id |-> g.id, state |-> st, pairs |-> pairs]})
      /\ UNCHANGED <<load, dataVars, appending, loop, todo, flushing, flushes, main, acked, faults>>

\* An iteration of flushAllSeries for the pair own; its goroutine reads pair.
SpawnSeries(g, own, pair) ==
  /\ g \in flushUsers /\ {own, pair} \subseteq g.pairs
  /\ Cardinality(flushing) < maxConcurrentFlushSeries
  /\ flushUsers' = (flushUsers \ {g}) \cup {[g EXCEPT !.pairs = @ \ {own}]}
  /\ flushing' = flushing \cup
       {[by |-> g.own, own |-> own[1], state |-> g.state, fp |-> pair[1],
         object |-> pair[2], chunks |-> <<>>, pc |-> "decide"]}
  /\ faults' = faults \cup capture(own, pair)
  /\ UNCHANGED <<load, dataVars, appending, loop, todo, flushes, main, acked>>

Replace(f, new) == flushing' = (flushing \ {f}) \cup new

\* flushSeries decides what to flush; old is whether the series is over MaxChunkAge.
Decide(f, old) ==
  LET o == objects[f.object]
      closed == o.closed \/ immediate \/ old
      n == IF closed THEN Len(o.chunks) ELSE Len(o.chunks) - 1
  IN  /\ f \in flushing /\ f.pc = "decide" /\ o.chunks # <<>>
      /\ objects' = [objects EXCEPT ![f.object].closed = closed]
      /\ Replace(f, IF n = 0 THEN {}
                    ELSE {[by |-> f.by, own |-> f.own, state |-> f.state, fp |-> f.fp,
                           object |-> f.object, chunks |-> SubSeq(o.chunks, 1, n), pc |-> "put"]})
      /\ UNCHANGED <<load, userState, states, store, appending, loop, todo,
                     flushUsers, flushes, main, acked, faults>>

\* flushChunks without the lock; a Put that fails may have stored some chunks.
PutChunks(f) ==
  LET sent == {<<f.fp, c>> : c \in ChunkSet(f.chunks)}
  IN  /\ f \in flushing /\ f.pc = "put"
      /\ \/ /\ store' = store \cup sent
            /\ Replace(f, {[f EXCEPT !.pc = "remove"]})
            /\ UNCHANGED faults
         \/ /\ \E some \in SUBSET sent : store' = store \cup some
            /\ Replace(f, {})
            /\ faults' = faults \cup (IF immediate THEN {"put"} ELSE {})
      /\ UNCHANGED <<load, userState, states, objects, appending, loop, todo,
                     flushUsers, flushes, main, acked>>

\* Mutant: all chunks are removed, those that came during the Put included.
MutRemoveChunks(f) ==
  /\ f \in flushing /\ f.pc = "remove"
  /\ objects' = [objects EXCEPT ![f.object].chunks = <<>>]
  /\ states' = [states EXCEPT ![f.state][f.fp] = 0]
  /\ Replace(f, {})
  /\ UNCHANGED <<load, userState, store, appending, loop, todo, flushUsers,
                 flushes, main, acked, faults>>

\* flushSeries removes as many chunks as it flushed, less one, from whatever the
\* series has by now.
RemoveChunks(f) ==
  LET n == Len(f.chunks)
      cs == objects[f.object].chunks
      left == SubSeq(cs, n, Len(cs))
  IN  /\ f \in flushing /\ f.pc = "remove" /\ n - 1 <= Len(cs)
      /\ objects' = [objects EXCEPT ![f.object].chunks = left]
      /\ states' = IF left = <<>> THEN [states EXCEPT ![f.state][f.fp] = 0] ELSE states
      /\ Replace(f, {})
      /\ UNCHANGED <<load, userState, store, appending, loop, todo,
                     flushUsers, flushes, main, acked, faults>>

\* The panics of flushSeries: a series without chunks has no head to close, and
\* no chunks to slice.  The panic of a goroutine ends the process.
Panic(f) ==
  LET cs == objects[f.object].chunks
  IN  /\ f \in flushing
      /\ \/ f.pc = "decide" /\ cs = <<>>
         \/ f.pc = "remove" /\ Len(f.chunks) - 1 > Len(cs)
      /\ main' = "crashed"
      /\ UNCHANGED <<load, dataVars, appending, flushVars, acked, faults>>

\* flushUser has waited for its series, and drops a state without any.
UserEnd(g) ==
  /\ g \in flushUsers /\ g.state # 0 /\ g.pairs = {}
  /\ \A f \in flushing : f.by # g.own
  /\ flushUsers' = flushUsers \ {g}
  /\ userState' = IF \A fp \in Series : states[g.state][fp] = 0
                  THEN [userState EXCEPT ![g.id] = 0] ELSE userState
  /\ UNCHANGED <<load, states, objects, store, appending, loop, todo, flushing,
                 flushes, main, acked, faults>>

\* Mutant: done is not closed.
MutFlushEnd ==
  /\ loop \in {"flush", "last"} /\ todo = {} /\ flushUsers = {}
  /\ loop' = "select"
  /\ UNCHANGED <<load, dataVars, appending, todo, flushUsers, flushing, flushes,
                 main, acked, faults>>

\* flushAllUsers has waited for its users; after the last flush done is closed.
FlushEnd ==
  /\ loop \in {"flush", "last"} /\ todo = {} /\ flushUsers = {}
  /\ loop' = IF immediate THEN "done" ELSE "select"
  /\ UNCHANGED <<load, dataVars, appending, todo, flushUsers, flushing, flushes,
                 main, acked, faults>>
-----------------------------------------------------------------------------
(* Shutdown: SIGTERM, then the deferred Stop, then the deferred Unregister. *)

MainStep(from, to) ==
  /\ main = from /\ main' = to
  /\ UNCHANGED <<load, dataVars, appending, flushVars, acked, faults>>

Term       == MainStep("serving", "locking")
StopLocked == appending = {} /\ MainStep("locking", "stopping")
StopDone   == loop = "done" /\ MainStep("stopping", "leaving")
Unregister == MainStep("leaving", "left")
Exit       == MainStep("left", "exited")

Flusher ==
  \/ \E g \in flushUsers : UserBegin(g) \/ UserEnd(g)
  \/ \E own, id \in todo : SpawnUser(own, id)
  \/ \E g \in flushUsers : \E own, pair \in g.pairs : SpawnSeries(g, own, pair)
  \/ \E f \in flushing : PutChunks(f) \/ RemoveChunks(f) \/ Panic(f) \/ \E old \in BOOLEAN : Decide(f, old)
  \/ Quit \/ FlushEnd

Step ==
  /\ Alive
  /\ \/ \E x \in load.samples : AppendBegin(x[1], x[2])
     \/ \E a \in appending : AppendAdd(a)
     \/ \E u \in load.readers : QueryState(u)
     \/ Tick \/ Flusher
     \/ Term \/ StopLocked \/ StopDone \/ Unregister \/ Exit

Spec == Init /\ [][Step]_vars
-----------------------------------------------------------------------------
TypeOK ==
  /\ load \in Loads
  /\ userState \in [Users -> Nat]
  /\ states \in Seq([Series -> Nat])
  /\ objects \in Seq([chunks : Seq(SUBSET Nat), closed : BOOLEAN, lastTime : Int])
  /\ appending \subseteq [state : Nat, fp : Series, time : Nat]
  /\ loop \in {"select", "flush", "last", "done"}
  /\ todo \subseteq Users
  /\ flushUsers \subseteq [own : Users, id : Users, state : Nat, pairs : SUBSET (Series \X Nat)]
  /\ flushing \subseteq [by : Users, own : Series, state : Nat, fp : Series, object : Nat,
                         chunks : Seq(SUBSET Nat), pc : {"decide", "put", "remove"}]
  /\ flushes \in Nat
  /\ store \subseteq Series \X SUBSET Nat
  /\ main \in {"serving", "locking", "stopping", "leaving", "left", "exited", "crashed"}
  /\ acked \subseteq Series \X Nat
  /\ faults \subseteq {"capture", "orphan", "put"}

InMemory(fp, t) ==
  LET st == userState[owner[fp]]
  IN  /\ st # 0 /\ states[st][fp] # 0
      /\ \E c \in ChunkSet(objects[states[st][fp]].chunks) : t \in c

InStore(fp, t) == \E x \in store : x[1] = fp /\ t \in x[2]

\* Unless a goroutine read a loop variable late, or a sample went to a user state
\* that a flush had dropped, an acknowledged sample is where a query finds it, in
\* memory or in the store, through appends, flushes and removals at any time; and
\* once Stop has returned it is in the store, if the last flush had no failure.
NoneLost ==
  faults \cap {"capture", "orphan"} = {} =>
    /\ main # "crashed"
    /\ \A x \in acked : InMemory(x[1], x[2]) \/ InStore(x[1], x[2])
    /\ loop = "done" /\ "put" \notin faults => \A x \in acked : InStore(x[1], x[2])

\* "Ingester exited gracefully": when the last flush is over and no Put failed,
\* every acknowledged sample is in the store.
GracefulExit ==
  loop = "done" /\ "put" \notin faults => \A x \in acked : InStore(x[1], x[2])
-----------------------------------------------------------------------------
(* Why NoneLost holds *)

Clean == faults \cap {"capture", "orphan"} = {}

\* Pointers lead to objects: no two users share a state, no two entries a series,
\* and the series of a user are in the state of that user.
UserStates ==
  /\ \A u \in Users : userState[u] <= Len(states)
  /\ \A u, v \in Users : userState[u] # 0 /\ userState[u] = userState[v] => u = v

Entries ==
  /\ \A i \in 1 .. Len(states), fp \in Series : states[i][fp] <= Len(objects)
  /\ \A i, j \in 1 .. Len(states), fp, fq \in Series :
       states[i][fp] # 0 /\ states[i][fp] = states[j][fq] => i = j /\ fp = fq

OwnSeries ==
  \A u \in Users, fp \in Series :
    userState[u] # 0 /\ states[userState[u]][fp] # 0 => owner[fp] = u

AppendStates ==
  \A a \in appending :
    /\ a.state # 0 /\ a.state <= Len(states)
    /\ \A u \in Users : userState[u] = a.state => owner[a.fp] = u

WorkerPointers ==
  /\ \A g \in flushUsers :
       /\ g.state <= Len(states) /\ (g.state = 0 => g.pairs = {})
       /\ \A p \in g.pairs : p[2] # 0 /\ p[2] <= Len(objects)
  /\ \A f \in flushing : /\ f.state # 0 /\ f.state <= Len(states)
                         /\ f.object # 0 /\ f.object <= Len(objects)
                         /\ f.pc # "decide" => f.chunks # <<>>

Pointers == UserStates /\ Entries /\ OwnSeries /\ AppendStates /\ WorkerPointers

\* A user is flushed by one goroutine at a time, and so is a series.
OneFlushPerUser ==
  /\ \A g \in flushUsers :
       /\ g.id = g.own /\ g.own \notin todo
       /\ g.state # 0 => userState[g.id] = g.state
       /\ \A p \in g.pairs : p[2] = states[g.state][p[1]]
  /\ \A g, h \in flushUsers : g.own = h.own => g = h

OneFlushPerSeries ==
  /\ \A f \in flushing :
       /\ f.object = states[f.state][f.fp]
       /\ \E g \in flushUsers : /\ g.own = f.by /\ g.state = f.state
                                /\ \A p \in g.pairs : p[1] # f.fp
  /\ \A f, h \in flushing : f.object = h.object => f = h

Workers == Clean => OneFlushPerUser /\ OneFlushPerSeries

\* What a goroutine flushes is still at the front of its series, without the head
\* that is open; what it is going to remove is in the store.
InFront(f) ==
  LET o == objects[f.object]
  IN  /\ Len(f.chunks) <= Len(o.chunks)
      /\ \A k \in 1 .. Len(f.chunks) : f.chunks[k] = o.chunks[k]
      /\ Len(f.chunks) = Len(o.chunks) => o.closed

Stored(f) == \A k \in 1 .. Len(f.chunks) : <<f.fp, f.chunks[k]>> \in store

Fronts ==
  Clean => /\ \A i \in 1 .. Len(objects) : objects[i].chunks # <<>>
           /\ \A f \in flushing : f.pc # "decide" => InFront(f)
           /\ \A f \in flushing : f.pc = "remove" => Stored(f)

Kept == Clean => /\ main # "crashed"
                 /\ \A x \in acked : InMemory(x[1], x[2]) \/ InStore(x[1], x[2])

\* The last flush has still to store the series fp.
Pending(fp) ==
  \/ owner[fp] \in todo
  \/ \E g \in flushUsers :
       /\ g.own = owner[fp]
       /\ \/ g.state = 0
          \/ \E p \in g.pairs : p[1] = fp
          \/ \E f \in flushing : f.by = g.own /\ f.fp = fp /\ f.pc # "remove"

LastFlush ==
  /\ main \notin {"serving", "locking", "crashed"} => appending = {}
  /\ loop \in {"last", "done"} => main \notin {"serving", "locking"}
  /\ loop \in {"select", "done"} => todo = {} /\ flushUsers = {}
  /\ Clean /\ loop = "last" =>
       \A f \in flushing : f.pc # "decide" => Len(f.chunks) = Len(objects[f.object].chunks)
  /\ Clean /\ loop \in {"last", "done"} /\ "put" \notin faults =>
       \A x \in acked : InStore(x[1], x[2]) \/ Pending(x[1])

\* The inductive invariant.
Inductive == TypeOK /\ Pointers /\ Workers /\ Fronts /\ Kept /\ LastFlush
=============================================================================
