----------------------------- MODULE ConsulRing -----------------------------
(***************************************************************************)
(* Ingester registration (ring/ingester_lifecycle.go) over the optimistic  *)
(* CAS loop of the Consul client (ring/consul_client.go).                  *)
(*                                                                         *)
(* Each ingester process runs pickTokens, then heartbeats until Unregister *)
(* closes quit, then unregister; each of the three is one call of CAS,     *)
(* which makes up to Retries attempts of a Get and a conditional Put.      *)
(* Either request may fail, a Put may be applied and its answer lost, the  *)
(* process may crash at any point and start again under the same id, and   *)
(* Consul may come back empty.                                             *)
(***************************************************************************)
EXTENDS RingDesc

CONSTANTS Retries,      \* attempts of one CAS call (10 in the code)
          MaxStarts,    \* bound: processes started under one id
          MaxTicks,     \* bound: heartbeats of one id
          MaxRestarts   \* bound: times Consul comes back empty

ASSUME BoundsAssumption == /\ Retries \in Nat \ {0}
                           /\ MaxStarts \in Nat
                           /\ MaxTicks \in Nat
                           /\ MaxRestarts \in Nat

VARIABLES ring,         \* value under consulKey, newDesc while there is none
          modIndex,     \* its ModifyIndex, 0 while there is none
          raft,         \* Consul's log index
          pc,           \* where each process is
          op,           \* the callback of its current CAS call
          tries,        \* i of the CAS loop
          index,        \* index of the CAS loop
          found,        \* kvp # nil at the last Get
          snap,         \* the decoded value of the last Get
          mine,         \* tokens, once pickTokens has returned them
          quit,         \* quit is closed
          starts,       \* processes started so far
          ticks,        \* heartbeats so far
          restarts,     \* times Consul came back empty
          dirty,        \* history: the id may have left entries in the ring
                        \* that no later unregister of it will remove
          lostLeave     \* history: an unregister was applied, unanswered

consul  == <<ring, modIndex, raft, restarts>>
casVars == <<pc, op, tries, index, found, snap>>
vars == <<ring, modIndex, raft, pc, op, tries, index, found, snap, mine, quit,
          starts, ticks, restarts, dirty, lostLeave>>

Calls == {"pickTokens", "heartbeat", "unregister"}
Running(i) == pc[i] \in {"get", "put", "wait"}
InCall(i, call) == pc[i] \in {"get", "put"} /\ op[i] = call

\* pickTokens has returned and unregister has not been called / returned.
Member(i) == pc[i] = "wait" \/ InCall(i, "heartbeat")
Registered(i) == Member(i) \/ InCall(i, "unregister")

Init ==
  /\ ring = newDesc /\ modIndex = 0 /\ raft = 0 /\ restarts = 0
  /\ pc    = [i \in Ingesters |-> "down"]
  /\ op    = [i \in Ingesters |-> "pickTokens"]
  /\ tries = [i \in Ingesters |-> 0]
  /\ index = [i \in Ingesters |-> 0]
  /\ found = [i \in Ingesters |-> FALSE]
  /\ snap  = [i \in Ingesters |-> newDesc]
  /\ mine  = [i \in Ingesters |-> NoTokens]
  /\ quit  = [i \in Ingesters |-> FALSE]
  /\ starts = [i \in Ingesters |-> 0]
  /\ ticks = [i \in Ingesters |-> 0]
  /\ dirty = [i \in Ingesters |-> FALSE]
  /\ lostLeave = FALSE
-----------------------------------------------------------------------------
\* Control of the CAS loop.  Its locals are reset when they go out of scope.

Goto(i, label, call, n, idx) ==
  /\ pc' = [pc EXCEPT ![i] = label]
  /\ op' = [op EXCEPT ![i] = call]
  /\ tries' = [tries EXCEPT ![i] = n]
  /\ index' = [index EXCEPT ![i] = idx]
  /\ found' = [found EXCEPT ![i] = FALSE]
  /\ snap' = [snap EXCEPT ![i] = newDesc]

Call(i, call) == Goto(i, "get", call, 0, 0)

Return(i, label) == Goto(i, label, "pickTokens", 0, 0)

\* CAS returned nil to the current call.
Succeed(i) ==
  Return(i, IF op[i] = "unregister" THEN "exited" ELSE "wait")

\* CAS returned an error: heartbeat logs it, the others log.Fatalf.
Fail(i) == Return(i, IF op[i] = "heartbeat" THEN "wait" ELSE "down")

\* Mutants: one attempt too many; the attempts are not counted.
MutContinueOver(i) ==
  IF tries[i] < Retries THEN Goto(i, "get", op[i], tries[i] + 1, index[i])
                        ELSE Fail(i)
MutContinueForever(i) == Goto(i, "get", op[i], tries[i], index[i])

\* The next attempt of the loop, or its end; index survives from one attempt
\* to the next.
Continue(i) ==
  IF tries[i] + 1 < Retries THEN Goto(i, "get", op[i], tries[i] + 1, index[i])
                            ELSE Fail(i)

\* log.Fatalf in unregister leaves the registration in the ring.
FatalLeaves(i) ==
  dirty' = [dirty EXCEPT ![i] =
              @ \/ (op[i] = "unregister" /\ tries[i] + 1 >= Retries)]
-----------------------------------------------------------------------------
\* RegisterIngester: a new process, with a goroutine in pickTokens.
RegisterIngester(i) ==
  /\ pc[i] \in {"down", "exited"} /\ starts[i] < MaxStarts
  /\ starts' = [starts EXCEPT ![i] = @ + 1]
  /\ quit' = [quit EXCEPT ![i] = FALSE]
  /\ Call(i, "pickTokens")
  /\ UNCHANGED <<consul, mine, ticks, dirty, lostLeave>>

\* Unregister closes quit, at any point of the registration loop.
Unregister(i) ==
  /\ Running(i) /\ ~quit[i]
  /\ quit' = [quit EXCEPT ![i] = TRUE]
  /\ UNCHANGED <<consul, casVars, mine, starts, ticks, dirty, lostLeave>>

\* The select of heartbeat: the ticker fires ...
Tick(i) ==
  /\ pc[i] = "wait" /\ ticks[i] < MaxTicks
  /\ ticks' = [ticks EXCEPT ![i] = @ + 1]
  /\ Call(i, "heartbeat")
  /\ UNCHANGED <<consul, mine, quit, starts, dirty, lostLeave>>

\* ... or quit is closed, and the deferred unregister runs.
Quit(i) ==
  /\ pc[i] = "wait" /\ quit[i]
  /\ Call(i, "unregister")
  /\ UNCHANGED <<consul, mine, quit, starts, ticks, dirty, lostLeave>>

\* The Get of one attempt.
CASGet(i) ==
  /\ pc[i] = "get"
  /\ pc' = [pc EXCEPT ![i] = "put"]
  /\ found' = [found EXCEPT ![i] = modIndex # 0]
  /\ snap' = [snap EXCEPT ![i] = ring]
  /\ index' = [index EXCEPT ![i] = IF modIndex # 0 THEN modIndex ELSE @]
  /\ UNCHANGED <<consul, op, tries, mine, quit, starts, ticks, dirty, lostLeave>>

CASGetError(i) ==
  /\ pc[i] = "get"
  /\ Continue(i)
  /\ FatalLeaves(i)
  /\ UNCHANGED <<consul, mine, quit, starts, ticks, lostLeave>>
-----------------------------------------------------------------------------
\* The callbacks, on the value that was read, with the tokens the process
\* knows afterwards.  unregister refuses a missing ring (see EmptyRing).
pickTokens(i) ==
  UNION {addIngester(snap[i], i, b) \X {b} :
           b \in generateTokens(NumTokens, takenTokens(snap[i]))}

heartbeat(i) ==
  (IF i \in snap[i].ingesters THEN {snap[i]}
                              ELSE addIngester(snap[i], i, mine[i]))
    \X {mine[i]}

RefusesRing(i) == op[i] = "unregister" /\ ~found[i]

\* The callback comes back with a value to put: generateTokens would draw for
\* ever from a ring in which every token is taken.
HasValue(i) ==
  /\ pc[i] = "put" /\ ~RefusesRing(i)
  /\ op[i] = "pickTokens" => takenTokens(snap[i]) # Token

unregister(i) == {<<removeIngester(snap[i], i, mine[i]), mine[i]>>}

Outcomes(i) ==
  CASE op[i] = "pickTokens" -> pickTokens(i)
    [] op[i] = "heartbeat"  -> heartbeat(i)
    [] op[i] = "unregister" -> unregister(i)

\* Mutant: a plain Put, which does not compare the index.
MutCheckAndSet(i, value) ==
  /\ ring' = value
  /\ raft' = raft + 1
  /\ modIndex' = raft + 1
  /\ UNCHANGED restarts

\* Consul's check-and-set: index 0 asks that the key does not exist.
CheckAndSet(i, value) ==
  /\ index[i] = modIndex
  /\ ring' = value
  /\ raft' = raft + 1
  /\ modIndex' = raft + 1
  /\ UNCHANGED restarts

CASPut(i) ==
  /\ HasValue(i)
  /\ \E out \in Outcomes(i) :
       /\ CheckAndSet(i, out[1])
       /\ mine' = [mine EXCEPT ![i] = out[2]]
  /\ Succeed(i)
  /\ UNCHANGED <<quit, starts, ticks, dirty, lostLeave>>

\* The Put is applied, but the client gets an error.
CASPutLost(i) ==
  /\ HasValue(i)
  /\ \E out \in Outcomes(i) : CheckAndSet(i, out[1])
  /\ Continue(i)
  /\ dirty' = [dirty EXCEPT ![i] =
                 \/ @
                 \/ op[i] = "pickTokens"
                 \/ op[i] = "unregister" /\ tries[i] + 1 >= Retries]
  /\ lostLeave' = (lostLeave \/ op[i] = "unregister")
  /\ UNCHANGED <<mine, quit, starts, ticks>>

\* The key has changed since the Get: ok is false.
CASPutRejected(i) ==
  /\ HasValue(i) /\ index[i] # modIndex
  /\ Continue(i)
  /\ FatalLeaves(i)
  /\ UNCHANGED <<consul, mine, quit, starts, ticks, lostLeave>>

\* The Put fails before Consul applies it.
CASPutError(i) ==
  /\ HasValue(i)
  /\ Continue(i)
  /\ FatalLeaves(i)
  /\ UNCHANGED <<consul, mine, quit, starts, ticks, lostLeave>>

\* unregister finds no ring: its callback fails without a retry.
EmptyRing(i) ==
  /\ pc[i] = "put" /\ RefusesRing(i)
  /\ Fail(i)
  /\ dirty' = [dirty EXCEPT ![i] = TRUE]
  /\ UNCHANGED <<consul, mine, quit, starts, ticks, lostLeave>>
-----------------------------------------------------------------------------
\* The process of an ingester dies without unregistering.
Crash(i) ==
  /\ Running(i)
  /\ Return(i, "down")
  /\ dirty' = [dirty EXCEPT ![i] = @ \/ Registered(i)]
  /\ UNCHANGED <<consul, mine, quit, starts, ticks, lostLeave>>

\* Consul loses its data; its index may start again from an earlier one.
ConsulRestart ==
  /\ restarts < MaxRestarts
  /\ ring' = newDesc /\ modIndex' = 0
  /\ raft' \in 0 .. raft
  /\ restarts' = restarts + 1
  /\ UNCHANGED <<casVars, mine, quit, starts, ticks, dirty, lostLeave>>

Step(i) == \/ Quit(i)
           \/ CASGet(i) \/ CASGetError(i)
           \/ CASPut(i) \/ CASPutLost(i)
           \/ CASPutRejected(i) \/ CASPutError(i) \/ EmptyRing(i)

Next == \/ \E i \in Ingesters : \/ RegisterIngester(i) \/ Unregister(i)
                                \/ Tick(i) \/ Step(i) \/ Crash(i)
        \/ ConsulRestart

Spec == Init /\ [][Next]_vars

\* The goroutine of a process keeps running, and requests come back.
FairSpec == Spec /\ \A i \in Ingesters : WF_vars(Step(i))
-----------------------------------------------------------------------------
TypeOK ==
  /\ ring \in Desc /\ modIndex \in Nat /\ raft \in Nat /\ restarts \in Nat
  /\ pc \in [Ingesters -> {"down", "get", "put", "wait", "exited"}]
  /\ op \in [Ingesters -> Calls]
  /\ tries \in [Ingesters -> 0 .. Retries - 1]
  /\ index \in [Ingesters -> Nat]
  /\ found \in [Ingesters -> BOOLEAN]
  /\ snap \in [Ingesters -> Desc]
  /\ mine \in [Ingesters -> TokenBag]
  /\ quit \in [Ingesters -> BOOLEAN]
  /\ starts \in [Ingesters -> Nat]
  /\ ticks \in [Ingesters -> Nat]
  /\ dirty \in [Ingesters -> BOOLEAN]
  /\ lostLeave \in BOOLEAN

Absent(i) == i \notin ring.ingesters /\ \A t \in Token : ~Owns(ring, i, t)

\* No two ingesters ever hold the same token, however their pickTokens,
\* retries, crashes and restarts interleave: generateTokens checks against
\* the very value that its CAS replaces.  (While Consul keeps its data.)
TokensExclusive ==
  restarts = 0 =>
    \A t \in Token : \A i, j \in Ingesters :
      Owns(ring, i, t) /\ Owns(ring, j, t) => i = j

\* Between pickTokens and unregister, an ingester is in the ring with every
\* one of its tokens: no other ingester's unregister, which removes tokens
\* by value, and no stale write takes them away.  (Unless the answer to an
\* unregister was lost: it is then repeated, and removes the tokens once more,
\* whoever has drawn them in the meantime.)
MembersKeepTokens ==
  restarts = 0 /\ ~lostLeave =>
    \A i \in Ingesters : Member(i) =>
      /\ i \in ring.ingesters
      /\ \A t \in Token : mine[i][t] > 0 => Owns(ring, i, t)

\* Unless an ingester dies while registered or loses the answer to its
\* registration, each of its tokens leads to an ingester in the ring (so
\* Ring.Get does not return an empty IngesterDesc) ...
OrphansOnlyFromFaults ==
  restarts = 0 =>
    \A i \in Ingesters : ~dirty[i] =>
      \A t \in Token : Owns(ring, i, t) => i \in ring.ingesters

\* ... and once its unregister has returned nothing of it is left.
CleanExit ==
  restarts = 0 =>
    \A i \in Ingesters : pc[i] = "exited" /\ ~dirty[i] => Absent(i)

\* The facts that every step preserves, from which the four above follow.  An
\* index that still matches was read with the value that is still there ...
SnapshotsCurrent ==
  restarts = 0 =>
    /\ raft = modIndex
    /\ \A i \in Ingesters :
         /\ index[i] <= modIndex
         /\ pc[i] = "put" /\ index[i] = modIndex => snap[i] = ring

\* ... every token of a registered ingester has an entry for each time it was
\* drawn ...
Held(i) ==
  /\ i \in ring.ingesters
  /\ \A t \in Token : mine[i][t] > 0 =>
       Owns(ring, i, t) /\ Len(ring.tokens[t]) >= mine[i][t]

\* ... and, without a fault of it, no more than that.
Accounted(i) ==
  /\ ~Registered(i) => Absent(i)
  /\ Registered(i) => \A t \in Token :
       Owns(ring, i, t) => Len(ring.tokens[t]) <= mine[i][t]
  /\ InCall(i, "unregister") => i \in ring.ingesters \/ Absent(i)

TokensAccounted ==
  /\ TokensExclusive
  /\ restarts = 0 => \A i \in Ingesters :
       /\ Member(i) => i \in ring.ingesters
       /\ ~lostLeave /\ Registered(i) => Held(i)
       /\ ~dirty[i] => Accounted(i)

Inductive == SnapshotsCurrent /\ TokensAccounted

\* Every change of the ring is one whole operation on the value before it:
\* "CAS atomically modifies a value in a callback".
Atomic == INSTANCE AtomicRing
CASIsAtomic == Atomic!Spec

\* Unregister does not wait for ever: the registration loop ends.
UnregisterReturns ==
  \A i \in Ingesters : (Running(i) /\ quit[i]) ~> ~Running(i)
=============================================================================
