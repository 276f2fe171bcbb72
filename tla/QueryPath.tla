------------------------------ MODULE QueryPath -----------------------------
(* A query from the HTTP API to its answer: the handlers of api.go, the       *)
(* MergeQuerier of querier.go over the Distributor and the ChunkQuerier, the  *)
(* iterators of iterator.go and the evaluation of the PromQL engine, while    *)
(* the ingester appends, flushes and shuts down (Ingester).                   *)
(*                                                                            *)
(* A request selects the series of its user, by name and by another label.    *)
(* All timestamps lie in one bucket of the index, so that Store.Get returns   *)
(* every chunk of the series.                                                 *)
EXTENDS Ingester, SequencesExt

CONSTANTS StalenessDelta,  \* promql.StalenessDelta
          MaxPoints,       \* the 11000 of queryRange
          minimumTick,     \* units of a time.Duration in one of a model.Time
          maxConcurrentPuts, \* permits that the calls of Put share (Permits of ChunkPut)
          MaxRequests      \* bound on the requests

ASSUME QueryAssumption ==
  /\ {StalenessDelta, MaxPoints, maxConcurrentPuts, MaxRequests} \subseteq Nat
  /\ minimumTick \in Nat \ {0}

VARIABLES q,        \* the request that runs
          requests  \* requests so far

queryVars == <<q, requests>>
allVars == <<vars, queryVars>>

\* The matchers of the selector, one for the name and one for another label: a name
\* in front of the braces comes last, one within them stays in its place.
Selector(r) == IF r.braced THEN <<"name", "label">> ELSE <<"label", "name">>

\* Mutant: the chunk store is asked first.
MutQueriers == <<"chunks", "distributor">>

\* The queriers setupQuerier gives to MergeQuerier.
Queriers == <<"distributor", "chunks">>

NoSeries == [fp \in Series |-> <<>>]
Idle == [pc |-> "idle"]

QInit == Init /\ q = Idle /\ requests = 0
-----------------------------------------------------------------------------
(* api.go *)

\* Division of Go, towards zero.
Quotient(a, b) == LET abs(n) == IF n < 0 THEN -n ELSE n
                      d == abs(a) \div abs(b)
                  IN  IF (a < 0) # (b < 0) THEN -d ELSE d

\* Mutant: the range is not in the unit of the step.
MutAdmit(r) ==
  IF ~r.hasUser \/ ~r.parses THEN "bad_data"
  ELSE IF r.kind = "query" THEN "run"
  ELSE IF r.step = 0 THEN "panic"
  ELSE IF Quotient(r.end - r.start, r.step) > MaxPoints THEN "bad_data"
  ELSE "run"

\* What query and queryRange make of a request before they run it; instr has
\* refused a request without a user id.
Admit(r) ==
  IF ~r.hasUser \/ ~r.parses THEN "bad_data"
  ELSE IF r.kind = "query" THEN "run"
  ELSE IF r.step = 0 THEN "panic"
  ELSE IF Quotient((r.end - r.start) * minimumTick, r.step) > MaxPoints THEN "bad_data"
  ELSE "run"

\* The handler parses and checks the request, and runs it or responds.  due is
\* what has been acknowledged by now.
Receive(r) ==
  /\ q = Idle /\ requests < MaxRequests
  /\ requests' = requests + 1
  /\ q' = IF Admit(r) # "run" THEN Idle
          ELSE [pc |-> "next", req |-> r, i |-> 1, matchers |-> Selector(r), state |-> 0,
                fps |-> {}, got |-> NoSeries, due |-> {x \in acked : owner[x[1]] = r.user}]
  /\ UNCHANGED vars

\* The response, of whatever kind, is sent.
Respond == q' = Idle /\ UNCHANGED <<vars, requests>>

From == q.req.start - StalenessDelta
Through == q.req.end

-----------------------------------------------------------------------------
(* Distributor.Query and Ingester.Query *)

AtQuerier(name) == q.pc = "next" /\ q.i <= Len(Queriers) /\ Queriers[q.i] = name
HasName == \E i \in DOMAIN q.matchers : q.matchers[i] = "name"

\* The ring sends the query to this ingester; or to another one, which has none of
\* its samples, when this one has left, as soon as the reader of the ring knows, or
\* when one that joined has taken over the series, and hides what is not flushed.
AskRing ==
  /\ AtQuerier("distributor") /\ HasName
  /\ \/ q' = [q EXCEPT !.pc = "ingester"]
     \/ ~InRing /\ q' = [q EXCEPT !.i = @ + 1]
     \/ InRing /\ q' = [q EXCEPT !.i = @ + 1, !.due = {x \in @ : InStore(x[1], x[2])}]
  /\ UNCHANGED <<vars, requests>>

\* Ingester.Query finds the series of the user.
Lookup ==
  /\ q.pc = "ingester" /\ Alive
  /\ QueryState(q.req.user)
  /\ LET st == StateFor(q.req.user)
         fps == IF userState[q.req.user] = 0 THEN {}
                ELSE {fp \in Series : states[st][fp] # 0}
     IN  q' = [q EXCEPT !.pc = "read", !.state = st, !.fps = fps]
  /\ UNCHANGED requests

\* sort.Search: bisection for the first of 0 .. n-1 where P holds.
Search(n, P) ==
  LET search[i \in 0 .. n, j \in 0 .. n] ==
        LET h == (i + j) \div 2
        IN  IF i >= j THEN i ELSE IF P[h] THEN search[i, h] ELSE search[h + 1, j]
  IN  search[0, n]

Ascending(times) == SetToSortSeq(times, <)
firstTime(chunk) == CHOOSE t \in chunk : \A x \in chunk : t <= x
lastTime(chunk) == CHOOSE t \in chunk : \A x \in chunk : x <= t

samplesForRange(cs, from, through) ==
  LET n == Len(cs)
      fromIdx == Search(n, [i \in 0 .. n - 1 |-> firstTime(cs[i + 1]) > from])
      throughIdx == Search(n, [i \in 0 .. n - 1 |-> firstTime(cs[i + 1]) > through])
      first == IF fromIdx > 0 THEN fromIdx - 1 ELSE fromIdx
      last == IF throughIdx = n THEN throughIdx - 1 ELSE throughIdx
      values(i) == Ascending({t \in cs[i + 1] : from <= t /\ t <= through})
  IN  IF fromIdx = n /\ lastTime(cs[n]) < from THEN <<>>
      ELSE FlattenSeq([k \in 1 .. last - first + 1 |-> values(first + k - 1)])

\* Ingester.Query reads the series one after the other, under its lock.
ReadSeries(fp) ==
  /\ q.pc = "read" /\ fp \in q.fps /\ Alive
  /\ LET o == states[q.state][fp]
     IN  q' = [q EXCEPT !.fps = @ \ {fp}, !.got[fp] =
                 IF o = 0 THEN @
                 ELSE @ \o samplesForRange(objects[o].chunks, From, Through)]
  /\ UNCHANGED <<vars, requests>>

IngesterAnswers ==
  /\ q.pc = "read" /\ q.fps = {} /\ Alive
  /\ q' = [q EXCEPT !.pc = "next", !.i = @ + 1]
  /\ UNCHANGED <<vars, requests>>

\* A querier returns an error: no name among the matchers, a failure of the ring,
\* of a request or of the store, an ingester that is gone.
QuerierFails ==
  /\ q.pc \in {"ingester", "read"} \/ (q.pc = "next" /\ q.i <= Len(Queriers))
  /\ Respond
-----------------------------------------------------------------------------
(* ChunkQuerier.Query *)

\* extractMetricName copies the matchers after the name over it, in place.
extractMetricName(ms) ==
  LET i == CHOOSE i \in DOMAIN ms : ms[i] = "name"
  IN  [k \in DOMAIN ms |-> IF k >= i /\ k < Len(ms) THEN ms[k + 1] ELSE ms[k]]

\* Store.Get, and the samples of its chunks, whether or not they are in the range.
QueryChunks ==
  /\ AtQuerier("chunks") /\ HasName
  /\ LET chunks(fp) == {x[2] : x \in {y \in store : y[1] = fp}}
         decoded(fp) == FlattenSeq(SetToSeq({Ascending(c) : c \in chunks(fp)}))
     IN  q' = [q EXCEPT !.i = @ + 1, !.matchers = extractMetricName(@),
                 !.got = [fp \in Series |->
                   IF owner[fp] = q.req.user THEN @[fp] \o decoded(fp) ELSE @[fp]]]
  /\ UNCHANGED <<vars, requests>>
-----------------------------------------------------------------------------
(* MergeQuerier.QueryRange sorts what the queriers returned; the engine evaluates *)
(* the selector over it.  A value is the timestamp of its sample.                 *)

merged(fp) == SortSeq(q.got[fp], <)

ValueAtOrBeforeTime(vs, ts) ==
  LET n == Len(vs)
      i == Search(n, [k \in 0 .. n - 1 |-> vs[k + 1] > ts])
  IN  IF i = 0 THEN Earliest ELSE vs[i]

\* Mutant: the end of the interval is taken to be exclusive.
MutRangeValues(vs, oldest, newest) ==
  LET n == Len(vs)
      start == Search(n, [i \in 0 .. n - 1 |-> vs[i + 1] >= oldest])
      end == Search(n, [i \in 0 .. n - 1 |-> vs[i + 1] >= newest])
  IN  IF start = n THEN <<>> ELSE SubSeq(vs, start + 1, end)

RangeValues(vs, oldest, newest) ==
  LET n == Len(vs)
      start == Search(n, [i \in 0 .. n - 1 |-> vs[i + 1] >= oldest])
      end == Search(n, [i \in 0 .. n - 1 |-> vs[i + 1] > newest])
  IN  IF start = n THEN <<>> ELSE SubSeq(vs, start + 1, end)

vectorSelector(vs, ts) ==
  LET v == ValueAtOrBeforeTime(vs, ts)
  IN  IF v < ts - StalenessDelta THEN <<>> ELSE <<[ts |-> ts, value |-> v]>>

\* Time.Add keeps whole ticks of a duration.
increment(r) == Quotient(r.step, minimumTick)

\* execEvalStmt: a point for the instant, or for each step of the range.
evaluate(vs, r) ==
  LET from[ts \in r.start .. r.end + increment(r)] ==
        IF ts > r.end THEN <<>> ELSE vectorSelector(vs, ts) \o from[ts + increment(r)]
  IN  IF r.kind = "query" THEN vectorSelector(vs, r.start)
      ELSE IF r.start > r.end THEN <<>> ELSE from[r.start]

\* A range with a step below a tick, or below zero, is never at its end.
Endless(r) == r.kind = "query_range" /\ r.start <= r.end /\ increment(r) <= 0

\* The queriers have answered; the evaluation succeeds, or, of a range, times out,
\* or panics when it makes room for a negative number of points.
Evaluating == q.pc = "next" /\ q.i > Len(Queriers)
Evaluate == Evaluating /\ Respond

QueryStep ==
  \/ AskRing \/ Lookup \/ IngesterAnswers \/ QueryChunks \/ QuerierFails \/ Evaluate
  \/ \E fp \in Series : ReadSeries(fp)

QNext == \/ Step /\ UNCHANGED queryVars
         \/ \E r \in load.requests : Receive(r)
         \/ QueryStep

QSpec == QInit /\ [][QNext]_allVars

\* A call of Put acquires a permit for each of its chunks before it receives the
\* first answer, and so holds all but one of them while it waits for the last.  Calls
\* that come to hold every permit in this way wait for each other for ever (ChunkPut,
\* run chunk_put_deadlock).  updateIndex needs no more than putChunks: with the one
\* label and the one bucket of this module a chunk has one row.
PutsStarve ==
  MapThenSumSet(LAMBDA f : Len(f.chunks) - 1, {f \in flushing : f.pc = "put"})
    >= maxConcurrentPuts

\* A step of the flush that is bound to come: any but the return of a Put that starves.
FlushGoesOn == Flusher /\ ~(PutsStarve /\ \E f \in flushing : PutChunks(f))

\* What runs is not stopped: goroutines and handlers go on, requests to the stores and
\* to Consul come back, and select does not ignore quit for ever.
QFairSpec ==
  /\ QSpec
  /\ WF_allVars(Alive /\ FlushGoesOn /\ UNCHANGED queryVars)
  /\ WF_allVars(Alive /\ (\E a \in appending : AppendAdd(a)) /\ UNCHANGED queryVars)
  /\ WF_allVars(Alive /\ (StopLocked \/ StopDone \/ Unregister \/ Exit) /\ UNCHANGED queryVars)
-----------------------------------------------------------------------------
\* The request is going to be answered with these points.
Succeeding == Evaluating /\ ~Endless(q.req)
points(fp) == evaluate(merged(fp), q.req)

\* The times a request asks for.
Instants(r) == IF r.kind = "query" THEN {r.start}
               ELSE {ts \in r.start .. r.end : (ts - r.start) % increment(r) = 0}

\* The answer has, for every series and every instant asked for, one point at most,
\* with a sample that was appended; and none of the samples that were acknowledged
\* when the request came in is newer than it.  This holds while chunks move from
\* memory to the store between the queries for the two, and while the ingester
\* stops, leaves the ring and exits; faults are those of NoneLost, and a ring that
\* moves the series hides what has not been flushed.
AnswerFresh ==
  Succeeding /\ faults = {} =>
    \A fp \in Series, ts \in Instants(q.req) :
      LET due == {x[2] : x \in {y \in q.due : y[1] = fp /\ ts - StalenessDelta <= y[2] /\ y[2] <= ts}}
          got == SelectSeq(points(fp), LAMBDA p : p.ts = ts)
      IN  /\ Len(got) <= 1
          /\ due # {} => got # <<>>
          /\ got # <<>> => /\ <<fp, got[1].value>> \in acked
                           /\ owner[fp] = q.req.user
                           /\ ts - StalenessDelta <= got[1].value /\ got[1].value <= ts
                           /\ \A t \in due : t <= got[1].value

\* queryRange refuses what is "exceeded maximum resolution of 11,000 points per
\* timeseries", but lets more pass: the quotient is that of the steps between the
\* points, one less than the points, and the engine steps by the whole ticks of the
\* step only.  What its check does bound, whatever start and end are: an answer has
\* MaxPoints + 1 points of a series at most when the step is of whole ticks, and
\* twice as many otherwise.
PointsBounded ==
  Succeeding =>
    \A fp \in Series :
      Len(points(fp)) <= IF q.req.step % minimumTick = 0 THEN MaxPoints + 1
                                                         ELSE 2 * (MaxPoints + 1)

\* Over samples that are in memory and in the store, and so come twice, RangeValues
\* returns those of the interval: bisection finds both ends among equal timestamps.
RangeExact ==
  Succeeding =>
    \A fp \in Series : \A oldest, newest \in From .. Through + 1 :
      oldest <= newest =>
        RangeValues(merged(fp), oldest, newest) =
          SelectSeq(merged(fp), LAMBDA t : oldest <= t /\ t <= newest)

\* Every Querier is handed the matchers of the selector, although the chunk store
\* overwrites the array that they share.
MatchersIntact == q.pc = "next" /\ q.i <= Len(Queriers) => q.matchers = Selector(q.req)

\* After SIGTERM the process exits: Stop gets its lock, the last flush ends, nothing
\* waits for ever.  The one exception are calls of Put that starve each other, with
\* which neither the flush nor the process ends.
ShutdownEnds == main = "locking" ~> (~Alive \/ []PutsStarve)
=============================================================================
