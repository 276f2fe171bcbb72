# A verification project for Frankenstein

TLA+ models of Frankenstein, the multitenant Prometheus service in this
repository, with the TLC runs that check them on small instances and TLAPS
proofs of the main safety properties for every instance. `PROJECT.json` lists
components, runs, findings, hazards, theorems, and the source lines behind each
definition.

## The system

Retrieval agents push samples to a **distributor**, which hashes user and metric
name to a token and looks up the **ring** for the ingester responsible. The ring
is one value in Consul. **Ingesters** put themselves there with an optimistic
compare-and-set loop, and distributors watch it. Ingesters keep recent samples
in memory and write full chunks to the **chunk store**: data in S3, an index in
DynamoDB, a memcached **cache** beside S3. The **query API** hands a PromQL
expression to the engine, whose queriers ask the ingester (through the
distributor) and the chunk store, and merge the answers.

| Part | Source | Modules |
| --- | --- | --- |
| ring descriptor | `ring/model.go` | `RingDesc`, `RingList` |
| registration, Consul CAS | `ring/ingester_lifecycle.go`, `ring/consul_client.go` | `ConsulRing`, abstractly `AtomicRing` |
| ring reader, watch | `ring/ring.go`, `ring/consul_client.go` | `RingWatch`, `RingList` |
| distributor, client, handlers | `distributor.go`, `ingester_client.go`, `server.go` | `Distributor` |
| chunk store, writes | `chunk/chunk_store.go`, `chunk/semaphore.go` | `ChunkPut` |
| chunk store, reads; cache | `chunk/chunk_store.go`, `chunk/chunk_cache.go` | `ChunkRead`, `ChunkLists` |
| ingester, shutdown | vendored `storage/local/frankenstein.go`, `cmd/frankenstein/main.go` | `Ingester` |
| query API, queriers, iterator | `api/api.go`, `querier.go`, `iterator.go` | `QueryPath`, which extends `Ingester` |
| memcache client, web UI, user id, tools, table creation | | see "Not modelled" |

Modules `MC...` give instances for TLC; modules `...Proofs` hold the theorems.
Operators named `Mut...` are deliberate mistakes that stand next to the
definition they distort. No specification uses them; putting one in place of its
neighbour makes TLC report a violation, which shows that the property can fail.

## The modules

**RingDesc** is the descriptor and its operations. The code keeps a slice of
(token, ingester) sorted by token with an unstable sort; the module keeps, for
each token, the sequence of its owners, which determines the slice. Adding an
ingester may leave equal tokens in any order, and removing one takes away the
first entry with each given token, whoever owns it, as the code does.

**RingList** is the slice itself: the walk of `removeIngester`, the sort of
`addIngester`, the bisection of `search`, and the ownership gauges of `Collect`
in wrapping arithmetic. It is checked to implement the operations of `RingDesc`
through `AtomicRing`.

**ConsulRing** has a process per ingester: `pickTokens`, then heartbeats, then
`unregister`, each one CAS call of up to `Retries` attempts of a Get and a
conditional Put. Any request may fail; a Put may be applied and its answer lost;
a process may die anywhere and start again under its id; Consul may come back
empty with an earlier index. A value that does not decode has the effect of a
failed Get. Two history variables record the faults on which the properties
depend: `dirty` (the id died while registered, or lost the answer to a
registration) and `lostLeave` (the answer to an unregister was lost).
**AtomicRing** is what it promises: the ring changes by whole operations on its
current value.

**RingWatch** is `WatchKey` under `Ring.loop`, with the values of the key as
version numbers: long polls that answer with or without news, errors with
backoff, values that do not decode, and `Stop`.

**ChunkPut** is `Put`: for each call, the stage `putChunks` and then the stage
`updateIndex`. A stage acquires a permit and starts a goroutine for each chunk
or batch; only then does it receive their errors. Between the stages the call
may fail on a chunk without a metric name. A goroutine sends its error on
an unbuffered channel and releases its permit afterwards. All chunks have the
same number of index rows (`Rows`). DynamoDB may take some rows of a batch and
give back the others without an error; the history variable `unprocessed` records
these.

**ChunkRead** is `Get`: one lookup per hour and matcher, answering in any order,
intersected per hour and merged over hours, then the cache and S3, while Puts
add chunks and rows. The range of a DynamoDB query is modelled with what it
includes beyond the matcher: labels, or values, that have the one asked for as a
prefix. The lookups are eventually consistent reads (no
`ConsistentRead`): a row counts as indexed once every replica has it, so that
`GetComplete` says nothing of the moments before. The rows of `Put` all decode,
hence the one case in which another page is asked for, and an error then
overwritten, does not occur. `StoreChunks` gives its goroutines the address of the
loop variable; ID and data that each reads are those of its own chunk or of any later one.
**ChunkLists** has the list algorithms as recursive operators.

**Distributor** has `Append`s that route sample by sample in a ring
that may change in between, then send to each ingester from a goroutine of its
own; a `Query`; a label value request; and the client pool with its
double-checked lock. A request may fail before or after its effect. A token
without an ingester leads to the empty host, to which every request fails.

**Ingester** is the in-memory store: `append`, the flush loop with a goroutine
for each user and, below it, for each series, and `Stop`, in the order in which
`main` shuts down (Stop, then Unregister, then exit). User states and series are
objects to which goroutines hold pointers while the maps change, so they are
numbered, and 0 is nil. A goroutine of the flush reads the variable of the loop
that started it, which may have moved on. `flushSeries` decides under the lock,
puts without it, and then removes by count from what the series has by then; it
may panic, which ends the process. A Put may fail after storing some chunks. The
history variable `faults` records what may lose samples: a loop variable read
late (`capture`), a sample added to a user state that a flush had dropped
(`orphan`), a Put that failed in the last flush (`put`).

**QueryPath** is a request while all that goes on: the checks and the limit of
`queryRange`, `MergeQuerier` over the distributor and the chunk store, which
share one array of matchers that `extractMetricName` overwrites, the bisections
of the ingester and of the iterator, the merge, and the steps of the engine. The
name of a selector may stand in front of its braces or within them, which decides
its place among the matchers. The
ring may send the query to an ingester that has none of the samples, which hides
what is not flushed; that the rest is still found is part of `AnswerFresh`.

## The runs

| Run | What it shows | Bounds |
| --- | --- | --- |
| `ring_safety` | tokens stay exclusive, members keep theirs, orphans come only from faults; the inductive invariant; CAS refines `AtomicRing` | 2 ingesters started once, 3 tokens, 2 attempts, 1 heartbeat, no restart of Consul |
| `ring_live` | `Unregister` ends, and a clean exit leaves nothing | 1 ingester started twice, 4 tokens, 2 attempts, 1 heartbeat, 1 restart of Consul |
| `ring_list` | slice algorithms, routing, ownership totals | 2 ingesters, 4 tokens, 4 entries |
| `watch` | a reader moves forward, catches up, stops | 3 writes, 1 restart of Consul |
| `chunk_put` | no dangling row, nil means durable but for unprocessed rows, permits balance, no deadlock, `Put` returns | calls of 2 and 1 chunks, 2 rows each, batches of 3, 2 permits |
| `chunk_get` | `Get` is complete and sound | 2 chunks, 2 hours, 2 labels; by name, 2 or 3 matchers |
| `distributor` | acknowledged samples are held, and read | 2 ingesters, an Append of 2 samples, a query, a label value request, 1 change of the ring |
| `query_path` | no acknowledged sample is lost; a query sees it in memory, in the store or in both; the limit on points; ranges; matchers; shutdown ends unless Puts starve each other; the inductive invariant | 2 users, 2 series, chunks of 1 sample, 1 append at a time, 1 periodic flush and the last one, 2 permits of flushes and 2 of Puts, 1 request, a limit of 2 points |

The bounds are the least at which the case of interest occurs: two writers race
and one is rejected; an attempt is repeated; an id is used again; a batch
spans two chunks and the last one is short; a chunk lies in two hours; two
samples of one Append go to different or to the same ingester; a chunk is added
while an earlier one of its series is put, and three chunks of a series are put
with two permits; a request is answered with more points than the limit. `query_path` runs three loads, one after the other, as they
ask different questions: two series of one user, two users, and a series that is
queried. `ring_live` has a token
for every draw: `generateTokens` does not return when all are taken, which 2^32
tokens rule out in the code. Ingesters are
symmetric where only safety is checked. Deadlock is checked for `ChunkPut`,
whose calls must all end; elsewhere a system may stop once its bounded inputs
are used up, or because every process has exited.

**Fairness.** A goroutine that can run does run (the Go scheduler), and requests
come back, with an answer or an error: weak fairness on the steps of each process
in `ConsulRing`, `ChunkPut`, `Distributor` and `QueryPath`. The clients of
ingesters and of memcached have timeouts; for Consul, S3 and DynamoDB, whose
clients the code gives none, it is an assumption on the network. `QueryPath`
has `Put` as one step, and `ChunkPut` shows that it need not return: a call
acquires all its permits before it receives an answer. So the return of a Put is
fair only while the calls under way can not hold every permit in this way
(`PutsStarve`, at `maxConcurrentPuts`: 100 in the code, as is the number of series
flushed at a time). `ShutdownEnds` then says that after SIGTERM the process exits
or Puts starve each other for ever; without the second case TLC finds it violated.
`QueryPath` also counts on a select that does not choose the ticker over a closed
`quit` for ever. `RingWatch` also needs Consul not to
answer with errors for ever, which is strong fairness of `Get`; only `Converges`
depends on that.

## What the code does otherwise than its comments say

Four runs end in a violation, each of one property that restates a comment, a
message or a test. `PROJECT.json` quotes them.

* `chunk_put_deadlock`: concurrent Puts, or a single one with more chunks than
  permits, wait for ever.
* `chunk_get_pages`: only the first page of a DynamoDB answer is read.
* `chunk_get_owndata`: the cache may store the data of one chunk under the ID of
  another.
* `ingester_exit`: "Ingester exited gracefully" is logged although an
  acknowledged sample was never written: a flush dropped the user's empty state
  while an append held a pointer to it.

The models show more that is worth knowing, without a run of its own.

* The ownership gauge (`Diff` in `RingList`) credits the arc after a token, while
  `Get` serves the arc before it. The gauges add up to 100% (`OwnershipTotals`),
  but do not say how much each ingester serves.
* Items that DynamoDB leaves unprocessed are not sent again, and Put returns nil
  without them. `NilMeansDurable` excepts these rows, and no others.
* A series with no label but its name gets no row in the index: its chunks are
  in S3, and no query finds them (`Wanted` in `ChunkRead` leaves them out).
* A Put that starves keeps the last flush, and with it the process, from ending
  (`ShutdownEnds`).
* `flushSeries` removes one chunk less than it flushed. The last flushed chunk
  stays and is flushed again at the next tick, and a series, or its user, is not
  removed in ordinary operation. That is why samples often are in memory and in
  the store, and come twice in a query (`RangeExact`).
* The limit of `queryRange` lets more points pass than it says (`PointsBounded`):
  one more when the step is of whole milliseconds, and up to twice as many
  otherwise, because the engine drops the fraction (a step of 1.5 ms over 16.5 s is
  let pass, and has 16,501 points). A step of zero panics in the handler, and a step below a
  millisecond passes the limit for a short range and ends only by the timeout of
  the engine.

Three more comments hold only with the conditions that the properties state.
Unregistering leaves the first set of tokens in the ring if the answer to
`pickTokens` was lost (`dirty` in `CleanExit`). An attempt of CAS that finds no
key keeps the index of an earlier one, and a watch index seen before may come
with another value, once Consul has lost its data (`restarts = 0` in
`Inductive` and `SkippedIsSame`).

## The proofs

All theorems hold for every number of ingesters, tokens, retries, calls, chunks,
rows and permits that the named assumptions on the constants allow.

* **Registration** (`ConsulCASProofs`, `ConsulRingProofs`). The four safety
  properties are not inductive. `Inductive` adds that an index which still
  matches was read with the value that is still there (`SnapshotsCurrent`), and
  an account of the entries of every token (`TokensAccounted`): each registered
  ingester has an entry for each of its tokens, and without a fault no more
  entries than it drew. Lemmas of `ConsulCASProofs` say what the operations do to
  the entries of a token. From `SnapshotsCurrent` also follows `CASAtomic`, the
  refinement, for a Consul that keeps its data; the other properties say
  themselves that they hold until a restart.
* **Chunk writes** (`ChunkPutProofs`). `Inductive` says that received errors are
  counted, that nothing runs ahead of its stage, that a goroutine which reports
  no error has written, and that a call without an error has heard of none.
  `BatchesCover` shows that the batches cover the rows. `NilIsDurable` follows
  without an assumption on DynamoDB: a row is in the index, or among those it gave
  back as unprocessed.
* **Watch** (`RingWatchProofs`). `IndexIdentifies` says that an answer is never
  of a value older than the one in use, hence a reader never goes back, whatever
  Consul loses; and that until Consul restarts the index tells values apart,
  hence skipping is safe.

* **The ingester** (`IngesterProofs`, `IngesterFlushProofs`,
  `IngesterLoopProofs`, `IngesterLossProofs`). `NoneLost`, for any number of
  users, series, appends, flushes and permits: without `capture` and `orphan` an acknowledged
  sample is in memory, where a query looks for it, or in the store, and after
  the last flush in the store unless a Put failed. The invariant behind it,
  `Inductive`, has five parts. `Pointers`: no two users share a state and no two
  entries a series, so that an append or a removal touches one series only;
  this holds with faults as well. `Workers`: a user and a series have one flush
  at a time, so that nobody else removes chunks between the Put and the removal.
  `Fronts`: what a goroutine flushes is still in front of its series, which
  only grows at the end, and what it removes is stored; here it matters that a
  flushed head is closed. `Kept`: every acknowledged sample is in one of the two
  places. `LastFlush`: no append is under way once Stop has the lock, and a
  sample that is not in the store yet belongs to a series the last flush has
  still to come to. The first module proves `Pointers` of appends, the loop and
  main, the second of the flush; the others prove the remaining parts, step by
  step.

Left to TLC: all liveness properties (`ShutdownEnds` among them), the recursive
list and slice algorithms (`RingList`, `ChunkLists`, `ChunkRead`), `Distributor`,
and the properties of `QueryPath` that are not those of `Ingester`.

## Abstractions

Host names, heartbeat times, encodings, metrics and logs are left out
throughout. In `Ingester` and `QueryPath`:

* the inverted index of a user changes together with the map of series, and
  fingerprints do not collide;
* a goroutine reads its loop variable, a pair, as a whole: a read torn between
  two iterations is left out;
* the iteration over the series of a user is a snapshot of the map;
* a chunk is identified by its contents, and Put stores the chunks of a call in
  one step for readers (`ChunkPut` and `ChunkRead` have the steps);
* all timestamps lie in one bucket of the index, and a request is a selector by
  name and one more label, so that a chunk has one row;
* `add` does not fail for a sample newer than the last one: its errors are of a
  sample older than its chunk, or of a chunk that is not well formed.

Matcher values are not empty in `ChunkRead` (`next` panics on an empty one).

## Not modelled

* **Memcache client.** It resolves a host name at intervals and gives the
  servers to the memcache library. For the store a failed or stale answer is a
  miss, which `ChunkRead` has. Its `Stop` would wait for ever, but is not called.
* **Tables and AWS configuration.** Requests made once, at start.
* **Consul client.** `Get`, `PutBytes` and `WatchPrefix` are not called by the
  program, and the prefixing client only renames keys.
* **Query API.** Label values, which are the union that `Distributor` has;
  `series`, whose querier is a stub, and `drop_series`, which is refused; parsing and formatting of times, durations and JSON, which are pure
  conversions.
* **User id and main.** A value in a context, whose absence is an error of the
  operations that need it (modelled there); flags and the construction of
  clients.
* **Web UI, build tools** (`runner`, `cover`, `socks`, `wcloud`). Static pages,
  and programs that are not part of the service.
