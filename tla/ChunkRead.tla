----------------------------- MODULE ChunkRead ------------------------------
(***************************************************************************)
(* The read path of the chunk store: AWSStore.Get (chunk/chunk_store.go)   *)
(* looks up each hour of the query and each matcher in the DynamoDB index, *)
(* in goroutines whose answers arrive in any order, intersects and merges  *)
(* them, and fetches the chunks from the cache (chunk/chunk_cache.go) and  *)
(* from S3, while Puts write chunks and rows.                              *)
(*                                                                         *)
(* All chunks here have one user and one metric name: rows of others have  *)
(* another hash key and are never in the answer to a query.  A chunk is    *)
(* its ID, a natural number; its data is identified by the same number.    *)
(***************************************************************************)
EXTENDS ChunkLists, FiniteSets

CONSTANTS Chunks,       \* chunk IDs
          Hours,        \* bigBuckets(From, Through) of each chunk
          Metric,       \* labels of each, without the name: [label -> value]
          From, Through,\* hours of a query
          Queries,      \* matchers of a query but the name's: sequences of
                        \* [name, equal, values]
          Extensions,   \* labels, and values, with a given one as proper prefix
          PageSize,     \* rows in a page of a DynamoDB answer
          Cached,       \* chunkCache # nil
          MaxGets       \* bound on the calls of Get

ASSUME ReadAssumption == Chunks \subseteq Nat /\ PageSize \in Nat \ {0}
                         /\ Cached \in BOOLEAN /\ MaxGets \in Nat

VARIABLES s3, index, cache,     \* stores; cache[id] is the data under the id
          pc, gets,
          matchers,             \* of the Get under way
          pending,              \* lookups under way: <<hour, matcher>>
          chunkSets, hourErr,   \* answers so far, of each hour
          waiting,              \* hours whose answer has not been merged
          chunks, lastErr,      \* of lookupChunks
          result, failed,       \* of Get: [id, data] in order
          due                   \* history: chunks indexed when Get began

stores == <<s3, index, cache>>
lookup == <<matchers, pending, chunkSets, hourErr, waiting, chunks, lastErr>>
vars == <<stores, pc, gets, lookup, result, failed, due>>

None == 0
bigBuckets == From .. Through

\* calculateDynamoWrites: a row per hour and label.
RowsOf(c) == {<<hour, label, Metric[c][label], c>> :
                hour \in Hours[c], label \in DOMAIN Metric[c]}

\* Lookups of an hour: one per matcher, or one by name (0).
Lookups(query) == IF query = <<>> THEN {0} ELSE DOMAIN query

Init ==
  /\ s3 = {} /\ index = {} /\ cache = [c \in Chunks |-> None]
  /\ pc = "idle" /\ gets = 0 /\ matchers = <<>>
  /\ pending = {} /\ waiting = {} /\ chunks = <<>> /\ lastErr = FALSE
  /\ chunkSets = [hour \in bigBuckets |-> <<>>]
  /\ hourErr = [hour \in bigBuckets |-> FALSE]
  /\ result = <<>> /\ failed = FALSE /\ due = {}
-----------------------------------------------------------------------------
\* Put elsewhere (module ChunkPut): the chunk, in S3 and perhaps in the cache,
\* then its rows in any order.
PutChunk(c) ==
  /\ c \notin s3 /\ s3' = s3 \cup {c}
  /\ \/ UNCHANGED cache
     \/ Cached /\ cache' = [cache EXCEPT ![c] = c]
  /\ UNCHANGED <<index, pc, gets, lookup, result, failed, due>>
PutRow(c) ==
  /\ c \in s3
  /\ \E row \in RowsOf(c) \ index : index' = index \cup {row}
  /\ UNCHANGED <<s3, cache, pc, gets, lookup, result, failed, due>>

\* memcached forgets.
Evict(c) ==
  /\ cache[c] # None /\ cache' = [cache EXCEPT ![c] = None]
  /\ UNCHANGED <<s3, index, pc, gets, lookup, result, failed, due>>
-----------------------------------------------------------------------------
\* LabelMatcher.Match: a matcher comes with the values it accepts.
Match(m, v) == v \in m.values

\* What a query asks for.  The index has a row for each label but the name, so that
\* a series with no other label, or without the label of a matcher, is not found.
Wanted(c, query) ==
  /\ DOMAIN Metric[c] # {}
  /\ Hours[c] \cap bigBuckets # {}
  /\ \A k \in DOMAIN query :
       query[k].name \in DOMAIN Metric[c] /\ Match(query[k], Metric[c][query[k].name])

Return(value, err) ==
  /\ pc' = "returned" /\ result' = value /\ failed' = err

\* Get: lookupChunks starts a goroutine per hour and matcher.
GetBegin(query) ==
  /\ pc \in {"idle", "returned"} /\ gets < MaxGets /\ gets' = gets + 1
  /\ pc' = "lookup"
  /\ matchers' = query
  /\ pending' = bigBuckets \X Lookups(query) /\ waiting' = bigBuckets
  /\ chunkSets' = [hour \in bigBuckets |-> <<>>]
  /\ hourErr' = [hour \in bigBuckets |-> FALSE]
  /\ chunks' = <<>> /\ lastErr' = FALSE
  /\ due' = {c \in Chunks : Wanted(c, query) /\ RowsOf(c) \subseteq index}
  /\ UNCHANGED <<stores, result, failed>>

\* A context without user id, or no matcher (of equality) for the name.
GetRefused ==
  /\ pc \in {"idle", "returned"} /\ gets < MaxGets /\ gets' = gets + 1
  /\ Return(<<>>, TRUE) /\ due' = {}
  /\ UNCHANGED <<stores, lookup>>

\* DynamoDB (external): the rows between rangeMinValue and rangeMaxValue, which
\* are those whose value, or label, has the one asked for as a prefix.  The queries
\* do not set ConsistentRead: a row is in index once every replica has it, which may
\* be after the answer to its BatchWriteItem.
InRange(hour, k) ==
  {row \in index : row[1] = hour /\
     IF k = 0 THEN TRUE
     ELSE IF matchers[k].equal
          THEN /\ row[2] = matchers[k].name
               /\ \E v \in matchers[k].values : row[3] \in {v} \cup Extensions[v]
     ELSE row[2] \in {matchers[k].name} \cup Extensions[matchers[k].name]}

RowOrder(r, s) == \/ r[2] < s[2]
                  \/ r[2] = s[2] /\ r[3] < s[3]
                  \/ r[2] = s[2] /\ r[3] = s[3] /\ r[4] < s[4]

\* QueryPages: the callback asks for another page only after an error of
\* processResponse, which the rows that Put writes do not cause: they all decode.
FirstPage(rows) ==
  LET all == SetToSortSeq(rows, RowOrder)
  IN  SubSeq(all, 1, IF Len(all) < PageSize THEN Len(all) ELSE PageSize)

\* Mutant: the label of a row is not looked at.
MutProcessResponse(page, k) ==
  LET kept == SelectSeq(page, LAMBDA row : k = 0 \/ row[3] \in matchers[k].values)
  IN  SortSeq([n \in DOMAIN kept |-> kept[n][4]], <)

\* processResponse drops the rows of other labels and values; sort by ID.
processResponse(page, k) ==
  LET kept == SelectSeq(page, LAMBDA row :
                k = 0 \/ (row[2] = matchers[k].name /\ Match(matchers[k], row[3])))
  IN  SortSeq([n \in DOMAIN kept |-> kept[n][4]], <)

lookupChunksFor(hour, k) ==
  LET found == processResponse(FirstPage(InRange(hour, k)), k)
  IN  IF k = 0 THEN unique(found) ELSE found

\* A lookup answers, with chunks or an error.
LookupAnswers(hour, k) ==
  /\ <<hour, k>> \in pending /\ pending' = pending \ {<<hour, k>>}
  /\ \/ /\ chunkSets' = [chunkSets EXCEPT ![hour] = Append(@, lookupChunksFor(hour, k))]
        /\ UNCHANGED hourErr
     \/ /\ hourErr' = [hourErr EXCEPT ![hour] = TRUE]
        /\ UNCHANGED chunkSets
  /\ UNCHANGED <<stores, pc, gets, matchers, waiting, chunks, lastErr, result, failed, due>>

\* lookupChunks receives an hour whose lookups have all answered.
HourAnswers(hour) ==
  /\ pc = "lookup" /\ hour \in waiting /\ ~\E k \in Lookups(matchers) : <<hour, k>> \in pending
  /\ waiting' = waiting \ {hour}
  /\ IF hourErr[hour]
       THEN lastErr' = TRUE /\ UNCHANGED chunks
       ELSE chunks' = merge(chunks, nWayIntersect(chunkSets[hour])) /\ UNCHANGED lastErr
  /\ UNCHANGED <<stores, pc, gets, matchers, pending, chunkSets, hourErr, result, failed, due>>

LookupDone ==
  /\ pc = "lookup" /\ waiting = {}
  /\ IF lastErr THEN Return(<<>>, TRUE)
                ELSE pc' = "fetch" /\ UNCHANGED <<result, failed>>
  /\ UNCHANGED <<stores, gets, lookup, due>>

\* Cache.StoreChunks: the goroutine of the n-th chunk is given the address of
\* the loop's variable, and reads ID and data while the loop moves on.
StoreChunks(ids) ==
  \E id, data \in [DOMAIN ids -> DOMAIN ids], stored \in SUBSET DOMAIN ids :
    /\ \A n \in DOMAIN ids : n <= id[n] /\ n <= data[n]
    /\ cache' \in [Chunks -> Chunks \cup {None}]
    /\ \A c \in Chunks :
         LET by == {n \in stored : ids[id[n]] = c}
         IN  IF by = {} THEN cache'[c] = cache[c]
                        ELSE \E n \in by : cache'[c] = ids[data[n]]

\* The chunks of the cache and of S3, sorted by ID.
Assemble(fromCache, fromS3) ==
  SortSeq(fromCache \o fromS3, LAMBDA x, y : x.id < y.id)

\* Cache.FetchChunkData: what memcached has, and the rest; all is missing when
\* it does not answer.
FetchChunkData(ids, answers) ==
  LET hit(c) == answers /\ cache[c] # None
      found == SelectSeq(ids, hit)
  IN  [found   |-> [n \in DOMAIN found |-> [id |-> found[n], data |-> cache[found[n]]]],
       missing |-> SelectSeq(ids, LAMBDA c : ~hit(c))]

\* fetchChunkData: the answers of S3, in the order of their arrival.
fetchChunkData(ids) ==
  {[n \in DOMAIN order |-> [id |-> order[n], data |-> order[n]]] :
     order \in SetToSeqs(ToSet(ids))}

\* The rest of Get: the cache answers or fails, S3 has every missing chunk or
\* fails, and what came from S3 goes to the cache.
Fetch ==
  /\ pc = "fetch"
  /\ \E answers \in IF Cached THEN BOOLEAN ELSE {FALSE} :
       LET fromCache == FetchChunkData(chunks, answers)
       IN  \/ /\ ToSet(fromCache.missing) \subseteq s3
              /\ \E fromS3 \in fetchChunkData(fromCache.missing) :
                   /\ Return(Assemble(fromCache.found, fromS3), FALSE)
                   /\ IF Cached THEN StoreChunks([n \in DOMAIN fromS3 |-> fromS3[n].id])
                                ELSE UNCHANGED cache
           \/ fromCache.missing # <<>> /\ Return(<<>>, TRUE) /\ UNCHANGED cache
  /\ UNCHANGED <<s3, index, gets, lookup, due>>

Next ==
  \/ \E c \in Chunks : PutChunk(c) \/ PutRow(c) \/ Evict(c)
  \/ (\E query \in Queries : GetBegin(query)) \/ GetRefused
  \/ \E hour \in bigBuckets : \/ \E k \in Lookups(matchers) : LookupAnswers(hour, k)
                              \/ HourAnswers(hour)
  \/ LookupDone \/ Fetch

Spec == Init /\ [][Next]_vars
-----------------------------------------------------------------------------
Returned == {result[n].id : n \in DOMAIN result}

\* A Get that succeeds returns every chunk that was in the index when it
\* began, has a label but the name, lies in one of its hours and satisfies
\* all its matchers: in whatever order the lookups answer, the intersections
\* and merges lose none.
GetComplete == pc = "returned" /\ ~failed => due \subseteq Returned

\* It returns no chunk that does not, and none twice, in order of ID, even
\* when rows are written between its lookups.
GetSound ==
  pc = "returned" =>
    /\ \A c \in Returned : Wanted(c, matchers) /\ c \in s3
    /\ \A m, n \in DOMAIN result : m < n => result[m].id < result[n].id

\* Every chunk comes with its own data: "StoreChunks serializes and stores
\* multiple chunks in the chunk cache".
OwnData == \A n \in DOMAIN result : result[n].data = result[n].id
=============================================================================
