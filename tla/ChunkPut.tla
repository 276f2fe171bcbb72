------------------------------ MODULE ChunkPut ------------------------------
(***************************************************************************)
(* The write path of the chunk store (chunk/chunk_store.go): concurrent    *)
(* calls of Put share the semaphore putLimiter (chunk/semaphore.go).  Each *)
(* call writes its chunks to S3 and to the chunk cache, one goroutine per  *)
(* chunk, collects their errors, then writes the index rows to DynamoDB,   *)
(* one goroutine per batch, and collects those.                            *)
(*                                                                         *)
(* A goroutine sends its error on an unbuffered channel before it releases *)
(* its permit; the receive loop starts only when every goroutine of the    *)
(* stage has been given a permit and started.                              *)
(***************************************************************************)
EXTENDS Integers, Sequences, FiniteSets

CONSTANTS Puts,         \* concurrent calls of Put
          ChunkCount,   \* len(chunks) of each call
          Rows,         \* index rows of a chunk: buckets times labels
          MaxBatch,     \* dynamoMaxBatchSize
          Permits       \* size of putLimiter

ASSUME PutAssumption ==
  /\ ChunkCount \in [Puts -> Nat]
  /\ Rows \in Nat /\ MaxBatch \in Nat \ {0} /\ Permits \in Nat

VARIABLES stage,        \* the loop each call is in
          spawned,      \* goroutines it has started in this stage
          received,     \* errors it has received in this stage
          lastErr,      \* lastErr # nil
          result,       \* what Put returned
          worker,       \* state of each goroutine
          failed,       \* its error # nil
          permits,      \* permits left in putLimiter
          s3,           \* chunks in S3
          cache,        \* chunks in memcached
          index,        \* rows in DynamoDB
          unprocessed   \* history: rows DynamoDB gave back as UnprocessedItems

vars == <<stage, spawned, received, lastErr, result, worker, failed, permits,
          s3, cache, index, unprocessed>>

Stages == {"putChunks", "updateIndex"}

Chunks(p) == {<<p, c>> : c \in 1 .. ChunkCount[p]}

\* calculateDynamoWrites: rows of a call, chunk after chunk.
RowCount(p) == ChunkCount[p] * Rows
Row(p, r) == <<<<p, ((r - 1) \div Rows) + 1>>, ((r - 1) % Rows) + 1>>
WriteReqs(p) == {Row(p, r) : r \in 1 .. RowCount(p)}

\* Mutant: the last, shorter batch is left out.
MutBatchCount(p) == RowCount(p) \div MaxBatch

\* batchRequests: slices of MaxBatch rows, the last one may be shorter.
BatchCount(p) == (RowCount(p) + MaxBatch - 1) \div MaxBatch
Batch(p, b) ==
  {Row(p, r) : r \in {r \in 1 .. RowCount(p) :
                        (b - 1) * MaxBatch < r /\ r <= b * MaxBatch}}

Size(p, st) == IF st = "putChunks" THEN ChunkCount[p] ELSE BatchCount(p)

\* A goroutine: its call, its stage, its place in the stage.
JobsOf(p, st) == {p} \X {st} \X (1 .. Size(p, st))
Job == UNION {JobsOf(p, "putChunks") \cup JobsOf(p, "updateIndex") : p \in Puts}

Init ==
  /\ stage = [p \in Puts |-> "start"]
  /\ spawned = [p \in Puts |-> 0] /\ received = [p \in Puts |-> 0]
  /\ lastErr = [p \in Puts |-> FALSE] /\ result = [p \in Puts |-> "none"]
  /\ worker = [j \in Job |-> "none"] /\ failed = [j \in Job |-> FALSE]
  /\ permits = Permits
  /\ s3 = {} /\ cache = {} /\ index = {} /\ unprocessed = {}

stores == <<s3, cache, index, unprocessed>>

Enter(p, st) ==
  /\ stage' = [stage EXCEPT ![p] = st]
  /\ spawned' = [spawned EXCEPT ![p] = 0]
  /\ received' = [received EXCEPT ![p] = 0]
  /\ lastErr' = [lastErr EXCEPT ![p] = FALSE]
  /\ UNCHANGED <<result, worker, failed, permits, stores>>

Return(p, value) ==
  /\ stage' = [stage EXCEPT ![p] = "done"]
  /\ result' = [result EXCEPT ![p] = value]
  /\ UNCHANGED <<spawned, received, lastErr, worker, failed, permits, stores>>
-----------------------------------------------------------------------------
\* Put, with a user id in its context or without.
PutBegins(p) == stage[p] = "start" /\ Enter(p, "putChunks")
PutRefused(p) == stage[p] = "start" /\ Return(p, "error")

\* Mutant: the permits are not waited for.
MutAcquire(p) ==
  /\ stage[p] \in Stages /\ spawned[p] < Size(p, stage[p])
  /\ permits' = permits - 1
  /\ spawned' = [spawned EXCEPT ![p] = @ + 1]
  /\ worker' = [worker EXCEPT ![<<p, stage[p], spawned[p] + 1>>] = "request"]
  /\ UNCHANGED <<stage, received, lastErr, result, failed, stores>>

\* Acquire a permit and start the goroutine of the next chunk or batch.
Acquire(p) ==
  /\ stage[p] \in Stages /\ spawned[p] < Size(p, stage[p])
  /\ permits > 0 /\ permits' = permits - 1
  /\ spawned' = [spawned EXCEPT ![p] = @ + 1]
  /\ worker' = [worker EXCEPT ![<<p, stage[p], spawned[p] + 1>>] = "request"]
  /\ UNCHANGED <<stage, received, lastErr, result, failed, stores>>

\* putChunk: the request to S3 succeeds, or fails with or without effect ...
PutObject(j) ==
  /\ worker[j] = "request" /\ j[2] = "putChunks"
  /\ \/ /\ s3' = s3 \cup {<<j[1], j[3]>>}
        /\ worker' = [worker EXCEPT ![j] = "cache"]
        /\ UNCHANGED failed
     \/ /\ s3' \in {s3, s3 \cup {<<j[1], j[3]>>}}
        /\ worker' = [worker EXCEPT ![j] = "send"]
        /\ failed' = [failed EXCEPT ![j] = TRUE]
  /\ UNCHANGED <<stage, spawned, received, lastErr, result, permits, cache, index, unprocessed>>

\* ... and on success the chunk goes to the cache; a failure is only logged.
StoreChunkData(j) ==
  /\ worker[j] = "cache" /\ j[2] = "putChunks"
  /\ cache' \in {cache, cache \cup {<<j[1], j[3]>>}}
  /\ worker' = [worker EXCEPT ![j] = "send"]
  /\ UNCHANGED <<stage, spawned, received, lastErr, result, failed, permits, s3, index,
                 unprocessed>>

\* batchWriteDynamo: the request fails, whatever it has written, or succeeds, and
\* then the answer names the items that were not processed.  It is not looked at.
BatchWrite(j) ==
  /\ worker[j] = "request" /\ j[2] = "updateIndex"
  /\ \E written \in SUBSET Batch(j[1], j[3]), err \in BOOLEAN :
       /\ index' = index \cup written
       /\ unprocessed' = IF err THEN unprocessed
                         ELSE unprocessed \cup (Batch(j[1], j[3]) \ written)
       /\ failed' = [failed EXCEPT ![j] = err]
  /\ worker' = [worker EXCEPT ![j] = "send"]
  /\ UNCHANGED <<stage, spawned, received, lastErr, result, permits, s3, cache>>

\* Mutant: a later nil overwrites an earlier error.
MutReceive(j) ==
  /\ worker[j] = "send" /\ j[2] = stage[j[1]]
  /\ spawned[j[1]] = Size(j[1], j[2])
  /\ received' = [received EXCEPT ![j[1]] = @ + 1]
  /\ lastErr' = [lastErr EXCEPT ![j[1]] = failed[j]]
  /\ worker' = [worker EXCEPT ![j] = "release"]
  /\ UNCHANGED <<stage, spawned, result, failed, permits, stores>>

\* The receive loop of putChunks and updateIndex meets a sending goroutine.
Receive(j) ==
  /\ worker[j] = "send" /\ j[2] = stage[j[1]]
  /\ spawned[j[1]] = Size(j[1], j[2])
  /\ received' = [received EXCEPT ![j[1]] = @ + 1]
  /\ lastErr' = [lastErr EXCEPT ![j[1]] = @ \/ failed[j]]
  /\ worker' = [worker EXCEPT ![j] = "release"]
  /\ UNCHANGED <<stage, spawned, result, failed, permits, stores>>

\* Mutant: the permit is not given back after an error.
MutRelease(j) ==
  /\ worker[j] = "release"
  /\ worker' = [worker EXCEPT ![j] = "done"]
  /\ permits' = IF failed[j] THEN permits ELSE permits + 1
  /\ UNCHANGED <<stage, spawned, received, lastErr, result, failed, stores>>

Release(j) ==
  /\ worker[j] = "release"
  /\ worker' = [worker EXCEPT ![j] = "done"]
  /\ permits' = permits + 1
  /\ UNCHANGED <<stage, spawned, received, lastErr, result, failed, stores>>

Collected(p, st) == stage[p] = st /\ received[p] = Size(p, st)

\* Mutant: after an error, and once its goroutines have ended, putChunks starts
\* over, for ever.
MutPutChunksReturns(p) ==
  /\ Collected(p, "putChunks")
  /\ \A j \in JobsOf(p, "putChunks") : worker[j] = "done"
  /\ Enter(p, IF lastErr[p] THEN "putChunks" ELSE "updateIndex")

\* putChunks returns; updateIndex fails at once if a chunk has no metric name
\* or if it cannot be encoded for its row.
PutChunksReturns(p) ==
  /\ Collected(p, "putChunks")
  /\ \/ ~lastErr[p] /\ Enter(p, "updateIndex")
     \/ Return(p, "error")

UpdateIndexReturns(p) ==
  /\ Collected(p, "updateIndex")
  /\ Return(p, IF lastErr[p] THEN "error" ELSE "nil")

PutStep(p) == \/ PutBegins(p) \/ PutRefused(p) \/ Acquire(p)
              \/ PutChunksReturns(p) \/ UpdateIndexReturns(p)
JobStep(j) == \/ PutObject(j) \/ StoreChunkData(j) \/ BatchWrite(j)
              \/ Receive(j) \/ Release(j)

\* Every call has returned, and its goroutines are gone.
Finished == /\ \A p \in Puts : stage[p] = "done"
            /\ \A j \in Job : worker[j] \in {"none", "done"}
            /\ UNCHANGED vars

Next == (\E p \in Puts : PutStep(p)) \/ (\E j \in Job : JobStep(j)) \/ Finished

Spec == Init /\ [][Next]_vars

\* Requests come back, and the scheduler runs every goroutine that can run.
FairSpec == /\ Spec
            /\ \A p \in Puts : WF_vars(PutStep(p))
            /\ \A j \in Job : WF_vars(JobStep(j))
-----------------------------------------------------------------------------
TypeOK ==
  /\ stage \in [Puts -> Stages \cup {"start", "done"}]
  /\ spawned \in [Puts -> Nat] /\ received \in [Puts -> Nat]
  /\ lastErr \in [Puts -> BOOLEAN]
  /\ result \in [Puts -> {"none", "nil", "error"}]
  /\ worker \in [Job -> {"none", "request", "cache", "send", "release", "done"}]
  /\ failed \in [Job -> BOOLEAN]
  /\ permits \in Nat
  /\ s3 \subseteq UNION {Chunks(p) : p \in Puts}
  /\ cache \subseteq UNION {Chunks(p) : p \in Puts}
  /\ index \subseteq UNION {WriteReqs(p) : p \in Puts}
  /\ unprocessed \subseteq UNION {WriteReqs(p) : p \in Puts}

\* No row of the index leads to a chunk that is not in S3, at any moment of
\* any interleaving and whatever requests fail: readers (and a restart after
\* a crash) never find a dangling row.
IndexedChunksStored == \A row \in index : row[1] \in s3

\* When Put returns nil, every chunk is in S3, and every row in the index but those
\* that DynamoDB gave back unprocessed in an answer without an error.  These
\* batchWriteDynamo drops, and Put returns nil all the same; no failed request, order
\* of answers or shape of the batches makes it return nil for anything else.
NilMeansDurable ==
  \A p \in Puts : result[p] = "nil" =>
    Chunks(p) \subseteq s3 /\ WriteReqs(p) \subseteq index \cup unprocessed

\* "Semaphore allows users to control the level of concurrency of the Put
\* function": no more goroutines than permits are between Acquire and Release,
\* over all calls, and no permit is lost.
Holding == {j \in Job : worker[j] \in {"request", "cache", "send", "release"}}
PermitsBalance == permits + Cardinality(Holding) = Permits

\* Every call of Put returns.
PutReturns == \A p \in Puts : stage[p] = "putChunks" ~> stage[p] = "done"

\* What makes the above inductive: the count of received errors is the number
\* of goroutines heard of, nothing runs ahead of its stage, a goroutine that
\* reports no error has written what it could, and a call without lastErr has heard of none.
Answered(p, st) ==
  {n \in 1 .. Size(p, st) : worker[<<p, st, n>>] \in {"release", "done"}}

Written(j) == IF j[2] = "putChunks" THEN <<j[1], j[3]>> \in s3
                                    ELSE Batch(j[1], j[3]) \subseteq index \cup unprocessed

Counted == \A p \in Puts : \A st \in Stages :
             stage[p] = st => received[p] = Cardinality(Answered(p, st))
InStage == \A j \in Job : worker[j] # "none" =>
             /\ stage[j[1]] # "start"
             /\ j[2] = stage[j[1]] => j[3] <= spawned[j[1]]
             /\ j[2] = "updateIndex" => /\ stage[j[1]] # "putChunks"
                                        /\ Chunks(j[1]) \subseteq s3
Reported == \A j \in Job :
  /\ worker[j] = "cache" => j[2] = "putChunks" /\ Written(j)
  /\ worker[j] \in {"send", "release", "done"} => failed[j] \/ Written(j)
Heard == \A p \in Puts : \A st \in Stages : stage[p] = st /\ ~lastErr[p] =>
           \A n \in Answered(p, st) : ~failed[<<p, st, n>>]
Stored == \A p \in Puts : stage[p] = "updateIndex" => Chunks(p) \subseteq s3
Inductive == /\ Counted /\ InStage /\ Reported /\ Heard /\ Stored /\ NilMeansDurable
             /\ IndexedChunksStored
=============================================================================
