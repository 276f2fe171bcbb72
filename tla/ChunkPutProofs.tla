--------------------------- MODULE ChunkPutProofs ---------------------------
(***************************************************************************)
(* Proofs about ChunkPut.                                                  *)
(***************************************************************************)
EXTENDS ChunkPut, FiniteSetTheorems, TLAPS

\* The quotient of the slicing in batchRequests is the integer part.
LEMMA Division ==
  ASSUME NEW a \in Nat, NEW n \in Nat \ {0}
  PROVE  /\ a \div n \in Nat
         /\ n * (a \div n) <= a /\ a < n * (a \div n) + n
OBVIOUS

\* Products of naturals are monotone.
LEMMA Monotone ==
  ASSUME NEW a \in Nat, NEW b \in Nat, NEW n \in Nat, a <= b
  PROVE  n * a <= n * b
OBVIOUS

\* calculateDynamoWrites: the rows of a call belong to its chunks.
LEMMA RowsOfChunks ==
  ASSUME NEW p \in Puts, NEW r \in 1 .. RowCount(p)
  PROVE  Row(p, r)[1] \in Chunks(p)
<1> DEFINE q == (r - 1) \div Rows
<1>1. ChunkCount[p] \in Nat /\ Rows \in Nat /\ RowCount(p) = ChunkCount[p] * Rows
  BY PutAssumption DEF RowCount
<1>2. Rows \in Nat \ {0} /\ r - 1 \in Nat
  BY <1>1
<1>3. q \in Nat /\ Rows * q <= r - 1
  BY <1>2, Division, Zenon
<1>4. q < ChunkCount[p]
  <2> HIDE DEF q
  <2> SUFFICES ASSUME ChunkCount[p] <= q PROVE FALSE
    BY <1>1, <1>3
  <2>1. Rows * ChunkCount[p] <= Rows * q
    BY <1>1, <1>3, Monotone
  <2> QED
    BY <2>1, <1>1, <1>3
<1> QED
  BY <1>1, <1>3, <1>4 DEF Row, Chunks

\* batchRequests loses no row.
LEMMA BatchesCover ==
  ASSUME NEW p \in Puts, NEW r \in 1 .. RowCount(p)
  PROVE  \E b \in 1 .. BatchCount(p) : Row(p, r) \in Batch(p, b)
<1> DEFINE q == (r - 1) \div MaxBatch
           m == RowCount(p) + MaxBatch - 1
<1>1. RowCount(p) \in Nat /\ MaxBatch \in Nat \ {0}
  BY PutAssumption DEF RowCount
<1>a. r - 1 \in Nat /\ m \in Nat
  BY <1>1
<1>2. /\ q \in Nat
      /\ MaxBatch * q <= r - 1 /\ r - 1 < MaxBatch * q + MaxBatch
  BY <1>1, <1>a, Division, Zenon
<1>3. /\ BatchCount(p) \in Nat
      /\ m < MaxBatch * BatchCount(p) + MaxBatch
  BY <1>1, <1>a, Division, Zenon DEF BatchCount
<1> HIDE DEF q
<1>4. q + 1 <= BatchCount(p)
  <2> SUFFICES ASSUME BatchCount(p) <= q PROVE FALSE
    BY <1>2, <1>3
  <2>1. MaxBatch * BatchCount(p) <= MaxBatch * q
    BY <1>1, <1>2, <1>3, Monotone
  <2> QED
    BY <2>1, <1>1, <1>2, <1>3
<1>5. Row(p, r) \in Batch(p, q + 1)
  BY <1>1, <1>2 DEF Batch
<1> QED
  BY <1>2, <1>3, <1>4, <1>5
-----------------------------------------------------------------------------
\* A stage has a number of goroutines.
LEMMA SizeType == ASSUME NEW p \in Puts, NEW st \in Stages PROVE Size(p, st) \in Nat
<1>1. RowCount(p) \in Nat /\ MaxBatch \in Nat \ {0}
  BY PutAssumption DEF RowCount
<1>2. RowCount(p) + MaxBatch - 1 \in Nat
  BY <1>1
<1>3. BatchCount(p) \in Nat
  BY <1>1, <1>2, Division, Zenon DEF BatchCount
<1> QED
  BY <1>3, PutAssumption DEF Size

\* A goroutine is one of a call, a stage and a number.
LEMMA JobParts ==
  ASSUME NEW j \in Job
  PROVE  /\ j = <<j[1], j[2], j[3]>>
         /\ j[1] \in Puts /\ j[2] \in Stages /\ j[3] \in 1 .. Size(j[1], j[2])
<1>1. PICK p \in Puts : j \in JobsOf(p, "putChunks") \cup JobsOf(p, "updateIndex")
  BY DEF Job
<1>2. PICK st \in Stages : j \in JobsOf(p, st)
  BY <1>1 DEF Stages
<1> QED
  BY <1>2 DEF JobsOf

\* A call, a stage and a place within the size of the stage name a goroutine.
LEMMA JobIntro ==
  ASSUME NEW p \in Puts, NEW st \in Stages, NEW n \in 1 .. Size(p, st)
  PROVE  <<p, st, n>> \in Job
<1>1. <<p, st, n>> \in JobsOf(p, st)
  BY DEF JobsOf
<1> QED
  BY <1>1 DEF Job, Stages

\* A goroutine of putChunks writes a chunk, one of updateIndex rows, of its call.
LEMMA JobData ==
  ASSUME NEW j \in Job
  PROVE  /\ j[2] = "putChunks" => <<j[1], j[3]>> \in Chunks(j[1])
         /\ Batch(j[1], j[3]) \subseteq WriteReqs(j[1])
         /\ \A row \in Batch(j[1], j[3]) : row[1] \in Chunks(j[1])
<1>1. j[1] \in Puts /\ (j[2] = "putChunks" => j[3] \in 1 .. ChunkCount[j[1]])
  BY JobParts DEF Size
<1>2. \A row \in Batch(j[1], j[3]) : \E r \in 1 .. RowCount(j[1]) : row = Row(j[1], r)
  BY DEF Batch
<1>3. \A r \in 1 .. RowCount(j[1]) : Row(j[1], r)[1] \in Chunks(j[1])
  BY <1>1, RowsOfChunks, Zenon
<1> QED
  BY <1>1, <1>2, <1>3, Zenon DEF WriteReqs, Chunks

\* An action of a call, Acquire, keeps the types.
LEMMA AcquireTyped == ASSUME TypeOK, NEW p \in Puts, Acquire(p) PROVE TypeOK'
<1>1. permits' \in Nat
  BY DEF TypeOK, Acquire
<1>2. spawned' \in [Puts -> Nat]
  BY DEF TypeOK, Acquire
<1>3. worker' \in [Job -> {"none", "request", "cache", "send", "release", "done"}]
  BY DEF TypeOK, Acquire
<1> QED
  BY <1>1, <1>2, <1>3 DEF TypeOK, Acquire, stores

\* An action of a goroutine keeps the types.
LEMMA JobTyped == ASSUME TypeOK, NEW j \in Job, JobStep(j) PROVE TypeOK'
<1>1. j[1] \in Puts
  BY JobParts
<1>2. CASE PutObject(j)
  <2>1. <<j[1], j[3]>> \in UNION {Chunks(p) : p \in Puts}
    BY <1>1, <1>2, JobData DEF PutObject
  <2>2. failed' \in [Job -> BOOLEAN]
    BY <1>2 DEF TypeOK, PutObject
  <2>3. worker' \in [Job -> {"none", "request", "cache", "send", "release", "done"}]
    BY <1>2 DEF TypeOK, PutObject
  <2> QED
    BY <1>2, <2>1, <2>2, <2>3 DEF TypeOK, PutObject
<1>3. CASE StoreChunkData(j)
  <2>1. <<j[1], j[3]>> \in UNION {Chunks(p) : p \in Puts}
    BY <1>1, <1>3, JobData DEF StoreChunkData
  <2>2. worker' \in [Job -> {"none", "request", "cache", "send", "release", "done"}]
    BY <1>3 DEF TypeOK, StoreChunkData
  <2> QED
    BY <1>3, <2>1, <2>2 DEF TypeOK, StoreChunkData
<1>4. CASE BatchWrite(j)
  <2>1. Batch(j[1], j[3]) \subseteq UNION {WriteReqs(p) : p \in Puts}
    BY <1>1, JobData
  <2>2. failed' \in [Job -> BOOLEAN]
    BY <1>4 DEF TypeOK, BatchWrite
  <2>3. worker' \in [Job -> {"none", "request", "cache", "send", "release", "done"}]
    BY <1>4 DEF TypeOK, BatchWrite
  <2> QED
    BY <1>4, <2>1, <2>2, <2>3 DEF TypeOK, BatchWrite
<1>5. CASE Receive(j)
  <2>1. received' \in [Puts -> Nat]
    BY <1>1, <1>5 DEF TypeOK, Receive
  <2>2. lastErr' \in [Puts -> BOOLEAN]
    BY <1>1, <1>5 DEF TypeOK, Receive
  <2>3. worker' \in [Job -> {"none", "request", "cache", "send", "release", "done"}]
    BY <1>5 DEF TypeOK, Receive
  <2> QED
    BY <1>5, <2>1, <2>2, <2>3 DEF TypeOK, Receive, stores
<1>6. CASE Release(j)
  BY <1>6 DEF TypeOK, Release, stores
<1> QED
  BY <1>2, <1>3, <1>4, <1>5, <1>6 DEF JobStep

\* Every variable of the write path keeps its type.
THEOREM PutTypeCorrect == Spec => []TypeOK
<1>1. Init => TypeOK
  BY PutAssumption DEF Init, TypeOK
<1>2. TypeOK /\ [Next]_vars => TypeOK'
  <2> SUFFICES ASSUME TypeOK, [Next]_vars PROVE TypeOK'
    OBVIOUS
  <2>1. ASSUME NEW p \in Puts, PutStep(p) PROVE TypeOK'
    <3>1. CASE PutBegins(p)
      BY <3>1 DEF TypeOK, PutBegins, Enter, stores, Stages
    <3>2. CASE PutRefused(p)
      BY <3>2 DEF TypeOK, PutRefused, Return, stores
    <3>3. CASE Acquire(p)
      BY <3>3, AcquireTyped
    <3>4. CASE PutChunksReturns(p)
      <4>1. CASE Return(p, "error")
        BY <4>1 DEF TypeOK, Return, stores
      <4>2. CASE Enter(p, "updateIndex")
        BY <4>2 DEF TypeOK, Enter, stores, Stages
      <4> QED
        BY <3>4, <4>1, <4>2 DEF PutChunksReturns
    <3>5. CASE UpdateIndexReturns(p)
      BY <3>5 DEF TypeOK, UpdateIndexReturns, Return, stores
    <3> QED
      BY <2>1, <3>1, <3>2, <3>3, <3>4, <3>5 DEF PutStep
  <2>2. CASE UNCHANGED vars
    BY <2>2 DEF TypeOK, vars
  <2> QED
    BY <2>1, <2>2, JobTyped DEF Next, Finished
<1> QED
  BY <1>1, <1>2, PTL DEF Spec
-----------------------------------------------------------------------------
\* The numbers of answered goroutines are finite in number, and when there are
\* as many as the stage has goroutines, all have answered.
LEMMA AnsweredFinite ==
  ASSUME NEW p \in Puts, NEW st \in Stages
  PROVE  /\ IsFiniteSet(Answered(p, st)) /\ Cardinality(Answered(p, st)) \in Nat
         /\ Cardinality(Answered(p, st)) = Size(p, st) => Answered(p, st) = 1 .. Size(p, st)
<1>1. Size(p, st) \in Nat
  BY SizeType
<1>2. IsFiniteSet(1 .. Size(p, st)) /\ Cardinality(1 .. Size(p, st)) = Size(p, st)
  BY <1>1, FS_Interval
<1>3. Answered(p, st) \in SUBSET (1 .. Size(p, st))
  BY DEF Answered
<1> QED
  BY <1>2, <1>3, FS_Subset, FS_CardinalityType

\* When the receive loop of a stage is over without an error, every goroutine
\* of the stage has written its chunk or batch.
LEMMA CollectedWritten ==
  ASSUME TypeOK, Inductive, NEW p \in Puts, NEW st \in Stages,
         Collected(p, st), ~lastErr[p]
  PROVE  \A n \in 1 .. Size(p, st) : Written(<<p, st, n>>)
<1>1. Answered(p, st) = 1 .. Size(p, st)
  BY AnsweredFinite DEF Collected, Inductive, Counted
<1>2. \A n \in 1 .. Size(p, st) : /\ worker[<<p, st, n>>] \in {"release", "done"}
                                  /\ ~failed[<<p, st, n>>]
  BY <1>1 DEF Answered, Inductive, Heard, Collected
<1>3. \A n \in 1 .. Size(p, st) : <<p, st, n>> \in Job
  BY JobIntro
<1> QED
  BY <1>2, <1>3 DEF Inductive, Reported

\* A step of one goroutine that is not its answer leaves the answered ones.
LEMMA AnsweredSame ==
  ASSUME TypeOK, NEW j \in Job, NEW v, worker' = [worker EXCEPT ![j] = v],
         worker[j] \in {"release", "done"} <=> v \in {"release", "done"}
  PROVE  \A p \in Puts : \A st \in Stages : Answered(p, st)' = Answered(p, st)
<1> SUFFICES ASSUME NEW p \in Puts, NEW st \in Stages
             PROVE  Answered(p, st)' = Answered(p, st)
  OBVIOUS
<1>1. \A n \in 1 .. Size(p, st) : <<p, st, n>> \in Job
  BY JobIntro
<1>2. \A k \in Job : worker'[k] \in {"release", "done"} <=> worker[k] \in {"release", "done"}
  BY DEF TypeOK
<1> QED
  BY <1>1, <1>2 DEF Answered

\* Entering a stage, none of whose goroutines has started.
LEMMA EnterInductive ==
  ASSUME TypeOK, Inductive, NEW p \in Puts, NEW st \in Stages, Enter(p, st),
         stage[p] # "done",
         \A j \in Job : j[1] = p /\ j[2] = st => worker[j] = "none",
         st = "putChunks" => stage[p] = "start",
         st = "updateIndex" => Chunks(p) \subseteq s3
  PROVE  Inductive'
<1>1. UNCHANGED <<worker, failed, s3, index, unprocessed, result>> /\ stage'[p] = st
  BY DEF Enter, stores, TypeOK
<1>2. \A q \in Puts : \A u \in Stages : Answered(q, u)' = Answered(q, u)
  BY <1>1 DEF Answered
<1>3. Answered(p, st) = {}
  <2>1. \A n \in 1 .. Size(p, st) : <<p, st, n>> \in Job
    BY JobIntro
  <2>2. \A n \in 1 .. Size(p, st) : worker[<<p, st, n>>] = "none"
    BY <2>1
  <2> QED
    BY <2>2 DEF Answered
<1>4. Counted'
  <2> SUFFICES ASSUME NEW q \in Puts, NEW u \in Stages, stage'[q] = u
               PROVE  received'[q] = Cardinality(Answered(q, u)')
    BY DEF Counted
  <2>1. CASE q = p
    BY <2>1, <1>1, <1>2, <1>3, FS_EmptySet DEF TypeOK, Enter
  <2>2. CASE q # p
    BY <2>2, <1>2 DEF TypeOK, Inductive, Counted, Enter
  <2> QED
    BY <2>1, <2>2
<1>5. InStage'
  <2> SUFFICES ASSUME NEW j \in Job, worker[j] # "none"
               PROVE  /\ stage'[j[1]] # "start"
                      /\ j[2] = stage'[j[1]] => j[3] <= spawned'[j[1]]
                      /\ j[2] = "updateIndex" => /\ stage'[j[1]] # "putChunks"
                                                 /\ Chunks(j[1]) \subseteq s3
    BY <1>1 DEF InStage
  <2>1. j[1] \in Puts /\ j[2] \in Stages
    BY JobParts
  <2>2. CASE j[1] = p
    BY <2>2, <1>1 DEF Inductive, InStage, Stages
  <2>3. CASE j[1] # p
    BY <2>1, <2>3 DEF TypeOK, Inductive, InStage, Enter
  <2> QED
    BY <2>2, <2>3
<1>6. Heard'
  BY <1>1, <1>2, <1>3 DEF TypeOK, Inductive, Heard, Enter
<1>7. Stored'
  BY <1>1 DEF TypeOK, Inductive, Stored, Enter
<1>8. Reported' /\ NilMeansDurable' /\ IndexedChunksStored'
  BY <1>1 DEF Inductive, Reported, Written, NilMeansDurable, IndexedChunksStored
<1> QED
  BY <1>4, <1>5, <1>6, <1>7, <1>8 DEF Inductive

\* Put returns; with nil only when chunks and rows are written.
LEMMA ReturnInductive ==
  ASSUME TypeOK, Inductive, NEW p \in Puts, NEW v \in {"nil", "error"}, Return(p, v),
         v = "nil" => Chunks(p) \subseteq s3 /\ WriteReqs(p) \subseteq index \cup unprocessed
  PROVE  Inductive'
<1>1. UNCHANGED <<worker, failed, s3, index, unprocessed, spawned, received, lastErr>>
  BY DEF Return, stores
<1>2. \A q \in Puts : \A u \in Stages : Answered(q, u)' = Answered(q, u)
  BY <1>1 DEF Answered
<1>3. \A q \in Puts : \A u \in Stages : stage'[q] = u => stage[q] = u
  BY DEF TypeOK, Return, Stages
<1>4. Counted' /\ Heard'
  BY <1>1, <1>2, <1>3 DEF Inductive, Counted, Heard
<1>5. InStage'
  <2>1. \A j \in Job : j[1] \in Puts /\ j[2] \in Stages
    BY JobParts
  <2> QED
    BY <1>1, <2>1 DEF TypeOK, Inductive, InStage, Return, Stages
<1>6. Stored'
  BY <1>1, <1>3 DEF Inductive, Stored, Stages
<1>7. Reported' /\ IndexedChunksStored'
  BY <1>1 DEF Inductive, Reported, Written, IndexedChunksStored
<1>8. NilMeansDurable'
  BY <1>1 DEF TypeOK, Inductive, NilMeansDurable, Return
<1> QED
  BY <1>4, <1>5, <1>6, <1>7, <1>8 DEF Inductive

\* The actions of a call that start no goroutine.
LEMMA CallInductive ==
  ASSUME TypeOK, Inductive, NEW p \in Puts,
         \/ PutBegins(p) \/ PutRefused(p) \/ PutChunksReturns(p) \/ UpdateIndexReturns(p)
  PROVE  Inductive'
<1>1. CASE PutBegins(p)
  BY <1>1, EnterInductive DEF PutBegins, Inductive, InStage, Stages
<1>2. CASE PutRefused(p)
  BY <1>2, ReturnInductive DEF PutRefused
<1>3. CASE PutChunksReturns(p)
  <2>1. CASE Return(p, "error")
    BY <1>3, <2>1, ReturnInductive DEF PutChunksReturns
  <2>2. CASE ~lastErr[p] /\ Enter(p, "updateIndex")
    <3>1. Enter(p, "updateIndex") /\ stage[p] = "putChunks" /\ Collected(p, "putChunks")
      BY <1>3, <2>2 DEF PutChunksReturns, Collected
    <3>2. \A n \in 1 .. ChunkCount[p] : <<p, n>> \in s3
      <4>1. \A n \in 1 .. ChunkCount[p] : Written(<<p, "putChunks", n>>)
        BY <3>1, <2>2, CollectedWritten DEF Stages, Size
      <4> QED
        BY <4>1 DEF Written
    <3>3. Chunks(p) \subseteq s3
      BY <3>2 DEF Chunks
    <3>4. \A j \in Job : j[1] = p /\ j[2] = "updateIndex" => worker[j] = "none"
      BY <3>1 DEF Inductive, InStage
    <3> QED
      BY <3>1, <3>3, <3>4, EnterInductive DEF Stages
  <2> QED
    BY <1>3, <2>1, <2>2 DEF PutChunksReturns
<1>4. CASE UpdateIndexReturns(p)
  <2>1. CASE lastErr[p]
    BY <1>4, <2>1, ReturnInductive DEF UpdateIndexReturns
  <2>2. CASE ~lastErr[p]
    <3>1. Return(p, "nil") /\ Collected(p, "updateIndex")
      BY <1>4, <2>2 DEF UpdateIndexReturns
    <3>2. \A b \in 1 .. BatchCount(p) : Written(<<p, "updateIndex", b>>)
      BY <3>1, <2>2, CollectedWritten DEF Stages, Size
    <3>3. \A b \in 1 .. BatchCount(p) : Batch(p, b) \subseteq index \cup unprocessed
      BY <3>2 DEF Written
    <3>4. WriteReqs(p) \subseteq index \cup unprocessed
      BY <3>3, BatchesCover DEF WriteReqs
    <3>5. Chunks(p) \subseteq s3
      BY <3>1 DEF Collected, Inductive, Stored
    <3> QED
      BY <3>1, <3>4, <3>5, ReturnInductive
  <2> QED
    BY <2>1, <2>2
<1> QED
  BY <1>1, <1>2, <1>3, <1>4

\* A call starts a goroutine that has not run before.
LEMMA AcquireInductive ==
  ASSUME TypeOK, Inductive, NEW p \in Puts, Acquire(p)
  PROVE  Inductive'
<1> DEFINE j == <<p, stage[p], spawned[p] + 1>>
<1>1. /\ UNCHANGED <<stage, received, lastErr, result, failed, s3, index, unprocessed>>
      /\ worker' = [worker EXCEPT ![j] = "request"]
      /\ stage[p] \in Stages /\ spawned[p] \in Nat
      /\ spawned' = [spawned EXCEPT ![p] = spawned[p] + 1]
  BY DEF Acquire, stores, TypeOK
<1>2. spawned[p] + 1 \in 1 .. Size(p, stage[p])
  BY <1>1, SizeType DEF Acquire
<1>3. j \in Job
  BY <1>1, <1>2, JobIntro
<1>4. worker[j] = "none"
  BY <1>1, <1>3 DEF Inductive, InStage
<1>5. j[1] = p /\ j[2] = stage[p] /\ j[3] = spawned[p] + 1
  OBVIOUS
<1> HIDE DEF j
<1>6. \A q \in Puts : \A st \in Stages : Answered(q, st)' = Answered(q, st)
  BY <1>1, <1>3, <1>4, AnsweredSame
<1>7. Counted' /\ Heard'
  BY <1>1, <1>6 DEF Inductive, Counted, Heard
<1>8. \A k \in Job : worker'[k] = IF k = j THEN "request" ELSE worker[k]
  BY <1>1 DEF TypeOK
<1>9. InStage'
  <2> SUFFICES ASSUME NEW k \in Job, worker'[k] # "none"
               PROVE  /\ stage[k[1]] # "start"
                      /\ k[2] = stage[k[1]] => k[3] <= spawned'[k[1]]
                      /\ k[2] = "updateIndex" => /\ stage[k[1]] # "putChunks"
                                                 /\ Chunks(k[1]) \subseteq s3
    BY <1>1 DEF InStage
  <2>1. CASE k = j
    <3>1. stage[p] # "start" /\ spawned'[p] = spawned[p] + 1
      BY <1>1 DEF Stages, TypeOK
    <3>2. stage[p] = "updateIndex" => Chunks(p) \subseteq s3
      BY DEF Inductive, Stored
    <3> QED
      BY <2>1, <3>1, <3>2, <1>1, <1>5
  <2>2. CASE k # j
    <3>1. k[1] \in Puts /\ k[2] \in Stages /\ k[3] \in Nat
      BY JobParts
    <3>2. spawned[k[1]] \in Nat /\ spawned'[k[1]] \in Nat /\ spawned[k[1]] <= spawned'[k[1]]
      BY <1>1, <3>1 DEF TypeOK
    <3> QED
      BY <2>2, <1>8, <3>1, <3>2 DEF Inductive, InStage
  <2> QED
    BY <2>1, <2>2
<1>10. Reported'
  <2>1. \A k \in Job : Written(k)' <=> Written(k)
    BY <1>1 DEF Written
  <2> QED
    BY <1>1, <1>8, <2>1 DEF Inductive, Reported
<1>11. Stored' /\ NilMeansDurable' /\ IndexedChunksStored'
  BY <1>1 DEF Inductive, Stored, NilMeansDurable, IndexedChunksStored
<1> QED
  BY <1>7, <1>9, <1>10, <1>11 DEF Inductive

\* A goroutine's request to a store: what it reports as written is written.
LEMMA WriteInductive ==
  ASSUME TypeOK, Inductive, NEW j \in Job, worker[j] \in {"request", "cache"},
         NEW v \in {"cache", "send"}, worker' = [worker EXCEPT ![j] = v],
         NEW e \in BOOLEAN, failed' = [failed EXCEPT ![j] = e],
         UNCHANGED <<stage, spawned, received, lastErr, result>>,
         s3 \subseteq s3', index \subseteq index', unprocessed \subseteq unprocessed',
         v = "cache" => j[2] = "putChunks" /\ Written(j)',
         v = "send" => e \/ Written(j)',
         IndexedChunksStored'
  PROVE  Inductive'
<1>1. \A p \in Puts : \A st \in Stages : Answered(p, st)' = Answered(p, st)
  BY AnsweredSame
<1>2. Counted'
  BY <1>1 DEF Inductive, Counted
<1>3. \A k \in Job : /\ worker'[k] = IF k = j THEN v ELSE worker[k]
                     /\ failed'[k] = IF k = j THEN e ELSE failed[k]
  BY DEF TypeOK
<1>4. Heard'
  <2> SUFFICES ASSUME NEW p \in Puts, NEW st \in Stages, stage[p] = st, ~lastErr[p],
                      NEW n \in Answered(p, st)
               PROVE  ~failed'[<<p, st, n>>]
    BY <1>1 DEF Heard
  <2>1. <<p, st, n>> \in Job /\ worker[<<p, st, n>>] \in {"release", "done"}
    BY JobIntro DEF Answered
  <2>2. <<p, st, n>> # j
    BY <2>1
  <2> QED
    BY <2>1, <2>2, <1>3 DEF Inductive, Heard
<1>5. InStage'
  BY <1>3 DEF Inductive, InStage
<1>6. Reported'
  <2>1. \A k \in Job : Written(k) => Written(k)'
    BY DEF Written
  <2> QED
    BY <2>1, <1>3 DEF Inductive, Reported
<1>7. Stored' /\ NilMeansDurable'
  BY DEF Inductive, Stored, NilMeansDurable
<1> QED
  BY <1>2, <1>4, <1>5, <1>6, <1>7 DEF Inductive

\* putChunk, the cache and batchWriteDynamo.
LEMMA StoreInductive ==
  ASSUME TypeOK, Inductive, NEW j \in Job,
         PutObject(j) \/ StoreChunkData(j) \/ BatchWrite(j)
  PROVE  Inductive'
<1>1. failed = [failed EXCEPT ![j] = failed[j]] /\ failed[j] \in BOOLEAN
  BY DEF TypeOK
<1>2. CASE PutObject(j)
  <2>1. /\ IndexedChunksStored'
        /\ s3 \subseteq s3' /\ index \subseteq index' /\ unprocessed \subseteq unprocessed'
    BY <1>2 DEF PutObject, Inductive, IndexedChunksStored
  <2>2. CASE s3' = s3 \cup {<<j[1], j[3]>>} /\ worker' = [worker EXCEPT ![j] = "cache"]
             /\ UNCHANGED failed
    <3>1. Written(j)' /\ j[2] = "putChunks"
      BY <1>2, <2>2 DEF PutObject, Written
    <3> QED
      BY <1>1, <1>2, <2>1, <2>2, <3>1, WriteInductive DEF PutObject
  <2>3. CASE worker' = [worker EXCEPT ![j] = "send"] /\ failed' = [failed EXCEPT ![j] = TRUE]
    BY <1>2, <2>1, <2>3, WriteInductive DEF PutObject
  <2> QED
    BY <1>2, <2>2, <2>3 DEF PutObject
<1>3. CASE StoreChunkData(j)
  <2>1. Written(j)' /\ IndexedChunksStored'
    BY <1>3 DEF StoreChunkData, Inductive, Reported, Written, IndexedChunksStored
  <2> QED
    BY <1>1, <1>3, <2>1, WriteInductive DEF StoreChunkData
<1>4. CASE BatchWrite(j)
  <2>1. PICK written \in SUBSET Batch(j[1], j[3]), err \in BOOLEAN :
          /\ index' = index \cup written
          /\ unprocessed' = IF err THEN unprocessed
                            ELSE unprocessed \cup (Batch(j[1], j[3]) \ written)
          /\ failed' = [failed EXCEPT ![j] = err]
    BY <1>4 DEF BatchWrite
  <2>2. Chunks(j[1]) \subseteq s3 /\ s3' = s3
    BY <1>4 DEF BatchWrite, Inductive, InStage
  <2>3. IndexedChunksStored'
    BY <2>1, <2>2, JobData DEF Inductive, IndexedChunksStored
  <2>4. err \/ Written(j)'
    BY <1>4, <2>1 DEF BatchWrite, Written
  <2>5. s3 \subseteq s3' /\ index \subseteq index' /\ unprocessed \subseteq unprocessed'
    BY <2>1, <2>2
  <2> QED
    BY <1>4, <2>1, <2>3, <2>4, <2>5, WriteInductive DEF BatchWrite
<1> QED
  BY <1>2, <1>3, <1>4

\* The receive loop takes the error of a goroutine it has not heard of.
LEMMA ReceiveInductive ==
  ASSUME TypeOK, Inductive, NEW j \in Job, Receive(j)
  PROVE  Inductive'
<1>1. j = <<j[1], j[2], j[3]>> /\ j[1] \in Puts /\ j[2] \in Stages
      /\ j[3] \in 1 .. Size(j[1], j[2])
  BY JobParts
<1>2. /\ UNCHANGED <<stage, spawned, result, failed, s3, index, unprocessed>>
      /\ worker' = [worker EXCEPT ![j] = "release"]
      /\ worker[j] = "send" /\ j[2] = stage[j[1]]
  BY DEF Receive, stores
<1>3. \A k \in Job : worker'[k] = IF k = j THEN "release" ELSE worker[k]
  BY <1>2 DEF TypeOK
<1>4. \A p \in Puts : \A st \in Stages : \A n \in 1 .. Size(p, st) :
        /\ <<p, st, n>> \in Job
        /\ <<p, st, n>> = j <=> p = j[1] /\ st = j[2] /\ n = j[3]
  <2> SUFFICES ASSUME NEW p \in Puts, NEW st \in Stages, NEW n \in 1 .. Size(p, st)
               PROVE  /\ <<p, st, n>> \in Job
                      /\ <<p, st, n>> = j <=> p = j[1] /\ st = j[2] /\ n = j[3]
    OBVIOUS
  <2>1. <<p, st, n>> \in Job
    BY JobIntro
  <2>2. <<p, st, n>> = j => p = j[1] /\ st = j[2] /\ n = j[3]
    OBVIOUS
  <2>3. p = j[1] /\ st = j[2] /\ n = j[3] => <<p, st, n>> = j
    BY <1>1
  <2> QED
    BY <2>1, <2>2, <2>3
<1>5. ASSUME NEW p \in Puts, NEW st \in Stages, stage[p] = st, p # j[1]
      PROVE  Answered(p, st)' = Answered(p, st)
  BY <1>3, <1>4, <1>5 DEF Answered
<1>6. /\ Answered(j[1], j[2])' = Answered(j[1], j[2]) \cup {j[3]}
      /\ j[3] \notin Answered(j[1], j[2])
  BY <1>1, <1>2, <1>3, <1>4 DEF Answered
<1>7. Counted'
  <2> SUFFICES ASSUME NEW p \in Puts, NEW st \in Stages, stage[p] = st
               PROVE  received'[p] = Cardinality(Answered(p, st)')
    BY <1>2 DEF Counted
  <2>1. CASE p = j[1]
    <3>1. received[p] = Cardinality(Answered(p, st)) /\ st = j[2]
      BY <2>1, <1>2 DEF Inductive, Counted
    <3>2. Cardinality(Answered(p, st) \cup {j[3]}) = Cardinality(Answered(p, st)) + 1
      BY <2>1, <3>1, <1>6, AnsweredFinite, FS_AddElement
    <3>3. received'[p] = received[p] + 1
      BY <2>1 DEF TypeOK, Receive
    <3> QED
      BY <2>1, <3>1, <3>2, <3>3, <1>6
  <2>2. CASE p # j[1]
    BY <2>2, <1>1, <1>5 DEF TypeOK, Inductive, Counted, Receive
  <2> QED
    BY <2>1, <2>2
<1>8. Heard'
  <2> SUFFICES ASSUME NEW p \in Puts, NEW st \in Stages, stage[p] = st, ~lastErr'[p],
                      NEW n \in Answered(p, st)'
               PROVE  ~failed[<<p, st, n>>]
    BY <1>2 DEF Heard
  <2>1. CASE p = j[1]
    <3>1. ~lastErr[p] /\ ~failed[j] /\ st = j[2]
      BY <2>1, <1>2 DEF TypeOK, Receive
    <3>2. n \in Answered(p, st) \/ <<p, st, n>> = j
      BY <2>1, <3>1, <1>1, <1>6
    <3> QED
      BY <3>1, <3>2 DEF Inductive, Heard
  <2>2. CASE p # j[1]
    <3>1. ~lastErr[p] /\ n \in Answered(p, st)
      BY <2>2, <1>1, <1>5 DEF TypeOK, Receive
    <3> QED
      BY <3>1 DEF Inductive, Heard
  <2> QED
    BY <2>1, <2>2
<1>9. InStage'
  BY <1>2, <1>3 DEF Inductive, InStage
<1>10. Reported'
  <2>1. \A k \in Job : Written(k)' <=> Written(k)
    BY <1>2 DEF Written
  <2> QED
    BY <1>2, <1>3, <2>1 DEF Inductive, Reported
<1>11. Stored' /\ NilMeansDurable' /\ IndexedChunksStored'
  BY <1>2 DEF Inductive, Stored, NilMeansDurable, IndexedChunksStored
<1> QED
  BY <1>7, <1>8, <1>9, <1>10, <1>11 DEF Inductive

\* A goroutine that has been heard of gives its permit back and ends.
LEMMA ReleaseInductive ==
  ASSUME TypeOK, Inductive, NEW j \in Job, Release(j)
  PROVE  Inductive'
<1>1. /\ UNCHANGED <<stage, spawned, received, lastErr, result, failed, s3, index, unprocessed>>
      /\ worker' = [worker EXCEPT ![j] = "done"] /\ worker[j] = "release"
  BY DEF Release, stores
<1>2. \A p \in Puts : \A st \in Stages : Answered(p, st)' = Answered(p, st)
  BY <1>1, AnsweredSame
<1>3. \A k \in Job : worker'[k] = IF k = j THEN "done" ELSE worker[k]
  BY <1>1 DEF TypeOK
<1>4. Counted' /\ Heard'
  BY <1>1, <1>2 DEF Inductive, Counted, Heard
<1>5. InStage'
  BY <1>1, <1>3 DEF Inductive, InStage
<1>6. Reported'
  <2>1. \A k \in Job : Written(k)' <=> Written(k)
    BY <1>1 DEF Written
  <2> QED
    BY <1>1, <1>3, <2>1 DEF Inductive, Reported
<1>7. Stored' /\ NilMeansDurable' /\ IndexedChunksStored'
  BY <1>1 DEF Inductive, Stored, NilMeansDurable, IndexedChunksStored
<1> QED
  BY <1>4, <1>5, <1>6, <1>7 DEF Inductive
-----------------------------------------------------------------------------
\* The inductive invariant of the write path.
THEOREM PutInductive == Spec => []Inductive
<1>1. Init => Inductive
  <2> SUFFICES ASSUME Init PROVE Inductive
    OBVIOUS
  <2>1. \A p \in Puts : stage[p] = "start" /\ result[p] = "none"
    BY DEF Init
  <2>2. \A j \in Job : worker[j] = "none"
    BY DEF Init
  <2>3. index = {}
    BY DEF Init
  <2> QED
    BY <2>1, <2>2, <2>3 DEF Inductive, Counted, InStage, Reported, Heard, Stored, NilMeansDurable,
       IndexedChunksStored, Stages
<1>2. TypeOK /\ Inductive /\ [Next]_vars => Inductive'
  <2> SUFFICES ASSUME TypeOK, Inductive, [Next]_vars PROVE Inductive'
    OBVIOUS
  <2>1. ASSUME NEW p \in Puts, PutStep(p) PROVE Inductive'
    BY <2>1, CallInductive, AcquireInductive DEF PutStep
  <2>2. ASSUME NEW j \in Job, JobStep(j) PROVE Inductive'
    BY <2>2, StoreInductive, ReceiveInductive, ReleaseInductive DEF JobStep
  <2>3. CASE UNCHANGED vars
    <3>1. UNCHANGED <<stage, spawned, received, lastErr, result, worker, failed, s3, index, unprocessed>>
      BY <2>3 DEF vars
    <3>2. \A p \in Puts : \A st \in Stages : Answered(p, st)' = Answered(p, st)
      BY <3>1 DEF Answered
    <3>3. \A k \in Job : Written(k)' <=> Written(k)
      BY <3>1 DEF Written
    <3> QED
      BY <3>1, <3>2, <3>3 DEF Inductive, Counted, InStage, Reported, Heard, Stored, NilMeansDurable,
         IndexedChunksStored
  <2> QED
    BY <2>1, <2>2, <2>3 DEF Next, Finished
<1> QED
  BY <1>1, <1>2, PutTypeCorrect, PTL DEF Spec

\* No index row ever leads to a chunk that is not in S3.
THEOREM NoDanglingRow == Spec => []IndexedChunksStored
<1>1. Inductive => IndexedChunksStored
  BY DEF Inductive
<1> QED
  BY <1>1, PutInductive, PTL

\* Whatever fails and is throttled, a nil of Put means that the chunks are stored and
\* their rows indexed, save those that DynamoDB gave back unprocessed.
THEOREM NilIsDurable == Spec => []NilMeansDurable
<1>1. Inductive => NilMeansDurable
  BY DEF Inductive
<1> QED
  BY <1>1, PutInductive, PTL

\* Over all calls, permits held and permits left add up to the semaphore's
\* size: never more goroutines than permits, and no permit leaks on an error.
THEOREM PermitsKept == Spec => []PermitsBalance
<1> DEFINE Balance == IsFiniteSet(Holding) /\ PermitsBalance
           held == {"request", "cache", "send", "release"}
<1>1. Init => Balance
  <2> SUFFICES ASSUME Init PROVE Balance
    OBVIOUS
  <2>1. Holding = {}
    BY DEF Init, Holding
  <2> QED
    BY <2>1, FS_EmptySet, PutAssumption DEF Init, PermitsBalance
<1>2. TypeOK /\ Inductive /\ Balance /\ [Next]_vars => Balance'
  <2> SUFFICES ASSUME TypeOK, Inductive, Balance, [Next]_vars PROVE Balance'
    OBVIOUS
  <2>1. permits \in Nat /\ Cardinality(Holding) \in Nat /\ Permits \in Nat
    BY FS_CardinalityType, PutAssumption DEF TypeOK
  <2>2. ASSUME permits' = permits, Holding' = Holding PROVE Balance'
    BY <2>2 DEF PermitsBalance
  <2>3. ASSUME NEW p \in Puts, Acquire(p) PROVE Balance'
    <3> DEFINE j == <<p, stage[p], spawned[p] + 1>>
    <3>1. stage[p] \in Stages /\ spawned[p] + 1 \in 1 .. Size(p, stage[p])
      BY <2>3, SizeType DEF Acquire, TypeOK
    <3>2. j \in Job
      BY <3>1, JobIntro
    <3>3. worker[j] = "none"
      BY <2>3, <3>2 DEF Inductive, InStage, TypeOK, Acquire
    <3>4. worker' = [worker EXCEPT ![j] = "request"] /\ permits' = permits - 1
      BY <2>3 DEF Acquire
    <3> HIDE DEF j
    <3>5. Holding' = Holding \cup {j} /\ j \notin Holding
      BY <3>2, <3>3, <3>4 DEF Holding, TypeOK
    <3>6. IsFiniteSet(Holding') /\ Cardinality(Holding') = Cardinality(Holding) + 1
      BY <3>5, FS_AddElement
    <3> QED
      BY <2>1, <3>4, <3>6 DEF PermitsBalance
  <2>4. ASSUME NEW j \in Job, Release(j) PROVE Balance'
    <3>1. Holding' = Holding \ {j} /\ j \in Holding
      BY <2>4 DEF Holding, Release, TypeOK
    <3>2. IsFiniteSet(Holding') /\ Cardinality(Holding') = Cardinality(Holding) - 1
      BY <3>1, FS_RemoveElement
    <3> QED
      BY <2>1, <2>4, <3>2 DEF PermitsBalance, Release
  <2>5. ASSUME NEW j \in Job, NEW v \in held, worker[j] \in held,
               worker' = [worker EXCEPT ![j] = v], permits' = permits
        PROVE  Balance'
    <3>1. Holding' = Holding
      BY <2>5 DEF Holding, TypeOK
    <3> QED
      BY <2>2, <2>5, <3>1
  <2>6. ASSUME worker' = worker, permits' = permits PROVE Balance'
    BY <2>2, <2>6 DEF Holding
  <2>7. ASSUME NEW p \in Puts, PutStep(p) PROVE Balance'
    BY <2>3, <2>6, <2>7 DEF PutStep, PutBegins, PutRefused, PutChunksReturns,
       UpdateIndexReturns, Enter, Return
  <2>8. ASSUME NEW j \in Job, JobStep(j) PROVE Balance'
    <3>1. CASE PutObject(j)
      BY <2>5, <3>1 DEF PutObject
    <3>2. CASE StoreChunkData(j)
      BY <2>5, <3>2 DEF StoreChunkData
    <3>3. CASE BatchWrite(j)
      BY <2>5, <3>3 DEF BatchWrite
    <3>4. CASE Receive(j)
      BY <2>5, <3>4 DEF Receive
    <3> QED
      BY <2>4, <2>8, <3>1, <3>2, <3>3, <3>4 DEF JobStep
  <2> QED
    BY <2>6, <2>7, <2>8 DEF Next, Finished, vars
<1>3. Balance => PermitsBalance
  OBVIOUS
<1> QED
  BY <1>1, <1>2, <1>3, PutTypeCorrect, PutInductive, PTL DEF Spec
=============================================================================
