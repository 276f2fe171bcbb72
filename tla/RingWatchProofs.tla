-------------------------- MODULE RingWatchProofs ---------------------------
(***************************************************************************)
(* Proofs about RingWatch: types, that a reader's ring never goes back,    *)
(* and, until Consul loses its data, that the index WatchKey compares      *)
(* identifies the value.                                                   *)
(***************************************************************************)
EXTENDS RingWatch, TLAPS

\* The variables of WatchKey, of Ring and of Consul keep their types.
THEOREM WatchTypeCorrect == Spec => []TypeOK
<1>1. Init => TypeOK
  <2> SUFFICES ASSUME Init PROVE TypeOK
    OBVIOUS
  <2>1. answer \in Answer
    BY DEF Init, Answer
  <2> QED
    BY <2>1, WatchAssumption DEF Init, TypeOK
<1>2. TypeOK /\ [Next]_vars => TypeOK'
  <2> SUFFICES ASSUME TypeOK, [Next]_vars PROVE TypeOK'
    OBVIOUS
  <2>1. CASE Write
    BY <2>1 DEF TypeOK, Write
  <2>2. CASE ConsulRestart
    BY <2>2 DEF TypeOK, ConsulRestart
  <2>3. CASE Stop
    BY <2>3 DEF TypeOK, Stop, consul
  <2>4. CASE Check
    BY <2>4 DEF TypeOK, Check, consul
  <2>5. CASE Get
    BY <2>5 DEF TypeOK, Get, consul, Answer
  <2>6. CASE GetError
    BY <2>6 DEF TypeOK, GetError, consul
  <2>7. CASE Wait
    BY <2>7, WatchAssumption DEF TypeOK, Wait, consul
  <2>8. CASE Handle
    BY <2>8, WatchAssumption DEF TypeOK, Handle, consul, Answer
  <2>9. CASE UNCHANGED vars
    BY <2>9 DEF TypeOK, vars, consul
  <2> QED
    BY <2>1, <2>2, <2>3, <2>4, <2>5, <2>6, <2>7, <2>8, <2>9 DEF Next, Loop
<1> QED
  BY <1>1, <1>2, PTL DEF Spec

\* One step keeps the order of the values and, unless Consul restarts without
\* its data, the correspondence of indexes and values.
LEMMA IndexIdentifiesStep ==
  ASSUME TypeOK, IndexIdentifies, [Next]_vars
  PROVE  IndexIdentifies'
<1>1. CASE Write
  BY <1>1 DEF TypeOK, IndexIdentifies, Write, Answer
<1>2. CASE ConsulRestart
  BY <1>2 DEF TypeOK, IndexIdentifies, ConsulRestart, Answer
<1>3. CASE Stop
  BY <1>3 DEF IndexIdentifies, Stop, consul
<1>4. CASE Check
  BY <1>4 DEF IndexIdentifies, Check, consul
<1>5. CASE Get
  BY <1>5 DEF TypeOK, IndexIdentifies, Get, consul
<1>6. CASE GetError
  BY <1>6 DEF IndexIdentifies, GetError, consul
<1>7. CASE Wait
  BY <1>7 DEF IndexIdentifies, Wait, consul
<1>8. CASE Handle
  BY <1>8 DEF TypeOK, IndexIdentifies, Handle, consul, Answer
<1>9. CASE UNCHANGED vars
  BY <1>9 DEF IndexIdentifies, vars, consul
<1> QED
  BY <1>1, <1>2, <1>3, <1>4, <1>5, <1>6, <1>7, <1>8, <1>9 DEF Next, Loop

\* The values a reader handles are in order, and until Consul restarts without
\* its data the index identifies the value.
THEOREM IndexInvariant == Spec => []IndexIdentifies
<1>1. Init => IndexIdentifies
  BY DEF Init, IndexIdentifies
<1>2. TypeOK /\ IndexIdentifies /\ [Next]_vars => IndexIdentifies'
  BY IndexIdentifiesStep
<1> QED
  BY <1>1, <1>2, WatchTypeCorrect, PTL DEF Spec

\* Until Consul loses its data, what WatchKey skips is the value it has seen.
THEOREM SkippingIsSafe == Spec => []SkippedIsSame
<1>1. TypeOK /\ IndexIdentifies => SkippedIsSame
  BY DEF TypeOK, IndexIdentifies, SkippedIsSame, Answer
<1> QED
  BY <1>1, WatchTypeCorrect, IndexInvariant, PTL

\* A reader's ring never goes back, restarts of Consul or not.
THEOREM NeverBack == Spec => ForwardOnly
<1>1. TypeOK /\ IndexIdentifies /\ [Next]_vars => [ringDesc' >= ringDesc]_vars
  <2> SUFFICES ASSUME TypeOK, IndexIdentifies, Next PROVE ringDesc' >= ringDesc
    OBVIOUS
  <2>1. CASE Handle
    BY <2>1 DEF TypeOK, IndexIdentifies, Handle, Answer
  <2>2. CASE UNCHANGED ringDesc
    BY <2>2 DEF TypeOK
  <2> QED
    BY <2>1, <2>2 DEF Next, Loop, Write, ConsulRestart, Stop, Check, Get, GetError, Wait
<1> QED
  BY <1>1, WatchTypeCorrect, IndexInvariant, PTL DEF Spec, ForwardOnly
=============================================================================
