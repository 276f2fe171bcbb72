----------------------------- MODULE RingWatch ------------------------------
(***************************************************************************)
(* How a reader follows the ring: Ring.loop (ring/ring.go) runs            *)
(* consulClient.WatchKey (ring/consul_client.go), a loop of blocking Gets  *)
(* that hands each new value to a callback, which replaces ringDesc.  Stop *)
(* closes quit and waits for the loop.                                     *)
(*                                                                         *)
(* The ring is a version number here: the n-th value written to the key is *)
(* n, and 0 is a missing key (in Consul) or the empty Desc (in a reader).  *)
(***************************************************************************)
EXTENDS Naturals

CONSTANTS MaxWrites,        \* bound on the values written to the key
          MaxRestarts,      \* bound on the restarts of Consul without its data
          InitialBackoff, MaxBackoff

ASSUME WatchAssumption ==
  /\ MaxWrites \in Nat /\ MaxRestarts \in Nat
  /\ MaxBackoff \in Nat \ {0} /\ InitialBackoff \in 1 .. MaxBackoff

VARIABLES
  \* Consul: the key, whether its JSON decodes into a Desc, the index.
  version, decodes, modIndex,
  \* WatchKey: where the loop is, the last index, the answer being handled.
  pc, index, answer, backoff,
  \* Ring.
  ringDesc, quit,
  \* History: values written, restarts, the last answer not skipped.
  written, restarts, seen

consul == <<version, decodes, modIndex, written, restarts>>
vars == <<consul, pc, index, answer, backoff, ringDesc, quit, seen>>

Answer == [index : Nat, version : Nat, decodes : BOOLEAN]

Init ==
  /\ version = 0 /\ decodes = TRUE /\ modIndex = 1
  /\ pc = "check" /\ index = 0 /\ backoff = InitialBackoff
  /\ answer = [index |-> 0, version |-> 0, decodes |-> TRUE]
  /\ ringDesc = 0 /\ quit = FALSE
  /\ written = 0 /\ restarts = 0 /\ seen = 0
-----------------------------------------------------------------------------
\* Consul (external): a write of the key, and a restart that loses the data
\* and starts counting its index again.
Write ==
  /\ written < MaxWrites
  /\ written' = written + 1 /\ version' = written + 1
  /\ decodes' \in BOOLEAN
  /\ modIndex' = modIndex + 1
  /\ UNCHANGED <<pc, index, answer, backoff, ringDesc, quit, restarts, seen>>

ConsulRestart ==
  /\ restarts < MaxRestarts /\ restarts' = restarts + 1
  /\ version' = 0 /\ decodes' = TRUE /\ modIndex' = 1
  /\ UNCHANGED <<pc, index, answer, backoff, ringDesc, quit, written, seen>>

\* Stop's close of quit.
Stop ==
  /\ ~quit /\ quit' = TRUE
  /\ UNCHANGED <<consul, pc, index, answer, backoff, ringDesc, seen>>

\* Mutant: the loop does not look at done.
MutCheck ==
  /\ pc = "check" /\ pc' = "get"
  /\ UNCHANGED <<consul, index, answer, backoff, ringDesc, quit, seen>>

\* The head of the loop: isClosed(done).
Check ==
  /\ pc = "check" /\ pc' = IF quit THEN "done" ELSE "get"
  /\ UNCHANGED <<consul, index, answer, backoff, ringDesc, quit, seen>>

\* Mutant: the read need not be consistent, and may be of an earlier value.
MutGet ==
  /\ pc = "get" /\ pc' = "answer"
  /\ \E v \in 0 .. version :
       answer' = [index |-> v + 1, version |-> v, decodes |-> TRUE]
  /\ UNCHANGED <<consul, index, backoff, ringDesc, quit, seen>>

\* A consistent Get answers with the current value, at the latest after
\* longPollDuration whether or not the index has moved.
Get ==
  /\ pc = "get" /\ pc' = "answer"
  /\ answer' = [index |-> modIndex, version |-> version, decodes |-> decodes]
  /\ UNCHANGED <<consul, index, backoff, ringDesc, quit, seen>>

GetError ==
  /\ pc = "get" /\ pc' = "backoff"
  /\ UNCHANGED <<consul, index, answer, backoff, ringDesc, quit, seen>>

\* Mutant: the backoff has no limit.
MutWait ==
  /\ pc = "backoff" /\ pc' = "check"
  /\ backoff' = backoff * 2
  /\ UNCHANGED <<consul, index, answer, ringDesc, quit, seen>>

\* backoff.wait: the timer doubles the backoff, a closed done does not.
Wait ==
  /\ pc = "backoff" /\ pc' = "check"
  /\ \/ quit /\ UNCHANGED backoff
     \/ backoff' = IF backoff * 2 > MaxBackoff THEN MaxBackoff ELSE backoff * 2
  /\ UNCHANGED <<consul, index, answer, ringDesc, quit, seen>>

\* Mutant: the next wait is for the index after the one of the answer.
MutHandle ==
  /\ pc = "answer" /\ pc' = "check"
  /\ backoff' = InitialBackoff
  /\ IF answer.index = index
       THEN UNCHANGED <<index, ringDesc, seen>>
       ELSE /\ index' = answer.index + 1 /\ seen' = answer.version
            /\ ringDesc' = IF answer.version # 0 /\ answer.decodes
                             THEN answer.version ELSE ringDesc
  /\ UNCHANGED <<consul, answer, quit>>

\* The rest of the body, with the callback of Ring.loop: an answer with the
\* index of the last one is skipped, a missing key or a value that does not
\* decode leaves ringDesc alone.
Handle ==
  /\ pc = "answer" /\ pc' = "check"
  /\ backoff' = InitialBackoff
  /\ IF answer.index = index
       THEN UNCHANGED <<index, ringDesc, seen>>
       ELSE /\ index' = answer.index /\ seen' = answer.version
            /\ ringDesc' = IF answer.version # 0 /\ answer.decodes
                             THEN answer.version ELSE ringDesc
  /\ UNCHANGED <<consul, answer, quit>>

Loop == Check \/ Get \/ GetError \/ Wait \/ Handle

Next == Write \/ ConsulRestart \/ Stop \/ Loop

Spec == Init /\ [][Next]_vars

\* The loop runs, and Consul does not answer with errors for ever.
FairSpec == Spec /\ WF_vars(Loop) /\ SF_vars(Get)
-----------------------------------------------------------------------------
TypeOK ==
  /\ version \in Nat /\ decodes \in BOOLEAN /\ modIndex \in Nat
  /\ pc \in {"check", "get", "backoff", "answer", "done"}
  /\ index \in Nat /\ answer \in Answer /\ backoff \in 1 .. MaxBackoff
  /\ ringDesc \in Nat /\ quit \in BOOLEAN
  /\ written \in Nat /\ restarts \in Nat /\ seen \in Nat

\* WatchKey skips an answer "if the index is the same as last time, because
\* the key value is guaranteed to be the same as last time": so it is, while
\* Consul keeps its data.
SkippedIsSame ==
  restarts = 0 /\ pc = "answer" /\ answer.index = index => answer.version = seen

\* A reader's ring never goes back to an earlier value of the key, not even
\* when Consul loses its data.
ForwardOnly == [][ringDesc' >= ringDesc]_vars

\* Once the key is left alone, a running reader ends up with its value,
\* unless the key is missing or does not decode, whatever Gets have failed.
\* (While Consul keeps its data: a restart may make it skip a value.)
Converges ==
  <>[](quit \/ restarts > 0 \/ version = 0 \/ ~decodes \/ ringDesc = version)

\* Stop returns: the loop leaves a wait, a long poll or an answer and ends.
StopReturns == quit ~> pc = "done"

\* What makes the safety properties inductive: answers are of the key as it is
\* or was after the reader's ring was written, and without restarts the index
\* tells the values of the key apart.
IndexIdentifies ==
  /\ version \in {0, written} /\ ringDesc <= written
  /\ pc = "answer" /\ answer.version # 0 =>
       ringDesc <= answer.version /\ answer.version <= written
  /\ restarts = 0 =>
       /\ version = written /\ modIndex = version + 1
       /\ index # 0 => index = seen + 1
       /\ seen <= version
       /\ pc = "answer" => /\ answer.index = answer.version + 1
                           /\ seen <= answer.version /\ answer.version <= version
=============================================================================
