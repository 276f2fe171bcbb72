---------------------------- MODULE Distributor -----------------------------
(***************************************************************************)
(* The distributor (distributor.go): concurrent Appends that route each    *)
(* sample by the hash of its user and metric name, send each ingester its  *)
(* share and collect the errors; a Query and a label value request, which  *)
(* read; and the pool of ingester clients they share.  The ring each of    *)
(* them looks into (Ring.Get, Ring.GetAll) changes under their feet.       *)
(***************************************************************************)
EXTENDS Naturals, Sequences, FiniteSets

CONSTANTS Hosts,        \* addresses of ingesters
          Keys,         \* hashes of a user and a metric name
          Appends,      \* concurrent calls of Append
          Batch,        \* the keys of the samples of each
          Readers,      \* which of "query", "labels" run
          Rings,        \* values the ring takes, Empty among them
          MaxUpdates    \* bound on its changes

\* The empty Hostname that Get returns for a token whose ingester is not in
\* Desc.Ingesters, and a ring without tokens.
NoHost == "no host"
Empty == [ingesters |-> {}, owner |-> <<>>]

Ring == [ingesters : SUBSET Hosts, owner : [Keys -> Hosts \cup {NoHost}]] \cup {Empty}

ASSUME DistributorAssumption ==
  /\ Batch \in [Appends -> Seq(Keys)] /\ Rings \subseteq Ring
  /\ NoHost \notin Hosts /\ MaxUpdates \in Nat

Samples(a) == {<<a, n>> : n \in DOMAIN Batch[a]}
Key(s) == Batch[s[1]][s[2]]
Targets == Hosts \cup {NoHost}
Callers == (Appends \X Targets) \cup ({"query", "labels"} \X {"reader"})
Query == <<"query", "reader">>
Labels == <<"labels", "reader">>

VARIABLES
  ring, updates,
  clients,      \* d.clients
  made,         \* history: clients made for each host
  \* Append: where each call is, the samples it has routed, to which host,
  \* answers received, lastErr, what it returned.
  pc, routed, samplesByIngester, received, lastErr, result,
  \* getClientFor and the request of each goroutine or reader.
  call, target, failed,
  stored,       \* samples each ingester holds
  \* Readers: the key of the query, ingesters left to ask, values read, and
  \* (history) what the reader is entitled to.
  key, todo, values, due

appendVars == <<pc, routed, samplesByIngester, received, lastErr, result>>
readVars == <<key, todo, values, due>>
clientVars == <<clients, made>>
ringVars == <<ring, updates>>
callVars == <<call, target, failed>>
vars == <<ringVars, clientVars, appendVars, callVars, stored, readVars>>

Init ==
  /\ ring \in Rings /\ updates = 0
  /\ clients = {} /\ made = [h \in Targets |-> 0]
  /\ pc = [a \in Appends |-> "start"]
  /\ routed = [a \in Appends |-> 0]
  /\ samplesByIngester = [a \in Appends |-> [h \in Targets |-> <<>>]]
  /\ received = [a \in Appends |-> 0]
  /\ lastErr = [a \in Appends |-> FALSE]
  /\ result = [a \in Appends |-> "none"]
  /\ call = [c \in Callers |-> "idle"]
  /\ target = [c \in Callers |-> NoHost]
  /\ failed = [c \in Callers |-> FALSE]
  /\ stored = [h \in Targets |-> {}]
  /\ key \in Keys /\ todo = {}
  /\ values = [r \in {"query", "labels"} |-> {}]
  /\ due = [r \in {"query", "labels"} |-> {}]

\* The watch replaces the ring (module RingWatch).
RingUpdate ==
  /\ updates < MaxUpdates /\ updates' = updates + 1
  /\ ring' \in Rings \ {ring}
  /\ UNCHANGED <<clientVars, appendVars, callVars, stored, readVars>>

\* doRequest may fail, before or after the handler has run; without a host it
\* always does, and no handler runs.
doRequest(host, err) == host = NoHost => err

\* The handlers of an ingester: AppenderHandler takes samples in order until
\* one fails, QueryHandler answers with those of the metric, and
\* LabelValuesHandler with the values of a label, here the metric names.
AppenderHandler(batch, n) == {batch[k] : k \in 1 .. n}
QueryHandler(host) == {s \in stored[host] : Key(s) = key}
LabelValuesHandler(host) == {Key(s) : s \in stored[host]}
-----------------------------------------------------------------------------
\* getClientFor: a look under the read lock ...
Lookup(c) ==
  /\ call[c] = "lookup"
  /\ call' = [call EXCEPT ![c] = IF target[c] \in clients THEN "request" ELSE "create"]
  /\ UNCHANGED <<ringVars, clientVars, appendVars, target, failed, stored, readVars>>

\* Mutant: the map is not looked at again under the write lock.
MutCreate(c) ==
  /\ call[c] = "create"
  /\ clients' = clients \cup {target[c]}
  /\ made' = [made EXCEPT ![target[c]] = @ + 1]
  /\ call' = [call EXCEPT ![c] = "request"]
  /\ UNCHANGED <<ringVars, appendVars, target, failed, stored, readVars>>

\* ... and another, before a client is made, under the write lock.
Create(c) ==
  /\ call[c] = "create"
  /\ \/ /\ target[c] \in clients
        /\ call' = [call EXCEPT ![c] = "request"]
        /\ UNCHANGED <<clients, made, failed>>
     \/ /\ target[c] \notin clients
        /\ clients' = clients \cup {target[c]}
        /\ made' = [made EXCEPT ![target[c]] = @ + 1]
        /\ call' = [call EXCEPT ![c] = "request"]
        /\ UNCHANGED failed
     \/ /\ target[c] \notin clients      \* clientFactory fails
        /\ call' = [call EXCEPT ![c] = "answered"]
        /\ failed' = [failed EXCEPT ![c] = TRUE]
        /\ UNCHANGED <<clients, made>>
  /\ UNCHANGED <<ringVars, appendVars, target, stored, readVars>>
-----------------------------------------------------------------------------
AppendReturn(a, value) ==
  /\ pc' = [pc EXCEPT ![a] = "done"]
  /\ result' = [result EXCEPT ![a] = value]
  /\ UNCHANGED <<ringVars, clientVars, routed, samplesByIngester, received, lastErr,
                 callVars, stored, readVars>>

\* Append, with a user id in its context or without.
AppendBegin(a) ==
  /\ pc[a] = "start" /\ pc' = [pc EXCEPT ![a] = "route"]
  /\ UNCHANGED <<ringVars, clientVars, routed, samplesByIngester, received, lastErr,
                 result, callVars, stored, readVars>>
AppendRefused(a) == pc[a] = "start" /\ AppendReturn(a, "error")

\* Mutant: the sample is sent while the others are still being routed.
MutRoute(a) ==
  /\ pc[a] = "route" /\ routed[a] < Len(Batch[a]) /\ ring # Empty
  /\ routed' = [routed EXCEPT ![a] = @ + 1]
  /\ stored' = [stored EXCEPT ![ring.owner[Batch[a][routed[a] + 1]]] =
                  @ \cup {<<a, routed[a] + 1>>}]
  /\ UNCHANGED <<ringVars, clientVars, pc, samplesByIngester, received, lastErr, result,
                 callVars, readVars>>

\* One turn of the routing loop: ring.Get for one sample, or its error.
Route(a) ==
  /\ pc[a] = "route" /\ routed[a] < Len(Batch[a]) /\ ring # Empty
  /\ routed' = [routed EXCEPT ![a] = @ + 1]
  /\ samplesByIngester' =
       [samplesByIngester EXCEPT ![a][ring.owner[Batch[a][routed[a] + 1]]] =
          Append(@, <<a, routed[a] + 1>>)]
  /\ UNCHANGED <<ringVars, clientVars, pc, received, lastErr, result, callVars,
                 stored, readVars>>
RouteError(a) ==
  /\ pc[a] = "route" /\ routed[a] < Len(Batch[a]) /\ ring = Empty
  /\ AppendReturn(a, "error")

Groups(a) == {h \in Targets : samplesByIngester[a][h] # <<>>}

\* One goroutine per ingester.
Spawn(a) ==
  /\ pc[a] = "route" /\ routed[a] = Len(Batch[a])
  /\ pc' = [pc EXCEPT ![a] = "collect"]
  /\ call' = [c \in Callers |-> IF c[1] = a /\ c[2] \in Groups(a) THEN "lookup" ELSE call[c]]
  /\ target' = [c \in Callers |-> IF c[1] = a THEN c[2] ELSE target[c]]
  /\ UNCHANGED <<ringVars, clientVars, routed, samplesByIngester, received, lastErr,
                 result, failed, stored, readVars>>

\* sendSamples, once it has a client.
sendSamples(a, h) ==
  /\ call[<<a, h>>] = "request"
  /\ LET batch == samplesByIngester[a][h]
     IN  \E n \in 0 .. Len(batch), err \in BOOLEAN :
           /\ err \/ n = Len(batch)
           /\ doRequest(h, err) /\ (h = NoHost => n = 0)
           /\ stored' = [stored EXCEPT ![h] = @ \cup AppenderHandler(batch, n)]
           /\ failed' = [failed EXCEPT ![<<a, h>>] = err]
  /\ call' = [call EXCEPT ![<<a, h>>] = "answered"]
  /\ UNCHANGED <<ringVars, clientVars, appendVars, target, readVars>>

\* Mutants: an answer is counted more than once; only the last one counts.
MutReceiveAgain(a, h) ==
  /\ pc[a] = "collect" /\ call[<<a, h>>] = "answered"
  /\ received' = [received EXCEPT ![a] = @ + 1]
  /\ lastErr' = [lastErr EXCEPT ![a] = @ \/ failed[<<a, h>>]]
  /\ UNCHANGED <<ringVars, clientVars, pc, routed, samplesByIngester, result, callVars,
                 stored, readVars>>
MutReceive(a, h) ==
  /\ pc[a] = "collect" /\ call[<<a, h>>] = "answered"
  /\ call' = [call EXCEPT ![<<a, h>>] = "done"]
  /\ received' = [received EXCEPT ![a] = @ + 1]
  /\ lastErr' = [lastErr EXCEPT ![a] = failed[<<a, h>>]]
  /\ UNCHANGED <<ringVars, clientVars, pc, routed, samplesByIngester, result, target,
                 failed, stored, readVars>>

Receive(a, h) ==
  /\ pc[a] = "collect" /\ call[<<a, h>>] = "answered"
  /\ call' = [call EXCEPT ![<<a, h>>] = "done"]
  /\ received' = [received EXCEPT ![a] = @ + 1]
  /\ lastErr' = [lastErr EXCEPT ![a] = @ \/ failed[<<a, h>>]]
  /\ UNCHANGED <<ringVars, clientVars, pc, routed, samplesByIngester, result, target,
                 failed, stored, readVars>>

\* Mutant: an answer for every sample is waited for.
MutAppendDone(a) ==
  /\ pc[a] = "collect" /\ received[a] = Len(Batch[a])
  /\ AppendReturn(a, IF lastErr[a] THEN "error" ELSE "nil")

AppendDone(a) ==
  /\ pc[a] = "collect" /\ received[a] = Cardinality(Groups(a))
  /\ AppendReturn(a, IF lastErr[a] THEN "error" ELSE "nil")
-----------------------------------------------------------------------------
\* Samples of Appends that have returned nil, and the ingester they went to.
Acknowledged(h) == {s \in UNION {Samples(a) : a \in Appends} :
  /\ result[s[1]] = "nil"
  /\ \E k \in DOMAIN samplesByIngester[s[1]][h] : samplesByIngester[s[1]][h][k] = s}

\* Mutant: the query hashes something else than Append does.
MutQueryBegin ==
  /\ "query" \in Readers /\ call[Query] = "idle" /\ ring # Empty
  /\ target' = [target EXCEPT ![Query] = ring.owner[CHOOSE k \in Keys : k # key]]
  /\ call' = [call EXCEPT ![Query] = "lookup"]
  /\ due' = [due EXCEPT !["query"] =
               {s \in Acknowledged(ring.owner[key]) : Key(s) = key}]
  /\ UNCHANGED <<ringVars, clientVars, appendVars, failed, stored, key, todo, values>>

\* Query: ring.Get of the hash of user and metric name.
QueryBegin ==
  /\ "query" \in Readers /\ call[Query] = "idle" /\ ring # Empty
  /\ target' = [target EXCEPT ![Query] = ring.owner[key]]
  /\ call' = [call EXCEPT ![Query] = "lookup"]
  /\ due' = [due EXCEPT !["query"] =
               {s \in Acknowledged(ring.owner[key]) : Key(s) = key}]
  /\ UNCHANGED <<ringVars, clientVars, appendVars, failed, stored, key, todo, values>>

\* A context without user id, matchers without a metric name, an empty ring.
QueryRefused ==
  /\ "query" \in Readers /\ call[Query] = "idle"
  /\ call' = [call EXCEPT ![Query] = "answered"]
  /\ failed' = [failed EXCEPT ![Query] = TRUE]
  /\ UNCHANGED <<ringVars, clientVars, appendVars, target, stored, readVars>>

QueryAnswer ==
  /\ call[Query] = "request"
  /\ \E err \in BOOLEAN :
       /\ doRequest(target[Query], err)
       /\ failed' = [failed EXCEPT ![Query] = err]
       /\ values' = [values EXCEPT !["query"] =
            IF err THEN {} ELSE QueryHandler(target[Query])]
  /\ call' = [call EXCEPT ![Query] = "answered"]
  /\ UNCHANGED <<ringVars, clientVars, appendVars, target, stored, key, todo, due>>

\* LabelValuesForLabelName: ring.GetAll, then one ingester after the other.
LabelsBegin ==
  /\ "labels" \in Readers /\ call[Labels] = "idle"
  /\ todo' = ring.ingesters
  /\ call' = [call EXCEPT ![Labels] = "next"]
  /\ due' = [due EXCEPT !["labels"] =
               {Key(s) : s \in UNION {Acknowledged(h) : h \in ring.ingesters}}]
  /\ UNCHANGED <<ringVars, clientVars, appendVars, target, failed, stored, key, values>>

LabelsNext ==
  /\ call[Labels] = "next"
  /\ \/ \E h \in todo : /\ todo' = todo \ {h}
                        /\ target' = [target EXCEPT ![Labels] = h]
                        /\ call' = [call EXCEPT ![Labels] = "lookup"]
     \/ /\ todo = {} /\ call' = [call EXCEPT ![Labels] = "answered"]
        /\ UNCHANGED <<target, todo>>
  /\ UNCHANGED <<ringVars, clientVars, appendVars, failed, stored, key, values, due>>

\* Mutant: each answer replaces the ones before.
MutLabelsAnswer ==
  /\ call[Labels] = "request"
  /\ values' = [values EXCEPT !["labels"] = LabelValuesHandler(target[Labels])]
  /\ call' = [call EXCEPT ![Labels] = "next"]
  /\ UNCHANGED <<ringVars, clientVars, appendVars, target, failed, stored, key, todo, due>>

LabelsAnswer ==
  /\ call[Labels] = "request"
  /\ \/ /\ doRequest(target[Labels], FALSE)
        /\ values' = [values EXCEPT !["labels"] = @ \cup LabelValuesHandler(target[Labels])]
        /\ call' = [call EXCEPT ![Labels] = "next"]
        /\ UNCHANGED failed
     \/ /\ call' = [call EXCEPT ![Labels] = "answered"]
        /\ failed' = [failed EXCEPT ![Labels] = TRUE]
        /\ UNCHANGED values
  /\ UNCHANGED <<ringVars, clientVars, appendVars, target, stored, key, todo, due>>
-----------------------------------------------------------------------------
AppendStep(a) ==
  \/ AppendBegin(a) \/ AppendRefused(a) \/ Route(a) \/ RouteError(a) \/ Spawn(a)
  \/ AppendDone(a)
  \/ \E h \in Targets : sendSamples(a, h) \/ Receive(a, h)
ReadStep == QueryBegin \/ QueryRefused \/ QueryAnswer
            \/ LabelsBegin \/ LabelsNext \/ LabelsAnswer

Next == \/ RingUpdate
        \/ \E c \in Callers : Lookup(c) \/ Create(c)
        \/ \E a \in Appends : AppendStep(a)
        \/ ReadStep

Spec == Init /\ [][Next]_vars

\* Goroutines run, and requests come back within the client's timeout.
FairSpec == /\ Spec
            /\ \A a \in Appends : WF_vars(AppendStep(a))
            /\ \A c \in Callers : WF_vars(Lookup(c) \/ Create(c))
-----------------------------------------------------------------------------
TypeOK ==
  /\ ring \in Rings /\ updates \in 0 .. MaxUpdates
  /\ clients \subseteq Targets /\ made \in [Targets -> Nat]
  /\ pc \in [Appends -> {"start", "route", "collect", "done"}]
  /\ routed \in [Appends -> Nat]
  /\ \A a \in Appends : received[a] \in 0 .. Cardinality(Groups(a))
  /\ samplesByIngester \in [Appends -> [Targets -> Seq(Appends \X Nat)]]
  /\ lastErr \in [Appends -> BOOLEAN]
  /\ result \in [Appends -> {"none", "nil", "error"}]
  /\ call \in [Callers -> {"idle", "lookup", "create", "request", "answered", "next", "done"}]
  /\ target \in [Callers -> Targets] /\ failed \in [Callers -> BOOLEAN]
  /\ stored \in [Targets -> SUBSET (Appends \X Nat)]
  /\ key \in Keys /\ todo \subseteq Hosts
  /\ values \in [{"query", "labels"} -> SUBSET (Keys \cup (Appends \X Nat))]
  /\ due \in [{"query", "labels"} -> SUBSET (Keys \cup (Appends \X Nat))]

\* When Append returns nil, every one of its samples is held by an ingester,
\* however the ring changed between its samples and whatever failed.
NilMeansDelivered ==
  \A a \in Appends : result[a] = "nil" => Samples(a) \subseteq UNION {stored[h] : h \in Hosts}

\* When the ring turns out to be empty half way, Append has sent nothing.
AllOrNoneRouted ==
  \A a \in Appends : routed[a] < Len(Batch[a]) =>
    \A h \in Targets : Samples(a) \cap stored[h] = {}

\* Concurrent requests for a new ingester make one client (and connection
\* pool) for it, not one each.
OneClientPerHost == \A h \in Targets : made[h] <= 1

\* A query that succeeds returns every sample of its metric that Append
\* acknowledged before, from the ingester the ring still names: reads and
\* writes hash to the same ingester.
ReadYourWrites ==
  call[Query] = "answered" /\ ~failed[Query] => due["query"] \subseteq values["query"]

\* Label values are complete for the ingesters of the ring, or an error.
LabelsComplete ==
  call[Labels] = "answered" /\ ~failed[Labels] => due["labels"] \subseteq values["labels"]

\* Every Append returns.
AppendReturns == \A a \in Appends : pc[a] = "route" ~> pc[a] = "done"
=============================================================================
