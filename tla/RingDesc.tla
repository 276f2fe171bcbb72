------------------------------ MODULE RingDesc ------------------------------
(***************************************************************************)
(* The ring descriptor shared through Consul (ring/model.go) and the       *)
(* operations that ingesters apply to it.                                  *)
(*                                                                         *)
(* The code keeps Desc.Tokens as a slice sorted by token value.  Such a    *)
(* slice is determined by giving, for each token value, the owners of that *)
(* value in slice order, which is how it is kept here; the slice           *)
(* algorithms themselves are in module RingList, which is checked to       *)
(* implement these operations.  A sorted []uint32 is likewise the number   *)
(* of times each value occurs in it.  IngesterDesc (hostname, heartbeat    *)
(* time) is fixed by the ingester as far as any reader of the ring can     *)
(* tell, so Desc.Ingesters is the set of its keys.                         *)
(***************************************************************************)
EXTENDS Naturals, Sequences, FiniteSets, Functions

CONSTANTS Ingesters,    \* ingester ids (hostnames)
          MaxToken,     \* stands for math.MaxUint32
          NumTokens     \* numTokens: tokens an ingester registers

ASSUME TokensAssumption == MaxToken \in Nat /\ NumTokens \in Nat \ {0}

Token == 0 .. MaxToken

TokenBag == [Token -> Nat]

Desc == [ingesters : SUBSET Ingesters, tokens : [Token -> Seq(Ingesters)]]

NoTokens == [t \in Token |-> 0]

newDesc == [ingesters |-> {}, tokens |-> [t \in Token |-> <<>>]]

\* Every order sort.Sort, which is not stable, may leave equal tokens in.
Reorderings(s) ==
  {[k \in DOMAIN s |-> s[p[k]]] : p \in Surjection(DOMAIN s, DOMAIN s)}

WithOwner(s, id, n) == s \o [k \in 1 .. n |-> id]

\* addIngester turns d into e: the tokens are appended and the slice sorted.
\* Tokens already there under the id are kept.
AddsIngester(d, id, tokens, e) ==
  /\ e.ingesters = d.ingesters \cup {id}
  /\ \A t \in Token :
       e.tokens[t] \in Reorderings(WithOwner(d.tokens[t], id, tokens[t]))

\* Every such result.
addIngester(d, id, tokens) ==
  LET Slots == UNION {Reorderings(WithOwner(d.tokens[t], id, tokens[t])) :
                        t \in Token}
  IN  {e \in [ingesters : {d.ingesters \cup {id}}, tokens : [Token -> Slots]] :
         AddsIngester(d, id, tokens, e)}

\* Mutant: the tokens are kept.
MutRemoveNoTokens(d, id, tokens) ==
  [ingesters |-> d.ingesters \ {id}, tokens |-> d.tokens]

\* removeIngester drops, for each of the given tokens, the first entry with
\* that value, whoever owns it.
removeIngester(d, id, tokens) ==
  [ingesters |-> d.ingesters \ {id},
   tokens    |-> [t \in Token |->
                    SubSeq(d.tokens[t], tokens[t] + 1, Len(d.tokens[t]))]]

\* Ingester i has an entry with token t.
Owns(d, i, t) == \E k \in DOMAIN d.tokens[t] : d.tokens[t][k] = i

takenTokens(d) == {t \in Token : d.tokens[t] # <<>>}

\* What is left of a slice of tokens once it is sorted.
Sorted(draws) ==
  [t \in Token |-> Cardinality({k \in DOMAIN draws : draws[k] = t})]

\* Mutant: no check against the ring.
MutGenerateTokens(numTokens, taken) ==
  {Sorted(draws) : draws \in [1 .. numTokens -> Token]}

\* Random tokens, none of them taken; the same one may be drawn twice.
generateTokens(numTokens, taken) ==
  {Sorted(draws) : draws \in [1 .. numTokens -> Token \ taken]}
=============================================================================
