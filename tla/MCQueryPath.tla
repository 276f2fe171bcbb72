---------------------------- MODULE MCQueryPath -----------------------------
(* Instances of QueryPath for TLC. *)
EXTENDS QueryPath

CONSTANTS u1, u2, s1, s2

\* Two series of one user, without queries.
OneUser == [owner |-> [fp \in Series |-> u1], requests |-> {}, readers |-> {},
            samples |-> {<<s1, 1>>, <<s1, 2>>, <<s1, 3>>, <<s2, 1>>}]

\* A series each of two users, one of which also reads.
TwoUsers == [owner |-> [fp \in Series |-> IF fp = s1 THEN u1 ELSE u2], requests |-> {},
             readers |-> {u2}, samples |-> {<<s1, 1>>, <<s1, 2>>, <<s2, 1>>}]

Request(kind, start, end, step) ==
  [kind |-> kind, start |-> start, end |-> end, step |-> step, user |-> u1,
   hasUser |-> TRUE, parses |-> TRUE, braced |-> TRUE]

\* Steps are in half ticks.  The second one asks for as many points as the limit lets
\* pass in whole ticks, the third, with a step of a tick and a half, gets five, the
\* fourth can not end; the next three are refused, or panic.
Requests ==
  {Request("query", 3, 3, 0), Request("query_range", 1, 3, 2), Request("query_range", 1, 5, 3),
   Request("query_range", 3, 3, 1), Request("query_range", 1, 5, 2), Request("query_range", 1, 2, 0),
   [Request("query", 2, 2, 0) EXCEPT !.hasUser = FALSE],
   [Request("query", 3, 3, 0) EXCEPT !.braced = FALSE]}

\* A series that is queried.
Queried == [OneUser EXCEPT !.samples = {<<s1, 1>>, <<s1, 3>>}, !.requests = Requests]

TheLoads == {OneUser, TwoUsers, Queried}
=============================================================================
