---------------------------- MODULE MCChunkRead -----------------------------
(* Instances of ChunkRead for TLC: the first chunk lies in hour 1, the second
   in hours 1 and 2.  Label 1 is a prefix of label 2, and value 1 of value 2. *)
EXTENDS ChunkRead

MCHours == <<{1}, {1, 2}>>
MCMetric == <<<<2, 1>>, <<1, 1>>>>
MCExtensions == <<{2}, {}>>

Is(label, value) == [name |-> label, equal |-> TRUE, values |-> {value}]
In(label, values) == [name |-> label, equal |-> FALSE, values |-> values]

NameOnly == {<<>>}
MCQueries == {<<>>, <<Is(1, 1), Is(2, 1)>>,
              <<In(1, {1}), Is(2, 1), In(2, {1, 2})>>}
=============================================================================
