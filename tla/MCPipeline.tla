----------------------------- MODULE MCPipeline -----------------------------
(***************************************************************************)
(* Instances of Pipeline for TLC.  i2 is larger than the others, so a batch *)
(* of two may or may not have room for it.                                 *)
(***************************************************************************)
EXTENDS Pipeline, TLC

CONSTANTS i1, i2, i3, w1, w2, s1, fb, flush, stop

ThreeItems == {i1, i2, i3}
TwoItems == {i1, i2}
Sizes == [i \in Items |-> IF i = i2 THEN 2 ELSE 1]
NoItems == {}

OneWorker == {w1}
TwoWorkers == {w1, w2}
OneSink == {s1}
WithFallback == {fb}
NoFallback == {}
NoSinks == {}
Both == {flush, stop}
FlushOnly == {flush}
StopOnly == {stop}
NoCallers == {}

SameSize == Permutations({i1, i3})

=============================================================================
