------------------------------ MODULE MCSpool ------------------------------
(***************************************************************************)
(* Instances of Spool for TLC.  A record takes its content's cells and one *)
(* for the newline, so records of different lengths put a stale position   *)
(* in the middle of one.                                                   *)
(***************************************************************************)
EXTENDS Spool

CONSTANTS e1, e2, e3

TwoEvents == {e1, e2}
ThreeEvents == {e1, e2, e3}

\* e1 is short, e2 spans two lines or is long, e3 is short.
Lengths == [e \in Events |-> IF e = e2 THEN 3 ELSE 2]
Twos == [e \in Events |-> 2]

MultiLineE2 == {e2}
NoMultiLine == {}

=============================================================================
