-------------------------- MODULE MCSegmentStorePg --------------------------
(* Instances of SegmentStorePg for TLC.                                     *)
EXTENDS SegmentStorePg, TLC

CONSTANTS a, b, x1, x2, r1, r2

TwoWindows == 1..2
NoRange == {}

\* A batch over both windows; sent again it changes nothing but what it repeats.
OneBatch == {[t \in Times |-> b]}

Written == {[t \in Times |-> a]}

Alike == Permutations({x1, x2}) \cup Permutations({r1, r2})
=============================================================================
