--------------------------- MODULE MCSegmentStore ---------------------------
(* Instances of SegmentStore for TLC.                                       *)
EXTENDS SegmentStore

CONSTANTS a, b, bad

\* One open time per window: what a refresh does depends only on whole windows.
TwoWindows == 1..2

\* A first window of two open times, then one each.
TwoInTheFirst == {2, 3, 4, 6}

\* Every batch of one candle.
SingleBatches == UNION {[{t} -> Values \ Unpackable] : t \in Times}

CutRange == {<<3, 4>>}
NoRange == {}

FreshStore == [t \in Times |-> NoCandle]

\* An earlier release's store, whose first window cannot be packed.
LegacyStore == [t \in Times |-> IF \A u \in Times : t <= u THEN bad ELSE a]

FreshOrLegacy == {FreshStore, LegacyStore}
=============================================================================
