---------------------------- MODULE SegmentIndex ----------------------------
(* What keeping segments promises about one market, on either backend, with *)
(* no refreshes, snapshots, transactions or locks: a window whose candles   *)
(* change is marked in the same step, and a window is indexed, and loses    *)
(* its mark, only under the candles it holds at that moment.                *)
EXTENDS Naturals

CONSTANTS Times, Span, Values, NoCandle, NoEntry

VARIABLES
    candles,    \* the candle at each open time, or NoCandle
    marked,     \* the windows that are dirty
    index       \* the name a window is indexed under, or NoEntry

vars == <<candles, marked, index>>

WindowOf(t) == t \div Span

Windows == {WindowOf(t) : t \in Times}

\* A window's candles, among these.
Content(cs, w) == [t \in {u \in Times : WindowOf(u) = w} |-> cs[t]]

\* The entry that is right for a window's candles: none without candles.
EntryFor(c) == IF \A t \in DOMAIN c : c[t] = NoCandle THEN NoEntry ELSE c

Init ==
    /\ candles \in [Times -> Values \cup {NoCandle}]
    /\ marked = {w \in Windows : EntryFor(Content(candles, w)) # NoEntry}
    /\ index = [w \in Windows |-> NoEntry]

Write ==
    /\ candles' \in [Times -> Values \cup {NoCandle}]
    /\ marked' \in SUBSET Windows
    /\ marked \subseteq marked'
    /\ \A w \in Windows \ marked' : Content(candles', w) = Content(candles, w)
    /\ UNCHANGED index

Publish(w) ==
    /\ w \in marked
    /\ marked' = marked \ {w}
    /\ index' = [index EXCEPT ![w] = EntryFor(Content(candles, w))]
    /\ UNCHANGED candles

Next == Write \/ \E w \in Windows : Publish(w)

Spec == Init /\ [][Next]_vars
=============================================================================
