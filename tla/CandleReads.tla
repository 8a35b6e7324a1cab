----------------------------- MODULE CandleReads -----------------------------
(* What reading a range of history by a plan promises, with no windows,     *)
(* marks, index or segments: a job reads every open time of its range from  *)
(* the store at a moment of its own.  It takes some of them as it begins    *)
(* (what the plan packed) and the rest at one later moment (the tip), and   *)
(* never a value the store had stopped holding before it began.             *)
EXTENDS Naturals

CONSTANTS Times, Values, NoCandle, Readers

VARIABLES
    candles,    \* the candle at each open time, or NoCandle
    job         \* the open times a reader asked for, and what it has of them

vars == <<candles, job>>

Idle == [wants |-> {}, has |-> [t \in {} |-> NoCandle]]

Asked(first, last) == {t \in Times : first <= t /\ t <= last}

\* What a reader has once it has also taken the candles at these open times.
Taking(has, ts) ==
    [t \in DOMAIN has \cup ts |-> IF t \in DOMAIN has THEN has[t] ELSE candles[t]]

Init ==
    /\ candles \in [Times -> Values \cup {NoCandle}]
    /\ job = [p \in Readers |-> Idle]

Write ==
    /\ candles' \in [Times -> Values \cup {NoCandle}]
    /\ UNCHANGED job

Begin(p) ==
    \E first, last \in Times :
      \E now \in SUBSET Asked(first, last) :
        /\ job[p] = Idle
        /\ job' = [job EXCEPT ![p] = [wants |-> Asked(first, last),
                                      has |-> Taking(Idle.has, now)]]
        /\ UNCHANGED candles

Complete(p) ==
    /\ job' = [job EXCEPT ![p].has = Taking(job[p].has, job[p].wants)]
    /\ UNCHANGED candles

End(p) ==
    /\ DOMAIN job[p].has = job[p].wants
    /\ job' = [job EXCEPT ![p] = Idle]
    /\ UNCHANGED candles

Next == Write \/ \E p \in Readers : Begin(p) \/ Complete(p) \/ End(p)

Spec == Init /\ [][Next]_vars
=============================================================================
