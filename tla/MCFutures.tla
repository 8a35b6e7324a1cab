----------------------------- MODULE MCFutures -----------------------------
(* The two records of the futures contract, one run being about either: a   *)
(* signal's intent, or the position its entry opens.                        *)
EXTENDS MCFuturesIntent, MCFuturesCycle

VARIABLE topic

futuresVars == <<topic, vars, cycleVars>>

\* The part a behaviour is not about stays at a start of its own.
NoPosition == CycleInit
NoIntent == Init /\ intent = NewRecord("entry")

FuturesInit ==
    \/ topic = "intent" /\ Init /\ NoPosition
    \/ topic = "position" /\ CycleInit /\ NoIntent

FuturesNext ==
    \/ topic = "intent" /\ Next /\ UNCHANGED <<topic, cycleVars>>
    \/ topic = "position" /\ CycleNext /\ UNCHANGED <<topic, vars>>

FuturesSpec == FuturesInit /\ [][FuturesNext]_futuresVars
=============================================================================
