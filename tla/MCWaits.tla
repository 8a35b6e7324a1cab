------------------------------ MODULE MCWaits ------------------------------
(* Those who wait: a bot for the next bar, from request to request, and a   *)
(* process for the answer of the store.  One run is about either.           *)
EXTENDS MCLiveRun, StoreCalls

VARIABLE topic

\* A bot that is not started, for the runs about calls.
NoBot == Init /\ stored = {}

WaitsInit ==
    \/ topic = "bot" /\ Init /\ CallInit
    \/ topic = "calls" /\ NoBot /\ CallInit

WaitsNext ==
    \/ topic = "bot" /\ Next /\ UNCHANGED <<topic, callVars>>
    \/ topic = "calls" /\ CallNext /\ UNCHANGED <<topic, vars>>

WaitsSpec ==
    /\ WaitsInit /\ [][WaitsNext]_<<topic, vars, callVars>>
    /\ WF_vars(BotStep) /\ CallFairness
=============================================================================
