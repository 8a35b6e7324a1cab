----------------------------- MODULE MCResearch -----------------------------
(* What the operator does with one market's candles: syncs them, two syncs  *)
(* at once, or backtests on what is stored.  A backtest reads the store     *)
(* once, when it starts, so it runs on any of its histories by itself.      *)
EXTENDS DataSync, Backtest

Cfg(start, end, follow) == [start |-> start, end |-> end, follow |-> follow]

\* The candles open at 2, 4, 6 and 8; the exchange never had the one at 6.
MCListed == {2, 4, 8}

MCDrifts == {-1, 1}

MCConfigs ==
    "range" :> {Cfg(2, 5, FALSE), Cfg(2, 8, TRUE), Cfg(6, 6, FALSE)}
      @@ "tail" :> {Cfg(Never, Never, TRUE)}

\* Up, down and back, an entry that rounds either way, and an open at zero.
Prices(opens, closes) == [c \in {2, 4, 6, 8, 10} |-> [open |-> opens[c \div 2], close |-> closes[c \div 2]]]

MCMarkets ==
    {Prices(<<5, 7, 3, 6, 4>>, <<7, 3, 6, 4, 5>>), Prices(<<3, 0, 4, 4, 9>>, <<2, 4, 5, 9, 1>>)}

MCHistories == {{}, {2}, {2, 4, 6, 8}, {2, 4, 8, 10}, {2, 4, 6, 8, 10}}

MCInit == Init /\ TestInit

MCNext ==
    \/ test.step = "idle" /\ Next /\ UNCHANGED testVars
    \/ (\A s \in Syncs : At(s, "off")) /\ time = Time0 /\ TestNext /\ UNCHANGED vars

MCSpec == MCInit /\ [][MCNext]_<<vars, testVars>>
=============================================================================
