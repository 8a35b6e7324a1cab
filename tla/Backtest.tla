------------------------------ MODULE Backtest ------------------------------
(* A backtest (engine/backtest.rs): stored candles replayed through a       *)
(* strategy, each decision filled at the next bar's open.  The strategy is  *)
(* any, or the moving averages' crossing (sdk/builtin/sma_cross.rs).  A lot *)
(* is the last digit of a quantity; cash counts the parts of a lot's quote  *)
(* that a fee divides it into, so that only an entry's division rounds.     *)
EXTENDS Integers, FiniteSets, Sequences, SequencesExt

CONSTANTS Cash0, Parts, Fees,  \* the cash, the parts of one, the fees in parts
          Markets,             \* each candle's open and close, as the market may go
          Histories,           \* the sets of candles a query may load
          Fast, Slow           \* the averages' windows

ASSUME BacktestAssumption ==
    /\ Cash0 \in Nat \ {0} /\ Parts \in Nat \ {0} /\ Fees \subseteq Nat
    /\ Fast \in Nat \ {0} /\ Slow \in Nat /\ Fast < Slow
    /\ \A candles \in Histories :
          /\ candles \subseteq Nat /\ IsFiniteSet(candles)
          /\ \A market \in Markets, time \in candles :
                market[time].open \in Int /\ market[time].close \in Int

VARIABLES test,    \* the run: its inputs, and where its loop is
          account, \* its cash, quantity, open trade and closed trades
          equity,  \* each bar's mark, and of them the peak and the worst fall
          average, \* the two moving averages
          asked    \* history: each bar's decision

testVars == <<test, account, equity, average, asked>>

NoTrade == << >>
Decisions == {"none", "long", "flat"}

-----------------------------------------------------------------------------
(* Moving averages.                                                         *)

NoValues == [sum |-> 0, values |-> << >>]

\* Mutant: the value that leaves the window stays in the sum.
UpdatedKeepsSum(sma, window, input) ==
    LET values == Append(sma.values, input)
    IN [sum |-> sma.sum + input, values |-> IF Len(values) > window THEN Tail(values) ELSE values]

Updated(sma, window, input) ==
    LET values == Append(sma.values, input)
    IN IF Len(values) > window
         THEN [sum |-> sma.sum + input - Head(values), values |-> Tail(values)]
         ELSE [sum |-> sma.sum + input, values |-> values]

BothUpdated(both, close) ==
    [fast |-> Updated(both.fast, Fast, close), slow |-> Updated(both.slow, Slow, close)]

\* Long while the fast average is above the slow one, flat while below.
Crossing(both) ==
    LET fast == both.fast.sum * Slow
        slow == both.slow.sum * Fast
    IN IF Len(both.fast.values) < Fast \/ Len(both.slow.values) < Slow THEN "none"
       ELSE CASE fast > slow -> "long"
              [] fast < slow -> "flat"
              [] OTHER -> "none"

\* A strategy that just started, fed these closes.
Fed(closes) == FoldLeft(BothUpdated, [fast |-> NoValues, slow |-> NoValues], closes)

-----------------------------------------------------------------------------
(* The account.                                                             *)

Marked(acc, price) == acc.cash + acc.qty * price * Parts

\* To the nearest lot: it may come out above the cash.
Rounded(n, d) == (2 * n + d) \div (2 * d)

Entered(acc, price, fee, when) ==
    LET cost == price * (Parts + fee)
        qty == Rounded(acc.cash, cost)
    IN [acc EXCEPT !.cash = @ - qty * cost, !.qty = qty,
                   !.open = [entered |-> when, price |-> price, qty |-> qty, before |-> acc.cash]]

\* Mutant: a trade is booked without its entry's fee.
PnlSinceEntry(acc, after) == after - acc.cash - acc.open.qty * acc.open.price * Parts

Pnl(acc, after) == after - acc.open.before

Exited(acc, price, fee, when) ==
    LET after == acc.cash + acc.qty * price * (Parts - fee)
        trade == [entered |-> acc.open.entered, exited |-> when, entry |-> acc.open.price,
                  exit |-> price, pnl |-> Pnl(acc, after)]
    IN [cash |-> after, qty |-> 0, open |-> NoTrade, trades |-> Append(acc.trades, trade)]

\* What is held already, and an entry without cash or at no price, do nothing.
Executed(acc, target, price, fee, when) ==
    CASE target = "flat" /\ acc.qty > 0 -> Exited(acc, price, fee, when)
      [] target = "long" /\ acc.qty <= 0 /\ acc.cash > 0 /\ price > 0
           -> Entered(acc, price, fee, when)
      [] OTHER -> acc

-----------------------------------------------------------------------------
(* The run.                                                                 *)

\* Mutant: a decision fills at the close of the bar.
FillPriceAtClose(bar) == bar.close

FillPrice(bar) == bar.open

PeakOf(peak, mark) == IF mark > peak THEN mark ELSE peak

\* The fall of a mark from the peak, as a fraction of it.
Marks(eq, mark) ==
    LET peak == PeakOf(eq.peak, mark)
        fall == peak - mark
    IN [marks |-> Append(eq.marks, mark), peak |-> peak,
        worst |-> IF fall * eq.worst.of > eq.worst.fall * peak
                  THEN [fall |-> fall, of |-> peak] ELSE eq.worst]

OldestFirst(candles) ==
    {times \in [1..Cardinality(candles) -> candles] :
        \A i, j \in DOMAIN times : i < j => times[i] < times[j]}

\* The store's candles, oldest first; the query, the flags and the strategy.
LoadBars ==
    /\ test.step = "idle"
    /\ \E candles \in Histories, market \in Markets, fee \in Fees :
       \E strategy \in {"any", "sma"}, closeOut \in BOOLEAN :
       \E times \in OldestFirst(candles) :
         LET bars == [i \in DOMAIN times |->
                        [time |-> times[i], open |-> market[times[i]].open,
                         close |-> market[times[i]].close]]
         IN test' = IF candles = {} THEN [step |-> "refused"]
                    ELSE [step |-> "bar", bars |-> bars, done |-> 0, fee |-> fee,
                          strategy |-> strategy, closeOut |-> closeOut, pending |-> "none"]
    /\ UNCHANGED <<account, equity, average, asked>>

Account0 == [cash |-> Cash0, qty |-> 0, open |-> NoTrade, trades |-> << >>]
Equity0 == [marks |-> << >>, peak |-> 0, worst |-> [fall |-> 0, of |-> 1]]

\* A callback's error ends the run, and nothing of it is left.
StrategyFails ==
    /\ test.step = "bar"
    /\ test' = [step |-> "refused"]
    /\ account' = Account0 /\ equity' = Equity0 /\ average' = Fed(<< >>) /\ asked' = << >>

OnBar ==
    /\ test.step = "bar"
    /\ test.done < Len(test.bars)
    /\ LET bar == test.bars[test.done + 1]
           acc == Executed(account, test.pending, FillPrice(bar), test.fee, bar.time)
           both == BothUpdated(average, bar.close)
       IN /\ account' = acc
          /\ equity' = Marks(equity, Marked(acc, bar.close))
          /\ \E decision \in IF test.strategy = "sma" THEN {Crossing(both)} ELSE Decisions :
               /\ test' = [test EXCEPT !.done = @ + 1, !.pending = decision]
               /\ asked' = Append(asked, decision)
          /\ average' = both

\* The position left is sold at the last close, as that bar ends, or only
\* valued there.
Finish ==
    /\ test.step = "bar"
    /\ test.done = Len(test.bars)
    /\ LET last == Last(test.bars)
       IN account' = IF test.closeOut
                       THEN Executed(account, "flat", last.close, test.fee, last.time + 1) ELSE account
    /\ test' = [test EXCEPT !.step = "done"]
    /\ UNCHANGED <<equity, average, asked>>

TestInit ==
    /\ test = [step |-> "idle"]
    /\ account = Account0 /\ equity = Equity0 /\ average = Fed(<< >>) /\ asked = << >>

TestNext == LoadBars \/ StrategyFails \/ OnBar \/ Finish

TestSpec == TestInit /\ [][TestNext]_testVars

-----------------------------------------------------------------------------
(* Properties.                                                              *)

\* The cash to begin with and what the closed trades made.
Booked(trades) == FoldLeft(LAMBDA sum, trade : sum + trade.pnl, Cash0, trades)

\* Every change of the cash is a closed trade's result, or the open trade's
\* cost: both fees and the residue of an entry's rounding are in exactly one.
Accounted ==
    LET open == account.open
    IN IF open = NoTrade THEN account.cash = Booked(account.trades)
       ELSE /\ open.before = Booked(account.trades)
            /\ account.cash + open.qty * open.price * (Parts + test.fee) = Booked(account.trades)

\* The worst fall is that of a mark from the highest until then, over all marks.
DrawdownIsWorstFall ==
    LET marks == equity.marks
        worst == equity.worst
        pairs == {p \in (DOMAIN marks) \X (DOMAIN marks) :
                    p[1] <= p[2] /\ \A i \in 1..p[2] : marks[i] <= marks[p[1]]}
    IN /\ \A p \in pairs :
            (marks[p[1]] - marks[p[2]]) * worst.of <= worst.fall * marks[p[1]]
       /\ worst.fall = 0 \/ \E p \in pairs :
            (marks[p[1]] - marks[p[2]]) * worst.of = worst.fall * marks[p[1]]

\* What the report says of the money and of the risk is what happened
\* (engine/backtest.rs:384-439, 267-282).
FiguresAreTrue == Accounted /\ DrawdownIsWorstFall

BarAt(time) == CHOOSE i \in DOMAIN test.bars : test.bars[i].time = time

\* Each trade fills decisions the strategy made on the bar before, at an open it
\* had not seen; what the last bar asks never fills, and a trade spans no exit.
TradesFollowDecisions ==
    LET Entry(when, price) ==
            LET k == BarAt(when)
            IN k > 1 /\ asked[k - 1] = "long" /\ price = test.bars[k].open
        Exit(trade) ==
            LET k == BarAt(trade.entered)
                atEnd == trade.exited > Last(test.bars).time
                m == IF atEnd THEN Len(test.bars) + 1 ELSE BarAt(trade.exited)
            IN /\ k < m /\ \A i \in k..(m - 2) : asked[i] # "flat"
               /\ IF atEnd THEN trade.exit = Last(test.bars).close
                  ELSE asked[m - 1] = "flat" /\ trade.exit = test.bars[m].open
    IN /\ \A i \in DOMAIN account.trades :
            /\ Entry(account.trades[i].entered, account.trades[i].entry)
            /\ Exit(account.trades[i])
       /\ account.open # NoTrade => Entry(account.open.entered, account.open.price)

\* A strategy that started anew and was fed the last bars of the slow window
\* stands where one that ran from the first bar stands: a live run that restarts
\* and replays recent bars decides as it would have.
Rewarms ==
    test.step = "bar" =>
        LET closes == [i \in 1..test.done |-> test.bars[i].close]
            recent == SubSeq(closes, IF Len(closes) > Slow THEN Len(closes) - Slow + 1 ELSE 1,
                             Len(closes))
        IN average = Fed(recent)
=============================================================================
