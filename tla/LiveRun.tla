------------------------------ MODULE LiveRun ------------------------------
(***************************************************************************)
(* The life of one live `trade run` (src/engine/live) on one market: its   *)
(* row in the run journal, the poll loop that feeds closed bars to the     *)
(* strategy, the market orders it sends, and the journal writes that       *)
(* follow each fill; beside it `trade close` (src/cli/trade/close.rs),     *)
(* another process that sells the run's position and writes the same row.  *)
(*                                                                         *)
(* Either process may be killed between any two steps and started again.   *)
(* The journal and the venue fail in the ways Faults names.  Dry runs,     *)
(* whose orders are made up locally, are not modelled.                     *)
(***************************************************************************)
EXTENDS Integers, FiniteSets

CONSTANTS
    Clock0,         \* bars closed when the system is first seen
    MaxBar,         \* bound: bars closed in all
    MaxStarts,      \* bound: starts of `trade run`
    MaxOrders,      \* bound: orders after which no new one is decided
    Warmup,         \* LiveTradeConfig::bootstrap_bars
    BootstrapEnter, \* LiveTradeConfig::bootstrap_enter
    Fills,          \* base quantities a market buy may execute
    Fee,            \* base quantity the venue keeps of a buy that executes
    Step,           \* lot step
    MinQty,         \* market-order minimum
    MaxQty,         \* market-order maximum
    Other,          \* base asset in the account that is not the run's
    Faults,         \* what may go wrong
    NoRow           \* the run was never created

FaultKinds == {"crash", "journal", "save", "fetch", "strategy", "refused",
               "lostreply", "unreported", "nofills", "unpriced", "unknown", "close"}

Bars == 1..MaxBar
Positions == [qty : Nat, priced : BOOLEAN]
Rows == [last : 0..MaxBar, pos : Positions,
         status : {"starting", "running", "stopped", "failed"}]
Deals == [id : Nat, got : Nat, said : BOOLEAN, fills : BOOLEAN, priced : BOOLEAN,
          logged : BOOLEAN]

ASSUME LiveRunAssumption ==
    /\ Clock0 \in Nat /\ MaxBar \in Nat /\ Clock0 <= MaxBar
    /\ MaxStarts \in Nat /\ MaxOrders \in Nat /\ NoRow \notin Rows
    /\ Warmup \in Nat /\ BootstrapEnter \in BOOLEAN
    /\ Fills \subseteq Nat /\ Fills # {} /\ Fee \in Nat
    /\ Step \in Nat \ {0} /\ MinQty \in Nat /\ MaxQty \in Nat /\ Other \in Nat
    /\ Faults \subseteq FaultKinds

VARIABLES
    clock,   \* bars 1..clock have closed and settled
    stored,  \* bars the candle store holds
    row,     \* the run's row in bot_runs: last bar processed, status, position
    events,  \* orders with an order-event row
    trades,  \* exit orders with a closed-trade row
    orders,  \* orders the venue executed so far; they are numbered from 1
    held,    \* base asset the run's orders left in the account (ghost)
    dust,    \* quantity written off as unsellable (ghost)
    astray,  \* an executed order was left for the operator to reconcile (ghost)
    starts,  \* starts of `trade run` so far
    born,    \* value of clock when the run was created (ghost)
    pc, mem, queue, target, deal,  \* `trade run`: step, its copy of the row,
                                   \* bars loaded, target wanted, order in hand
    fed, twice,    \* bars delivered to the strategy since on_start, and whether
                   \* one came after itself or a later one (ghosts)
    cpc, cmem, cdeal               \* `trade close`: step, copy, order in hand

journal == <<row, events, trades>>
venue == <<orders, held>>
bot == <<pc, mem, queue, target, deal, fed, twice>>
closer == <<cpc, cmem, cdeal>>
vars == <<clock, stored, journal, venue, dust, astray, starts, born, bot, closer>>

-----------------------------------------------------------------------------
(* Quantities and the records the two processes pass around                *)

Flat == [qty |-> 0, priced |-> FALSE]

\* A mutant of CurrentTarget: a position without an entry price reads as flat.
TargetByPrice(pos) == IF pos.priced THEN "long" ELSE "flat"

CurrentTarget(pos) == IF pos.qty > 0 THEN "long" ELSE "flat"

Lower(a, b) == IF a < b THEN a ELSE b
RoundDown(q) == q - (q % Step)
Free == Other + held
Sellable(pos) == RoundDown(Lower(Free, pos.qty))

\* Too small to be sold at all: no order could close it.
IsDust(q) == q > 0 /\ (RoundDown(q) = 0 \/ RoundDown(q) < MinQty)

\* The position once an exit closed part of it.
AfterExit(pos, closed) ==
    LET rest == pos.qty - closed
    IN IF rest > 0 /\ ~IsDust(rest) THEN [pos EXCEPT !.qty = rest] ELSE Flat

WrittenOff(pos, closed) == IF IsDust(pos.qty - closed) THEN pos.qty - closed ELSE 0

\* What may or may not work: a fault turns certainty into either outcome.
Works(fault) == IF fault \in Faults THEN BOOLEAN ELSE {TRUE}

\* A journal write: what its caller hears, and whether it was committed.  An
\* answer that is lost is an error to the caller (StorageError::OutcomeUnknown).
Writes(fault) ==
    {w \in [ok : Works(fault), lands : BOOLEAN] :
        w.ok # w.lands => w.lands /\ "unknown" \in Faults}

\* The response to an order: which order, what it executed, and which parts
\* of the answer are missing.  `logged` is kept once the event is appended.
NoDeal == [id |-> 0, got |-> 0, said |-> FALSE, fills |-> FALSE,
           priced |-> FALSE, logged |-> FALSE]
Answers(got) ==
    [id : {orders + 1}, got : {got}, said : Works("unreported"),
     fills : Works("nofills"), priced : Works("unpriced"), logged : {FALSE}]

\* The venue takes the fee of a buy out of what it bought.
Kept(got) == IF got > Fee THEN got - Fee ELSE 0

Executed(delta) == orders' = orders + 1 /\ held' = held + delta

Init ==
    /\ clock = Clock0
    /\ stored \in SUBSET (1..Clock0)
    /\ row = NoRow /\ events = {} /\ trades = {}
    /\ orders = 0 /\ held = 0 /\ dust = 0 /\ astray = FALSE
    /\ starts = 0 /\ born = 0
    /\ pc = "off" /\ mem = NoRow /\ queue = {} /\ target = "flat"
    /\ deal = NoDeal /\ fed = {} /\ twice = FALSE
    /\ cpc = "off" /\ cmem = NoRow /\ cdeal = NoDeal

-----------------------------------------------------------------------------
(* The market, and bars arriving in the store                              *)

Tick ==
    /\ clock < MaxBar
    /\ clock' = clock + 1
    /\ UNCHANGED <<stored, journal, venue, dust, astray, starts, born, bot, closer>>

\* sync_market_range: every settled bar from `start` on is stored; a request
\* that fails leaves what the pages before it stored.
Sync(start, ok) ==
    IF ok THEN stored' = stored \cup start..clock
          ELSE \E upto \in 0..clock : stored' = stored \cup start..upto

\* A query returns bars oldest first: the first and the last of a set of them.
IsNext(b, bars) == b \in bars /\ \A c \in bars : b <= c

IsLast(b, bars) == IF bars = {} THEN b = 0 ELSE b \in bars /\ \A c \in bars : c <= b

Newest(bars, n) == {b \in bars : Cardinality({c \in bars : c > b}) < n}

-----------------------------------------------------------------------------
(* `trade run`: creation, resumption, warm-up                              *)

FreshRow == [last |-> 0, status |-> "starting", pos |-> Flat]

\* load_or_create_run_state, then the symbol rules: a run whose rules cannot
\* be fetched ends here and its row stays as it was.
LoadOrCreate ==
    /\ pc = "off" /\ starts < MaxStarts
    /\ starts' = starts + 1
    /\ row' = IF row = NoRow THEN FreshRow ELSE row
    /\ born' = IF row = NoRow THEN clock ELSE born
    /\ \E ok \in Works("fetch") :
          /\ mem' = IF ok THEN row' ELSE NoRow
          /\ pc' = IF ok THEN "begin" ELSE "off"
    /\ astray' = (astray \/ cpc # "off")
    /\ UNCHANGED <<clock, stored, events, trades, venue, dust, queue, target, deal,
                   fed, twice, closer>>

SaveBegin ==
    /\ pc = "begin"
    /\ \E w \in Writes("save") :
          /\ row' = IF w.lands THEN mem ELSE row
          /\ pc' = IF w.ok THEN "warm" ELSE "fail"
    /\ UNCHANGED <<clock, stored, events, trades, venue, dust, astray, starts, born,
                   mem, queue, target, deal, fed, twice, closer>>

\* A mutant of BootstrapStart: one bar too far.
BootstrapStartLate(settling) ==
    LET first == clock - Warmup + (IF settling THEN 4 ELSE 3)
    IN IF mem.last # 0 THEN mem.last + 1 ELSE IF first > 1 THEN first ELSE 1

\* A run that processed none asks from Warmup intervals before now.  Now is
\* within bar clock + 1, which has yet to close, so the first bar to open since
\* is this one; in the second in which bar clock + 1 has closed and is still
\* settling, it is the next.
BootstrapStart(settling) ==
    LET first == clock - Warmup + (IF settling THEN 3 ELSE 2)
    IN IF mem.last # 0 THEN mem.last + 1 ELSE IF first > 1 THEN first ELSE 1

\* The warm-up's bars go to on_bar whatever the run has processed; only a
\* run that processed none takes its last bar and its signal from them.
WarmUp ==
    /\ pc = "warm"
    /\ \E ok \in Works("fetch"), runs \in Works("strategy"), want \in {"long", "flat"} :
          /\ \E settling \in BOOLEAN : Sync(BootstrapStart(settling), ok)
          /\ LET bars == Newest(stored', Warmup)
                 fresh == mem.last = 0
                 enter == /\ BootstrapEnter /\ fresh /\ bars # {}
                          /\ want # CurrentTarget(mem.pos)
             IN IF ok /\ runs
                THEN /\ enter => orders < MaxOrders
                     /\ fed' = bars
                     /\ \E last \in bars \cup {0} :
                           /\ IsLast(last, bars)
                           /\ mem' = IF fresh THEN [mem EXCEPT !.last = last,
                                                              !.status = "running"]
                                              ELSE mem
                     /\ target' = IF enter THEN want ELSE target
                     /\ pc' = IF enter THEN "order"
                              ELSE IF fresh THEN "mark" ELSE "poll"
                ELSE pc' = "fail" /\ UNCHANGED <<mem, target, fed>>
    /\ UNCHANGED <<clock, journal, venue, dust, astray, starts, born, queue, deal,
                   twice, closer>>

-----------------------------------------------------------------------------
(* `trade run`: the poll loop                                              *)

\* A run that has processed no bar asks from one interval ago, too late for
\* any bar that has settled.
\* A mutant of PollStart: one bar too far.
PollStartLate == IF mem.last = 0 THEN clock + 1 ELSE mem.last + 2

PollStart == IF mem.last = 0 THEN clock + 1 ELSE mem.last + 1

\* Mutants of Unprocessed: the last bar again; every stored bar again.
UnprocessedOrLast(bars) == {b \in bars : b >= mem.last}
UnprocessedOrNot(bars) == bars

Unprocessed(bars) == {b \in bars : b > mem.last}

Poll ==
    /\ pc = "poll"
    /\ \E ok \in Works("fetch") :
          /\ Sync(PollStart, ok)
          /\ queue' = IF ok THEN Unprocessed(stored') ELSE queue
          /\ pc' = IF ok THEN "bar" ELSE "fail"
    /\ UNCHANGED <<clock, journal, venue, dust, astray, starts, born, mem, target,
                   deal, fed, twice, closer>>

\* The strategy sees the next bar and asks for a target or, with None, for
\* what the run holds; a target it does not hold becomes an order.
Wanted(pos) == IF orders < MaxOrders THEN {"long", "flat"} ELSE {CurrentTarget(pos)}

OnBar ==
    /\ pc = "bar"
    /\ \E b \in queue :
          /\ IsNext(b, queue)
          /\ fed' = fed \cup {b}
          /\ twice' = (twice \/ \E c \in fed : b <= c)
    /\ \/ \E want \in Wanted(mem.pos) :
             /\ target' = want
             /\ pc' = IF want # CurrentTarget(mem.pos) THEN "order" ELSE "mark"
       \/ /\ "strategy" \in Faults
          /\ pc' = "fail"
          /\ UNCHANGED target
    /\ UNCHANGED <<clock, stored, journal, venue, dust, astray, starts, born, mem,
                   queue, deal, closer>>

\* The bar is processed once its row is saved; the warm-up, which queued
\* none, has set the copy already.
MarkBar ==
    /\ pc = "mark"
    /\ IF queue = {}
       THEN UNCHANGED <<mem, queue>>
       ELSE \E b \in queue :
               /\ IsNext(b, queue)
               /\ mem' = [mem EXCEPT !.last = b, !.status = "running"]
               /\ queue' = queue \ {b}
    /\ \E w \in Writes("save") :
          /\ row' = IF w.lands THEN mem' ELSE row
          /\ pc' = IF ~w.ok THEN "fail" ELSE IF queue = {} THEN "poll" ELSE "bar"
    /\ UNCHANGED <<clock, stored, events, trades, venue, dust, astray, starts, born,
                   target, deal, fed, twice, closer>>

Sleep ==
    /\ pc = "bar" /\ queue = {}
    /\ pc' \in {"poll", "finish"}    \* finish: max_loops, or Ctrl-C in the pause
    /\ UNCHANGED <<clock, stored, journal, venue, dust, astray, starts, born, mem,
                   queue, target, deal, fed, twice, closer>>

-----------------------------------------------------------------------------
(* `trade run`: execute_target                                             *)

\* A request that is refused executes nothing; one whose answer is lost has
\* executed, and all the run has is an error.
Refused ==
    /\ pc = "order" /\ "refused" \in Faults
    /\ pc' = "fail"
    /\ UNCHANGED <<clock, stored, journal, venue, dust, astray, starts, born, mem,
                   queue, target, deal, fed, twice, closer>>

Answered(got) ==
    \/ deal' \in Answers(got) /\ pc' = "log" /\ UNCHANGED astray
    \/ "lostreply" \in Faults /\ deal' = NoDeal /\ pc' = "fail" /\ astray' = TRUE

SubmitEntry ==
    /\ pc = "order" /\ target = "long"
    /\ \E got \in Fills : Executed(Kept(got)) /\ Answered(got)
    /\ UNCHANGED <<clock, stored, journal, dust, starts, born, mem, queue, target,
                   fed, twice, closer>>

\* An exit sells what is both free and the run's, in whole lots; nothing to
\* sell, or dust, is no order and no error.
SubmitExit ==
    /\ pc = "order" /\ target = "flat"
    /\ LET asked == Sellable(mem.pos)
       IN \/ /\ asked <= 0 \/ asked < MinQty
             /\ pc' = "mark"
             /\ UNCHANGED <<venue, astray, deal>>
          \/ /\ asked > 0 /\ asked >= MinQty /\ asked > MaxQty
             /\ pc' = "fail"
             /\ UNCHANGED <<venue, astray, deal>>
          \/ /\ asked > 0 /\ asked >= MinQty /\ asked <= MaxQty
             /\ \E got \in 0..asked : got % Step = 0 /\ Executed(-got) /\ Answered(got)
    /\ UNCHANGED <<clock, stored, journal, dust, starts, born, mem, queue, target,
                   fed, twice, closer>>

\* A mutant of LogOrder: the failure is dropped instead of kept back.
LogOrderLost ==
    /\ pc = "log"
    /\ \E w \in Writes("journal") :
          events' = IF w.lands THEN events \cup {deal.id} ELSE events
    /\ deal' = [deal EXCEPT !.logged = TRUE]
    /\ pc' = "apply"
    /\ UNCHANGED <<clock, stored, row, trades, venue, dust, astray, starts, born, mem,
                   queue, target, fed, twice, closer>>

\* append_order_event; its failure is kept back until the position is saved.
LogOrder ==
    /\ pc = "log"
    /\ \E w \in Writes("journal") :
          /\ events' = IF w.lands THEN events \cup {deal.id} ELSE events
          /\ deal' = [deal EXCEPT !.logged = w.ok]
    /\ pc' = "apply"
    /\ UNCHANGED <<clock, stored, row, trades, venue, dust, astray, starts, born, mem,
                   queue, target, fed, twice, closer>>

\* A mutant of Recorded: the kept-back failure is raised before the position.
RecordedIfLogged(pos, next) ==
    IF deal.logged
    THEN /\ mem' = [mem EXCEPT !.pos = pos, !.status = "running"]
         /\ \E w \in Writes("save") :
               /\ row' = IF w.lands THEN mem' ELSE row
               /\ pc' = IF w.ok THEN next ELSE "fail"
    ELSE UNCHANGED <<row, mem>> /\ pc' = "fail"

\* The order in hand changes the position, and the row is saved.
Recorded(pos, next) ==
    /\ mem' = [mem EXCEPT !.pos = pos, !.status = "running"]
    /\ \E w \in Writes("save") :
          /\ row' = IF w.lands THEN mem' ELSE row
          /\ pc' = IF w.ok THEN next ELSE "fail"

\* An order that moved nothing leaves the row alone.
Nothing == UNCHANGED <<row, mem>> /\ pc' = (IF deal.logged THEN "mark" ELSE "fail")

Unreported ==
    /\ ~deal.said
    /\ pc' = "fail"
    /\ astray' = TRUE
    /\ UNCHANGED <<row, mem, dust>>

Bought == IF deal.fills THEN Kept(deal.got) ELSE deal.got

ApplyEntry ==
    /\ pc = "apply" /\ target = "long"
    /\ \/ Unreported
       \/ /\ deal.said
          /\ IF Bought = 0
             THEN Nothing
             ELSE Recorded([qty |-> Bought, priced |-> deal.priced],
                           IF deal.logged THEN "mark" ELSE "fail")
          /\ UNCHANGED <<dust, astray>>
    /\ deal' = IF pc' = "trade" THEN deal ELSE NoDeal
    /\ UNCHANGED <<clock, stored, events, trades, venue, starts, born, queue, target,
                   fed, twice, closer>>

\* Prices that are missing fail the run after the position is saved, in place
\* of a trade row with an invented profit.
ApplyExit ==
    /\ pc = "apply" /\ target = "flat"
    /\ \/ Unreported
       \/ /\ deal.said
          /\ LET closed == Lower(deal.got, mem.pos.qty)
             IN IF closed = 0
                THEN Nothing /\ UNCHANGED dust
                ELSE /\ Recorded(AfterExit(mem.pos, closed),
                                 IF deal.logged /\ mem.pos.priced /\ deal.priced
                                 THEN "trade" ELSE "fail")
                     /\ dust' = dust + WrittenOff(mem.pos, closed)
          /\ UNCHANGED astray
    /\ deal' = IF pc' = "trade" THEN deal ELSE NoDeal
    /\ UNCHANGED <<clock, stored, events, trades, venue, starts, born, queue, target,
                   fed, twice, closer>>

LogTrade ==
    /\ pc = "trade"
    /\ \E w \in Writes("journal") :
          /\ trades' = IF w.lands THEN trades \cup {deal.id} ELSE trades
          /\ pc' = IF w.ok THEN "mark" ELSE "fail"
    /\ deal' = NoDeal
    /\ UNCHANGED <<clock, stored, row, events, venue, dust, astray, starts, born, mem,
                   queue, target, fed, twice, closer>>

-----------------------------------------------------------------------------
(* `trade run`: the two ends, and a kill                                   *)

\* A write of the position that did not reach the row, now or later.
Unsaved == pc \in {"log", "apply"} \/ (pc = "fail" /\ mem.pos # row.pos)

\* What a process held in memory ends with it.
Gone == /\ pc' = "off" /\ mem' = NoRow /\ queue' = {} /\ target' = "flat"
        /\ deal' = NoDeal /\ fed' = {} /\ twice' = FALSE

Finish ==
    /\ pc = "finish"
    /\ Gone
    /\ \E w \in Writes("save") :
          row' = IF w.lands THEN [mem EXCEPT !.status = "stopped"] ELSE row
    /\ UNCHANGED <<clock, stored, events, trades, venue, dust, astray, starts, born, closer>>

Fail ==
    /\ pc = "fail"
    /\ Gone
    /\ \E w \in Writes("save") :
          /\ row' = IF w.lands THEN [mem EXCEPT !.status = "failed"] ELSE row
          /\ astray' = (astray \/ (~w.ok /\ Unsaved))
    /\ UNCHANGED <<clock, stored, events, trades, venue, dust, starts, born, closer>>

Crash ==
    /\ pc # "off" /\ "crash" \in Faults
    /\ Gone
    /\ astray' = (astray \/ Unsaved)
    /\ UNCHANGED <<clock, stored, journal, venue, dust, starts, born, closer>>

-----------------------------------------------------------------------------
(* `trade close`: sell the run's position by hand                          *)

CloseLoad ==
    /\ cpc = "off" /\ "close" \in Faults
    /\ row # NoRow /\ orders < MaxOrders
    /\ cmem' = row
    /\ cpc' = "sell"
    /\ astray' = (astray \/ pc # "off")
    /\ UNCHANGED <<clock, stored, journal, venue, dust, starts, born, bot, cdeal>>

CloseGone == cpc' = "off" /\ cmem' = NoRow /\ cdeal' = NoDeal

\* Nothing to sell, a position without an entry price, a refusal by the
\* venue: no order, and the row stays.
CloseBail ==
    /\ cpc = "sell"
    /\ \/ Sellable(cmem.pos) <= 0
       \/ cmem.pos.qty > 0 /\ ~cmem.pos.priced
       \/ "refused" \in Faults
       \/ Sellable(cmem.pos) \notin MinQty..MaxQty
    /\ CloseGone
    /\ UNCHANGED <<clock, stored, journal, venue, dust, astray, starts, born, bot>>

CloseSell ==
    /\ cpc = "sell"
    /\ cmem.pos.qty > 0 => cmem.pos.priced
    /\ Sellable(cmem.pos) > 0 /\ Sellable(cmem.pos) \in MinQty..MaxQty
    /\ \E got \in 0..Sellable(cmem.pos) :
          /\ got % Step = 0
          /\ Executed(-got)
          /\ \/ /\ cdeal' \in Answers(got)
                /\ cpc' = "log"
                /\ UNCHANGED <<astray, cmem>>
             \/ /\ "lostreply" \in Faults
                /\ CloseGone
                /\ astray' = TRUE
    /\ UNCHANGED <<clock, stored, journal, dust, starts, born, bot>>

CloseLogOrder ==
    /\ cpc = "log"
    /\ \E w \in Writes("journal") :
          /\ events' = IF w.lands THEN events \cup {cdeal.id} ELSE events
          /\ IF cdeal.said
             THEN /\ cpc' = "apply"
                  /\ cdeal' = [cdeal EXCEPT !.logged = w.ok]
                  /\ UNCHANGED <<cmem, astray>>
             ELSE CloseGone /\ astray' = TRUE
    /\ UNCHANGED <<clock, stored, row, trades, venue, dust, starts, born, bot>>

\* The copy read at the start, less what was sold, replaces the whole row.
CloseApply ==
    /\ cpc = "apply"
    /\ LET closed == Lower(cdeal.got, cmem.pos.qty)
           left == AfterExit(cmem.pos, closed)
           next == [cmem EXCEPT !.pos = left,
                       !.status = IF left = Flat THEN "stopped" ELSE "running"]
       IN IF cdeal.got > 0 /\ cmem.pos.qty > 0
          THEN /\ dust' = dust + WrittenOff(cmem.pos, closed)
               /\ \E w \in Writes("save") :
                     /\ row' = IF w.lands THEN next ELSE row
                     /\ astray' = (astray \/ ~w.ok)
                     /\ IF w.ok /\ cdeal.logged /\ cdeal.priced
                        THEN cpc' = "trade" /\ UNCHANGED <<cmem, cdeal>>
                        ELSE CloseGone
          ELSE CloseGone /\ UNCHANGED <<row, dust, astray>>
    /\ UNCHANGED <<clock, stored, events, trades, venue, starts, born, bot>>

CloseLogTrade ==
    /\ cpc = "trade"
    /\ \E w \in Writes("journal") :
          trades' = IF w.lands THEN trades \cup {cdeal.id} ELSE trades
    /\ CloseGone
    /\ UNCHANGED <<clock, stored, row, events, venue, dust, astray, starts, born, bot>>

CloseCrash ==
    /\ cpc # "off" /\ "crash" \in Faults
    /\ CloseGone
    /\ astray' = (astray \/ cpc \in {"log", "apply"})
    /\ UNCHANGED <<clock, stored, journal, venue, dust, starts, born, bot>>

-----------------------------------------------------------------------------

BotStep ==
    \/ SaveBegin \/ WarmUp \/ Poll \/ OnBar \/ MarkBar \/ Sleep
    \/ Refused \/ SubmitEntry \/ SubmitExit \/ LogOrder
    \/ ApplyEntry \/ ApplyExit \/ LogTrade \/ Finish \/ Fail

CloseStep == CloseBail \/ CloseSell \/ CloseLogOrder \/ CloseApply \/ CloseLogTrade

Next == \/ Tick \/ LoadOrCreate \/ BotStep \/ Crash
        \/ CloseLoad \/ CloseStep \/ CloseCrash

Spec == Init /\ [][Next]_vars

\* The process runs on while it is alive: a request returns, a sleep ends.
FairSpec == Spec /\ WF_vars(BotStep)

-----------------------------------------------------------------------------
(* What must hold                                                          *)

\* Every variable keeps its type, the steps of both processes included.
TypeOK ==
    /\ clock \in 0..MaxBar /\ stored \subseteq Bars
    /\ row \in Rows \cup {NoRow} /\ mem \in Rows \cup {NoRow} /\ cmem \in Rows \cup {NoRow}
    /\ events \subseteq 1..orders /\ trades \subseteq 1..orders
    /\ orders \in Nat /\ held \in Int /\ dust \in Nat
    /\ astray \in BOOLEAN /\ starts \in 0..MaxStarts /\ born \in Nat
    /\ pc \in {"off", "begin", "warm", "poll", "bar", "order", "log", "apply",
               "trade", "mark", "finish", "fail"}
    /\ queue \subseteq Bars /\ target \in {"long", "flat"}
    /\ fed \subseteq Bars /\ twice \in BOOLEAN
    /\ deal \in Deals /\ cdeal \in Deals
    /\ cpc \in {"off", "sell", "log", "apply", "trade"}

InFlight == pc \in {"log", "apply", "fail"} \/ cpc \in {"log", "apply"}
Position == IF row = NoRow THEN 0 ELSE row.pos.qty

\* Every order the venue executed is in the saved position, or written off as
\* dust, whatever happened to the order-event and trade rows and however often
\* the run was restarted (execution.rs:123-126, storage-schema.md:250-256).
\* The exceptions are the ones the program hands to the operator: a kill
\* between the fill and the save, an answer lost or without its quantity, a
\* save that failed twice, or two processes driving the run.  A fill reported
\* without its fees is recorded gross, so the position may exceed what is held.
PositionAccounted ==
    ~astray /\ ~InFlight =>
        /\ held <= Position + dust
        /\ "nofills" \notin Faults => held = Position + dust

\* A restart, a replayed bar, or a failed write never makes the run buy on top
\* of a position: it holds at most one entry and the dust of earlier ones.
NeverDoubled ==
    ~astray => \E got \in Fills : held <= dust + Kept(got)

\* A closed trade has the event of the order that closed it: execute_target and
\* trade close give up before the trade row when the event was not appended.
TradeHasEvent == trades \subseteq events

\* The row a run left never runs ahead of the process driving it, even when
\* `trade close` writes back the older copy it read: no bar is lost to it.
RowBehindRun == pc # "off" => row.last <= mem.last

\* A run that warms up on three bars or more never trades on a bar that had
\* settled when the run was created, however old the store is: the warm-up
\* fetches the newest one, takes it for processed, and the loop starts after
\* it.  A shorter warm-up may fetch none, take an old bar of the store for the
\* last one, and then trade on every bar since.
PastNeverTraded ==
    pc = "order" => \A b \in queue : b > born

\* A run started for the first time hands the strategy each bar once, in order
\* (sdk/strategy.rs:48-49); a resumed one does not, see DeliveredOnce.
DeliveredOnceWhenNew ==
    starts = 1 => ~twice

\* "once per closed candle, in ascending open-time order; engines never deliver
\* a partial bar or the same bar twice" (sdk/strategy.rs:48-49).
DeliveredOnce == ~twice

\* "its bootstrap now replays `--bootstrap-bars` closed bars" (CHANGELOG.md:120;
\* docs/configuration.md:93): a run that warmed up has fed the strategy that
\* many bars, or all that had settled when it was created if they are fewer.
\* The code's window of bars includes the one still forming, which is held back.
WarmsUpOnAll ==
    pc \in {"order", "mark"} /\ queue = {} => Cardinality(fed) >= Lower(Warmup, born)

\* A running process hands the strategy every bar that closes, or ends: the
\* start of the next sync and of the next query skip none.
KeepsUp ==
    \A b \in Bars :
        (pc = "poll" /\ mem.last > 0 /\ mem.last < b /\ b <= clock)
            ~> (pc = "off" \/ b \in fed)
=============================================================================
