# QuantForge in TLA+

A verification of QuantForge 0.2.0: TLA+ modules translated from the Rust
source, TLC runs that check them on small instances, and theorems that TLAPS
proves for every value of the constants. Source paths below are relative to
the crate's `src/`; `docs/` is the repository's.

- [The system](#the-system): components, state, operations, how they interact
- [What is hard](#what-is-hard)
- [Modules](#modules): which module models what, action by action
- [Runs](#runs): instances, bounds, fairness, results
- [Theorems](#theorems)
- [Findings](#findings)
- [Not modelled](#not-modelled)
- [Plan](#plan)

## The system

QuantForge is a command-line program around one SQLite file or one PostgreSQL
database. It syncs candles from an exchange, backtests strategies on them,
trades one market with one strategy per `trade run`, and packs candle history
into immutable, content-named *segments* for other instances. A futures
contract (ADR 0002) exists as types and state machines that nothing calls yet.

Several **processes** share a database: any number of `data sync`, one or more
`trade run`, the operator's `trade close`, `store bind`, `store adopt-run`, and
each may be killed at any point. They share **nothing but the database and the
exchange account**. Inside a process the engines are sequential; on PostgreSQL
a call hops to a runtime thread and back and may lose its answer on the way.

| Component | State it keeps | Operations | Correct when |
| --- | --- | --- | --- |
| Candle store (`storage/sqlite/candles.rs`, `storage/postgres/candles.rs`) | `candles` | upsert a batch and mark, in the same transaction, the windows it changed; read a range; read the newest n | a changed window is marked; transactions do not deadlock |
| Segments (`storage/refresh.rs`, `storage/*/segments`) | `segments`, `segment_index`, `segment_dirty` | refresh: for each dirty window below the tip read, pack, write back; resolve a range to a plan | an unmarked window is indexed under exactly its candles; a plan reads what is stored; every refresh ends, and leaves only what a writer changed meanwhile |
| Live engine (`engine/live`) | a row of `bot_runs`, in memory the strategy, the bars in hand, the order in hand | load or create, warm up, poll, hand bars to the strategy, submit, log, apply, save, finish, fail | what the venue executed is in the saved position; never buys twice; no bar lost or traded out of its time |
| `trade close` (`cli/trade/close.rs`) | its copy of the row | load, sell, log, save | as above, beside a running bot |
| Journal (`storage/*/journal*`) | `bot_runs`, `order_events`, `closed_trades` | create and save a run, append events, find the newest run of a market | a write whose answer is lost is never taken for a failure |
| Store record (`storage/*/control.rs`) | environment, identity, legacy runs | create, bind once, adopt a legacy run | bound at most once; adoption never loses a run's position |
| Migrations (`storage/*/migrate.rs`) | schema version | one step per transaction | each step is applied once, by one of several starting processes |
| Retry, busy wait, bridge (`storage/retry.rs`, `sqlite/wait.rs`, `postgres/bridge.rs`, `runner.rs`) | a deadline; a connection pool | run one transaction with a budget; retry a conflict; give up | only what certainly changed nothing is repeated; a lost answer is reported as unknown |
| Data sync (`engine/data_sync`) | where the next page starts; whether the last refresh failed | page through the exchange, store, refresh | the range asked for is stored, or the summary says what is missing |
| Backtest (`engine/backtest.rs`) | cash, position, trades, equity | bar by bar: strategy, target, fill, mark | equity is cash plus position; the final position is closed |
| Futures intent (`model/futures/intent*.rs`) | state, attempts | move, record an attempt, take an order, a fill, a refusal, a "not found" | the record says only what the venue's evidence proves |
| Futures cycle (`model/futures/{position,protection_state,coverage,accounting}.rs`) | protection state, recorded stop, close | open, record and verify a stop, remove, close, PnL | nothing is called protected or closed without evidence of this cycle |
| Exchange adapter, registry (`exchange/binance`, `exchange/registry.rs`) | none | public and signed requests, errors by kind; build a line's connectors | an unknown outcome is never called a refusal |
| Conformance suite (`exchange/conformance`) | what it bought | 18 checks of a connector, live or replayed | a connector is blamed for what it does and nothing else; what is bought is sold back |
| Bundles and versions (`protocol/`) | the walk over a directory | collect, check, write, read back, admit, negotiate | one archive per bundle; a directory makes the bundle its files make |
| Server (`server/`) | none | two read-only routes, a graceful stop | pure functions of their input |
| Settings, factory, command line (`storage/settings`, `cli/`) | none | read once at start | pure functions of their input |

How they meet: `data sync` and the live engine upsert candles; an upsert marks
windows; a refresh, run by `data sync` after a page, turns marks into index
entries; a job resolves a plan and then reads segments and the candle tail
while all of that goes on. The live engine reads its bars back from the candle
store, never from the exchange's answer. The run's row ties together the
engine, `trade close`, and `store adopt-run`.

## What is hard

`PROJECT.json` lists every hazard at its line with the properties that cover
it. In short:

- **Read, then write back.** A refresh reads a window in one transaction and
  writes it back in another; on PostgreSQL the write-back may also wait for a
  lock and go on with what the holder left.
- **Lost answers.** A commit or an order takes effect and the caller sees an
  error, or the process is killed before it sees anything.
- **Two writers of one row.** `trade close` writes back a copy it read before
  its own sell.
- **Where bars begin and end.** A new run must not trade the past, a resumed
  one must not skip what closed while it was down, and the newest bar of a page
  is still open.
- **Quantities at the edge.** Lot steps, market minima, fees kept in the base
  asset: what is left after a sell may be too small to ever sell.
- **What was read once and is used later:** a store's binding, a run's row, a
  position and the stop that should cover it, the size of a file.
- **Time limits that fire while the answer is on its way,** and what the server
  goes on to do when nobody waits any more.
- **Several commands starting at once** over a store of any age, and one of them
  killed between two migration steps.
- **Clocks that disagree:** a candle is closed on this host and not yet on the
  exchange.
- **Evidence that is late, repeated, out of order, or about someone else's
  order** (futures).
- **Checks that must not be fooled:** an archive built by someone else, a
  connector that is wrong in one small way, an outage in the middle of a check.
- **Everyone waiting on everyone:** row and mark locks of concurrent batches.

## Modules

    CandleReads          SegmentIndex              abstract: what is promised
         ^ refined by         ^ refined by
    SegmentStore  <-- EXTENDS -- SegmentStorePg    segments, SQLite / PostgreSQL
    SegmentStore  <-- EXTENDS -- SegmentPasses     what one refresh leaves behind

    StoreRecord                                    abstract: a store's own record
         ^ refined by
    StoreJournal                                   commands sharing a store
    StoreCalls                                     a call on PostgreSQL

    LiveRun                                        trade run and trade close
    DataSync                                       data sync
    Backtest                                       backtest, moving averages

    FuturesIdentity <- FuturesUnits <- FuturesCycle    a position cycle's record
    FuturesIdentity <- FuturesIntent                   one signal's intent record

    BinanceAdapter <- ExchangeRegistry <- Conformance  the exchange and its judge
    StrategyBundle                                 bundles, versions, admission

    SegmentProofs, StoreCallsProofs, StoreJournalProofs,           theorems
    LiveRunProofs, FuturesProofs (FuturesIntent and FuturesCycle),
    ResearchProofs (DataSync and Backtest), StrategyBundleProofs,
    ConformanceProofs
    MC<name>                                                       instances

(`A <- B`: B extends A.) Four MC modules host two modules
each: MCResearch DataSync and Backtest, MCEdges StrategyBundle and Conformance,
MCFutures the two futures records, MCWaits a bot and the calls of StoreCalls. A
behaviour is about one of the two, chosen at the start, so nothing of theirs is
multiplied.

Open times, bars and clocks are small naturals; a candle is a value of a small
set; a segment's name, in the code the hash of its bytes, is the window's
candles themselves, so two names are equal exactly when the candles are. Where a
constructor or a parser may fail, the operator is the set of what it returns:
one value, or none for an error.

### SegmentStore: segments on SQLite

One market. An action is one SQLite transaction or statement, because that is
where another process can come in between.

| Variable | In the code |
| --- | --- |
| `candles` | table `candles`: open time to value |
| `dirty` | table `segment_dirty`: a window's mark is its row id, new each time it is marked (`mark_dirty`) |
| `index` | table `segment_index`; the `segments` table is left out, since a name's row is inserted with the entry and never changes |
| `phase`, `task`, `snapshot` | locals of `refresh` and `build_window`: the tip window read once, the last window done, the window in hand, its tries, what was read of it |
| `plan` | a `SegmentPlan` and, once read, the candles of its tail |

| Action | Code |
| --- | --- |
| `Upsert` | `upsert_candles` with its marks, same transaction |
| `EmptyWindow` | no code deletes candles; the operator's repair that the conformance case `segments.emptied_window` describes |
| `BeginRefresh`, `FindDirty`, `FindNone` | `refresh`: `tip_window`, then `next_dirty` until none is left |
| `ReadWindow` | `read_window`: id, candles and entry in one transaction |
| `SkipWindow` | packing refuses a candle, or the mark is gone |
| `WriteWindow`, `WriteElsewhere`, `WriteMarked` | `write_window` answers Done, Elsewhere, Marked; a third Marked gives the window up |
| `WriteLost`, `FailRefresh` | the commit takes effect but its answer is lost; any `?` |
| `Resolve`, `ResolveEmpty`, `ReadTip`, `Release` | `resolve_segments`, then the job's own `load_candles` of the tail |

**CandleReads** is the abstract specification of a read by plan: a job that
asks for a range gets, for every open time, the candle stored at one of two
moments, when it was planned or when the tail was read, and nothing else.
`SegmentStore!PlansReadTheStore` is the refinement.

**SegmentPasses** adds a history variable, `changed`: the windows written or
marked since each refresh began. What a refresh owes its caller can only be said
against it (`PassPacks`), since `refresh` gives a busy window up and returns `Ok`
all the same.

### SegmentStorePg and SegmentIndex: the same on PostgreSQL

SegmentStorePg extends SegmentStore and replaces only the write steps. `tx`
holds each upsert's transaction: the batch, the rows locked so far, the windows
to mark, the marks locked so far. `BeginBatch`, `LockRow` (the upsert statement
locks row by row, in the order `Batch::of` sorted them), `LockMark` (the MARK
statement), `CommitBatch`, `AbortBatch` (an error or the bridge's deadline).
A write-back is `LockRevision`, `WaitForMark`, `FindRemarked`, `FindUnmarked`,
then `CommitWindow` or `CommitWindowLost`. Statements that waited go on with
what was committed meanwhile, as READ COMMITTED does: a write-back that waited
for a mark another write-back deleted finds no row (`"gone"`), even if a writer
has inserted a new mark since.

**SegmentIndex** is the abstract specification: a window whose candles change
is marked in the same step, and the index is only given a window's candles of
that moment. It knows no refreshes, revisions, or locks.
`SegmentStorePg!PublishesTheStore` is the refinement.

### LiveRun: `trade run` and `trade close`

One market, one run id. `pc` is the program counter of the bot and `cpc` that
of `trade close`; `mem` and `cmem` are their copies of the row. Bars are
numbered by their closing; `clock` is how many have closed, `stored` which ones
the candle store has.

| Action | Code |
| --- | --- |
| `LoadOrCreate`, `SaveBegin` | `load_or_create_run_state`, the first save |
| `BootstrapStart`, `WarmUp` | `run_inner` up to the loop: sync of `bootstrap_bars`, the newest bars to the strategy, a trade on the last only with `bootstrap_enter` |
| `Tick` | a bar has closed and settled; in between, `BootstrapStart` is asked for with a bar that is closed and not settled (`settling`) |
| `Poll`, `OnBar`, `MarkBar`, `Sleep` | the loop: sync, the bars after the last one processed, one `on_bar` each, the row saved after each |
| `SubmitEntry`, `SubmitExit` | `execute_target` up to the venue's answer: filled in part or in full, refused, lost, or without its quantity, fills or price |
| `LogOrder`, `ApplyEntry`, `ApplyExit`, `LogTrade` | the order event, the new position saved, the closed trade |
| `Finish`, `Fail`, `Crash` | `LiveTradeEngine::run`'s ends; a kill between any two steps |
| `CloseLoad` to `CloseLogTrade`, `CloseCrash` | `handle_trade_close`, in the same detail |

A journal write may fail, may take effect and report an error
(`OutcomeUnknown`), or work; `Faults` says which of these an instance has. The
ghosts `held`, `dust`, `astray`, `fed`, `twice`, `born` record what the
properties speak of and guard nothing.

`astray` marks the executions that the program itself leaves to the operator:
a kill between fill and save, an answer lost or without its quantity, a save
that failed twice, two processes driving one run. The code documents each (it
fails the run and asks for reconciliation), so PositionAccounted excludes
exactly those.

### FuturesIntent: the record of one signal

`intent` is `ExternalIntent` (kind, state, attempts) and `stored` what the
store has of it. Each method is an action: `MoveTo`, `RecordAttempt`,
`OnOrder`, `OnFill`, `OnRejection`, `EntryNotPlaced`. A call that returns an
error changes nothing and is no step. `Save` and `Load` go through `try_from`
(`Readable`).

Nothing calls the record yet, so its caller is *any* caller: it delivers any
report the venue ever made, as often and as late as it likes, and orders of
others too: `ForeignTexts` are client ids of another profile, store, operation or
leg, misspelled or too wide, and `Own` reads every id back from its text through
FuturesIdentity's `ParseOurs`. Two things are assumed of it, as ADR 0002 asks: an
order is sent only after its attempt is saved, and at the time the attempt
says. The venue (external) accepts, loses, turns down, fills in parts, cancels
or rejects each order, and tells the truth; "verified" means that past the
propagation delay an order is either visible or never will be, which is what
`OrderLookupGuarantee` says.

### StoreJournal and StoreRecord: commands sharing a store

Up to two commands at a time, of `Invocations`, on one store of any age, either
backend. A step is one transaction of the store, under the lock that `BEGIN
IMMEDIATE` or the advisory lock gives. `proc` is what each command has in hand,
`bot_runs` the runs' rows with what was saved and journalled under them, `log`
the migration log, `lock` its holder.

| Action | Code |
| --- | --- |
| `Start`, `BeginPass`, `TakeLock` | `init`: the version read before the lock, the lock |
| `PassCurrent`, `PassRefused`, `PassStep` | one pass of `ensure_current`: nothing to do; a newer or a foreign database; the next step of SQLite's five, or PostgreSQL's one, with its log entry |
| `ReadIdentity` | `cli/context.rs`: the environment read once, and kept |
| `Bind` | `bind`: an endpoint of the environment's kind, and an unbound store |
| `ListLegacy`, `AdoptRun` | `store adopt-run`: the states listed, the mode stated, the row taken over if it is still legacy |
| `LoadRun`, `CheckIdentity`, `CreateRun`, `SaveRun` | `engine/live/state.rs`: a run is loaded or created with its identity, checked, then driven |
| `LoadForClose` | `trade close` loads the row and checks it the same way |
| `AppendOrderEvent`, `AppendClosedTrade` | the journals; `ListOrderEvents`, `ListClosedTrades` are what can be read of them |
| `Leave`, `NewerBuild` | a command ends or is killed anywhere; a newer build migrates the store meanwhile |

A write may be made and its answer lost: `Answered` then stops the command. An
identity is a row's columns and read back from them, as the code does it. Schema 5
makes every run legacy, keeps its state beside, and rewrites the ids in states
and journals (`TextIds`, `Rebuilt`).

**StoreRecord** is the abstract specification: the schema moves forward by
logged steps (`Migrate`), the environment is bound once (`Bind`), a run has an
identity from its creation (`Create`), a legacy run gets one from the operator
once, in the environment the store is bound to (`Adopt`).
`StoreJournal!RecordSpec` is the refinement.

### StoreCalls: one call over PostgreSQL

Callers block while a job of theirs runs on the bridge (`postgres/bridge.rs`,
`runner.rs`) with a session of a small pool. `caller` is who waits and what they
were told, `job` the bridge's side, `session` each session with what the server
does in it, `applied` how often each caller's write was made.

| Action | Code |
| --- | --- |
| `Call`, `CallRefused`, `Resume`, `BudgetEnds` | `retry_conflicts` around a blocking call; the pause; the budget |
| `Watchdog` | the caller stops waiting for the bridge |
| `GetIdle`, `GetNew`, `GetFails` | the pool, a new session's checks |
| `Limit`, `LimitFails`, `Reset` | the session's limits, set before and reset after |
| `WorkEnds`, `WorkTimesOut` | the job's answer, or its deadline and the cancellation |
| `Commit`, `RollBack`, `Break`, `IdleEnds` | the server: with the answer or, once nobody waits, without |

There is no clock: a time limit is an action that may be taken whenever what it
limits goes on, so every race of a limit with an answer is there.

### DataSync: `data sync`

A range sync and a tail sync of one market, each on a host whose clock is off by
`drift`. A unit of time is how long a candle takes to settle (`Settle`).
`store` says of each candle whether it was final when it was stored, `dirty`
whether a refresh is owed.

| Action | Code |
| --- | --- |
| `Begin`, `BeginPass` | `run`: where it starts (a start that is not given is now), what "now" is, the effective end |
| `Answer`, `Fail` | the page the exchange answers, at some later moment; any `?` |
| `StorePage` | what is settled of a page, the upsert, and the next page or the end of the pass |
| `ReadNewest` | after the last page of a pass: the next pass starts after the newest candle of the store |
| `Pack` | the refresh: after the first pass, one that wrote, or one whose refresh failed (`Packs`) |
| `Tick` | time passes between any two steps |

### Backtest: `backtest` and the moving averages

`test` is the run, `account` its cash, quantity and trades, `equity` the marks,
the peak and the worst fall, `average` the two moving averages, `asked` the
history of decisions. `LoadBars` takes any of the histories the store may hold;
`OnBar` is one turn of the loop: fill what the bar before decided at this open,
mark, hand the bar to the strategy; `StrategyFails` and `Finish` end it. The
strategy is any, or `sma_cross`. Cash is counted in the parts that a fee divides
a quote into, so only the division of an entry rounds, as it does in the code.

### FuturesIdentity, FuturesUnits

The pure types of the futures contract: product lines, position keys, client
order ids with the reading of arbitrary text back (`ParseOurs`: layout, tag,
canonical base 36, widths, lengths); quantities in a family's unit, instruments
(`IsConsistent`, `InUniverse`), entry, close and stop orders, and the realized PnL
from its parts (`FromComponents`, `FromNet`, `Finalize`).

### FuturesCycle: the record of one position

`held`, `working`, `stop` are the account at the venue, `cycle` the record,
`snapshot`, `readback` the last reads of position and stop, which stay in hand
and are used as late as the caller likes, and as far apart. The operator places any
stop of `ByHand`: of either side, on each basis (`TriggerBasis`) or one the venue
does not report, for the whole position or a part. Ghosts: `later` (by how much the
position grew since it was read, whether it left its side, whether the stop was
changed since that was read), `filled`, `gone`, `charged`.

| Actions | Code |
| --- | --- |
| `SendEntry`, `FillEntry`, `PlaceStop`, `StopEnds`, `StopTriggers`, `CloseFills`, `Delist`, and the operator's `OperatorTrades`, `OperatorPlacesStop` | external: the venue and the hand beside it |
| `ReadPosition`, `ReadStop` | external: what a caller may have read, of this instrument or another |
| `Open`, `RecordStop`, `MoveProtection`, `Verified`, `Close`, `SetPnl` | `PositionCycle`'s methods of these names, with `CoveredStop`, `ProtectionState` and `RealizedPnl` |
| `Commanded`, `UserCancelled` | the two ways into `RemovedByOperator` |

A record method that returns an error changes nothing and is no step.

### BinanceAdapter, ExchangeRegistry, Conformance: the exchange and its judge

Without state of their own, the adapter and the registry are operators. A call
is an operator on the venue's answer to what it sent (`[status, error, json]`),
and comes to a value or to an error's kind: `Classify` and `ClassifyCode` are the
error table, `ParseOrder`, `ParseSymbolRules`, `ParseTrade` the shapes,
`KlinesRequest` the capped request, `IsProductionUrl` and `BuildConnectors` what
the registry's `Connect` builds.

`Conformance` runs the whole suite against a connector that is the adapter
itself over a Binance-like venue, or that adapter broken in one of 58 ways
(`lie`), on ten targets: live and replayed, on local and production hosts,
without credentials, without capabilities, with a clock that is off. `Judge` is
every check that ends where it started; the order lifecycle is `Prepare`, `Buy`,
`Inspect`, `SellBack`, because orders are out in between. On a live target any
request may meet an outage.

### StrategyBundle: from a directory to a server

The client walks a directory whose files may be rewritten (`Look` counts a file's
size, `Read` takes its bytes, `Rewrite` is the author), checks it and writes the
canonical tar (`Build`), learns the server's versions (`Discover`; `Upgrade` may
follow) and sends it (`Upload`), or anything else that is a damaged, reordered or
repeated form of it, or unchecked files (`UploadUnchecked`). The server reads the
archive back (`Receive`) and admits it against its runtime (`Admit`).

## Runs

All passing runs are exhaustive. "States" are distinct states.

| Run | Instance | Checks | States |
| --- | --- | --- | --- |
| `segment_race` | 2 windows of one open time; values a, b and one that cannot be packed; 2 refreshes; single-candle batches; a fresh store or an earlier release's | IndexedOrDirty, SnapshotCurrent | 167 512 |
| `segment_reads` | a window of two open times and two more, a range that cuts into the first; 1 refresh, 1 reader; fairness | RefreshEnds, PassPacks, PlansReadTheStore | 189 529 |
| `segment_pg` | 2 windows, 2 upserts of one batch over both that may repeat either open time, 2 refreshes, symmetric | NoCircularWait, PublishesTheStore | 459 765 |
| `live` | 3 bars, a store that may hold some, 2 starts, 2 orders; fills of 1 and 6 with a fee of 1, lot step 2, minimum 2, maximum 4 per sell, 1 foreign unit; warm-up of 2; every fault, kills, `trade close` | PositionAccounted, NeverDoubled, TradeHasEvent, RowBehindRun | 3 029 798 |
| `waits` | a bot with 3 bars before the run and 2 after, any of them stored, warm-up of 3, 2 starts, 1 order, failing requests, strategy and saves, kills, `trade close`; or 2 callers, a pool of 1, 3 sessions so that a lost one may still run; fairness | PastNeverTraded, DeliveredOnceWhenNew, KeepsUp; ToldTheTruth, NeverTwice, PoolIsClean, CallsEnd | 107 127 |
| `live_warmup` | 2 bars before the run and 1 after, warm-up of 2, no faults | WarmsUpOnAll: **violated** | |
| `live_resume` | 3 bars, 2 starts, no faults | DeliveredOnce: **violated** | |
| `futures` | an entry or an exit, 2 attempts, quantity 2, delay 2, retention 3, 5 ticks, 10 orders of others; or a position of an inverse perpetual and 4 listings that are inconsistent, of another venue or outside the universe, size 2, one entry side, 3 stops the operator may place | FilledIsExecuted, SettledIsOver, ExecutionCounts, EntrySentOnce; ProtectedWasCovered, ClosedWasGone, CanAlwaysClose, FinalIsWhole | 722 111 |
| `futures_record` | one attempt, one tick, `move_to(submitting)` allowed | RecordReadable: **violated** | |
| `research` | candles at 2, 4, 8 with a hole at 6; a range sync and a tail sync, clocks off by 1 either way, 5 ticks; 2 markets, 5 histories, averages of 1 and 2 | StoredIsFinal, CoversAlone, PackedWhenDone, FiguresAreTrue, TradesFollowDecisions, Rewarms | 457 311 |
| `store_journal` | 2 commands at a time, 3 starts, 1 run, 2 keys, 2 environments, 10 command lines (right ones and slips), both backends, stores of every age; fairness | LogIsTheWay, KeptAsRecorded, RecordSpec, StartupEnds | 337 470 |
| `edges` | 12 directories, 3 sets of limits, 3 runtimes, 4 version ranges, one rewrite; 10 targets, 58 ways to break the contract | OneArchive, ExtractsAnywhere, DirectoryAsFiles, JudgedRight | 192 788 |

The type invariants (`TypeOK`) hold too. Those of SegmentStore, LiveRun,
StoreCalls, StoreJournal, FuturesIntent, FuturesCycle and DataSync are theorems.

**Why the bounds are enough.**

- *Segments.* A refresh works window by window and never looks at two at once,
  so two windows give it one to work on and a tip; a third, in `segment_reads`,
  shows that the scan goes on past a window it gave up. Two refreshes and a
  writer are every kind of pair that can meet on a window; a third refresh would
  meet them in pairs. The values matter only through equality and packability.
  Mark ids are reused once no refresh holds them, which IdsAssumption states: ids
  are only ever compared with one a refresh holds, so three ids are enough for
  two refreshes. `Times`, `Span`, `Values`, `Ids` may be anything in the theorems.
- *PostgreSQL.* The tip window is never refreshed; it is there because
  deadlocks need two rows or two marks. Sending the batch again changes nothing
  but marks what it repeats, so marks go on appearing.
- *LiveRun.* A fill of 6 with step 2 and maximum 4 makes a sell partial and
  leaves a sellable rest; a fill of 1 under a fee of 1 leaves nothing; odd
  amounts leave dust. Two starts give one restart at any point; two orders an
  entry and its exit. A warm-up of three bars is the shortest that always takes in a
  settled one (`waits`), and two bars after it are one to deliver and one to
  repeat or to miss. The theorems lift `MaxBar`, `MaxStarts`, `MaxOrders`, `Warmup`
  and the quantities.
- *FuturesIntent.* An entry has one attempt; an exit's properties are about the
  latest attempt and an earlier one, so two are enough. Five ticks reach past
  delay and retention.
- *FuturesCycle.* Size 2 is what it takes to be covered in part, to be reduced
  and not gone, to grow between the two reads, and to be reversed. Quantities are in
  halves, so a contract count may fail to be whole. The operator's stops are one for a part
  on the index price, one whose basis is unreported, and QuantForge's own moved to the
  last price; a reversed position has each of them on the wrong side.
- *DataSync and Backtest.* One candle a page makes every page boundary a place
  for the other sync to come in; the hole is where a page starts beyond what it
  asked for. A unit of time is the settling delay, so a clock one unit off is
  exactly at the edge the code leaves. Five bars hold two entries, an exit and a
  position that is closed at the end.
- *Stores.* The identity checks compare a command with one row, and two commands
  are what can come between a check and a write. Three starts give a restart
  while another runs. PostgreSQL calls only meet in the pool, so one session
  that two callers want is the narrowest case.
- *Edges.* The directories were chosen so that each problem a check reports
  arises alone and beside another; sizes sit at, below and above each limit. A
  connector that breaks two rules is not tried.

**Deadlock** is checked in the segment runs. The others stop
for good when their bounds are used up or what they are about is over, so they do
not check it; that nobody waits for ever is CallsEnd and StartupEnds.

**Fairness.**

- `segment_reads`: a refresh, once called, goes on. It is a plain loop on its own
  thread that waits for no other refresh or writer beyond SQLite's bounded busy
  wait. Writers and faults are not fair: RefreshEnds holds beside a writer that
  marks for ever. Nothing is assumed of who calls it (`GoesOn` is the fair step, not
  `BeginRefresh`), because nothing makes anyone call: `data sync` does after its
  first pass, after one that wrote and after a refresh that failed
  (`engine/data_sync/mod.rs:106`), and `trade run` never does. A window given up as
  busy returns `Ok`, so on a market gone quiet it stays dirty until the next write or
  the next start of `data sync`, and plans read it from the candles meanwhile. So no
  property says that a quiet store gets packed; PassPacks says what one refresh owes.
- `waits`, the bot: a living one goes on; an HTTP request returns and a sleep ends. A
  request that never returns, which the client's missing timeout allows, is
  outside that assumption.
- `store_journal`: a command that opens a store makes its next pass, gets the
  migration lock once it stays free, and ends its transaction. Both backends wait
  for the lock; a wait that runs out refuses the command, which is `Leave`.
- `waits`, the calls: the bridge's threads run, the pause of a retry ends, and budgets
  run out. Nothing is asked of the server: it may never answer, and the limits
  that then end the job are the bridge's own.

**Mutants.** Each property of a passing run has a mutant in `PROJECT.json`: a
definition replaced by a plausible wrong version (a dropped comparison, an
off-by-one, a missing sort), kept beside the original with the word "Mutant",
under which TLC finds the property violated.

## Theorems

TLAPS proves these for every value of the constants that satisfies the named
assumptions in the modules; a bound of an instance is a constant like any other.
Each inductive invariant was checked by TLC on the module's instance before it
was proved. `TestSpec`, `BundleSpec`, `SuiteSpec`, `CallSpec` and
`CycleSpec` are Backtest, StrategyBundle, Conformance, StoreCalls and FuturesCycle by
themselves, without the module they share a run with.

| Theorem | States |
| --- | --- |
| `SegmentProofs!TypeCorrect`, `IndexCorrect`, `SnapshotCorrect` | `Spec => []` of TypeOK, IndexedOrDirty, SnapshotCurrent |
| `SegmentProofs!PassPacksAlways` | `PassSpec => PassPacks`, an action property |
| `SegmentProofs!PlansRefine` | `Spec => PlansReadTheStore`: reading by plan implements CandleReads |
| `SegmentProofs!PgIndexCorrect`, `NeverWaitsAround` | `PgSpec => []` of IndexedOrDirty, NoCircularWait |
| `SegmentProofs!PgPublishes`, `Publishes` | `PgSpec => PublishesTheStore`, `Spec => PublishesTheStore`: both backends implement SegmentIndex |
| `LiveRunProofs!TypeCorrect`, `PositionIsAccounted`, `NeverBuysTwice`, `TradesHaveEvents`, `RowStaysBehind`, `NewRunDeliversOnce` | `Spec => []` of TypeOK, PositionAccounted, NeverDoubled, TradeHasEvent, RowBehindRun, DeliveredOnceWhenNew |
| `LiveRunProofs!PastIsNeverTraded` | `Spec => []PastNeverTraded`, if `Warmup > 2` |
| `StoreCallsProofs!TypeCorrect`, `ToldTheTruthAlways`, `NeverTwiceAlways`, `PoolIsCleanAlways` | `CallSpec => []` of CallTypeOK, ToldTheTruth, NeverTwice, PoolIsClean |
| `StoreJournalProofs!TypeCorrect`, `LogIsTheWayAlways`, `KeptAsRecordedAlways` | `Spec => []` of TypeOK, LogIsTheWay, KeptAsRecorded |
| `StoreJournalProofs!RecordImplemented` | `Spec => RecordSpec`: the store implements StoreRecord |
| `FuturesProofs!ReadsOnlyItsOwn`, `ReadsBack`, `IdsFit` | a text is the id it is read as, an id that fits is read back, every id fits |
| `FuturesProofs!TypeCorrect`, `FilledIsExecutedAlways`, `SettledIsOverAlways`, `ExecutionCountsAlways`, `EntrySentOnceAlways` | `Spec => []` of TypeOK, FilledIsExecuted, SettledIsOver, ExecutionCounts, EntrySentOnce |
| `FuturesProofs!RecordReadableIfAttempted` | `Spec => []RecordReadable`, unless an intent may become submitting without an attempt |
| `FuturesProofs!CycleTypeCorrect`, `HeldCanClose`, `FinalPnlIsWhole` | `CycleSpec => []` of CycleTypeOK, CanAlwaysClose, FinalIsWhole |
| `FuturesProofs!ProtectedIsCovered`, `ClosedIsGone` | `CycleSpec =>` ProtectedWasCovered, ClosedWasGone, action properties |
| `ResearchProofs!TypeCorrect`, `PackedWhenDoneAlways`, `CoversAloneAlways` | `Spec => []` of TypeOK, PackedWhenDone, CoversAlone |
| `ResearchProofs!StoredIsFinalAlways` | `Spec => []StoredIsFinal`, if no clock is ahead by more than `Settle` |
| `ResearchProofs!TradesFollowAlways`, `FiguresAreTrueAlways`, `RewarmsAlways` | `TestSpec => []` of TradesFollowDecisions, FiguresAreTrue, Rewarms, of Backtest |
| `StrategyBundleProofs!ExtractsAnywhereAlways`, `DirectoryAsFilesAlways`, `OneArchiveAlways` | `BundleSpec => []` of ExtractsAnywhere, DirectoryAsFiles, OneArchive |
| `ConformanceProofs!JudgedRightAlways` | `SuiteSpec => []JudgedRight` |

### The arguments

**Segments.** IndexedOrDirty alone is not inductive: a write-back publishes
what a refresh read some steps ago. The invariant adds SnapshotCurrent, *while
the mark a refresh read is still in place, what it read is what is stored*.
A writer that changes the window puts another id in the mark, and FreshId
differs from every id a refresh of the window holds (the one fact about ids);
a write-back of another refresh removes the mark. So at the write-back either
the mark differs and nothing is published, or the snapshot is the window.

PassPacks follows the scan: each window below the tip that the refresh has passed is
packed, or cannot be packed, or was changed since it began (`Passed`, of those
before the one in hand and of all once none is left). A window it leaves marked is
one whose mark is not the one it read, so somebody has marked it since.

**Plans.** No window a plan names is dirty, so by IndexCorrect each is named by
its candles at that moment; what is left is read from `candles` itself. The
step simulation is by the reader's phase.

**PostgreSQL.** A batch's marks are no longer set in the step that changes the
candles, so a row a batch has locked must be as it found it until it commits
(`TxMarks`), and what a write-back may publish is settled while it holds the mark
(`Exclusive`, `PgSnapshotCurrent`: the mark it holds is the one it read, and no
other transaction's). NoCircularWait follows from `TxInOrder`, that rows come
before marks and each are locked in ascending order: of the transactions that
wait, the one that waits for the latest lock waits for one that has passed it.
SegmentIndex is implemented step by step: a commit is its write, a write-back its
publication, all else a stutter; `Published` shows a batch's rows only once it
commits.

**LiveRun.** PositionAccounted speaks of the moments between orders. `Accounted`
follows an order through submit, log and apply, with what is still to be added
or taken off at each stage (`Delta`); it needs `Alone`, that what is not left to
the operator was done by one process whose copy of the position is the row's,
and `Ordered` (bars are taken in order; `trade close`'s copy is no newer than
the row). NeverDoubled needs in addition that an order is only decided when its
target differs from the position's.

What the strategy is fed rests on `Ordered` too. `PastInv`: a row that has
processed a bar has processed all that had closed when it was created, since
the warm-up ends at the newest bar closed, and it never loses that when `trade
close` writes back an older copy. `OnceInv`: the first start has fed nothing
beyond its copy of the row but the bar it is on; DeliveredOnceWhenNew needs
no more. PastNeverTraded needs the warm-up to end at the newest bar settled, and so a
window of three bars: the one still forming is one of them, and in the second in
which a bar settles so is that one. With a shorter window it fails, as Findings say.

**StoreCalls.** ToldTheTruth speaks of a caller that has its answer. Before that
the invariant says where its operation is: in the one session its job holds, or
in a lost one once the caller can only be told "unknown"; a write that was made,
or must have been, is on its way to being told (`Holding`, `JobsServe`,
`SessionsAt`, `Answered`). NeverTwice is then that a retry is only begun with
`applied` at 0 and nothing running. The number of callers, sessions, and places
in the pool is any.

**StoreJournal.** KeptAsRecorded speaks of rows and of who drives them. `Fits`
says what a command relies on between two of its transactions: once past its
startup the schema has identities; the binding it read is the store's, or was
none; the row it loaded keeps its mode and an identity that is not legacy.
`KeptRow` adds that a legacy row has nothing saved or journalled for any account
yet, so adopting it makes nothing false. The refinement maps
a step to `Migrate`, `Bind`, `Create` or `Adopt` by what it changes of the record.

**FuturesIntent.** First the identifiers: base 36 has no two spellings of a
number without a leading zero, so what `ParseOurs` reads is the only text of the
id it gives. So an order of someone else is never taken for the record's own, and the
four properties follow from an invariant that ties the record's state to what
the venue knows of each attempt, and every report in hand, however old, to an
order that was at least that far. The same is said of the saved record, since
`Load` may bring it back at any time.

**FuturesCycle.** The record is written from reads that may be old, so the
invariant says of the reads in hand what still holds of them. `SinceRead`: unless it
has left its side, the position is at most what was read and what was filled since
(`later.grown`), and unless it was changed, the stop is the one that was read. So
what `Covers` finds of the two reads, number for number once the quantity's unit is
the instrument's (`UnitsAre`), bounds what the stop leaves bare now. `Past`: a filled
position is on its entry's side or has been gone, and a snapshot taken since the
fill shows another side only if it had; nothing undoes `gone`. CanAlwaysClose needs
only that a size makes a quantity of the instrument and that closing asks for
neither a listing nor a place in the universe. FinalIsWhole is of the fees: what
was charged in the settlement asset is in the components, or the PnL is pending.

**DataSync.** StoredIsFinal: a candle that the request's cutoff settles was
closed on the exchange when the request went out, so the answer has it as final
(`Asked`, `Paged`); that is where clocks enter. PackedWhenDone: if candles wait to be
packed, some sync that is not over, or whose refresh did not work, owes it
(`Owed`). CoversAlone: a sync that runs alone has all of its range up to where it
stands, and nothing it has not fetched is older than something stored
(`Gapless`), which is what makes it safe to go on after the newest candle of the
whole store.

**Backtest.** TradesFollowDecisions searches what the strategy was asked, by
times; the invariant ties each trade to the two bars it was entered and left at
(`TradesFollow`), and an open position to the bar before it, with nothing asked
since that would have sold it (`OpenFollows`). `BarsInOrder` is why a time names one
bar, so what was true of a bar stays true as more are handed over, and
`OneAnswerABar` why the bar an order is filled at is the next one.

FiguresAreTrue and Rewarms compare what the loop keeps a bar at a time with a fold
over all of it. A fold is first shown to be the last value of the function that
goes a place at a time (`IsFold`, `FoldExists`, `FoldRuns`); then the invariant
(`ReportInv`) carries it from bar to bar. Of the money: a trade that closes moves
its result, residue and both fees from the open trade to the closed ones. Of the
worst fall: the peak the loop keeps is the highest mark until then, so a new mark's
fall from it is the deepest that ends there. Of the averages: an average that has
been fed `n` closes holds the last `period` of them and their sum, a difference of
prefix sums, and the latter does not depend on where the feeding began.

**StrategyBundle.** `Collide` compares pairs of files, each with the other's
directories; ExtractsAnywhere speaks of all that is extracted, directories included.
The step between is about paths alone (`NothingMeets`): a directory is a strict prefix of
its file, so whatever file folds to the same name collides with that file. The
invariant is that a verdict stays true of what it was about (`TruthfullyTold`): the
walk is over when the client has its own, and the archive that was judged is the
one that is kept.

DirectoryAsFiles rests on `WalkInv`: what the walk found is what the directory
holds, but for what is still to be looked at and what was rewritten since; the size
it has counted is at most that of all it found, unless a file shrank after it was
counted; and it leaves a file unread only when the count broke a limit. So a
walk that stops early and a check of all the files refuse for the same limit.
OneArchive rests on `WireInv`, which says of the server's answer and of the client's
what each was given. The rest is about data. The order of paths is total, so a set of
files has one listing in order, and with it one tar; a list in order repeats
nothing; the sum of sizes does not depend on the order, so two sides that count in
different orders agree on the limit. That a built tar is never longer than a server
reads is the count of its blocks, file by file. Each of these is an induction, made
by going to the least counterexample, among numbers or finite sets.

**Conformance.** A check is a function of the lie, so most of JudgedRight is about
values: what each of the eighteen checks says of an honest connector
(`HonestVerdicts`), and that each of the 58 lies has one check (`Teller`) that does
not pass a connector telling it (`TellerTold`, `LifecycleTells`). For candles that is
arithmetic of bars: between any two times there is one run of them (`OpensAre`),
served from a start on or up to the end as far as the limit goes (`KlinesFrom`,
`KlinesLatest`), and the walk over pages is always a run of the window (`NextWalked`),
which a page makes longer. For errors it is the error table, code by code
(`RefusedNamed`); for rules the filters one after another (`ParsedIs`).

`SuiteInv` is what the suite's steps add. `TellingInv`: once the check its lie is told
in has been judged, a liar is caught, by a failure or by a check that could not be
judged, unless the lie is in a refusal only a replay can provoke. An outage cannot
undo it: it makes a check inconclusive, never passed. `FairInv`: no failure is an
honest connector's, but for a sale that left less than the least quantity. `StageInv`
is what the lifecycle relies on between its steps: nothing is held before the buy,
and from then on the order in hand is the one the venue filled, as the lie has it
(`Placed`), what is held is what it executed less the fee, and what the inspection
found is what the order says (`Inspected`). A passed inspection rules out every lie
about the order, so the quantity sold is the quantity held, to the step.

### What the theorems assume

- `GridAssumption` and its neighbours in SegmentStore: a grid of open times, marks
  that differ from those still held, batches of packable values. `WritersAssumption`:
  finitely many writers.
- `LiveRunAssumption`, `JournalAssumption`, `BoundsAssumption`: the constants have
  the types their comments name; command lines are ones that can be given.
- `ForeignAssumption`: nobody else uses a text that is one of this record's own ids.
  Texts that merely look like them are in.
- `CycleAssumption`: a listing has the fields of `InstrumentSpec`, consistent or not;
  no asset is called "pending", the word for a figure that is not reported; the
  operator's stops have a side, terms, a basis or none reported, and a scope.
- `SyncAssumption`: candles lie at least `Step` apart; what was stored before the
  first step had opened by the exchange's clock and by every host's.
- `Drifts` at most `Settle`, in StoredIsFinalAlways only: the code's settle time is
  its allowance for a clock ahead (`engine/data_sync/range.rs:11-15`).
- `BacktestAssumption`: the store's histories are finite sets of times, cash,
  fees and prices are integers, the fast window is shorter than the slow one.
- `BundleAssumption`: a directory is finitely many paths, sequences of names whose
  folding and place in the order are known; sizes and limits are natural numbers; a
  block has more than one byte; no file's text is the word for one not read yet.
- `SuiteAssumption`: the window has at least three bars, all settled and after the
  first, one request serves it and the pages reach its end; `Now` is not a bar's last
  instant, when a bar that closes as it is asked for is no lie, and has two digits, so
  a clock that drops one is far off; what is spent buys the least quantity and the
  fee; an account shows a trade before the suite stops polling. The lies are a fixed
  list, the same in the run and in the proof.
- `~BareSubmit`, in RecordReadableIfAttempted only: an intent becomes submitting by
  `record_attempt`, which moves it there itself (`intent.rs:125-126`).
- `Warmup > 2`, in PastIsNeverTraded only: `bootstrap_bars` of 0, 1 and 2 are accepted,
  and then the property is false over an old store, with 2 in one second of each bar.

### Only model-checked

- Liveness (RefreshEnds, KeepsUp, StartupEnds, CallsEnd): fairness
  and ENABLED are out of TLAPS's reach.

Every other property of a passing run is a theorem. Induction over data (base 36,
the first gap in a sync's range, folds, listings) is done without the library's
induction theorems, which take an operator as a parameter that no installed prover
can instantiate: a proof goes to the least counterexample, with
NatLessThanWellFounded or FS_StrictSubsetOrderingWellFounded and WFMin.

No module declares a RECURSIVE operator.

## Findings

Three are runs whose counterexample TLC finds:

1. **A resumed run delivers bars twice** (`live_resume`). `sdk/strategy.rs:48-49`
   promises `on_bar` each bar once, in order. On a resume the warm-up takes the
   newest bars, those that closed while the run was down included, and the loop
   then delivers them again (`engine/live/runner.rs:74-86`, `129-155`). A strategy
   with state has moved past a crossing when the bar that may trade on it comes.
2. **A record its own loader refuses** (`futures_record`).
   `ExternalIntent::move_to` lets an admitted intent become submitting without an
   attempt; saved, it cannot be loaded (`intent.rs:113`, `297-312`). It is the only
   way there: RecordReadableIfAttempted proves the property without that move, as
   NewRunDeliversOnce does DeliveredOnce of a run that is not resumed.
3. **A warm-up one bar short** (`live_warmup`). `CHANGELOG.md:120` has the bootstrap
   replay `--bootstrap-bars` *closed* bars, and `docs/configuration.md:93` calls them
   that. The window the code asks for, `now - bootstrap_bars * step`
   (`engine/live/runner.rs:34-46`), starts inside a bar, so one of its bars is the
   one still forming, which is held back; in the second in which a closed bar is
   settling it is two. Over a store that did not hold the bars before, the strategy
   warms up on 299 of 300. With `bootstrap_bars` of 1 (2, in that second) it gets
   nothing settled: over an old store the run takes the newest bar there for
   processed, and the poll loop trades every bar since, closed before the run was
   created as they are. PastNeverTraded is therefore of warm-ups of three or more.

Met while modelling, and why a property is stated the way it is:

- `docs/storage-schema.md:252-253` has the position saved before its event;
  `execute_target` and `trade close` append first (`execution.rs:127`,
  `close.rs:130`). A kill in between leaves an event the position does not count;
  the position is still never doubled.
- A command reads the store's binding once (`cli/context.rs:107`), so one that
  started on an unbound store goes on after another bound it, past the check of
  `context.rs:155-158`. KeptAsRecorded compares with what the command read.
- With two syncs of a market, a bounded one may end short of its range without a
  warning: its next page starts after the newest candle *anyone* stored
  (`engine/data_sync/mod.rs:127-129`, against the comment at 156-157). CoversAlone
  is of a sync that runs alone; NoSilentGap, in the module, is what fails.
- A flat snapshot from before the cycle's entry filled closes it: nothing
  compares its time with `opened_at_ms` (`model/futures/position.rs:195`).
  ClosedWasGone is of snapshots taken since.
- Position and stop are read apart, and nothing tells a caller of the record that
  the position was filled, or the stop changed, in between
  (`model/futures/coverage.rs:65`). ProtectedWasCovered bounds what is bare by what
  was filled since, and is silent once the stop was changed or the side left.
- A file that becomes smaller between its size being counted and its bytes being
  read can leave the last file of a directory unread, and the bundle is built
  without it (`protocol/bundle/dir.rs:81-98`; `docs/bundle-spec.md:82` has every
  file in). DirectoryAsFiles excludes exactly that.
- The conformance suite says it sells back what it buys
  (`conformance/mod.rs:66-67`). A buy whose answer is lost is not
  (`orders.rs:45-55`), nor one whose executed quantity the answer leaves out; a
  buy too thin to sell is reported as the connector's failure
  (`orders.rs:249-255`), though a thin book "says nothing about the connector"
  (299-300). And signed checks refused for a skewed clock are Failed
  (`support.rs:79-88`), where `mod.rs:166-168` calls that Inconclusive. JudgedRight
  names each.

## Not modelled

- **Bytes and texts:** segment payloads, JSON, SQL rows, TOML and tar bytes,
  signatures, command-line and settings parsing, printed reports. Sequential and
  covered by golden files and unit tests. The exceptions, where the text decides
  something, are modelled: client order ids, order of paths, tar sizes, versions.
- **Decimals** of an exchange's answers are taken to parse; prices and float
  arithmetic are left out where no property needs them, and the averages of
  Backtest run over integers.
- **Widths:** an epoch's 32 bits are made small (`MaxEpoch`), an operation's 64
  bits are limited only by the length of the id; `IsLocal` lists three hosts.
- **The dry run** of `trade run` and `trade close`: no order reaches a venue.
- **Busy wait:** SQLite's pauses between tries; its transactions come one after
  another.
- **Settings and factory, TLS roots:** read once at start.
- **Monitor commands and the server's two routes:** stateless. `monitor
  close-position` sells without touching the run's row; LiveRun sees it as an exit
  the venue refuses.
- **Streams and jobs** of the wire protocol: message types that nothing sends yet.
- **Test code that ships with the crate:** the storage suites, the race harness;
  scripts and spikes.
- **Databases, exchanges and libraries** are modelled by what the code relies on:
  SQLite's serialized transactions, PostgreSQL's row locks, READ COMMITTED
  re-checks and REPEATABLE READ snapshots, a session that may be lost, a venue
  that tells the truth about its orders.

`PROJECT.json` lists every component with its status and reason.

## Plan

The components are modelled, and every safety and action property of the passing
runs is a theorem, as are the refinements of SegmentIndex, CandleReads and
StoreRecord. What would add most, in order:

1. **The HTTP client's missing timeout** (`exchange/binance/client.rs:35`), the one
   hazard without a property: it needs a notion of an answer that never comes, and
   would make a finding of it.
2. **The two bounded parts of the inventory** nothing is said of yet: streams and
   jobs of the wire protocol, once something sends them, and the storage factory.
