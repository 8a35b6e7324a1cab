----------------------------- MODULE Conformance -----------------------------
(***************************************************************************)
(* The conformance suite: every check, in the report's order, run against  *)
(* one exchange connector.  The connector is the Binance adapter over a    *)
(* Binance-like venue, or that adapter broken in one way, its lie.  A      *)
(* check is judged in one step, but for the order lifecycle, which buys,   *)
(* inspects and sells back.  On a live target any request may meet a fault *)
(* of the environment, the book may be too thin, and the local clock off.  *)
(*                                                                         *)
(* Times and sizes are small: a bar is Step long, the window WindowBars,   *)
(* a page Page bars.  An absent value is {}, a present one {v}.            *)
(***************************************************************************)
EXTENDS ExchangeRegistry

CONSTANTS
    Targets,    \* [env, exchange, host, short, caps, keys, drift]
    Step, Now, FirstBar, Ancient, AncientBars, FutureBars,
    WindowBars, SettledBars, Page, MaxPages, Latest, AnyLimit,
    MaxDrift,   \* what the suite accepts the local clock to be off by,
    RecvWindow, \* and what the venue does
    Notional, Multiple, LotStep, MinQty, BaseFee,
    Funds,      \* what the account's free quote balance may be
    Partial,    \* what a thin book may execute of the buy
    Polls, Lags \* how often the suite polls, and how late an account shows a trade

ASSUME SuiteAssumption ==
    /\ {Step, Now, FirstBar, Ancient, AncientBars, FutureBars, WindowBars, SettledBars, Page, MaxPages,
        Latest, MaxLimit, AnyLimit} \subseteq Nat
    \* Now a reader of milliseconds can tell from seconds, and inside a bar.
    /\ Now \in 10..99 /\ Step > 1 /\ Now % Step < Step - 1
    \* The stretch before the first bar, and then the window, with a bar before it.
    /\ Ancient + AncientBars * Step < FirstBar
    /\ FirstBar <= Now - (Now % Step) - (SettledBars + WindowBars) * Step
    /\ SettledBars > 0 /\ FutureBars > 0 /\ Latest > 0
    \* One request serves the window, and the pages are enough for it.
    /\ WindowBars \in 3..MaxLimit /\ AnyLimit > MaxLimit
    /\ Page \in 1..MaxLimit /\ WindowBars <= MaxPages * Page
    /\ {MaxDrift, RecvWindow} \subseteq Int
    /\ \A t \in Targets : t.env \in {"live", "replay"} /\ t.drift \in Int
    \* What is bought in full can be sold back.
    /\ {Notional, Multiple, LotStep, MinQty, BaseFee} \subseteq Nat \ {0}
    /\ MinQty <= 100 /\ MinQty % LotStep = 0 /\ MinQty + BaseFee <= Notional * Multiple
    /\ Funds \subseteq Int /\ Partial \subseteq Nat
    \* An account shows a trade before the suite stops polling.
    /\ Polls \in Nat \ {0} /\ Lags \subseteq 0..(Polls - 1)

None == "none"

\* The ways a connector breaks the contract.
CandleLies ==
    {"off_grid", "close_now", "off_tick", "prices_mixed", "inexact", "over_limit", "newest_first",
     "future_bar", "start_exclusive", "end_exclusive", "repeats", "gap_stops", "limit_refused"}
ClockLies == {"clock_in_seconds", "clock_back"}
RuleLies == {"zero_limit", "no_notional", "min_over_max", "no_step", "no_tick", "other_symbol"}
RefusalLies ==
    {"below_notional", "off_step", "beyond_balance", "unlisted_klines", "unlisted_rules", "unknown_query",
     "unknown_cancel", "rejected_key", "too_late", "too_early", "over_weight", "banned", "firewall",
     "order_rate", "not_processed", "overloaded", "failing", "order_timeout", "retry_code",
     "wrong_shape", "not_json"}
OrderLies ==
    {"unfilled", "no_executed", "no_quote", "no_fills", "fills_short", "fee_hidden", "no_trade_id",
     "no_order_id", "no_time", "other_client_id", "query_differs", "client_query_differs", "still_open",
     "cancel_accepted", "no_trades", "sell_short"}
Lies == CandleLies \cup ClockLies \cup RuleLies \cup RefusalLies \cup OrderLies

CheckOrder ==
    <<"server_time", "candle_normalization", "closed_bars", "kline_bounds", "kline_paging", "kline_gaps",
      "symbol_rules", "lifecycle", "rule_violations", "insufficient_balance", "unknown_symbol",
      "unknown_order", "unauthorized", "clock_skew", "rate_limited", "unavailable", "outcome_unknown",
      "malformed_response">>

Scripted == {"clock_skew", "rate_limited", "unavailable", "outcome_unknown", "malformed_response"}
Signed == Scripted \cup {"lifecycle", "rule_violations", "insufficient_balance", "unknown_order"}

Needs(check) ==
    CASE check \in {"server_time", "closed_bars", "kline_bounds", "kline_paging", "kline_gaps"} -> {"time"}
      [] check = "candle_normalization" -> {"time", "rules"}
      [] check = "symbol_rules" -> {"rules"}
      [] check = "lifecycle" -> {"time", "rules", "by_quote", "by_base"}
      [] check = "rule_violations" -> {"rules", "by_quote", "by_base"}
      [] check = "insufficient_balance" -> {"rules", "by_quote"}
      [] check = "unknown_order" -> {"time", "client_ids"}
      [] check \in {"rate_limited", "outcome_unknown"} -> {"by_quote"}
      [] OTHER -> {}

VARIABLES target, lie, report, life, held

suiteVars == <<target, lie, report, life, held>>

NoReport == [told |-> 0, outcomes |-> {}, lifecycle |-> None]

Live == target.env = "live"
Check == CheckOrder[report.told + 1]
Running == report.told < Len(CheckOrder)

\* Loopback addresses and localhost, which alone may be replayed.
IsLocal(host) == Lowered(host) \in {<<"localhost">>, <<"127.0.0.1">>, <<"::1">>}

(* refusal: what a target is refused for before its connectors are built.   *)
MustNotRun == (target.env = "replay" /\ ~IsLocal(target.host)) \/ ~target.short

\* The connectors the target's factory builds with some credentials.
FactoryBuilt(credentials) ==
    {[connectors EXCEPT !.capabilities = @ \cap target.caps] :
        connectors \in Connect(target.exchange, [host |-> target.host, credentials |-> credentials])}

(* missing_capability: what the check needs and the exchange lacks.         *)
Missing(check, connectors) == Needs(check) \ connectors.capabilities

\* Before anything is sent.
Gate(check) ==
    IF MustNotRun \/ \A connectors \in FactoryBuilt(target.keys) : connectors.production THEN "failed"
    ELSE IF \A connectors \in FactoryBuilt(target.keys) : Missing(check, connectors) # {} THEN "unsupported"
    ELSE IF check \in Scripted /\ Live THEN "replay_only"
    ELSE IF check \in Signed /\ UNION {SignedHalf(c) : c \in FactoryBuilt(target.keys)} = {} THEN "no_credentials"
    ELSE "run"

Told(condition) == IF condition THEN "passed" ELSE "failed"

-----------------------------------------------------------------------------
(* Candles: what the connector answers, and what the suite makes of it. *)

\* The open times of a stretch of time, in order.
Opens(from, upto) ==
    LET first == ((from + Step - 1) \div Step) * Step
    IN  [i \in 1..((upto - first) \div Step + 1) |-> first + (i - 1) * Step]

Horizon == Now + (FutureBars + AncientBars) * Step

Candle(t, now, limit) ==
    [open |-> IF lie = "off_grid" THEN t + 1 ELSE t,
     close |-> IF lie = "close_now" /\ t + Step > now THEN now ELSE t + Step - 1,
     prices |-> IF lie \in {"off_tick", "prices_mixed"} THEN lie ELSE "good",
     text |-> IF lie = "inexact" /\ limit = {Page} THEN "rounded" ELSE "exact"]

\* Newest without a start, else the oldest from there on.
Served(up, start, limit) ==
    LET most == IF lie = "over_limit" THEN Len(up)
                ELSE Min({Len(up), IF limit = {} THEN MaxLimit ELSE Min(limit)})
        cut == IF start = {} THEN SubSeq(up, Len(up) - most + 1, Len(up)) ELSE SubSeq(up, 1, most)
    IN  IF lie = "newest_first" THEN Reverse(cut) ELSE cut

Wrote(shape, data) == [status |-> 200, error |-> {}, json |-> {[shape |-> shape, data |-> data]}]
Refuses(status, code, says) == [status |-> status, error |-> {[code |-> code, says |-> says]}, json |-> {}]
WebPage(status) == [status |-> status, error |-> {}, json |-> {}]

\* A limit past the venue's is refused: the adapter is to cap it.
Rows(start, end, limit, now) ==
    LET from == Max({FirstBar} \cup {CASE lie = "start_exclusive" -> s + 1
                                       [] lie = "repeats" -> s - Step
                                       [] OTHER -> s : s \in start})
        upto == Min({IF lie = "future_bar" THEN Horizon ELSE now}
                      \cup {IF lie = "end_exclusive" THEN e - 1 ELSE e : e \in end})
        open == IF lie = "gap_stops" /\ \E s \in start : s < FirstBar THEN <<>> ELSE Opens(from, upto)
        served == Served(open, start, limit)
    IN  IF \E l \in limit : l > MaxLimit THEN Refuses(400, -1130, "limit_not_valid")
        ELSE Wrote("klines", [i \in DOMAIN served |-> Candle(served[i], now, limit)])

\* A request that fails leaves the check nothing to look at.
Klines(start, end, limit, now) ==
    LET request == [start |-> start, end |-> end, limit |-> limit]
        sent == IF lie = "limit_refused" THEN request ELSE KlinesRequest(request)
        got == FetchKlines(Rows(sent.start, sent.end, sent.limit, now))
    IN  IF got.kind = "ok" THEN CHOOSE rows \in got.value : TRUE ELSE <<>>

WellFormed(candles) ==
    /\ \A i \in DOMAIN candles :
          /\ candles[i].open % Step = 0
          /\ candles[i].close = candles[i].open + Step - 1
          /\ candles[i].prices # "prices_mixed"
    /\ \A i \in 1..(Len(candles) - 1) : candles[i].open < candles[i + 1].open

Aligned == Now - (Now % Step)
End == Aligned - SettledBars * Step
Begin == End - (WindowBars - 1) * Step
Whole == Klines({Begin}, {End}, {}, Now)

Inside(candles, from, upto) == \A i \in DOMAIN candles : candles[i].open \in from..upto

CandleNormalization ==
    /\ lie # "no_tick"
    /\ Whole # <<>>
    /\ WellFormed(Whole)
    /\ Inside(Whole, Begin, End)
    /\ \A i \in DOMAIN Whole : Whole[i].close < Now /\ Whole[i].prices # "off_tick"

\* The clock is read before and after; a bar may close in between.
ClosedBars(later) ==
    LET latest == Klines({}, {}, {Latest}, later)
    IN  /\ WellFormed(latest)
        /\ latest # <<>>
        /\ Len(latest) <= Latest
        /\ Last(latest).open <= later
        /\ \A i \in 1..(Len(latest) - 1) : latest[i].close < later

KlineBounds ==
    /\ WellFormed(Whole)
    /\ Len(Whole) >= 3
    /\ Klines({Whole[1].open}, {Whole[3].open}, {}, Now) = SubSeq(Whole, 1, 3)
    /\ Klines({Whole[1].open}, {}, {2}, Now) = SubSeq(Whole, 1, 2)
    /\ Klines({Begin}, {End}, {AnyLimit}, Now) = Whole

\* The window page by page, each after the last, until a page is empty.
NextPage(w) ==
    LET page == Klines({w.cursor}, {End}, {Page}, Now)
    IN  IF ~w.sound \/ w.ended \/ w.cursor > End THEN w
        ELSE IF page = <<>> THEN [w EXCEPT !.ended = TRUE]
        ELSE [w EXCEPT !.cursor = Last(page).open + Step, !.candles = @ \o page,
                       !.sound = Len(page) <= Page /\ Last(page).open + Step > w.cursor]
Pages[n \in 0..MaxPages] ==
    IF n = 0 THEN [cursor |-> Begin, candles |-> <<>>, ended |-> FALSE, sound |-> TRUE]
    ELSE NextPage(Pages[n - 1])
Paged == Pages[MaxPages]

KlinePaging ==
    /\ WellFormed(Whole)
    /\ Paged.sound
    /\ Paged.ended \/ Paged.cursor > End
    /\ Paged.candles = Whole

KlineGaps ==
    LET future == Aligned + FutureBars * Step
        oldest == Klines({Ancient}, {End}, {3}, Now)
    IN  /\ Klines({future}, {future + AncientBars * Step}, {}, Now) = <<>>
        /\ Klines({Ancient}, {Ancient + AncientBars * Step}, {}, Now) = <<>>
        /\ oldest # <<>>
        /\ Len(oldest) <= 3
        /\ WellFormed(oldest)
        /\ Inside(oldest, Ancient, End)

-----------------------------------------------------------------------------
(* The exchange clock and the symbol's rules. *)

Reading(now) ==
    LET read == CHOOSE t \in ReadClock(Wrote("time", now)).value : TRUE
    IN  IF lie = "clock_in_seconds" THEN read \div 10 ELSE read

FirstReading == Reading(Now)
SecondReading == Reading(IF lie = "clock_back" THEN Now - 1 ELSE Now)

Skewed == Live /\ target.drift > RecvWindow

ServerTime ==
    IF ~(FirstReading \in 10..99 /\ SecondReading >= FirstReading) THEN "failed"
    ELSE IF Live /\ target.drift > MaxDrift THEN "inconclusive" ELSE "passed"

Filter(type, min, max, step, notional, tick) ==
    [type |-> type, min |-> min, max |-> max, step |-> step, notional |-> notional, tick |-> tick]

\* The venue writes "no limit" as zero, and filters the adapter passes over.
ExchangeInfo ==
    [symbol |-> "asked",
     filters |-> <<Filter({"PRICE_FILTER"}, {}, {}, {}, {}, {1}),
                   Filter({"LOT_SIZE"}, {MinQty}, {100}, {LotStep}, {}, {}),
                   Filter({}, {}, {}, {}, {}, {}),
                   Filter({"MARKET_LOT_SIZE"}, {0}, {50}, {0}, {}, {}),
                   Filter({"NOTIONAL"}, {}, {}, {}, {Notional}, {}),
                   Filter({"MAX_NUM_ORDERS"}, {}, {}, {}, {}, {})>>]

Rules ==
    LET rules == CHOOSE r \in FetchSymbolRules(Wrote("exchangeInfo", <<ExchangeInfo>>)).value : TRUE
    IN  CASE lie = "zero_limit" -> [rules EXCEPT !.market_step = {0}]
          [] lie = "min_over_max" -> [rules EXCEPT !.max = {MinQty - 1}]
          [] lie = "no_step" -> [rules EXCEPT !.step = {}]
          [] lie = "no_notional" -> [rules EXCEPT !.notional = {}]
          [] lie = "no_tick" -> [rules EXCEPT !.tick = {}]
          [] lie = "other_symbol" -> [rules EXCEPT !.symbol = "other"]
          [] OTHER -> rules

SymbolRules ==
    /\ Rules.symbol = "asked"
    /\ \A limit \in UNION {Rules.min, Rules.max, Rules.step, Rules.market_min, Rules.market_max,
                            Rules.market_step, Rules.notional, Rules.tick} : limit > 0
    /\ \A least \in Rules.min, most \in Rules.max : least <= most
    /\ \A least \in Rules.market_min, most \in Rules.market_max : least <= most
    /\ EffectiveStep(Rules) # {}
    /\ Rules.tick # {}

\* What the order checks size their orders from.
Sizable == {n \in Rules.notional : n > 0} # {} /\ {s \in EffectiveStep(Rules) : s > 0} # {}

-----------------------------------------------------------------------------
(* The errors: what each refusal provokes or scripts must fail as. *)

Refusals(check) ==
    CASE check = "rule_violations" -> <<"below_notional", "off_step">>
      [] check = "insufficient_balance" -> <<"beyond_balance">>
      [] check = "unknown_symbol" ->
            IF "rules" \in target.caps THEN <<"unlisted_klines", "unlisted_rules">> ELSE <<"unlisted_klines">>
      [] check = "unknown_order" -> <<"unknown_query", "unknown_cancel">>
      [] check = "unauthorized" -> <<"rejected_key">>
      [] check = "clock_skew" -> <<"too_late", "too_early">>
      [] check = "rate_limited" -> <<"over_weight", "banned", "firewall", "order_rate">>
      [] check = "unavailable" -> <<"not_processed", "overloaded">>
      [] check = "outcome_unknown" -> <<"failing", "order_timeout", "retry_code">>
      [] check = "malformed_response" -> <<"wrong_shape", "not_json">>

Kind(check) ==
    CASE check = "rule_violations" -> "RuleViolation"
      [] check = "insufficient_balance" -> "InsufficientBalance"
      [] check = "unknown_symbol" -> "UnknownSymbol"
      [] check = "unknown_order" -> "UnknownOrder"
      [] check = "unauthorized" -> "Unauthorized"
      [] check = "clock_skew" -> "ClockSkew"
      [] check = "rate_limited" -> "RateLimited"
      [] check = "unavailable" -> "Unavailable"
      [] check = "outcome_unknown" -> "OutcomeUnknown"
      [] check = "malformed_response" -> "InvalidResponse"

EnvironmentKinds == {"Transport", "RateLimited", "Unavailable", "OutcomeUnknown"}

EnvironmentFailedInTransport(kind) == Live /\ kind = "Transport"
EnvironmentFailed(kind) == Live /\ kind \in EnvironmentKinds

\* A request the check needs, failing.
Unexpected(kind) == IF EnvironmentFailed(kind) THEN "inconclusive" ELSE "failed"

\* The environment may fail any request of a live check.
NoAnswer == WebPage(0)
Outages == {NoAnswer, WebPage(403), WebPage(503), Refuses(429, -1003, "too_much_weight"),
            Refuses(503, -1008, "overloaded"), Refuses(400, -1001, "internal_error")}
Glitches == IF Live THEN {Unexpected(SendPublic(outage).kind) : outage \in Outages} ELSE {}

\* What Binance answers each refusal with, recorded or scripted.
Refused(refusal) ==
    CASE refusal \in {"below_notional", "off_step"} -> Refuses(400, -1013, "filter_failure")
      [] refusal = "beyond_balance" -> Refuses(400, -2010, "insufficient_balance")
      [] refusal \in {"unlisted_klines", "unlisted_rules"} -> Refuses(400, -1121, "invalid_symbol")
      [] refusal = "unknown_query" -> Refuses(400, -2013, "order_does_not_exist")
      [] refusal = "unknown_cancel" -> Refuses(400, -2011, "unknown_order_sent")
      [] refusal = "rejected_key" -> Refuses(401, -2014, "key_format_invalid")
      [] refusal \in {"too_late", "too_early"} -> Refuses(400, -1021, "timestamp")
      [] refusal = "over_weight" -> Refuses(429, -1003, "too_much_weight")
      [] refusal = "banned" -> Refuses(418, -1003, "banned")
      [] refusal = "firewall" -> WebPage(403)
      [] refusal = "order_rate" -> Refuses(429, -1015, "too_many_orders")
      [] refusal = "not_processed" -> Refuses(400, -1001, "internal_error")
      [] refusal = "overloaded" -> Refuses(400, -1008, "overloaded")
      [] refusal = "failing" -> WebPage(503)
      [] refusal = "order_timeout" -> Refuses(503, -1007, "status_unknown")
      [] refusal = "retry_code" -> Refuses(503, -1008, "overloaded")
      [] refusal = "wrong_shape" -> Wrote("not_a_candle", <<>>)
      [] refusal = "not_json" -> WebPage(200)

\* The local clock a signed request carries.
SignedAt(credentials) ==
    {Now + target.drift : key \in UNION {SignedHalf(connectors) : connectors \in FactoryBuilt(credentials)}}
Keys == SignedAt(target.keys)

\* A request signed too far from the venue's clock is refused for that.
InWindow(keys, answer) ==
    IF Live /\ \E clock \in keys : clock > Now + RecvWindow THEN Refuses(400, -1021, "timestamp")
    ELSE answer

ByClient == [id |-> {}, client |-> {"asked"}]
ById == [id |-> {1}, client |-> {}]
ByQuote(quote) == [side |-> "BUY", qty |-> {}, quote |-> {quote}, client |-> {}]
ByBase(qty) == [side |-> "SELL", qty |-> {qty}, quote |-> {}, client |-> {}]

Asked(refusal) ==
    LET told == InWindow(Keys, Refused(refusal))
    IN  CASE refusal \in {"below_notional", "beyond_balance", "order_rate", "order_timeout"} ->
                SubmitMarketOrder(Keys, ByQuote(Notional), told)
          [] refusal = "off_step" -> SubmitMarketOrder(Keys, ByBase(1), told)
          [] refusal \in {"unlisted_klines", "over_weight", "banned", "not_processed", "failing", "wrong_shape"} ->
                FetchKlines(Refused(refusal))
          [] refusal = "unlisted_rules" -> FetchSymbolRules(Refused(refusal))
          [] refusal = "unknown_query" -> QueryOrder(Keys, ByClient, told)
          [] refusal = "unknown_cancel" -> CancelOrder(Keys, ByClient, told)
          [] refusal = "rejected_key" -> AccountBalances(SignedAt({"rejected"}), Refused(refusal))
          [] OTHER -> AccountBalances(Keys, told)

\* A lie about one refusal: the request is accepted, or fails as another
\* kind.  "ok" is the answer of a request that should have failed.
Answered(refusal, check) ==
    IF lie # refusal THEN Asked(refusal).kind
    ELSE IF check \in {"rule_violations", "insufficient_balance", "unknown_symbol"} THEN "ok"
    ELSE IF check = "unavailable" THEN "OutcomeUnknown" ELSE "Unavailable"

Expected(answer, kind) ==
    IF answer = "ok" THEN "failed"
    ELSE IF answer = kind THEN "passed"
    ELSE IF EnvironmentFailed(answer) THEN "inconclusive" ELSE "failed"

FirstNot(outcomes) ==
    LET bad == {i \in DOMAIN outcomes : outcomes[i] # "passed"}
    IN  IF bad = {} THEN "passed" ELSE outcomes[Min(bad)]

ErrorCheck(check) ==
    IF check \in {"rule_violations", "insufficient_balance"} /\ Rules.notional = {} THEN "failed"
    ELSE IF check = "rule_violations" /\ ~Sizable THEN "failed"
    ELSE LET asked == Refusals(check)
         IN  FirstNot([i \in DOMAIN asked |-> Expected(Answered(asked[i], check), Kind(check))])

Verdicts(check) ==
    CASE check = "server_time" -> {ServerTime}
      [] check = "candle_normalization" -> {Told(CandleNormalization)}
      [] check = "closed_bars" -> {Told(ClosedBars(later)) : later \in {Now, Now + Step}}
      [] check = "kline_bounds" -> {Told(KlineBounds)}
      [] check = "kline_paging" -> {Told(KlinePaging)}
      [] check = "kline_gaps" -> {Told(KlineGaps)}
      [] check = "symbol_rules" -> {Told(SymbolRules)}
      [] OTHER -> {ErrorCheck(check)}

-----------------------------------------------------------------------------
(* The life of a market order. *)

Spend == Notional * Multiple

\* The order as the venue writes it: told in full when it is placed.
RawOrder(executed) ==
    [id |-> {1}, client |-> {"asked"}, status |-> {IF executed = Spend THEN "FILLED" ELSE "EXPIRED"},
     requested |-> {executed}, requested_quote |-> {Spend}, executed |-> {executed}, quote |-> {executed},
     time |-> {Now},
     fills |-> {IF executed = 0 THEN <<>>
                ELSE <<[qty |-> executed, commission |-> BaseFee, asset |-> {"base"}, trade |-> {7}]>>}]

Later(executed) == [RawOrder(executed) EXCEPT !.time = {}, !.fills = {}]

Misread(fill) ==
    CASE lie = "fills_short" -> [fill EXCEPT !.qty = @ - 1]
      [] lie = "fee_hidden" -> [fill EXCEPT !.asset = {}]
      [] lie = "no_trade_id" -> [fill EXCEPT !.trade = {}]

\* The order a buy comes back as, having executed some of the amount.
Order(executed) ==
    LET answer == Wrote("order", RawOrder(executed))
        order == CHOOSE o \in SubmitMarketOrder(Keys, ByQuote(Spend), answer).value : TRUE
    IN  CASE lie = "unfilled" -> [order EXCEPT !.status = "NEW"]
          [] lie = "no_executed" -> [order EXCEPT !.executed = {}]
          [] lie = "no_quote" -> [order EXCEPT !.quote = {}]
          [] lie = "no_fills" -> [order EXCEPT !.fills = {}]
          [] lie \in {"fills_short", "fee_hidden", "no_trade_id"} ->
                [order EXCEPT !.fills = {[i \in DOMAIN fills |-> Misread(fills[i])] : fills \in @}]
          [] lie = "no_order_id" -> [order EXCEPT !.id = {}]
          [] lie = "no_time" -> [order EXCEPT !.time = {}]
          [] lie = "other_client_id" -> [order EXCEPT !.client = {"other"}]
          [] OTHER -> order

Bought(fills) == FoldLeft(LAMBDA sum, fill : sum + fill.qty, 0, fills)
Fees(fills) == FoldLeft(LAMBDA sum, fill : sum + (IF fill.asset = {"base"} THEN fill.commission ELSE 0), 0, fills)

\* Known when the order tells what it executed and its fills; only a fee
\* said to be in the base asset comes off.
Net(order) == {Max({x - Fees(fills), 0}) : x \in order.executed, fills \in order.fills}

\* A live book too thin to fill the order says nothing about the connector.
Filled(status) ==
    IF status = "FILLED" THEN "passed"
    ELSE IF Live /\ status \in {"EXPIRED", "PARTIALLY_FILLED"} THEN "inconclusive" ELSE "failed"

FillsOf(order) == IF order.fills = {} THEN <<>> ELSE CHOOSE fills \in order.fills : TRUE

\* The order itself, then what the exchange tells of it later.
OnItsFace(order) ==
    LET fills == FillsOf(order)
    IN  FirstNot(<<Filled(order.status),
                   Told(\E x \in order.executed : x > 0),
                   Told(\E x \in order.quote : x > 0),
                   Told(fills # <<>>),
                   Told({Bought(fills)} = order.executed),
                   Told(\A i \in DOMAIN fills : fills[i].trade # {}),
                   Told(order.id # {}),
                   Told(order.time # {}),
                   Told("client_ids" \in target.caps => order.client = {"asked"})>>)

SameOrder(placed, found) ==
    /\ found.id = placed.id
    /\ found.client = placed.client
    /\ found.status = "FILLED"
    /\ found.executed = placed.executed
    /\ found.quote = placed.quote

\* The buy looked up, by either id.
LookedUp(order, by, wrong) ==
    LET answer == Wrote("order", Later(Max(order.executed)))
        found == CHOOSE o \in QueryOrder(Keys, by, answer).value : TRUE
    IN  IF lie = wrong THEN [found EXCEPT !.executed = {1}] ELSE found

StillOpen(order) ==
    LET answer == Wrote("orders", IF lie = "still_open" THEN <<Later(Max(order.executed))>> ELSE <<>>)
    IN  \E rows \in OpenOrders(Keys, answer).value : \E i \in DOMAIN rows : rows[i].id = order.id

CancelFilled(order) ==
    LET answer == IF lie = "cancel_accepted" THEN Wrote("order", Later(Max(order.executed)))
                  ELSE Refuses(400, -2011, "unknown_order_sent")
    IN  CancelOrder(Keys, ById, answer).kind

\* The trades and the balance are polled for, as an account may lag.
Traded(order, lag) ==
    LET row == [id |-> 7, order |-> 1, is_buyer |-> TRUE, qty |-> Max(order.executed)]
        answer == Wrote("trades", IF lie = "no_trades" \/ lag >= Polls THEN <<>> ELSE <<row>>)
    IN  \E rows \in RecentTrades(Keys, answer).value :
            \A i \in DOMAIN FillsOf(order) :
                \E j \in DOMAIN rows : {rows[j].id} = FillsOf(order)[i].trade /\ {rows[j].order} = order.id

Settled(order, moved, lag) ==
    LET answer == Wrote("account", [base |-> IF lag >= Polls THEN 0 ELSE moved])
    IN  \E balances \in AccountBalances(Keys, answer).value : {balances.base} = Net(order)

ReadBack(order, moved, lag) ==
    FirstNot(<<Told(SameOrder(order, LookedUp(order, ById, "query_differs"))),
               Told("client_ids" \in target.caps => SameOrder(order, LookedUp(order, ByClient, "client_query_differs"))),
               Told(~StillOpen(order)),
               Expected(CancelFilled(order), "UnknownOrder"),
               Told(Traded(order, lag)),
               Told(Settled(order, moved, lag))>>)

\* One fault for two: failed if either failed.
Both(first, then) ==
    IF "failed" \in {first, then} THEN "failed"
    ELSE IF "inconclusive" \in {first, then} THEN "inconclusive" ELSE "passed"

NoLife == [step |-> "off", order |-> {}, moved |-> 0, checked |-> "passed", lost |-> FALSE, thin |-> FALSE]

\* Of the report: how far it is, the outcome of the lifecycle, and what
\* outcomes the others had.
Reported(outcome) ==
    report' = IF Check = "lifecycle" THEN [report EXCEPT !.told = @ + 1, !.lifecycle = outcome]
              ELSE [report EXCEPT !.told = @ + 1, !.outcomes = @ \cup {outcome}]

\* Every other check, and a check that does not run.
Judge ==
    /\ Running
    /\ life.step = "off"
    /\ Check # "lifecycle" \/ Gate(Check) # "run"
    /\ \E outcome \in IF Gate(Check) # "run" THEN {Gate(Check)} ELSE Verdicts(Check) \cup Glitches :
          Reported(outcome)
    /\ UNCHANGED <<target, lie, life, held>>

LifecycleRuns == Running /\ Check = "lifecycle" /\ Gate(Check) = "run"

\* Rules, sizing, clock and balances; then the buy is worth sending or not.
Prepare ==
    /\ LifecycleRuns
    /\ life.step = "off"
    /\ \E free \in Funds, outcome \in {"passed"} \cup Glitches :
          LET read == AccountBalances(Keys, InWindow(Keys, Wrote("account", [quote |-> free])))
              verdict == FirstNot(<<outcome, Told(Sizable),
                                    IF read.kind # "ok" THEN Unexpected(read.kind) ELSE "passed",
                                    IF \E balances \in read.value : balances.quote < Spend THEN "inconclusive" ELSE "passed">>)
          IN  IF verdict = "passed"
              THEN life' = [life EXCEPT !.step = "buy"] /\ UNCHANGED report
              ELSE Reported(verdict) /\ UNCHANGED life
    /\ UNCHANGED <<target, lie, held>>

\* An answer that never comes ends the check, whatever the buy executed.
Buy ==
    /\ life.step = "buy"
    /\ \E executed \in {Spend} \cup (IF Live THEN Partial ELSE {}) :
          LET moved == Max({executed - BaseFee, 0})
          IN  /\ held' = moved
              /\ \/ /\ life' = [life EXCEPT !.step = "inspect", !.order = {Order(executed)}, !.moved = moved]
                    /\ UNCHANGED report
                 \/ \E glitch \in Glitches :
                       /\ Reported(glitch)
                       /\ life' = [NoLife EXCEPT !.lost = TRUE]
    /\ UNCHANGED <<target, lie>>

\* From here on the buy is sold back, whatever the checks in between find.
Inspect ==
    /\ life.step = "inspect"
    /\ \E order \in life.order, lag \in IF Live THEN Lags ELSE {0} :
          LET face == OnItsFace(order)
          IN  \E verdict \in IF face # "passed" THEN {face}
                              ELSE {ReadBack(order, life.moved, lag)} \cup Glitches :
                 life' = [life EXCEPT !.step = "sell", !.checked = verdict]
    /\ UNCHANGED <<target, lie, report, held>>

\* What is sold: the net of the buy, rounded down to the step, if known.
SellQty(order) ==
    LET bought == IF Net(order) # {} THEN Net(order) ELSE order.executed
    IN  {b - (b % LotStep) : b \in bought}

Closed(outcome) ==
    /\ Reported(Both(life.checked, outcome))
    /\ life' = [NoLife EXCEPT !.lost = life.lost, !.thin = life.thin]

SellBack ==
    /\ life.step = "sell"
    /\ UNCHANGED <<target, lie>>
    /\ \E order \in life.order :
          LET qty == {q \in SellQty(order) : q > 0}
          IN  IF qty = {} THEN Closed("passed") /\ UNCHANGED held
              ELSE LET asked == Max(qty)
                   IN IF (\E least \in EffectiveMin(Rules) : asked < least) \/ asked > held
                      THEN Closed("failed") /\ UNCHANGED held
                      ELSE \E sold \in {asked} \cup (IF Live THEN {0} ELSE {}) :
                             /\ held' = held - sold
                             /\ \/ /\ Reported(Both(life.checked,
                                        IF sold = asked THEN Told(lie # "sell_short") ELSE Filled("EXPIRED")))
                                   /\ life' = [NoLife EXCEPT !.thin = sold # asked]
                                \/ \E glitch \in Glitches :
                                      /\ Reported(Both(life.checked, glitch))
                                      /\ life' = [NoLife EXCEPT !.lost = TRUE]

SuiteInit ==
    /\ target \in Targets
    /\ lie \in Lies \cup {None}
    /\ report = NoReport
    /\ life = NoLife
    /\ held = 0

SuiteNext == Judge \/ Prepare \/ Buy \/ Inspect \/ SellBack

SuiteSpec == SuiteInit /\ [][SuiteNext]_suiteVars

-----------------------------------------------------------------------------
(* Properties. *)

\* The suite may run against its target; then the properties are about it.
MayRun == Gate("unknown_symbol") = "run"

\* The suite blames a connector for what the connector does and nothing else:
\* one that keeps the contract is never failed, however the environment
\* behaves, but for a buy too thin to sell back (conformance/support.rs
\* unexpected, expect_kind; orders.rs:299).  The signed checks of a live target
\* whose clock the venue refuses are the exception: they fail as ClockSkew,
\* which is no fault of the connector and is reported as one.
HonestNotBlamed ==
    /\ "failed" \in report.outcomes => lie # None \/ Skewed
    /\ report.lifecycle = "failed" => lie # None \/ Skewed \/ held \in 1..(MinQty - 1)

\* A connector that breaks the contract anywhere does not come through with
\* every check passed, unless only a replay can provoke what it breaks.
LiarCaught ==
    ~Running /\ lie # None /\ ~(Live /\ \E c \in Scripted : lie \in Range(Refusals(c)))
        => ~(report.outcomes \cup {report.lifecycle} \subseteq {"passed", "replay_only"})

\* What the lifecycle buys it sells back: one that passed leaves less than a
\* step, and any other of an honest connector no more than cannot be sold,
\* unless an answer was lost or the book was too thin to sell into
\* (orders.rs:57-66).
SoldBack ==
    /\ report.lifecycle = "passed" => held < LotStep
    /\ report.lifecycle # None /\ lie = None /\ ~life.lost /\ ~life.thin => held < MinQty

\* The suite judges a connector by its contract and leaves the account as it
\* was (exchange/conformance/check.rs, support.rs, orders.rs).
JudgedRight == MayRun => HonestNotBlamed /\ LiarCaught /\ SoldBack
=============================================================================
