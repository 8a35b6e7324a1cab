--------------------------- MODULE BinanceAdapter ---------------------------
(***************************************************************************)
(* The Binance Spot adapter: what each call sends, and what it makes of    *)
(* the answer.  A call is an operator on the venue's answer to what it     *)
(* sent, [status, error, json]: status 0 is no answer at all, error holds  *)
(* a refusal's [code, says], json the shape and the data of a body that    *)
(* parses.  An absent value is {}, a present one {v}, and a call comes to  *)
(* [kind, value], its kind "ok" or an error's.  That the decimals of an    *)
(* answer parse is taken for granted.                                      *)
(***************************************************************************)
EXTENDS Integers, FiniteSets, Sequences, SequencesExt, FiniteSetsExt, TLC

CONSTANTS MaxLimit,     \* the most candles of one request
          LowerCase     \* a host's labels that are not in lower case, in lower case

Capabilities == {"time", "rules", "by_quote", "by_base", "client_ids"}

Failure(kind) == [kind |-> kind, value |-> {}]

-----------------------------------------------------------------------------
(* Errors: Binance's codes and statuses, as the kinds exchanges share. *)

\* The kind of a documented code, or nothing; some codes are of several
\* refusals, and the message tells which.
ClassifyCode(code, says) ==
    LET Telling(text, kind) == {IF says = text THEN kind ELSE "Rejected"}
    IN  CASE code = -2011 -> Telling("unknown_order_sent", "UnknownOrder")
          [] code = -2010 -> Telling("insufficient_balance", "InsufficientBalance")
          [] code = -1013 -> Telling("filter_failure", "RuleViolation")
          [] code \in {-1003, -1015} -> {"RateLimited"}
          [] code = -1021 -> {"ClockSkew"}
          [] code \in {-1002, -1022, -2014, -2015} -> {"Unauthorized"}
          [] code = -1121 -> {"UnknownSymbol"}
          [] code \in {-2013, -2026} -> {"UnknownOrder"}
          [] code = -1111 -> {"RuleViolation"}
          [] code \in {-1112, -1122, -2016} -> {"Rejected"}
          [] code \in {-1001, -1008, -1016} -> {"Unavailable"}
          [] code \in {-1000, -1006, -1007} -> {"OutcomeUnknown"}
          [] OTHER -> IF code \in -1199..-1100 THEN {"InvalidRequest"} ELSE {}

ServerError(status) == status \in 500..599

\* A rate limit's status decides first, then the code, then the status; no
\* server error is safe to send again.
Classify(status, refusal) ==
    LET known == UNION {ClassifyCode(r.code, r.says) : r \in refusal}
    IN  IF status \in {429, 418} THEN "RateLimited"
        ELSE IF known = {"Unavailable"} /\ ServerError(status) THEN "OutcomeUnknown"
        ELSE IF known # {} THEN CHOOSE kind \in known : TRUE
        ELSE IF status = 401 THEN "Unauthorized"
        ELSE IF status = 403 THEN "RateLimited"
        ELSE IF ServerError(status) THEN "OutcomeUnknown" ELSE "Other"

-----------------------------------------------------------------------------
(* The client: one request and its answer. *)

Lowered(host) == [i \in DOMAIN host |-> IF host[i] \in DOMAIN LowerCase THEN LowerCase[host[i]] ELSE host[i]]

\* A host is the sequence of its labels; a trailing dot is an empty one.
WithoutRoot(host) == SelectSeq(host, LAMBDA label : label # "")

\* Whether orders sent there are real: the domains themselves, and below.
IsProductionUrl(host) ==
    \E domain \in {<<"binance", "com">>, <<"binance", "us">>} : IsSuffix(domain, Lowered(WithoutRoot(host)))

\* One client backs every connector; it signs where it has credentials.
BuildConnectors(config) ==
    [capabilities |-> Capabilities, production |-> IsProductionUrl(config.host),
     trading |-> config.credentials, account |-> config.credentials]

DecodeJson(answer) ==
    IF answer.status \notin 200..299 THEN Failure(Classify(answer.status, answer.error))
    ELSE IF answer.json = {} THEN Failure("InvalidResponse")
    ELSE [kind |-> "ok", value |-> answer.json]

SendPublic(answer) == IF answer.status = 0 THEN Failure("Transport") ELSE DecodeJson(answer)

\* keys: the local clock a request is signed at, or nothing without keys,
\* and then nothing is sent.
SendSigned(keys, answer) ==
    IF keys = {} THEN Failure("MissingCredentials")
    ELSE IF answer.status = 0 THEN Failure("Transport") ELSE DecodeJson(answer)

\* The data of an answer of the shape the call expects.
Typed(result, shape) ==
    IF result.kind # "ok" THEN result
    ELSE IF \E v \in result.value : v.shape # shape THEN Failure("InvalidResponse")
    ELSE [kind |-> "ok", value |-> {v.data : v \in result.value}]

-----------------------------------------------------------------------------
(* What the venue writes, as the exchange-neutral values. *)

\* A limit the venue writes as zero is no limit.
FilterDecimal(limit) == {l \in limit : l > 0}

NoRules(symbol) ==
    [symbol |-> symbol, min |-> {}, max |-> {}, step |-> {}, market_min |-> {}, market_max |-> {},
     market_step |-> {}, notional |-> {}, tick |-> {}]

WithFilter(rules, filter) ==
    CASE filter.type = {"LOT_SIZE"} ->
            [rules EXCEPT !.min = FilterDecimal(filter.min), !.max = FilterDecimal(filter.max),
                          !.step = FilterDecimal(filter.step)]
      [] filter.type = {"MARKET_LOT_SIZE"} ->
            [rules EXCEPT !.market_min = FilterDecimal(filter.min), !.market_max = FilterDecimal(filter.max),
                          !.market_step = FilterDecimal(filter.step)]
      [] filter.type = {"MIN_NOTIONAL"} -> [rules EXCEPT !.notional = FilterDecimal(filter.notional)]
      [] filter.type = {"NOTIONAL"} /\ rules.notional = {} ->
            [rules EXCEPT !.notional = FilterDecimal(filter.notional)]
      [] filter.type = {"PRICE_FILTER"} -> [rules EXCEPT !.tick = FilterDecimal(filter.tick)]
      [] OTHER -> rules

ParseSymbolRules(info) == FoldLeft(WithFilter, NoRules(info.symbol), info.filters)

EffectiveStep(rules) == IF rules.market_step # {} THEN rules.market_step ELSE rules.step
EffectiveMin(rules) == IF rules.market_min # {} THEN rules.market_min ELSE rules.min

Statuses == {"NEW", "PARTIALLY_FILLED", "FILLED", "CANCELED", "REJECTED", "EXPIRED", "PENDING_NEW"}
FromExchange(status) == IF status = {} \/ ~(status \subseteq Statuses) THEN "UNKNOWN"
                        ELSE CHOOSE s \in status : TRUE

\* What a response leaves out stays absent: no fills is not a zero fill.
ParseOrder(raw) ==
    [id |-> raw.id, client |-> raw.client, status |-> FromExchange(raw.status), executed |-> raw.executed,
     quote |-> raw.quote, requested |-> raw.requested, requested_quote |-> FilterDecimal(raw.requested_quote),
     price |-> {q \div e : q \in raw.quote, e \in FilterDecimal(raw.executed)}, time |-> raw.time, fills |-> raw.fills]

ParseTrade(row) == [id |-> row.id, order |-> row.order, side |-> IF row.is_buyer THEN "BUY" ELSE "SELL", qty |-> row.qty]

-----------------------------------------------------------------------------
(* The calls. *)

\* What is asked of the venue: never more than it serves at once.
KlinesRequest(request) == [request EXCEPT !.limit = {Min({l, MaxLimit}) : l \in @}]

FetchKlines(answer) == Typed(SendPublic(answer), "klines")

FetchSymbolRules(answer) ==
    LET result == Typed(SendPublic(answer), "exchangeInfo")
    IN  IF \E infos \in result.value : infos = <<>> THEN Failure("InvalidResponse")
        ELSE [result EXCEPT !.value = {ParseSymbolRules(Head(infos)) : infos \in @}]

ReadClock(answer) == Typed(SendPublic(answer), "time")

ReadOrder(keys, answer) ==
    LET result == Typed(SendSigned(keys, answer), "order")
    IN  [result EXCEPT !.value = {ParseOrder(raw) : raw \in @}]

\* A buy or sell by quantity or by quote amount; asked in full, it comes
\* back with its fills.
SubmitMarketOrder(keys, request, answer) ==
    IF request.qty = {} /\ request.quote = {} THEN Failure("InvalidRequest") ELSE ReadOrder(keys, answer)

CancelOrder(keys, request, answer) ==
    IF request.id = {} /\ request.client = {} THEN Failure("InvalidRequest") ELSE ReadOrder(keys, answer)

QueryOrder(keys, request, answer) ==
    IF request.id = {} /\ request.client = {} THEN Failure("InvalidRequest") ELSE ReadOrder(keys, answer)

OpenOrders(keys, answer) ==
    LET result == Typed(SendSigned(keys, answer), "orders")
    IN  [result EXCEPT !.value = {[i \in DOMAIN rows |-> ParseOrder(rows[i])] : rows \in @}]

AccountBalances(keys, answer) == Typed(SendSigned(keys, answer), "account")

RecentTrades(keys, answer) ==
    LET result == Typed(SendSigned(keys, answer), "trades")
    IN  [result EXCEPT !.value = {[i \in DOMAIN rows |-> ParseTrade(rows[i])] : rows \in @}]

=============================================================================
