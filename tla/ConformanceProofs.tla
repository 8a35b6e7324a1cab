-------------------------- MODULE ConformanceProofs --------------------------
(* The conformance suite judges a connector right, for every venue, target,  *)
(* lie, window, page and amount that SuiteAssumption allows.  First what    *)
(* each check says of an honest connector and of each lie: a check is a     *)
(* function of the lie, so these are lemmas without a state.  Then the      *)
(* suite's steps, which sum the verdicts up and carry what the lifecycle    *)
(* holds from one step to the next.  Walks over pages and sums over fills   *)
(* are recursive functions and folds: an induction on them goes to the      *)
(* least counterexample.                                                    *)
EXTENDS Conformance, FiniteSetTheorems, SequenceTheorems, WellFoundedInduction, TLAPS

-----------------------------------------------------------------------------
(* What the venue answers, and what the connector reads of it.              *)

\* A success that was written carries its body and no error.
LEMMA WroteHas ==
    ASSUME NEW f, NEW v, NEW answer, answer = Wrote(f, v)
    PROVE  /\ answer.status = 200 /\ answer.error = {} /\ answer.json # {}
           /\ answer.json = {[shape |-> f, data |-> v]}
BY DEF Wrote

\* Both HTTP clients hand on the body of a success.
LEMMA Decoded ==
    ASSUME NEW answer, answer.status = 200, answer.json # {}, NEW keys
    PROVE  /\ SendPublic(answer) = [kind |-> "ok", value |-> answer.json]
           /\ keys # {} => SendSigned(keys, answer) = [kind |-> "ok", value |-> answer.json]
BY DEF DecodeJson, SendPublic, SendSigned

\* A body of the shape asked for is read as what it carries.
LEMMA TypedOf ==
    ASSUME NEW f, NEW v, NEW result, result = [kind |-> "ok", value |-> {[shape |-> f, data |-> v]}]
    PROVE  Typed(result, f) = [kind |-> "ok", value |-> {v}]
<1>1. PICK x : x = [shape |-> f, data |-> v]
  OBVIOUS
<1>2. {y.data : y \in {x}} = {v} /\ ~(\E y \in {x} : y.shape # f)
  BY <1>1
<1>3. result.kind = "ok" /\ result.value = {x}
  BY <1>1
<1> QED BY <1>2, <1>3 DEF Typed

\* What the venue wrote is what a call reads.
LEMMA Read ==
    ASSUME NEW f, NEW v, NEW keys
    PROVE  /\ Typed(SendPublic(Wrote(f, v)), f) = [kind |-> "ok", value |-> {v}]
           /\ keys # {} => Typed(SendSigned(keys, Wrote(f, v)), f) = [kind |-> "ok", value |-> {v}]
<1>1. PICK answer : answer = Wrote(f, v)
  OBVIOUS
<1>2. answer.status = 200 /\ answer.json # {} /\ answer.json = {[shape |-> f, data |-> v]}
  BY <1>1, WroteHas
<1>3. /\ SendPublic(answer) = [kind |-> "ok", value |-> answer.json]
      /\ keys # {} => SendSigned(keys, answer) = [kind |-> "ok", value |-> answer.json]
  <2>1. answer.status = 200 /\ answer.json # {}
    BY <1>2
  <2> QED BY <2>1, Decoded
<1>4. /\ SendPublic(answer) = [kind |-> "ok", value |-> {[shape |-> f, data |-> v]}]
      /\ keys # {} => SendSigned(keys, answer) = [kind |-> "ok", value |-> {[shape |-> f, data |-> v]}]
  BY <1>2, <1>3
<1> QED BY <1>1, <1>4, TypedOf

FailsAs(answer, kind) ==
    /\ SendPublic(answer) = Failure(kind)
    /\ \A keys : keys # {} => SendSigned(keys, answer) = Failure(kind)

\* What a refusal fails as.
LEMMA RefusedAs ==
    ASSUME NEW status \in Nat, status # 0, status \notin 200..299, NEW code, NEW says, NEW kind,
           ClassifyCode(code, says) = {kind}, status \notin {429, 418}, kind # "Unavailable" \/ status \notin 500..599,
           NEW answer, answer = Refuses(status, code, says)
    PROVE  FailsAs(answer, kind)
<1>1. PICK r : r = [code |-> code, says |-> says]
  OBVIOUS
<1>2. answer.status = status /\ answer.error = {r}
  BY <1>1 DEF Refuses
<1>3. UNION {ClassifyCode(x.code, x.says) : x \in {r}} = {kind}
  BY <1>1
<1>4. Classify(status, {r}) = kind
  BY <1>3 DEF Classify, ServerError
<1>5. DecodeJson(answer) = Failure(kind)
  BY <1>2, <1>4 DEF DecodeJson
<1> QED BY <1>2, <1>5 DEF SendPublic, SendSigned, FailsAs

\* The answers a status alone decides.
LEMMA LimitedAs ==
    ASSUME NEW status \in {429, 418}, NEW code, NEW says,
           NEW answer, answer = Refuses(status, code, says)
    PROVE  FailsAs(answer, "RateLimited")
<1>1. answer.status = status
  BY DEF Refuses
<1>2. \A refusal : Classify(status, refusal) = "RateLimited"
  BY DEF Classify
<1>3. DecodeJson(answer) = Failure("RateLimited")
  BY <1>1, <1>2 DEF DecodeJson
<1> QED BY <1>1, <1>3 DEF SendPublic, SendSigned, FailsAs

\* An overloaded venue leaves the outcome open (classify).
LEMMA BusyAs ==
    ASSUME NEW says, NEW answer, answer = Refuses(503, -1008, says)
    PROVE  FailsAs(answer, "OutcomeUnknown")
<1>1. PICK r : r = [code |-> -1008, says |-> says]
  OBVIOUS
<1>2. answer.status = 503 /\ answer.error = {r}
  BY <1>1 DEF Refuses
<1>3. ClassifyCode(-1008, says) = {"Unavailable"}
  BY DEF ClassifyCode
<1>4. UNION {ClassifyCode(x.code, x.says) : x \in {r}} = {"Unavailable"}
  BY <1>1, <1>3
<1>5. Classify(503, {r}) = "OutcomeUnknown"
  BY <1>4 DEF Classify, ServerError
<1>6. DecodeJson(answer) = Failure("OutcomeUnknown")
  BY <1>2, <1>5 DEF DecodeJson
<1> QED BY <1>2, <1>6 DEF SendPublic, SendSigned, FailsAs

\* A page of a proxy, and no answer at all, are told apart by their status.
LEMMA PageAs ==
    /\ FailsAs(WebPage(403), "RateLimited") /\ FailsAs(WebPage(503), "OutcomeUnknown")
    /\ FailsAs(WebPage(200), "InvalidResponse") /\ FailsAs(NoAnswer, "Transport")
<1>1. Classify(403, {}) = "RateLimited" /\ Classify(503, {}) = "OutcomeUnknown"
  <2>1. UNION {ClassifyCode(x.code, x.says) : x \in {}} = {}
    OBVIOUS
  <2> QED BY <2>1 DEF Classify, ServerError
<1>2. \A status : WebPage(status).status = status /\ WebPage(status).error = {} /\ WebPage(status).json = {}
  BY DEF WebPage
<1>3. DecodeJson(WebPage(403)) = Failure("RateLimited")
  <2>1. PICK page : page = WebPage(403)
    OBVIOUS
  <2>2. page.status = 403 /\ page.error = {} /\ 403 \notin 200..299
    BY <1>2, <2>1
  <2> QED BY <1>1, <2>1, <2>2 DEF DecodeJson
<1>4. DecodeJson(WebPage(503)) = Failure("OutcomeUnknown")
  <2>1. PICK page : page = WebPage(503)
    OBVIOUS
  <2>2. page.status = 503 /\ page.error = {}
    BY <1>2, <2>1
  <2>3. 503 \notin 200..299
    OBVIOUS
  <2> QED BY <1>1, <2>1, <2>2, <2>3 DEF DecodeJson
<1>5. DecodeJson(WebPage(200)) = Failure("InvalidResponse")
  <2>1. PICK page : page = WebPage(200)
    OBVIOUS
  <2>2. page.status = 200 /\ page.json = {}
    BY <1>2, <2>1
  <2> QED BY <2>1, <2>2 DEF DecodeJson
<1> QED BY <1>2, <1>3, <1>4, <1>5 DEF SendPublic, SendSigned, FailsAs, NoAnswer

-----------------------------------------------------------------------------
(* What is asked of a target, and under which keys.                         *)

Ready == MayRun /\ target \in Targets

\* The one set of connectors a target's factory builds.
LEMMA OneBuilt ==
    ASSUME MayRun
    PROVE  /\ ~MustNotRun
           /\ \E connectors \in FactoryBuilt(target.keys) : ~connectors.production
           /\ target.exchange \in Registered
<1>1. ~MustNotRun /\ \E connectors \in FactoryBuilt(target.keys) : ~connectors.production
  BY DEF MayRun, Gate
<1>2. \A config : Connect(target.exchange, config) # {} => target.exchange \in Registered
  BY DEF Connect
<1> QED BY <1>1, <1>2 DEF FactoryBuilt

\* The factory builds one connector, with what its venue and credentials allow.
LEMMA BuiltIs ==
    ASSUME MayRun, NEW credentials
    PROVE  \E c : /\ FactoryBuilt(credentials) = {c}
                  /\ c = [capabilities |-> Capabilities \cap target.caps,
                          production |-> IsProductionUrl(target.host),
                          trading |-> credentials, account |-> credentials]
<1>1. target.exchange \in Registered
  BY OneBuilt
<1>2. PICK config : config = [host |-> target.host, credentials |-> credentials]
  OBVIOUS
<1>3. PICK b : b = BuildConnectors(config)
  OBVIOUS
<1>4. Connect(target.exchange, config) = {b}
  BY <1>1, <1>3 DEF Connect
<1>5. b = [capabilities |-> Capabilities, production |-> IsProductionUrl(target.host),
           trading |-> credentials, account |-> credentials]
  BY <1>2, <1>3 DEF BuildConnectors
<1>6. PICK c : c = [b EXCEPT !.capabilities = @ \cap target.caps]
  OBVIOUS
<1>7. c = [capabilities |-> Capabilities \cap target.caps, production |-> IsProductionUrl(target.host),
           trading |-> credentials, account |-> credentials]
  BY <1>5, <1>6
<1>8. FactoryBuilt(credentials) = {c}
  BY <1>2, <1>4, <1>6 DEF FactoryBuilt
<1> QED BY <1>7, <1>8

\* Its signing half holds the credentials it was given.
LEMMA SignsWith ==
    ASSUME MayRun, NEW credentials
    PROVE  UNION {SignedHalf(c) : c \in FactoryBuilt(credentials)} = credentials
<1>1. PICK c : FactoryBuilt(credentials) = {c} /\ c.trading = credentials /\ c.account = credentials
  BY BuiltIs
<1>2. SignedHalf(c) = credentials
  BY <1>1 DEF SignedHalf
<1> QED BY <1>1, <1>2

\* The signing key is there just when the target has one, and signs by its clock.
LEMMA KeysAre ==
    ASSUME MayRun
    PROVE  /\ Keys = {} <=> target.keys = {}
           /\ Keys \subseteq {Now + target.drift}
           /\ SignedAt({"rejected"}) = {Now + target.drift}
BY SignsWith DEF Keys, SignedAt

\* What a check is told without being run.
LEMMA Gated ==
    ASSUME MayRun, NEW check
    PROVE  /\ Gate(check) \in {"unsupported", "replay_only", "no_credentials", "run"}
           /\ Gate(check) = "run" /\ check \in Signed => Keys # {}
           /\ Gate(check) \notin {"unsupported"} => Needs(check) \subseteq target.caps
           /\ Gate(check) = "replay_only" => check \in Scripted /\ Live
<1>1. PICK c : /\ FactoryBuilt(target.keys) = {c}
               /\ c.capabilities = Capabilities \cap target.caps
  BY BuiltIs
<1>2. ~MustNotRun /\ ~c.production
  BY <1>1, OneBuilt
<1>3. UNION {SignedHalf(x) : x \in FactoryBuilt(target.keys)} = {} <=> Keys = {}
  BY SignsWith, KeysAre
<1>4. Missing(check, c) = {} => Needs(check) \subseteq target.caps
  BY <1>1 DEF Missing
<1> QED BY <1>1, <1>2, <1>3, <1>4 DEF Gate

-----------------------------------------------------------------------------
(* Errors.                                                                  *)

\* What each refusal is to fail as.
Named(refusal) ==
    CASE refusal \in {"below_notional", "off_step"} -> "RuleViolation"
      [] refusal = "beyond_balance" -> "InsufficientBalance"
      [] refusal \in {"unlisted_klines", "unlisted_rules"} -> "UnknownSymbol"
      [] refusal \in {"unknown_query", "unknown_cancel"} -> "UnknownOrder"
      [] refusal = "rejected_key" -> "Unauthorized"
      [] refusal \in {"too_late", "too_early"} -> "ClockSkew"
      [] refusal \in {"over_weight", "banned", "firewall", "order_rate"} -> "RateLimited"
      [] refusal \in {"not_processed", "overloaded"} -> "Unavailable"
      [] refusal \in {"failing", "order_timeout", "retry_code"} -> "OutcomeUnknown"
      [] OTHER -> "InvalidResponse"

ErrorChecks == {"rule_violations", "insufficient_balance", "unknown_symbol", "unknown_order", "unauthorized",
                "clock_skew", "rate_limited", "unavailable", "outcome_unknown", "malformed_response"}

\* The kind each of the venue's error codes is read as (classify_code).
LEMMA Codes ==
    /\ ClassifyCode(-1013, "filter_failure") = {"RuleViolation"}
    /\ ClassifyCode(-2010, "insufficient_balance") = {"InsufficientBalance"}
    /\ ClassifyCode(-1121, "invalid_symbol") = {"UnknownSymbol"}
    /\ ClassifyCode(-2013, "order_does_not_exist") = {"UnknownOrder"}
    /\ ClassifyCode(-2011, "unknown_order_sent") = {"UnknownOrder"}
    /\ ClassifyCode(-2014, "key_format_invalid") = {"Unauthorized"}
    /\ ClassifyCode(-1021, "timestamp") = {"ClockSkew"}
    /\ ClassifyCode(-1001, "internal_error") = {"Unavailable"}
    /\ ClassifyCode(-1008, "overloaded") = {"Unavailable"}
    /\ ClassifyCode(-1007, "status_unknown") = {"OutcomeUnknown"}
<1>1. ClassifyCode(-1013, "filter_failure") = {"RuleViolation"}
  BY DEF ClassifyCode
<1>2. ClassifyCode(-2010, "insufficient_balance") = {"InsufficientBalance"}
  BY DEF ClassifyCode
<1>3. ClassifyCode(-1121, "invalid_symbol") = {"UnknownSymbol"}
  BY DEF ClassifyCode
<1>4. ClassifyCode(-2013, "order_does_not_exist") = {"UnknownOrder"}
  BY DEF ClassifyCode
<1>5. ClassifyCode(-2011, "unknown_order_sent") = {"UnknownOrder"}
  BY DEF ClassifyCode
<1>6. ClassifyCode(-2014, "key_format_invalid") = {"Unauthorized"}
  BY DEF ClassifyCode
<1>7. ClassifyCode(-1021, "timestamp") = {"ClockSkew"}
  BY DEF ClassifyCode
<1>8. ClassifyCode(-1001, "internal_error") = {"Unavailable"}
  BY DEF ClassifyCode
<1>9. ClassifyCode(-1008, "overloaded") = {"Unavailable"}
  BY DEF ClassifyCode
<1>10. ClassifyCode(-1007, "status_unknown") = {"OutcomeUnknown"}
  BY DEF ClassifyCode
<1> QED BY <1>1, <1>2, <1>3, <1>4, <1>5, <1>6, <1>7, <1>8, <1>9, <1>10

\* What every refusal but a body of another shape fails as.
LEMMA RefusedNamed ==
    ASSUME NEW refusal \in RefusalLies, refusal # "wrong_shape"
    PROVE  FailsAs(Refused(refusal), Named(refusal))
<1>1. CASE refusal \in {"below_notional", "off_step"}
  <2>1. Refused(refusal) = Refuses(400, -1013, "filter_failure") /\ Named(refusal) = "RuleViolation"
    BY <1>1 DEF Refused, Named
  <2>2. FailsAs(Refuses(400, -1013, "filter_failure"), "RuleViolation")
    BY Codes, RefusedAs
  <2> QED BY <2>1, <2>2
<1>2. CASE refusal = "beyond_balance"
  <2>1. Refused(refusal) = Refuses(400, -2010, "insufficient_balance") /\ Named(refusal) = "InsufficientBalance"
    BY <1>2 DEF Refused, Named
  <2>2. FailsAs(Refuses(400, -2010, "insufficient_balance"), "InsufficientBalance")
    BY Codes, RefusedAs
  <2> QED BY <2>1, <2>2
<1>3. CASE refusal \in {"unlisted_klines", "unlisted_rules"}
  <2>1. Refused(refusal) = Refuses(400, -1121, "invalid_symbol") /\ Named(refusal) = "UnknownSymbol"
    BY <1>3 DEF Refused, Named
  <2>2. FailsAs(Refuses(400, -1121, "invalid_symbol"), "UnknownSymbol")
    BY Codes, RefusedAs
  <2> QED BY <2>1, <2>2
<1>4. CASE refusal = "unknown_query"
  <2>1. Refused(refusal) = Refuses(400, -2013, "order_does_not_exist") /\ Named(refusal) = "UnknownOrder"
    BY <1>4 DEF Refused, Named
  <2>2. FailsAs(Refuses(400, -2013, "order_does_not_exist"), "UnknownOrder")
    BY Codes, RefusedAs
  <2> QED BY <2>1, <2>2
<1>5. CASE refusal = "unknown_cancel"
  <2>1. Refused(refusal) = Refuses(400, -2011, "unknown_order_sent") /\ Named(refusal) = "UnknownOrder"
    BY <1>5 DEF Refused, Named
  <2>2. FailsAs(Refuses(400, -2011, "unknown_order_sent"), "UnknownOrder")
    BY Codes, RefusedAs
  <2> QED BY <2>1, <2>2
<1>6. CASE refusal = "rejected_key"
  <2>1. Refused(refusal) = Refuses(401, -2014, "key_format_invalid") /\ Named(refusal) = "Unauthorized"
    BY <1>6 DEF Refused, Named
  <2>2. FailsAs(Refuses(401, -2014, "key_format_invalid"), "Unauthorized")
    BY Codes, RefusedAs
  <2> QED BY <2>1, <2>2
<1>7. CASE refusal \in {"too_late", "too_early"}
  <2>1. Refused(refusal) = Refuses(400, -1021, "timestamp") /\ Named(refusal) = "ClockSkew"
    BY <1>7 DEF Refused, Named
  <2>2. FailsAs(Refuses(400, -1021, "timestamp"), "ClockSkew")
    BY Codes, RefusedAs
  <2> QED BY <2>1, <2>2
<1>8. CASE refusal \in {"over_weight", "banned", "order_rate"}
  BY <1>8, LimitedAs DEF Refused, Named
<1>9. CASE refusal = "not_processed"
  <2>1. Refused(refusal) = Refuses(400, -1001, "internal_error") /\ Named(refusal) = "Unavailable"
    BY <1>9 DEF Refused, Named
  <2>2. FailsAs(Refuses(400, -1001, "internal_error"), "Unavailable")
    BY Codes, RefusedAs
  <2> QED BY <2>1, <2>2
<1>10. CASE refusal = "overloaded"
  <2>1. Refused(refusal) = Refuses(400, -1008, "overloaded") /\ Named(refusal) = "Unavailable"
    BY <1>10 DEF Refused, Named
  <2>2. FailsAs(Refuses(400, -1008, "overloaded"), "Unavailable")
    BY Codes, RefusedAs
  <2> QED BY <2>1, <2>2
<1>11. CASE refusal = "order_timeout"
  <2>1. Refused(refusal) = Refuses(503, -1007, "status_unknown") /\ Named(refusal) = "OutcomeUnknown"
    BY <1>11 DEF Refused, Named
  <2>2. FailsAs(Refuses(503, -1007, "status_unknown"), "OutcomeUnknown")
    BY Codes, RefusedAs
  <2> QED BY <2>1, <2>2
<1>12. CASE refusal = "retry_code"
  BY <1>12, BusyAs DEF Refused, Named
<1>13. CASE refusal \in {"firewall", "failing", "not_json"}
  BY <1>13, PageAs DEF Refused, Named
<1> QED BY <1>1, <1>2, <1>3, <1>4, <1>5, <1>6, <1>7, <1>8, <1>9, <1>10, <1>11, <1>12, <1>13
           DEF RefusalLies

CallsFailAs(keys, answer, kind) ==
    /\ AccountBalances(keys, answer).kind = kind
    /\ \A quote : SubmitMarketOrder(keys, ByQuote(quote), answer).kind = kind
    /\ \A qty : SubmitMarketOrder(keys, ByBase(qty), answer).kind = kind
    /\ QueryOrder(keys, ByClient, answer).kind = kind
    /\ CancelOrder(keys, ById, answer).kind = kind
    /\ CancelOrder(keys, ByClient, answer).kind = kind

\* A call fails as its request does.
LEMMA CallsFail ==
    ASSUME NEW answer, NEW kind, FailsAs(answer, kind), kind # "ok", NEW keys
    PROVE  /\ FetchKlines(answer).kind = kind
           /\ FetchSymbolRules(answer).kind = kind
           /\ keys # {} => CallsFailAs(keys, answer, kind)
<1>1. PICK f : f = Failure(kind) /\ f.kind = kind /\ f.value = {} /\ f.kind # "ok" /\ f = [kind |-> kind, value |-> {}]
  BY DEF Failure
<1>2. \A shape : Typed(f, shape) = f
  BY <1>1 DEF Typed
<1>3. SendPublic(answer) = f /\ (keys # {} => SendSigned(keys, answer) = f)
  BY <1>1 DEF FailsAs
<1>4. FetchKlines(answer).kind = kind
  BY <1>1, <1>2, <1>3 DEF FetchKlines
<1>5. FetchSymbolRules(answer).kind = kind
  BY <1>1, <1>2, <1>3 DEF FetchSymbolRules
<1>6. ASSUME keys # {}
      PROVE  AccountBalances(keys, answer).kind = kind
  BY <1>1, <1>2, <1>3, <1>6 DEF AccountBalances
<1>7. ASSUME keys # {}
      PROVE  ReadOrder(keys, answer).kind = kind
  BY <1>1, <1>2, <1>3, <1>7 DEF ReadOrder
<1>8. /\ \A quote : ~(ByQuote(quote).qty = {} /\ ByQuote(quote).quote = {})
      /\ \A qty : ~(ByBase(qty).qty = {} /\ ByBase(qty).quote = {})
  BY DEF ByQuote, ByBase
<1>9. ~(ByClient.id = {} /\ ByClient.client = {}) /\ ~(ById.id = {} /\ ById.client = {})
  BY DEF ByClient, ById
<1>10. ASSUME keys # {}
       PROVE  /\ \A quote : SubmitMarketOrder(keys, ByQuote(quote), answer).kind = kind
              /\ \A qty : SubmitMarketOrder(keys, ByBase(qty), answer).kind = kind
  BY <1>7, <1>8, <1>10 DEF SubmitMarketOrder
<1>11. ASSUME keys # {}
       PROVE  /\ QueryOrder(keys, ByClient, answer).kind = kind
              /\ CancelOrder(keys, ById, answer).kind = kind
              /\ CancelOrder(keys, ByClient, answer).kind = kind
  BY <1>7, <1>9, <1>11 DEF QueryOrder, CancelOrder
<1> QED BY <1>4, <1>5, <1>6, <1>10, <1>11 DEF CallsFailAs

\* Refusals that only a signed request gets.
SignedRefusals == RefusalLies \ {"unlisted_klines", "unlisted_rules", "over_weight", "banned", "not_processed",
                                 "failing", "wrong_shape", "rejected_key"}

\* A body of another shape is an invalid response.
LEMMA WrongShape ==
    FetchKlines(Refused("wrong_shape")).kind = "InvalidResponse"
<1>1. PICK answer : answer = Refused("wrong_shape") /\ answer = Wrote("not_a_candle", <<>>)
  BY DEF Refused
<1>2. answer.status = 200 /\ answer.json # {} /\ answer.json = {[shape |-> "not_a_candle", data |-> <<>>]}
  BY <1>1, WroteHas
<1>3. SendPublic(answer) = [kind |-> "ok", value |-> answer.json]
  <2>1. answer.status = 200 /\ answer.json # {}
    BY <1>2
  <2> QED BY <2>1, Decoded
<1>4. \E v \in answer.json : v.shape # "klines"
  BY <1>2
<1>5. Typed(SendPublic(answer), "klines") = Failure("InvalidResponse")
  BY <1>3, <1>4 DEF Typed
<1> QED BY <1>1, <1>5 DEF FetchKlines, Failure

\* The suite's request provokes each refusal and reads it as the kind the code names.
LEMMA AskedAs ==
    ASSUME MayRun, target \in Targets, ~Skewed,
           NEW refusal \in RefusalLies, refusal \in SignedRefusals => Keys # {}
    PROVE  Asked(refusal).kind = Named(refusal)
<1>1. InWindow(Keys, Refused(refusal)) = Refused(refusal)
  <2>1. ~(Live /\ \E clock \in Keys : clock > Now + RecvWindow)
    <3>1. target.drift \in Int /\ Now \in Int /\ RecvWindow \in Int
      BY SuiteAssumption
    <3> QED BY <3>1, KeysAre DEF Skewed
  <2> QED BY <2>1 DEF InWindow
<1>2. CASE refusal = "wrong_shape"
  BY <1>2, WrongShape DEF Asked, Named
<1> SUFFICES ASSUME refusal # "wrong_shape"
             PROVE  Asked(refusal).kind = Named(refusal)
  BY <1>2
<1>3. PICK answer : answer = Refused(refusal)
  OBVIOUS
<1>4. PICK kind : kind = Named(refusal)
  OBVIOUS
<1>5. FailsAs(answer, kind) /\ kind # "ok"
  BY <1>3, <1>4, RefusedNamed DEF Named
<1>6. CASE refusal \in {"unlisted_klines", "over_weight", "banned", "not_processed", "failing"}
  BY <1>3, <1>4, <1>5, <1>6, CallsFail DEF Asked
<1>7. CASE refusal = "unlisted_rules"
  BY <1>3, <1>4, <1>5, <1>7, CallsFail DEF Asked
<1>8. CASE refusal = "rejected_key"
  <2>1. PICK keys : keys = SignedAt({"rejected"})
    OBVIOUS
  <2>2. keys # {}
    BY <2>1, KeysAre
  <2>3. AccountBalances(keys, answer).kind = kind
    BY <1>5, <2>2, CallsFail DEF CallsFailAs
  <2> QED BY <1>3, <1>4, <1>8, <2>1, <2>3 DEF Asked
<1>9. CASE refusal \in SignedRefusals
  <2>1. Keys # {}
    BY <1>9
  <2>2. /\ AccountBalances(Keys, answer).kind = kind
        /\ SubmitMarketOrder(Keys, ByQuote(Notional), answer).kind = kind
        /\ SubmitMarketOrder(Keys, ByBase(1), answer).kind = kind
        /\ QueryOrder(Keys, ByClient, answer).kind = kind
        /\ CancelOrder(Keys, ByClient, answer).kind = kind
    <3>1. CallsFailAs(Keys, answer, kind)
      BY <1>5, <2>1, CallsFail
    <3> QED BY <3>1 DEF CallsFailAs
  <2>3. CASE refusal \in {"below_notional", "beyond_balance", "order_rate", "order_timeout"}
    BY <1>1, <1>3, <1>4, <2>2, <2>3 DEF Asked
  <2>4. CASE refusal = "off_step"
    BY <1>1, <1>3, <1>4, <2>2, <2>4 DEF Asked
  <2>5. CASE refusal = "unknown_query"
    BY <1>1, <1>3, <1>4, <2>2, <2>5 DEF Asked
  <2>6. CASE refusal = "unknown_cancel"
    BY <1>1, <1>3, <1>4, <2>2, <2>6 DEF Asked
  <2>7. CASE refusal \in {"too_late", "too_early", "firewall", "overloaded", "retry_code", "not_json"}
    BY <1>1, <1>3, <1>4, <2>2, <2>7 DEF Asked
  <2> QED BY <1>9, <2>3, <2>4, <2>5, <2>6, <2>7 DEF SignedRefusals, RefusalLies
<1> QED BY <1>6, <1>7, <1>8, <1>9 DEF SignedRefusals, RefusalLies

-----------------------------------------------------------------------------
(* Bars, by their number: bar k opens at k * Step.                          *)

\* What the suite's constants are, and how they lie to each other.
LEMMA Sizes ==
    /\ Step \in Nat \ {0, 1} /\ Now \in Nat /\ FirstBar \in Nat /\ Ancient \in Nat /\ AncientBars \in Nat
    /\ FutureBars \in Nat \ {0} /\ WindowBars \in Nat /\ WindowBars >= 3 /\ WindowBars <= MaxLimit
    /\ SettledBars \in Nat \ {0} /\ Page \in Nat \ {0} /\ MaxPages \in Nat /\ Latest \in Nat \ {0}
    /\ MaxLimit \in Nat /\ AnyLimit \in Nat /\ Page <= MaxLimit /\ AnyLimit > MaxLimit
    /\ WindowBars <= MaxPages * Page
    /\ Now % Step \in Int /\ Now % Step < Step - 1
    /\ Ancient + AncientBars * Step < FirstBar
    /\ FirstBar <= Now - (Now % Step) - (SettledBars + WindowBars) * Step
<1>1. /\ Step \in Nat \ {0, 1} /\ Now \in Nat /\ FirstBar \in Nat /\ Ancient \in Nat /\ AncientBars \in Nat
      /\ SettledBars \in Nat \ {0} /\ Page \in Nat \ {0} /\ MaxPages \in Nat /\ Latest \in Nat \ {0}
      /\ FutureBars \in Nat \ {0} /\ WindowBars \in Nat /\ MaxLimit \in Nat /\ AnyLimit \in Nat
  BY SuiteAssumption
<1>2. WindowBars >= 3 /\ WindowBars <= MaxLimit /\ Page <= MaxLimit /\ AnyLimit > MaxLimit
  BY <1>1, SuiteAssumption
<1>3. Now % Step \in Int
  BY <1>1
<1> QED BY <1>1, <1>2, <1>3, SuiteAssumption

\* Multiples of a size lie at least the size apart.
LEMMA Apart ==
    ASSUME NEW d \in Nat \ {0}, NEW a \in Int, NEW b \in Int
    PROVE  /\ a * d \in Int /\ b * d \in Int
           /\ a < b => a * d + d <= b * d
           /\ a <= b => a * d <= b * d
           /\ a * d < b * d + d => a <= b
           /\ a * d = b * d => a = b
<1>1. ASSUME NEW x \in Int, NEW y \in Int, x < y
      PROVE  x * d + d <= y * d
  <2>1. PICK k \in Nat : y = x + 1 + k
    <3>1. y - x - 1 \in Nat
      BY <1>1
    <3>2. y = x + 1 + (y - x - 1)
      OBVIOUS
    <3> QED BY <3>1, <3>2
  <2>2. y * d = x * d + d + k * d /\ k * d \in Nat
    BY <2>1
  <2> QED BY <2>2
<1>2. a * d \in Int /\ b * d \in Int
  OBVIOUS
<1>3. a < b \/ a = b \/ b < a
  OBVIOUS
<1> QED BY <1>1, <1>2, <1>3

\* Dividing by a size finds the bar a time is in.
LEMMA DivUp ==
    ASSUME NEW d \in Nat \ {0}, NEW k \in Int, NEW r \in 0..(d - 1)
    PROVE  (k * d + r) \div d = k
<1>1. PICK q \in Int, s \in 0..(d - 1) : q = (k * d + r) \div d /\ k * d + r = q * d + s
  <2>1. PICK x \in Int : x = k * d + r
    OBVIOUS
  <2>2. x \div d \in Int /\ x % d \in 0..(d - 1) /\ x = (x \div d) * d + (x % d)
    OBVIOUS
  <2> QED BY <2>1, <2>2
<1>2. k <= q /\ q <= k
  <2>1. k * d < q * d + d /\ q * d < k * d + d
    BY <1>1
  <2> QED BY <1>1, <2>1, Apart
<1> QED BY <1>1, <1>2

\* Every time is in one bar.
LEMMA InBar ==
    ASSUME NEW x \in Int
    PROVE  \E k \in Int : k = x \div Step /\ k * Step <= x /\ x < k * Step + Step /\ x % Step = x - k * Step
<1>1. Step \in Nat \ {0}
  BY Sizes
<1>2. x \div Step \in Int /\ x % Step \in 0..(Step - 1) /\ x = (x \div Step) * Step + (x % Step)
  BY <1>1
<1>3. PICK k \in Int : k = x \div Step
  BY <1>2
<1>4. k * Step \in Int
  BY <1>1
<1> QED BY <1>1, <1>2, <1>3, <1>4

\* A bar's open time is on the grid; one later is not.
LEMMA OnGrid ==
    ASSUME NEW k \in Int
    PROVE  k * Step \in Int /\ (k * Step) % Step = 0 /\ (k * Step + 1) % Step # 0
<1>1. Step \in Nat \ {0, 1} /\ k * Step \in Int
  BY Sizes
<1>2. (k * Step + 0) \div Step = k /\ (k * Step + 1) \div Step = k
  BY <1>1, DivUp
<1>3. ASSUME NEW x \in Int
      PROVE  x = (x \div Step) * Step + (x % Step) /\ x % Step \in Int
  BY <1>1
<1>4. k * Step + 0 = k * Step + ((k * Step + 0) % Step)
  BY <1>1, <1>2, <1>3
<1>5. k * Step + 1 = k * Step + ((k * Step + 1) % Step)
  <2>1. k * Step + 1 \in Int
    BY <1>1
  <2> QED BY <1>2, <1>3, <2>1
<1>6. k * Step + 0 = k * Step
  BY <1>1
<1>7. (k * Step) % Step \in Int /\ (k * Step + 1) % Step \in Int
  BY <1>1
<1> QED BY <1>1, <1>4, <1>5, <1>6, <1>7

Grid(k, n) == [i \in 1..n |-> (k + i - 1) * Step]

\* The open times between two times.
LEMMA OpensIs ==
    ASSUME NEW from \in Int, NEW upto \in Int, NEW k \in Int, NEW n \in Nat,
           from <= k * Step, k * Step < from + Step,
           upto < (k + n) * Step, n > 0 => (k + n - 1) * Step <= upto
    PROVE  Opens(from, upto) = Grid(k, n)
<1> DEFINE first == ((from + Step - 1) \div Step) * Step
<1>1. Step \in Nat \ {0, 1} /\ k * Step \in Int
  BY Sizes
<1>2. first = k * Step
  <2>1. PICK r \in 0..(Step - 1) : from + Step - 1 = k * Step + r
    <3>1. from + Step - 1 - k * Step \in 0..(Step - 1)
      BY <1>1
    <3>2. from + Step - 1 = k * Step + (from + Step - 1 - k * Step)
      BY <1>1
    <3> QED BY <3>1, <3>2
  <2>2. (k * Step + r) \div Step = k
    BY <1>1, DivUp
  <2> QED BY <2>1, <2>2
<1>3. PICK m \in Int : m = (upto - first) \div Step
  BY <1>1, <1>2
<1>4. 1..(m + 1) = 1..n
  <2>1. m = (upto - k * Step) \div Step
    BY <1>2, <1>3
  <2>2. m * Step <= upto - k * Step /\ upto - k * Step < m * Step + Step
    BY <1>1, <2>1, InBar
  <2>3. m < n
    <3>1. (k + n) * Step = k * Step + n * Step /\ n * Step \in Int /\ m * Step \in Int
      BY <1>1
    <3>2. m * Step < n * Step
      BY <1>1, <2>2, <3>1
    <3> QED BY <1>1, <3>2, Apart
  <2>4. CASE n = 0
    BY <2>3, <2>4
  <2>5. CASE n > 0
    <3>1. (k + n - 1) * Step = k * Step + n * Step - Step /\ n * Step \in Int /\ m * Step \in Int
      BY <1>1
    <3>2. n * Step < m * Step + Step + Step
      BY <1>1, <2>2, <2>5, <3>1
    <3>3. (m + 1) * Step = m * Step + Step
      BY <1>1
    <3>4. n <= m + 1
      BY <1>1, <3>2, <3>3, Apart
    <3> QED BY <2>3, <3>4
  <2> QED BY <2>4, <2>5
<1>5. Opens(from, upto) = [i \in 1..(m + 1) |-> first + (i - 1) * Step]
  BY <1>3 DEF Opens
<1>6. \A i \in 1..n : first + (i - 1) * Step = (k + i - 1) * Step
  BY <1>1, <1>2
<1> HIDE DEF first
<1> QED BY <1>4, <1>5, <1>6 DEF Grid

\* Between any two times there is a run of bars.
LEMMA OpensAre ==
    ASSUME NEW from \in Int, NEW upto \in Int
    PROVE  \E k \in Int, n \in Nat :
              /\ Opens(from, upto) = Grid(k, n)
              /\ from <= k * Step /\ k * Step < from + Step
              /\ upto < (k + n) * Step
              /\ n > 0 => (k + n - 1) * Step <= upto
<1>1. Step \in Nat \ {0, 1}
  BY Sizes
<1>2. PICK k \in Int : from <= k * Step /\ k * Step < from + Step
  <2>1. PICK j \in Int : j * Step <= from + Step - 1 /\ from + Step - 1 < j * Step + Step
    <3>1. PICK x \in Int : x = from + Step - 1
      BY <1>1
    <3> QED BY <3>1, InBar
  <2> QED BY <1>1, <2>1
<1>3. PICK u \in Int : u * Step <= upto /\ upto < u * Step + Step
  BY <1>1, InBar
<1>4. PICK n \in Nat : n = IF u < k THEN 0 ELSE u - k + 1
  <2>1. CASE u < k
    BY <2>1
  <2>2. CASE u >= k
    <3>1. u - k + 1 \in Nat
      BY <2>2
    <3> QED BY <2>2, <3>1
  <2> QED BY <2>1, <2>2
<1>5. upto < (k + n) * Step
  <2>1. CASE u < k
    <3>1. u * Step + Step <= k * Step
      BY <1>1, <2>1, Apart
    <3>2. (k + n) * Step = k * Step
      BY <1>4, <2>1
    <3> QED BY <1>1, <1>3, <3>1, <3>2
  <2>2. CASE u >= k
    <3>1. k + n = u + 1
      BY <1>4, <2>2
    <3>2. (u + 1) * Step = u * Step + Step
      BY <1>1
    <3> QED BY <1>3, <3>1, <3>2
  <2> QED BY <2>1, <2>2
<1>6. n > 0 => (k + n - 1) * Step <= upto
  <2>1. n > 0 => k + n - 1 = u
    BY <1>4
  <2> QED BY <1>3, <2>1
<1>7. Opens(from, upto) = Grid(k, n)
  BY <1>2, <1>5, <1>6, OpensIs
<1> QED BY <1>2, <1>5, <1>6, <1>7

\* A bound is in a run from its bar on.
LEMMA GridCut ==
    ASSUME NEW k \in Int, NEW n \in Nat, NEW m \in 0..n
    PROVE  /\ Len(Grid(k, n)) = n /\ DOMAIN Grid(k, n) = 1..n
           /\ SubSeq(Grid(k, n), 1, m) = Grid(k, m)
           /\ SubSeq(Grid(k, n), n - m + 1, n) = Grid(k + (n - m), m)
<1>1. \A i \in 1..n : Grid(k, n)[i] = (k + i - 1) * Step
  BY DEF Grid
<1>2. Len(Grid(k, n)) = n /\ DOMAIN Grid(k, n) = 1..n
  BY DEF Grid
<1>3. SubSeq(Grid(k, n), 1, m) = [i \in 1..m |-> Grid(k, n)[i]]
  OBVIOUS
<1>4. SubSeq(Grid(k, n), n - m + 1, n) = [i \in 1..m |-> Grid(k, n)[i + (n - m)]]
  OBVIOUS
<1>5. \A i \in 1..m : i \in 1..n /\ i + (n - m) \in 1..n /\ k + (i + (n - m)) - 1 = (k + (n - m)) + i - 1
  OBVIOUS
<1>6. \A i \in 1..m : Grid(k, n)[i + (n - m)] = ((k + (n - m)) + i - 1) * Step
  BY <1>1, <1>5
<1>7. \A i \in 1..m : Grid(k, n)[i] = (k + i - 1) * Step
  BY <1>1, <1>5
<1> QED BY <1>2, <1>3, <1>4, <1>6, <1>7 DEF Grid

\* The extremes of one number and of two.
LEMMA Extremes ==
    ASSUME NEW a \in Int, NEW b \in Int
    PROVE  /\ Max({a}) = a /\ Min({a}) = a
           /\ Max({a, b}) = (IF a >= b THEN a ELSE b)
           /\ Min({a, b}) = (IF a <= b THEN a ELSE b)
<1>1. Max({a}) = a /\ Min({a}) = a
  BY DEF Max, Min
<1>2. Max({a, b}) = (IF a >= b THEN a ELSE b)
  <2>1. \E x \in {a, b} : \A y \in {a, b} : x >= y
    OBVIOUS
  <2>2. Max({a, b}) \in {a, b} /\ \A y \in {a, b} : Max({a, b}) >= y
    BY <2>1 DEF Max
  <2> QED BY <2>2
<1>3. Min({a, b}) = (IF a <= b THEN a ELSE b)
  <2>1. \E x \in {a, b} : \A y \in {a, b} : x <= y
    OBVIOUS
  <2>2. Min({a, b}) \in {a, b} /\ \A y \in {a, b} : Min({a, b}) <= y
    BY <2>1 DEF Min
  <2> QED BY <2>2
<1> QED BY <1>1, <1>2, <1>3

\* What a connector makes of the bounds of a request.
Low(s) == CASE lie = "start_exclusive" -> s + 1 [] lie = "repeats" -> s - Step [] OTHER -> s
From(start) == Max({FirstBar} \cup {Low(s) : s \in start})
High(e) == IF lie = "end_exclusive" THEN e - 1 ELSE e
Top(now) == IF lie = "future_bar" THEN Horizon ELSE now
Upto(end, now) == Min({Top(now)} \cup {High(e) : e \in end})
Capped(limit) == {Min({l, MaxLimit}) : l \in limit}
Sent(limit) == IF lie = "limit_refused" THEN limit ELSE Capped(limit)

CandlesOn(k, n, now, limit) == [i \in 1..n |-> Candle((k + i - 1) * Step, now, limit)]

\* The first time served for a start.
LEMMA Froms ==
    ASSUME NEW s \in Int
    PROVE  /\ From({}) = FirstBar
           /\ Low(s) \in Int
           /\ From({s}) = IF FirstBar >= Low(s) THEN FirstBar ELSE Low(s)
           /\ From({}) \in Int /\ From({s}) \in Int
<1>1. Step \in Int /\ FirstBar \in Int
  BY Sizes
<1>2. {FirstBar} \cup {Low(x) : x \in {}} = {FirstBar} /\ {FirstBar} \cup {Low(x) : x \in {s}} = {FirstBar, Low(s)}
  OBVIOUS
<1>3. Low(s) \in Int
  BY <1>1 DEF Low
<1>4. From({}) = FirstBar
  BY <1>1, <1>2, Extremes DEF From
<1>5. From({s}) = IF FirstBar >= Low(s) THEN FirstBar ELSE Low(s)
  <2>1. From({s}) = Max({FirstBar, Low(s)})
    BY <1>2 DEF From
  <2> QED BY <1>1, <1>3, <2>1, Extremes
<1> QED BY <1>1, <1>3, <1>4, <1>5

\* The last time served for an end.
LEMMA Uptos ==
    ASSUME NEW e \in Int, NEW now \in Int
    PROVE  /\ Upto({}, now) = Top(now)
           /\ Top(now) \in Int /\ High(e) \in Int
           /\ Upto({e}, now) = IF Top(now) <= High(e) THEN Top(now) ELSE High(e)
           /\ Upto({}, now) \in Int /\ Upto({e}, now) \in Int
<1>1. Top(now) \in Int
  <2>1. Step \in Nat /\ Now \in Nat /\ FutureBars \in Nat /\ AncientBars \in Nat
    BY Sizes
  <2>2. (FutureBars + AncientBars) * Step \in Int
    BY <2>1
  <2>3. Horizon \in Int
    BY <2>1, <2>2 DEF Horizon
  <2> QED BY <2>3 DEF Top
<1>2. {Top(now)} \cup {High(x) : x \in {}} = {Top(now)} /\ {Top(now)} \cup {High(x) : x \in {e}} = {Top(now), High(e)}
  OBVIOUS
<1>3. High(e) \in Int
  BY DEF High
<1>4. Upto({}, now) = Top(now)
  BY <1>1, <1>2, Extremes DEF Upto
<1>5. Upto({e}, now) = IF Top(now) <= High(e) THEN Top(now) ELSE High(e)
  <2>1. Upto({e}, now) = Min({Top(now), High(e)})
    BY <1>2 DEF Upto
  <2> QED BY <1>1, <1>3, <2>1, Extremes
<1> QED BY <1>1, <1>3, <1>4, <1>5

\* What is asked is what the venue wrote, unless it refuses the limit or
\* stops at a gap.
LEMMA KlinesServed ==
    ASSUME NEW start, NEW end, NEW limit, NEW now,
           \A l \in Sent(limit) : ~(l > MaxLimit),
           NEW open, open = (IF lie = "gap_stops" /\ \E s \in start : s < FirstBar THEN <<>>
                            ELSE Opens(From(start), Upto(end, now))),
           NEW served, served = Served(open, start, Sent(limit))
    PROVE  Klines(start, end, limit, now) = [i \in DOMAIN served |-> Candle(served[i], now, Sent(limit))]
<1> DEFINE request == [start |-> start, end |-> end, limit |-> limit]
           sent == IF lie = "limit_refused" THEN request ELSE KlinesRequest(request)
           data == [i \in DOMAIN served |-> Candle(served[i], now, Sent(limit))]
<1>1. sent.start = start /\ sent.end = end /\ sent.limit = Sent(limit)
  BY DEF KlinesRequest, Sent, Capped
<1>2. Rows(start, end, Sent(limit), now) = Wrote("klines", data)
  <2>1. ~(\E l \in Sent(limit) : l > MaxLimit)
    OBVIOUS
  <2>2. PICK low, high : low = From(start) /\ high = Upto(end, now)
    OBVIOUS
  <2>3. low = Max({FirstBar} \cup {CASE lie = "start_exclusive" -> s + 1
                                     [] lie = "repeats" -> s - Step
                                     [] OTHER -> s : s \in start})
    BY <2>2 DEF From, Low
  <2>4. high = Min({IF lie = "future_bar" THEN Horizon ELSE now}
                      \cup {IF lie = "end_exclusive" THEN e - 1 ELSE e : e \in end})
    BY <2>2 DEF Upto, High, Top
  <2>5. open = IF lie = "gap_stops" /\ \E s \in start : s < FirstBar THEN <<>> ELSE Opens(low, high)
    BY <2>2
  <2>6. served = Served(IF lie = "gap_stops" /\ \E s \in start : s < FirstBar THEN <<>>
                        ELSE Opens(low, high), start, Sent(limit))
    BY <2>5
  <2> QED BY <2>1, <2>3, <2>4, <2>6, ZenonT(120) DEF Rows
<1>3. PICK got : got = FetchKlines(Wrote("klines", data))
  OBVIOUS
<1>4. got = [kind |-> "ok", value |-> {data}]
  <2> HIDE DEF data
  <2> QED BY <1>3, Read DEF FetchKlines
<1>5. got.kind = "ok" /\ (CHOOSE rows \in got.value : TRUE) = data
  <2> HIDE DEF data
  <2> QED BY <1>4
<1>6. Klines(start, end, limit, now) = IF got.kind = "ok" THEN CHOOSE rows \in got.value : TRUE ELSE <<>>
  <2> HIDE DEF data
  <2>1. Klines(start, end, limit, now) =
          LET g == FetchKlines(Rows(sent.start, sent.end, sent.limit, now))
          IN  IF g.kind = "ok" THEN CHOOSE rows \in g.value : TRUE ELSE <<>>
    BY DEF Klines
  <2>2. Rows(sent.start, sent.end, sent.limit, now) = Wrote("klines", data)
    <3> HIDE DEF sent
    <3> QED BY <1>1, <1>2
  <2> HIDE DEF sent
  <2> QED BY <1>3, <2>1, <2>2
<1> QED BY <1>5, <1>6

\* A call for candles returns those served, where the limit is not refused.
LEMMA KlinesAre ==
    ASSUME NEW start, NEW end, NEW limit, NEW now,
           \A l \in Sent(limit) : ~(l > MaxLimit),
           lie = "gap_stops" => \A s \in start : ~(s < FirstBar),
           NEW served, served = Served(Opens(From(start), Upto(end, now)), start, Sent(limit))
    PROVE  Klines(start, end, limit, now) = [i \in DOMAIN served |-> Candle(served[i], now, Sent(limit))]
<1>1. PICK open : open = IF lie = "gap_stops" /\ \E s \in start : s < FirstBar THEN <<>>
                         ELSE Opens(From(start), Upto(end, now))
  OBVIOUS
<1>2. served = Served(open, start, Sent(limit))
  BY <1>1
<1> QED BY <1>1, <1>2, KlinesServed

\* Of a run of bars, as many are served as the limit takes: the first ones from
\* a start on, the last ones without.
LEMMA ServedIs ==
    ASSUME lie # "newest_first", NEW k \in Int, NEW n \in Nat, NEW start,
           NEW limit, NEW l \in Nat, limit = {l} \/ (limit = {} /\ l = MaxLimit),
           NEW most \in Nat, most = IF lie = "over_limit" \/ n <= l THEN n ELSE l
    PROVE  /\ start # {} => Served(Grid(k, n), start, limit) = Grid(k, most)
           /\ start = {} => Served(Grid(k, n), start, limit) = Grid(k + (n - most), most)
<1>1. most \in 0..n /\ n \in Int /\ l \in Int
  OBVIOUS
<1>2. PICK up : up = Grid(k, n)
  OBVIOUS
<1>3. Len(up) = n /\ SubSeq(up, 1, most) = Grid(k, most) /\ SubSeq(up, n - most + 1, n) = Grid(k + (n - most), most)
  BY <1>1, <1>2, GridCut
<1>4. (IF limit = {} THEN MaxLimit ELSE Min(limit)) = l
  <2>1. l \in Int
    OBVIOUS
  <2>2. Min({l}) = l
    BY <2>1, Extremes
  <2> QED BY <2>2
<1>5. (IF lie = "over_limit" THEN n ELSE Min({n, l})) = most
  <2>1. Min({n, l}) = IF n <= l THEN n ELSE l
    BY <1>1, Extremes
  <2> QED BY <2>1
<1>6. PICK cut : cut = IF start = {} THEN SubSeq(up, n - most + 1, n) ELSE SubSeq(up, 1, most)
  OBVIOUS
<1>7. Served(up, start, limit) = cut
  BY <1>3, <1>4, <1>5, <1>6 DEF Served
<1> QED BY <1>2, <1>3, <1>6, <1>7

\* The candles of a run of bars, one each.
LEMMA OnGridMap ==
    ASSUME NEW k \in Int, NEW n \in Nat, NEW now, NEW limit, NEW served, served = Grid(k, n)
    PROVE  [i \in DOMAIN served |-> Candle(served[i], now, limit)] = CandlesOn(k, n, now, limit)
<1>1. DOMAIN served = 1..n /\ \A i \in 1..n : served[i] = (k + i - 1) * Step
  BY DEF Grid
<1> QED BY <1>1 DEF CandlesOn

\* The limits the suite asks with, and what the adapter makes of them.
Asks(limit, l) == \/ limit = {} /\ l = MaxLimit
                  \/ \E x \in Nat : limit = {x} /\ l = (IF x <= MaxLimit THEN x ELSE MaxLimit)

\* A limit asked for is sent as the connector caps it.
LEMMA Limits ==
    ASSUME lie # "limit_refused", NEW limit, NEW l, Asks(limit, l)
    PROVE  /\ Sent(limit) = Capped(limit) /\ l \in Nat
           /\ Capped(limit) = {l} \/ (Capped(limit) = {} /\ l = MaxLimit)
           /\ \A x \in Sent(limit) : ~(x > MaxLimit)
<1>1. Sent(limit) = Capped(limit) /\ MaxLimit \in Nat
  BY Sizes DEF Sent
<1>2. CASE limit = {} /\ l = MaxLimit
  <2>1. Capped(limit) = {}
    BY <1>2 DEF Capped
  <2> QED BY <1>1, <1>2, <2>1
<1>3. ASSUME NEW x \in Nat, limit = {x}, l = (IF x <= MaxLimit THEN x ELSE MaxLimit)
      PROVE  Capped(limit) = {l} /\ l \in Nat /\ ~(l > MaxLimit)
  <2>1. x \in Int /\ MaxLimit \in Int
    BY <1>1, <1>3
  <2>2. Min({x, MaxLimit}) = l
    BY <1>3, <2>1, Extremes
  <2>3. Capped(limit) = {Min({x, MaxLimit})}
    BY <1>3 DEF Capped
  <2> QED BY <1>1, <1>3, <2>2, <2>3
<1> QED BY <1>1, <1>2, <1>3 DEF Asks

Spans(k, n, from, upto) ==
    /\ from <= k * Step /\ k * Step < from + Step
    /\ upto < (k + n) * Step
    /\ n > 0 => (k + n - 1) * Step <= upto

Most(n, l) == IF lie = "over_limit" \/ n <= l THEN n ELSE l

\* The candles of a request that starts somewhere.
LEMMA KlinesFrom ==
    ASSUME lie \notin {"newest_first", "limit_refused"},
           NEW s \in Int, lie = "gap_stops" => s >= FirstBar,
           NEW end, NEW now, Upto(end, now) \in Int, NEW limit, NEW l, Asks(limit, l),
           NEW k \in Int, NEW n \in Nat, Spans(k, n, From({s}), Upto(end, now))
    PROVE  Klines({s}, end, limit, now) = CandlesOn(k, Most(n, l), now, Capped(limit))
<1>1. /\ Sent(limit) = Capped(limit) /\ l \in Nat
      /\ Capped(limit) = {l} \/ (Capped(limit) = {} /\ l = MaxLimit)
      /\ \A x \in Sent(limit) : ~(x > MaxLimit)
  BY Limits
<1>2. Opens(From({s}), Upto(end, now)) = Grid(k, n)
  <2>1. PICK from \in Int, upto \in Int : from = From({s}) /\ upto = Upto(end, now)
    BY Froms
  <2>2. Spans(k, n, from, upto)
    BY <2>1
  <2>3. Opens(from, upto) = Grid(k, n)
    BY <2>2, OpensIs DEF Spans
  <2> QED BY <2>1, <2>3
<1>3. PICK most \in Nat : most = Most(n, l)
  BY <1>1 DEF Most
<1>4. PICK start, sent, served : start = {s} /\ sent = Sent(limit) /\ served = Served(Grid(k, n), start, sent)
  OBVIOUS
<1>5. served = Grid(k, most)
  <2>1. sent = {l} \/ (sent = {} /\ l = MaxLimit)
    BY <1>1, <1>4
  <2>2. start # {} /\ most = (IF lie = "over_limit" \/ n <= l THEN n ELSE l) /\ lie # "newest_first"
    BY <1>3, <1>4 DEF Most
  <2>3. Served(Grid(k, n), start, sent) = Grid(k, most)
    BY <1>1, <2>1, <2>2, ServedIs
  <2> QED BY <1>4, <2>3
<1>6. Klines(start, end, limit, now) = [i \in DOMAIN served |-> Candle(served[i], now, sent)]
  <2>1. \A x \in Sent(limit) : ~(x > MaxLimit)
    BY <1>1
  <2>2. lie = "gap_stops" => \A x \in start : ~(x < FirstBar)
    <3>1. FirstBar \in Int
      BY Sizes
    <3> QED BY <1>4, <3>1
  <2>3. served = Served(Opens(From(start), Upto(end, now)), start, Sent(limit))
    BY <1>2, <1>4
  <2>4. Klines(start, end, limit, now) = [i \in DOMAIN served |-> Candle(served[i], now, Sent(limit))]
    BY <2>1, <2>2, <2>3, KlinesAre
  <2> QED BY <1>4, <2>4
<1>7. [i \in DOMAIN served |-> Candle(served[i], now, sent)] = CandlesOn(k, most, now, sent)
  BY <1>5, OnGridMap
<1> QED BY <1>1, <1>3, <1>4, <1>6, <1>7

\* And of one that asks for the latest.
LEMMA KlinesLatest ==
    ASSUME lie \notin {"newest_first", "limit_refused"}, NEW now, Upto({}, now) \in Int,
           NEW limit, NEW l, Asks(limit, l),
           NEW k \in Int, NEW n \in Nat, Spans(k, n, FirstBar, Upto({}, now))
    PROVE  Klines({}, {}, limit, now) = CandlesOn(k + (n - Most(n, l)), Most(n, l), now, Capped(limit))
<1>1. /\ Sent(limit) = Capped(limit) /\ l \in Nat
      /\ Capped(limit) = {l} \/ (Capped(limit) = {} /\ l = MaxLimit)
      /\ \A x \in Sent(limit) : ~(x > MaxLimit)
  BY Limits
<1>2. Opens(From({}), Upto({}, now)) = Grid(k, n)
  <2>1. PICK from \in Int, upto \in Int : from = FirstBar /\ from = From({}) /\ upto = Upto({}, now)
    BY Froms, Sizes
  <2>2. Spans(k, n, from, upto)
    BY <2>1
  <2>3. Opens(from, upto) = Grid(k, n)
    BY <2>2, OpensIs DEF Spans
  <2> QED BY <2>1, <2>3
<1>3. PICK most \in Nat : most = Most(n, l)
  BY <1>1 DEF Most
<1>4. PICK start, sent, served : start = {} /\ sent = Sent(limit) /\ served = Served(Grid(k, n), start, sent)
  OBVIOUS
<1>5. served = Grid(k + (n - most), most)
  <2>1. sent = {l} \/ (sent = {} /\ l = MaxLimit)
    BY <1>1, <1>4
  <2>2. start = {} /\ most = (IF lie = "over_limit" \/ n <= l THEN n ELSE l) /\ lie # "newest_first"
    BY <1>3, <1>4 DEF Most
  <2>3. Served(Grid(k, n), start, sent) = Grid(k + (n - most), most)
    BY <1>1, <2>1, <2>2, ServedIs
  <2> QED BY <1>4, <2>3
<1>6. Klines(start, {}, limit, now) = [i \in DOMAIN served |-> Candle(served[i], now, sent)]
  <2>1. \A x \in Sent(limit) : ~(x > MaxLimit)
    BY <1>1
  <2>2. lie = "gap_stops" => \A x \in start : ~(x < FirstBar)
    BY <1>4
  <2>3. served = Served(Opens(From(start), Upto({}, now)), start, Sent(limit))
    BY <1>2, <1>4
  <2>4. Klines(start, {}, limit, now) = [i \in DOMAIN served |-> Candle(served[i], now, Sent(limit))]
    BY <2>1, <2>2, <2>3, KlinesAre
  <2> QED BY <1>4, <2>4
<1>7. [i \in DOMAIN served |-> Candle(served[i], now, sent)] = CandlesOn(k + (n - most), most, now, sent)
  <2>1. PICK j \in Int : j = k + (n - most)
    OBVIOUS
  <2> QED BY <1>5, <2>1, OnGridMap
<1> QED BY <1>1, <1>3, <1>4, <1>6, <1>7

-----------------------------------------------------------------------------
(* The window.                                                              *)

FirstAsked == Now \div Step - SettledBars - WindowBars + 1

\* The window the checks ask about is WindowBars settled bars, after the first.
LEMMA Window ==
    LET b == FirstAsked IN
    /\ b \in Int
    /\ Begin = b * Step /\ End = (b + WindowBars - 1) * Step
    /\ Aligned = (b + WindowBars - 1 + SettledBars) * Step
    /\ Aligned <= Now /\ Now < Aligned + Step - 1 /\ Aligned \in Int
    /\ FirstBar + Step <= Begin /\ Begin < End /\ End + Step <= Aligned
    /\ Begin \in Int /\ End \in Int
<1>1. /\ Step \in Nat \ {0, 1} /\ Now \in Nat /\ FirstBar \in Nat /\ SettledBars \in Nat \ {0}
      /\ WindowBars \in Nat /\ WindowBars >= 3 /\ Now % Step < Step - 1
      /\ FirstBar <= Now - (Now % Step) - (SettledBars + WindowBars) * Step
  BY Sizes
<1>2. PICK q \in Int : q = Now \div Step /\ q * Step <= Now /\ Now % Step = Now - q * Step
  <2>1. Now \in Int
    BY <1>1
  <2> QED BY <2>1, InBar
<1>3. PICK b \in Int : b = FirstAsked /\ b = q - SettledBars - WindowBars + 1
  <2>1. q - SettledBars - WindowBars + 1 \in Int
    BY <1>1
  <2> QED BY <1>2, <2>1 DEF FirstAsked
<1>4. q * Step \in Int /\ Aligned = q * Step
  BY <1>1, <1>2 DEF Aligned
<1>5. End = (q - SettledBars) * Step
  BY <1>1, <1>4 DEF End
<1>6. Begin = b * Step
  BY <1>1, <1>3, <1>5 DEF Begin
<1>7. q = b + WindowBars - 1 + SettledBars /\ q - SettledBars = b + WindowBars - 1
  BY <1>1, <1>3
<1>8. (SettledBars + WindowBars) * Step + b * Step - Step = q * Step
  BY <1>1, <1>7
<1>9. FirstBar + Step <= Begin
  <2>1. PICK x \in Int : x = (SettledBars + WindowBars) * Step
    BY <1>1
  <2> QED BY <1>1, <1>2, <1>4, <1>6, <1>8, <2>1
<1>10. Begin < End /\ End + Step <= Aligned
  <2>1. b < b + WindowBars - 1 /\ b + WindowBars - 1 < q
    BY <1>1, <1>7
  <2>2. b * Step + Step <= (b + WindowBars - 1) * Step /\ (b + WindowBars - 1) * Step + Step <= q * Step
    BY <1>1, <2>1, Apart
  <2>3. b * Step \in Int /\ (b + WindowBars - 1) * Step \in Int
    BY <1>1
  <2> QED BY <1>1, <1>4, <1>5, <1>6, <1>7, <2>2, <2>3
<1>11. Begin \in Int /\ End \in Int
  BY <1>1, <1>5, <1>6
<1> QED BY <1>1, <1>2, <1>3, <1>4, <1>5, <1>6, <1>7, <1>9, <1>10, <1>11

\* The connectors that keep to the bounds they are asked for.
Bounded == lie \notin {"start_exclusive", "end_exclusive", "repeats", "newest_first", "limit_refused", "future_bar"}

\* Asked for a run of bars within the history, a connector that serves its
\* bounds returns it, up to the limit.
LEMMA Between ==
    ASSUME Bounded, NEW j \in Int,
           NEW n \in Nat, FirstBar <= j * Step, n > 0, (j + n - 1) * Step <= Now,
           NEW limit, NEW l, Asks(limit, l)
    PROVE  Klines({j * Step}, {(j + n - 1) * Step}, limit, Now) = CandlesOn(j, Most(n, l), Now, Capped(limit))
<1>1. Step \in Nat \ {0, 1} /\ Now \in Nat /\ FirstBar \in Nat
  BY Sizes
<1>2. PICK s \in Int, e \in Int : s = j * Step /\ e = (j + n - 1) * Step
  BY <1>1
<1>3. Low(s) = s /\ High(e) = e /\ Top(Now) = Now /\ lie \notin {"newest_first", "limit_refused"}
  BY DEF Bounded, Low, High, Top
<1>4. From({s}) = s
  BY <1>1, <1>2, <1>3, Froms
<1>5. Upto({e}, Now) = e
  <2>1. Now \in Int
    BY <1>1
  <2>2. Upto({e}, Now) = IF Top(Now) <= High(e) THEN Top(Now) ELSE High(e)
    BY <2>1, Uptos
  <2> QED BY <1>1, <1>2, <1>3, <2>2
<1>6. Spans(j, n, s, e)
  <2>1. (j + n) * Step = e + Step
    BY <1>1, <1>2
  <2> QED BY <1>1, <1>2, <2>1 DEF Spans
<1>7. Klines({s}, {e}, limit, Now) = CandlesOn(j, Most(n, l), Now, Capped(limit))
  <2>1. PICK end : end = {e}
    OBVIOUS
  <2>2. Upto(end, Now) \in Int /\ (lie = "gap_stops" => s >= FirstBar) /\ Spans(j, n, From({s}), Upto(end, Now))
    BY <1>1, <1>2, <1>4, <1>5, <1>6, <2>1
  <2>3. Klines({s}, end, limit, Now) = CandlesOn(j, Most(n, l), Now, Capped(limit))
    BY <1>3, <2>2, KlinesFrom
  <2> QED BY <2>1, <2>3
<1> QED BY <1>2, <1>7

\* What no limit, and any limit, ask for.
LEMMA NoLimit ==
    /\ Capped({}) = {} /\ Asks({}, MaxLimit)
    /\ \A x \in Nat : Asks({x}, IF x <= MaxLimit THEN x ELSE MaxLimit)
BY DEF Asks, Capped

\* The window asked for whole.
LEMMA WholeIs ==
    ASSUME Bounded
    PROVE  /\ Whole = CandlesOn(FirstAsked, WindowBars, Now, {})
           /\ WindowBars \in Nat /\ WindowBars >= 3
<1>1. PICK b \in Int, n \in Nat : b = FirstAsked /\ n = WindowBars /\ n >= 3 /\ n <= MaxLimit
  BY Window, Sizes
<1>2. b * Step = Begin /\ (b + n - 1) * Step = End /\ FirstBar <= Begin /\ End <= Now
  <2>1. Step \in Nat /\ FirstBar \in Nat /\ Now \in Nat
    BY Sizes
  <2> QED BY <1>1, <2>1, Window
<1>3. Klines({b * Step}, {(b + n - 1) * Step}, {}, Now) = CandlesOn(b, Most(n, MaxLimit), Now, Capped({}))
  <2>1. PICK limit, l : limit = {} /\ l = MaxLimit /\ Asks(limit, l)
    BY NoLimit
  <2>2. FirstBar <= b * Step /\ (b + n - 1) * Step <= Now /\ n > 0
    BY <1>1, <1>2
  <2>3. Klines({b * Step}, {(b + n - 1) * Step}, limit, Now) = CandlesOn(b, Most(n, l), Now, Capped(limit))
    BY <2>1, <2>2, Between
  <2> QED BY <2>1, <2>3
<1>4. Most(n, MaxLimit) = n
  BY <1>1 DEF Most
<1> QED BY <1>1, <1>2, <1>3, <1>4, NoLimit DEF Whole

\* A candle's fields, as the lie has them.
LEMMA CandleIs ==
    ASSUME NEW t, NEW now, NEW limit, NEW c, c = Candle(t, now, limit)
    PROVE  /\ c.open = IF lie = "off_grid" THEN t + 1 ELSE t
           /\ c.close = IF lie = "close_now" /\ t + Step > now THEN now ELSE t + Step - 1
           /\ c.prices = IF lie \in {"off_tick", "prices_mixed"} THEN lie ELSE "good"
           /\ c.text = IF lie = "inexact" /\ limit = {Page} THEN "rounded" ELSE "exact"
BY DEF Candle

\* The places of a run of candles.
LEMMA OnIs ==
    ASSUME NEW k \in Int, NEW n \in Nat, NEW now, NEW limit,
           NEW candles, candles = CandlesOn(k, n, now, limit)
    PROVE  /\ DOMAIN candles = 1..n /\ Len(candles) = n
           /\ \A i \in 1..n : candles[i] = Candle((k + i - 1) * Step, now, limit)
BY DEF CandlesOn

\* Whatever a request comes to, it is candles.
LEMMA AnyCandle ==
    ASSUME NEW start, NEW end, NEW limit, NEW now
    PROVE  \E sent : /\ sent = Sent(limit)
                     /\ \/ Klines(start, end, limit, now) = <<>>
                        \/ \E served : Klines(start, end, limit, now) = [i \in DOMAIN served |-> Candle(served[i], now, sent)]
<1> DEFINE request == [start |-> start, end |-> end, limit |-> limit]
           sent == IF lie = "limit_refused" THEN request ELSE KlinesRequest(request)
<1>1. sent.start = start /\ sent.end = end /\ sent.limit = Sent(limit)
  BY DEF KlinesRequest, Sent, Capped
<1>2. PICK answer : answer = Rows(start, end, Sent(limit), now)
  OBVIOUS
<1>3. PICK got : got = FetchKlines(answer)
  OBVIOUS
<1>4. Klines(start, end, limit, now) = IF got.kind = "ok" THEN CHOOSE rows \in got.value : TRUE ELSE <<>>
  <2>1. Klines(start, end, limit, now) =
          LET g == FetchKlines(Rows(sent.start, sent.end, sent.limit, now))
          IN  IF g.kind = "ok" THEN CHOOSE rows \in g.value : TRUE ELSE <<>>
    BY DEF Klines
  <2> HIDE DEF sent
  <2> QED BY <1>1, <1>2, <1>3, <2>1
<1>5. CASE \E l \in Sent(limit) : l > MaxLimit
  <2>1. answer = Refuses(400, -1130, "limit_not_valid")
    BY <1>2, <1>5 DEF Rows
  <2>2. ClassifyCode(-1130, "limit_not_valid") = {"InvalidRequest"}
    BY DEF ClassifyCode
  <2>3. FailsAs(answer, "InvalidRequest")
    BY <2>1, <2>2, RefusedAs
  <2>4. got.kind = "InvalidRequest"
    BY <1>3, <2>3, CallsFail
  <2> QED BY <1>4, <2>4
<1>6. CASE ~(\E l \in Sent(limit) : l > MaxLimit)
  <2>1. PICK served : answer = Wrote("klines", [i \in DOMAIN served |-> Candle(served[i], now, Sent(limit))])
    <3>1. PICK low, high : low = From(start) /\ high = Upto(end, now)
      OBVIOUS
    <3>2. low = Max({FirstBar} \cup {CASE lie = "start_exclusive" -> s + 1
                                       [] lie = "repeats" -> s - Step
                                       [] OTHER -> s : s \in start})
      BY <3>1 DEF From, Low
    <3>3. high = Min({IF lie = "future_bar" THEN Horizon ELSE now}
                        \cup {IF lie = "end_exclusive" THEN e - 1 ELSE e : e \in end})
      BY <3>1 DEF Upto, High, Top
    <3>4. PICK open : open = IF lie = "gap_stops" /\ \E s \in start : s < FirstBar THEN <<>> ELSE Opens(low, high)
      OBVIOUS
    <3>5. PICK served : served = Served(open, start, Sent(limit))
      OBVIOUS
    <3>6. answer = Wrote("klines", [i \in DOMAIN served |-> Candle(served[i], now, Sent(limit))])
      BY <1>2, <1>6, <3>2, <3>3, <3>4, <3>5 DEF Rows
    <3> QED BY <3>6
  <2>2. PICK data : data = [i \in DOMAIN served |-> Candle(served[i], now, Sent(limit))]
    OBVIOUS
  <2>3. got = [kind |-> "ok", value |-> {data}]
    BY <1>3, <2>1, <2>2, Read DEF FetchKlines
  <2>4. got.kind = "ok" /\ (CHOOSE rows \in got.value : TRUE) = data
    BY <2>3
  <2> QED BY <1>4, <2>2, <2>4
<1> QED BY <1>5, <1>6

\* Whatever is served is some bar's candle.
LEMMA Each ==
    ASSUME NEW start, NEW end, NEW limit, NEW now,
           NEW candles, candles = Klines(start, end, limit, now),
           NEW i \in DOMAIN candles
    PROVE  \E t : candles[i] = Candle(t, now, Sent(limit))
<1>1. candles # <<>>
  OBVIOUS
<1>2. PICK served : candles = [x \in DOMAIN served |-> Candle(served[x], now, Sent(limit))]
  BY <1>1, AnyCandle
<1> QED BY <1>2

-----------------------------------------------------------------------------
(* The checks of candles tell the lies about them.                          *)

\* The first candle of the window, where the window is right in number.
LEMMA FirstCandle ==
    ASSUME Bounded
    PROVE  /\ 1 \in DOMAIN Whole /\ Whole # <<>>
           /\ Whole[1] = Candle(Begin, Now, {})
<1>1. PICK b \in Int, n \in Nat : b = FirstAsked /\ n = WindowBars /\ n >= 3
  BY Window, Sizes
<1>2. PICK whole : whole = Whole /\ whole = CandlesOn(b, n, Now, {})
  BY <1>1, WholeIs
<1>3. DOMAIN whole = 1..n /\ \A i \in 1..n : whole[i] = Candle((b + i - 1) * Step, Now, {})
  BY <1>2, OnIs
<1>4. 1 \in 1..n /\ b + 1 - 1 = b
  BY <1>1
<1>5. whole[1] = Candle(b * Step, Now, {})
  BY <1>3, <1>4
<1> QED BY <1>1, <1>2, <1>3, <1>4, <1>5, Window

\* One bar more than asked for, at the start.
LEMMA RepeatsTold ==
    ASSUME lie = "repeats"
    PROVE  ~CandleNormalization
<1>1. PICK b \in Int, n \in Nat : b = FirstAsked /\ n = WindowBars + 1 /\ n >= 4
  BY Window, Sizes
<1>2. Step \in Nat \ {0, 1} /\ Now \in Nat /\ FirstBar \in Nat /\ MaxLimit \in Nat /\ MaxLimit >= 3
  BY Sizes
<1>3. PICK s \in Int, e \in Int : /\ s = Begin /\ e = End /\ s = b * Step /\ e = (b + n - 2) * Step
                                  /\ FirstBar + Step <= s /\ e <= Now
  <2>1. b + WindowBars - 1 = b + n - 2
    BY <1>1, Sizes
  <2> QED BY <1>1, <1>2, <2>1, Window
<1>4. Low(s) = s - Step /\ High(e) = e /\ Top(Now) = Now
  BY DEF Low, High, Top
<1>5. From({s}) = s - Step /\ (b - 1) * Step = s - Step
  <2>1. From({s}) = IF FirstBar >= Low(s) THEN FirstBar ELSE Low(s)
    BY Froms
  <2> QED BY <1>2, <1>3, <1>4, <2>1
<1>6. Upto({e}, Now) = e
  <2>1. Now \in Int
    BY <1>2
  <2>2. Upto({e}, Now) = IF Top(Now) <= High(e) THEN Top(Now) ELSE High(e)
    BY <2>1, Uptos
  <2> QED BY <1>2, <1>3, <1>4, <2>2
<1>7. PICK m \in Nat : m = Most(n, MaxLimit) /\ m >= 1
  BY <1>1, <1>2 DEF Most
<1>8. PICK whole : whole = Whole /\ whole = CandlesOn(b - 1, m, Now, {})
  <2>1. PICK k \in Int : k = b - 1
    OBVIOUS
  <2>6. PICK end, limit, l : end = {e} /\ limit = {} /\ l = MaxLimit /\ Asks(limit, l)
    BY NoLimit
  <2>2. Spans(k, n, s - Step, e)
    <3>1. (k + n) * Step = e + Step /\ (k + n - 1) * Step = e /\ k * Step = s - Step
      <4>1. k + n - 1 = b + n - 2 /\ k + n = b + n - 1
        BY <2>1
      <4>2. (b + n - 1) * Step = (b + n - 2) * Step + Step
        BY <1>2
      <4> QED BY <1>3, <1>5, <2>1, <4>1, <4>2
    <3> QED BY <1>2, <3>1 DEF Spans
  <2>3. Upto(end, Now) \in Int /\ Spans(k, n, From({s}), Upto(end, Now))
    BY <1>5, <1>6, <2>6, <2>2
  <2>4. lie \notin {"newest_first", "limit_refused"} /\ (lie = "gap_stops" => s >= FirstBar)
    OBVIOUS
  <2>5. Klines({s}, end, limit, Now) = CandlesOn(k, Most(n, l), Now, Capped(limit))
    BY <2>6, <2>3, <2>4, KlinesFrom
  <2> QED BY <1>3, <1>7, <2>1, <2>5, <2>6, NoLimit DEF Whole
<1>9. 1 \in DOMAIN whole /\ whole[1] = Candle((b - 1) * Step, Now, {})
  <2>1. PICK k \in Int : k = b - 1
    OBVIOUS
  <2>2. DOMAIN whole = 1..m /\ \A i \in 1..m : whole[i] = Candle((k + i - 1) * Step, Now, {})
    BY <1>8, <2>1, OnIs
  <2>3. 1 \in 1..m /\ k + 1 - 1 = b - 1
    BY <1>7, <2>1
  <2> QED BY <2>2, <2>3
<1>10. whole[1].open = s - Step
  BY <1>5, <1>9, CandleIs
<1>11. ~Inside(whole, Begin, End)
  <2>1. whole[1].open \notin Begin..End
    BY <1>2, <1>3, <1>10
  <2> QED BY <1>9, <2>1 DEF Inside
<1> QED BY <1>8, <1>11 DEF CandleNormalization

\* The window the wrong way round.
LEMMA NewestFirstTold ==
    ASSUME lie = "newest_first"
    PROVE  ~CandleNormalization
<1>1. PICK b \in Int, n \in Nat : b = FirstAsked /\ n = WindowBars /\ n >= 3 /\ n <= MaxLimit
  BY Window, Sizes
<1>2. Step \in Nat \ {0, 1} /\ Now \in Nat /\ FirstBar \in Nat /\ MaxLimit \in Nat
  BY Sizes
<1>3. PICK s \in Int, e \in Int : /\ s = Begin /\ e = End /\ s = b * Step /\ e = (b + n - 1) * Step
                                  /\ FirstBar <= s /\ e <= Now
  BY <1>1, <1>2, Window
<1>4. Low(s) = s /\ High(e) = e /\ Top(Now) = Now
  BY DEF Low, High, Top
<1>5. From({s}) = s
  BY <1>2, <1>3, <1>4, Froms
<1>6. Upto({e}, Now) = e
  <2>1. Now \in Int
    BY <1>2
  <2>2. Upto({e}, Now) = IF Top(Now) <= High(e) THEN Top(Now) ELSE High(e)
    BY <2>1, Uptos
  <2> QED BY <1>2, <1>3, <1>4, <2>2
<1>7. Opens(s, e) = Grid(b, n)
  <2>1. (b + n) * Step = e + Step
    BY <1>2, <1>3
  <2>2. s <= b * Step /\ b * Step < s + Step /\ e < (b + n) * Step /\ (b + n - 1) * Step <= e
    BY <1>2, <1>3, <2>1
  <2> QED BY <2>2, OpensIs
<1>8. PICK up : up = Grid(b, n) /\ Len(up) = n /\ DOMAIN up = 1..n /\ SubSeq(up, 1, n) = up
  <2>1. n \in 0..n
    OBVIOUS
  <2> QED BY <2>1, GridCut
<1>9. PICK served : served = Served(up, {s}, {})
  OBVIOUS
<1>10. served = Reverse(up)
  <2>1. Min({n, MaxLimit}) = n
    <3>1. n \in Int /\ MaxLimit \in Int
      BY <1>2
    <3> QED BY <1>1, <3>1, Extremes
  <2> QED BY <1>8, <1>9, <2>1 DEF Served
<1>11. DOMAIN served = 1..n /\ \A i \in 1..n : served[i] = up[(n - i) + 1]
  BY <1>8, <1>10 DEF Reverse
<1>12. PICK whole : whole = Whole /\ whole = [i \in DOMAIN served |-> Candle(served[i], Now, {})]
  <2>1. PICK start, end, limit : start = {s} /\ end = {e} /\ limit = {}
    OBVIOUS
  <2>2. Sent(limit) = {}
    BY <2>1 DEF Sent, Capped
  <2>3. served = Served(Opens(From(start), Upto(end, Now)), start, Sent(limit))
    BY <1>5, <1>6, <1>7, <1>8, <1>9, <2>1, <2>2
  <2>4. (\A l \in Sent(limit) : ~(l > MaxLimit)) /\ (lie = "gap_stops" => \A x \in start : ~(x < FirstBar))
    BY <2>2
  <2>5. Klines(start, end, limit, Now) = [i \in DOMAIN served |-> Candle(served[i], Now, Sent(limit))]
    BY <2>3, <2>4, KlinesAre
  <2> QED BY <1>3, <2>1, <2>2, <2>5 DEF Whole
<1>13. Len(whole) = n
  BY <1>11, <1>12
<1>14. whole[1].open = up[n] /\ whole[2].open = up[n - 1]
  <2>1. 1 \in 1..n /\ 2 \in 1..n /\ (n - 1) + 1 = n /\ (n - 2) + 1 = n - 1
    BY <1>1
  <2>2. whole[1] = Candle(up[n], Now, {}) /\ whole[2] = Candle(up[n - 1], Now, {})
    BY <1>11, <1>12, <2>1
  <2> QED BY <2>2, CandleIs
<1>15. up[n] = (b + n - 1) * Step /\ up[n - 1] = (b + (n - 1) - 1) * Step
  BY <1>1, <1>8 DEF Grid
<1>16. ~(up[n] < up[n - 1])
  <2>1. (b + n - 1) * Step = (b + (n - 1) - 1) * Step + Step /\ (b + (n - 1) - 1) * Step \in Int
    BY <1>2
  <2> QED BY <1>2, <1>15, <2>1
<1>17. ~WellFormed(whole)
  <2>1. 1 \in 1..(Len(whole) - 1) /\ 1 + 1 = 2
    BY <1>1, <1>13
  <2> QED BY <1>14, <1>16, <2>1 DEF WellFormed
<1> QED BY <1>12, <1>17 DEF CandleNormalization

\* Candles off the grid, off the tick, mixed up, repeated, newest first or with no
\* tick to check are told by candle_normalization.
LEMMA NormalizationTold ==
    ASSUME lie \in {"off_grid", "off_tick", "prices_mixed", "repeats", "newest_first", "no_tick"}
    PROVE  ~CandleNormalization
<1>1. CASE lie = "no_tick"
  BY <1>1 DEF CandleNormalization
<1>2. CASE lie \in {"off_grid", "off_tick", "prices_mixed"}
  <2>1. Bounded
    BY <1>2 DEF Bounded
  <2>2. PICK whole, c : whole = Whole /\ 1 \in DOMAIN whole /\ c = whole[1] /\ c = Candle(Begin, Now, {})
    BY <2>1, FirstCandle
  <2>3. c.open = (IF lie = "off_grid" THEN Begin + 1 ELSE Begin) /\ c.prices = IF lie \in {"off_tick", "prices_mixed"} THEN lie ELSE "good"
    BY <2>2, CandleIs
  <2>4. (Begin + 1) % Step # 0
    BY Window, OnGrid
  <2>5. CASE lie = "off_grid"
    <3>1. c.open % Step # 0
      BY <2>3, <2>4, <2>5
    <3>2. ~WellFormed(whole)
      BY <2>2, <3>1 DEF WellFormed
    <3> QED BY <2>2, <3>2 DEF CandleNormalization
  <2>6. CASE lie = "prices_mixed"
    <3>1. c.prices = "prices_mixed"
      BY <2>3, <2>6
    <3>2. ~WellFormed(whole)
      BY <2>2, <3>1 DEF WellFormed
    <3> QED BY <2>2, <3>2 DEF CandleNormalization
  <2>7. CASE lie = "off_tick"
    <3>1. c.prices = "off_tick"
      BY <2>3, <2>7
    <3> QED BY <2>2, <3>1 DEF CandleNormalization
  <2> QED BY <1>2, <2>5, <2>6, <2>7
<1> QED BY <1>1, <1>2, RepeatsTold, NewestFirstTold

\* The bars up to a time after the window, and the one the time is in.
LEMMA LatestAre ==
    ASSUME lie \notin {"newest_first", "limit_refused", "future_bar"},
           NEW later \in {Now, Now + Step}
    PROVE  \E k \in Int, m \in Nat :
              /\ m >= 1 /\ (lie # "over_limit" => m <= Latest)
              /\ Klines({}, {}, {Latest}, later) = CandlesOn(k, m, later, Capped({Latest}))
              /\ (k + m - 1) * Step <= later /\ later < (k + m - 1) * Step + Step - 1
<1>1. Step \in Nat \ {0, 1} /\ Now \in Nat /\ FirstBar \in Nat /\ MaxLimit \in Nat /\ MaxLimit >= 3 /\ Latest \in Nat \ {0}
  BY Sizes
<1>2. Upto({}, later) = later /\ later \in Int
  <2>1. later \in Int
    BY <1>1
  <2>2. Top(later) = later
    BY DEF Top
  <2> QED BY <2>1, <2>2, Uptos
<1>3. PICK k \in Int, n \in Nat : Spans(k, n, FirstBar, later)
  <2>1. FirstBar \in Int
    BY <1>1
  <2> QED BY <1>2, <2>1, OpensAre DEF Spans
<1>4. PICK a \in Int : a * Step <= later /\ later < a * Step + Step - 1 /\ FirstBar <= a * Step /\ a * Step \in Int
  <2>1. PICK c \in Int : /\ c = FirstAsked + WindowBars - 1 + SettledBars
                         /\ Aligned = c * Step /\ Aligned \in Int /\ Aligned <= Now /\ Now < Aligned + Step - 1
                         /\ FirstBar <= Aligned
    <3>1. FirstAsked + WindowBars - 1 + SettledBars \in Int
      BY Window, Sizes
    <3>2. FirstBar <= Aligned /\ Aligned \in Int
      BY <1>1, Window
    <3> QED BY <3>1, <3>2, Window
  <2>2. CASE later = Now
    BY <2>1, <2>2
  <2>3. CASE later = Now + Step
    <3>1. PICK d \in Int : d = c + 1
      OBVIOUS
    <3>2. d * Step = Aligned + Step
      BY <1>1, <2>1, <3>1
    <3>3. d * Step \in Int /\ d * Step <= later /\ later < d * Step + Step - 1 /\ FirstBar <= d * Step
      BY <1>1, <2>1, <2>3, <3>2
    <3> QED BY <3>3
  <2> QED BY <2>2, <2>3
<1>5. n > 0
  <2>1. SUFFICES ASSUME n = 0 PROVE FALSE
    OBVIOUS
  <2>2. later < k * Step /\ k * Step < FirstBar + Step /\ k * Step \in Int
    BY <1>1, <1>3, <2>1 DEF Spans
  <2>3. a < k
    <3>1. a * Step < k * Step
      BY <1>1, <1>2, <1>4, <2>2
    <3>2. \/ a < k \/ a >= k
      OBVIOUS
    <3>3. a >= k => k * Step <= a * Step
      BY <1>1, Apart
    <3> QED BY <1>4, <2>2, <3>1, <3>2, <3>3
  <2>4. a * Step + Step <= k * Step
    BY <1>1, <2>3, Apart
  <2> QED BY <1>1, <1>4, <2>2, <2>4
<1>6. k + n - 1 = a
  <2>1. PICK j \in Int : j = k + n - 1
    OBVIOUS
  <2>2. j * Step <= later /\ later < (j + 1) * Step
    <3>1. j + 1 = k + n
      BY <2>1
    <3> QED BY <1>3, <1>5, <2>1, <3>1 DEF Spans
  <2>3. (j + 1) * Step = j * Step + Step /\ j * Step \in Int
    BY <1>1
  <2>4. j * Step < a * Step + Step /\ a * Step < j * Step + Step
    BY <1>1, <1>2, <1>4, <2>2, <2>3
  <2>5. j <= a /\ a <= j
    BY <1>1, <2>4, Apart
  <2> QED BY <2>1, <2>5
<1>7. PICK l \in Nat : l = (IF Latest <= MaxLimit THEN Latest ELSE MaxLimit) /\ l >= 1 /\ l <= Latest
  BY <1>1
<1>15. PICK limit : limit = {Latest} /\ Asks(limit, l)
  BY <1>1, <1>7, NoLimit
<1>8. PICK m \in Nat : m = Most(n, l) /\ m >= 1 /\ (lie # "over_limit" => m <= l)
  BY <1>5, <1>7 DEF Most
<1>9. Klines({}, {}, limit, later) = CandlesOn(k + (n - m), m, later, Capped(limit))
  <2>1. Upto({}, later) \in Int /\ Spans(k, n, FirstBar, Upto({}, later)) /\ lie \notin {"newest_first", "limit_refused"}
    BY <1>2, <1>3
  <2> QED BY <1>7, <1>8, <1>15, <2>1, KlinesLatest
<1>10. PICK j \in Int : j = k + (n - m)
  OBVIOUS
<1>11. j + m - 1 = a
  BY <1>6, <1>10
<1>12. Klines({}, {}, {Latest}, later) = CandlesOn(j, m, later, Capped({Latest}))
  BY <1>9, <1>10, <1>15
<1>13. (j + m - 1) * Step <= later /\ later < (j + m - 1) * Step + Step - 1
  BY <1>4, <1>11
<1>14. m >= 1 /\ (lie # "over_limit" => m <= Latest)
  BY <1>1, <1>7, <1>8
<1> QED BY <1>12, <1>13, <1>14

\* A bar that closes when it is asked for is told by closed_bars.
LEMMA ClosedBarsTold ==
    ASSUME lie = "close_now", NEW later \in {Now, Now + Step}
    PROVE  ~ClosedBars(later)
<1>1. PICK k \in Int, m \in Nat :
              /\ m >= 1
              /\ Klines({}, {}, {Latest}, later) = CandlesOn(k, m, later, Capped({Latest}))
              /\ (k + m - 1) * Step <= later /\ later < (k + m - 1) * Step + Step - 1
  BY LatestAre
<1>2. PICK latest, limit : latest = Klines({}, {}, {Latest}, later) /\ limit = Capped({Latest})
  OBVIOUS
<1>3. PICK t \in Int : t = (k + m - 1) * Step
  BY Sizes
<1>4. m \in DOMAIN latest /\ latest[m] = Candle(t, later, limit)
  <2>1. DOMAIN latest = 1..m /\ \A i \in 1..m : latest[i] = Candle((k + i - 1) * Step, later, limit)
    <3>1. latest = CandlesOn(k, m, later, limit)
      BY <1>1, <1>2
    <3> QED BY <3>1, OnIs
  <2>2. m \in 1..m
    BY <1>1
  <2> QED BY <1>3, <2>1, <2>2
<1>5. latest[m].open = t /\ latest[m].close = later
  <2>1. Step \in Nat /\ later \in Int /\ t + Step > later
    <3>1. Step \in Nat /\ Now \in Nat
      BY Sizes
    <3> QED BY <1>1, <1>3, <3>1
  <2> QED BY <1>4, <2>1, CandleIs
<1>6. later # t + Step - 1
  <2>1. Step \in Nat /\ Now \in Nat
    BY Sizes
  <2> QED BY <1>1, <1>3, <2>1
<1>7. ~WellFormed(latest)
  BY <1>4, <1>5, <1>6 DEF WellFormed
<1> QED BY <1>2, <1>7 DEF ClosedBars

\* The candles of a stretch are a run of bars inside what the connector
\* makes of its bounds.
LEMMA KlinesRun ==
    ASSUME lie \notin {"newest_first", "limit_refused"},
           NEW s \in Int, lie = "gap_stops" => s >= FirstBar,
           NEW e \in Int, NEW limit, NEW l, Asks(limit, l)
    PROVE  \E k \in Int, m \in Nat :
              /\ Klines({s}, {e}, limit, Now) = CandlesOn(k, m, Now, Capped(limit))
              /\ \A i \in 1..m : /\ (k + i - 1) * Step \in Int
                                 /\ (k + i - 1) * Step >= Low(s) /\ (k + i - 1) * Step <= High(e)
<1>1. Step \in Nat \ {0, 1} /\ Now \in Int /\ FirstBar \in Int
  BY Sizes
<1>2. PICK from \in Int, upto \in Int : /\ from = From({s}) /\ upto = Upto({e}, Now)
                                         /\ from >= Low(s) /\ upto <= High(e) /\ Low(s) \in Int /\ High(e) \in Int
  <2>1. /\ Low(s) \in Int /\ From({s}) \in Int
        /\ From({s}) = IF FirstBar >= Low(s) THEN FirstBar ELSE Low(s)
    BY Froms
  <2>2. /\ Top(Now) \in Int /\ High(e) \in Int /\ Upto({e}, Now) \in Int
        /\ Upto({e}, Now) = IF Top(Now) <= High(e) THEN Top(Now) ELSE High(e)
    BY <1>1, Uptos
  <2> QED BY <1>1, <2>1, <2>2
<1>3. PICK k \in Int, n \in Nat : Spans(k, n, from, upto)
  BY OpensAre DEF Spans
<1>4. PICK m \in Nat : m = Most(n, l) /\ m <= n
  <2>1. l \in Nat
    BY Limits
  <2> QED BY <2>1 DEF Most
<1>5. Klines({s}, {e}, limit, Now) = CandlesOn(k, m, Now, Capped(limit))
  <2>1. PICK end : end = {e}
    OBVIOUS
  <2>2. Upto(end, Now) \in Int /\ Spans(k, n, From({s}), Upto(end, Now))
    BY <1>2, <1>3, <2>1
  <2>3. Klines({s}, end, limit, Now) = CandlesOn(k, Most(n, l), Now, Capped(limit))
    <3>1. lie \notin {"newest_first", "limit_refused"}
      OBVIOUS
    <3> QED BY <2>2, <3>1, KlinesFrom
  <2> QED BY <1>4, <2>1, <2>3
<1>6. ASSUME NEW i \in 1..m
      PROVE  /\ (k + i - 1) * Step \in Int
             /\ (k + i - 1) * Step >= Low(s) /\ (k + i - 1) * Step <= High(e)
  <2>1. k * Step \in Int /\ (k + i - 1) * Step \in Int /\ (k + n - 1) * Step \in Int
    BY <1>1
  <2>2. k * Step <= (k + i - 1) * Step /\ (k + i - 1) * Step <= (k + n - 1) * Step
    <3>1. PICK x \in Int, y \in Int : x = k + i - 1 /\ y = k + n - 1 /\ k <= x /\ x <= y
      BY <1>4
    <3>2. k * Step <= x * Step /\ x * Step <= y * Step
      BY <1>1, <3>1, Apart
    <3> QED BY <3>1, <3>2
  <2>3. n > 0
    BY <1>4
  <2>4. from <= (k + i - 1) * Step /\ (k + i - 1) * Step <= upto
    BY <1>1, <1>3, <2>1, <2>2, <2>3 DEF Spans
  <2> QED BY <1>2, <2>1, <2>4
<1> QED BY <1>5, <1>6

\* Counting up reaches every number.
LEMMA CountsUp ==
    ASSUME NEW P \in SUBSET Nat, 0 \in P, \A n \in P : n + 1 \in P
    PROVE  P = Nat
<1> SUFFICES ASSUME Nat \ P # {} PROVE FALSE
  OBVIOUS
<1> DEFINE Below == OpToRel(<, Nat)
<1>1. \A x, y \in Nat : x < y => <<x, y>> \in Below
  BY DEF OpToRel
<1>2. IsWellFoundedOn(Below, Nat)
  BY NatLessThanWellFounded
<1> HIDE DEF Below
<1>3. PICK n \in Nat \ P : \A x \in Nat \ P : ~(<<x, n>> \in Below)
  BY <1>2, WFMin
<1>4. n # 0 /\ n - 1 \in Nat /\ n - 1 < n
  BY <1>3
<1>5. n - 1 \in P
  BY <1>1, <1>3, <1>4
<1>6. (n - 1) + 1 \in P
  BY <1>5
<1> QED BY <1>3, <1>6

FirstPage == [cursor |-> Begin, candles |-> <<>>, ended |-> FALSE, sound |-> TRUE]

\* The pages up to the k-th.
PagesUpTo(f, k) == f = [n \in 0..k |-> IF n = 0 THEN FirstPage ELSE NextPage(f[n - 1])]

\* The walk over pages, one page after another.
LEMMA PagesAre ==
    /\ Pages[0] = FirstPage
    /\ \A n \in 1..MaxPages : Pages[n] = NextPage(Pages[n - 1])
<1> DEFINE P == {k \in Nat : \E f : PagesUpTo(f, k)}
<1>1. 0 \in P
  <2>1. PICK f : f = [n \in 0..0 |-> FirstPage]
    OBVIOUS
  <2>2. \A n \in 0..0 : n = 0
    OBVIOUS
  <2>3. PagesUpTo(f, 0)
    BY <2>1, <2>2 DEF PagesUpTo
  <2> QED BY <2>3
<1>2. ASSUME NEW k \in P
      PROVE  k + 1 \in P
  <2>1. PICK f : PagesUpTo(f, k)
    OBVIOUS
  <2>2. PICK g : g = [n \in 0..(k + 1) |-> IF n = k + 1 THEN NextPage(f[k]) ELSE f[n]]
    OBVIOUS
  <2>3. \A n \in 0..k : g[n] = f[n] /\ f[n] = IF n = 0 THEN FirstPage ELSE NextPage(f[n - 1])
    BY <2>1, <2>2 DEF PagesUpTo
  <2>4. ASSUME NEW n \in 0..(k + 1)
        PROVE  g[n] = IF n = 0 THEN FirstPage ELSE NextPage(g[n - 1])
    <3>1. CASE n \in 0..k
      <4>1. n # 0 => n - 1 \in 0..k
        BY <3>1
      <4> QED BY <2>3, <3>1, <4>1
    <3>2. CASE n = k + 1
      <4>1. n # 0 /\ n - 1 = k /\ k \in 0..k /\ k \in Nat
        BY <3>2
      <4> QED BY <2>2, <2>3, <3>2, <4>1
    <3> QED BY <3>1, <3>2
  <2>5. PagesUpTo(g, k + 1)
    BY <2>2, <2>4 DEF PagesUpTo
  <2> QED BY <2>5
<1>3. P \in SUBSET Nat
  OBVIOUS
<1>4. MaxPages \in P
  <2> HIDE DEF P
  <2>1. P = Nat
    BY <1>1, <1>2, <1>3, CountsUp
  <2> QED BY <2>1, Sizes
<1>5. Pages = CHOOSE f : PagesUpTo(f, MaxPages)
  BY DEF Pages, PagesUpTo, FirstPage
<1>6. PagesUpTo(Pages, MaxPages)
  BY <1>4, <1>5
<1>7. \A n \in 0..MaxPages : Pages[n] = IF n = 0 THEN FirstPage ELSE NextPage(Pages[n - 1])
  BY <1>6 DEF PagesUpTo
<1>8. 0 \in 0..MaxPages /\ \A n \in 1..MaxPages : n \in 0..MaxPages /\ n # 0
  BY Sizes
<1> QED BY <1>7, <1>8

\* The pages of a connector that only rounds, if anything.
Pager == lie \in {None, "inexact"}

\* A page asked for is a page sent.
LEMMA PageLimit ==
    Asks({Page}, Page) /\ Capped({Page}) = {Page}
<1>1. PICK x \in Nat : x = Page /\ x <= MaxLimit /\ MaxLimit \in Int
  BY Sizes
<1>2. Asks({x}, x)
  BY <1>1 DEF Asks
<1>3. Min({x, MaxLimit}) = x
  <2>1. x \in Int
    BY <1>1
  <2> QED BY <1>1, <2>1, Extremes
<1>4. Capped({x}) = {x}
  BY <1>3 DEF Capped
<1> QED BY <1>1, <1>2, <1>4

\* From inside the window a page is the next bars of it.
LEMMA PageIs ==
    ASSUME Pager, NEW m \in Nat, m < WindowBars,
           NEW p \in Nat, p = IF WindowBars - m <= Page THEN WindowBars - m ELSE Page
    PROVE  Klines({(FirstAsked + m) * Step}, {End}, {Page}, Now) = CandlesOn(FirstAsked + m, p, Now, {Page})
<1>1. PICK j \in Int, n \in Nat : j = FirstAsked + m /\ n = WindowBars - m /\ n > 0 /\ j + n - 1 = FirstAsked + WindowBars - 1
  <2>1. FirstAsked \in Int /\ WindowBars \in Nat /\ WindowBars - m \in Nat
    BY Window, Sizes
  <2> QED BY <2>1
<1>2. (j + n - 1) * Step = End /\ End <= Now /\ FirstBar <= j * Step
  <2>1. /\ End = (FirstAsked + WindowBars - 1) * Step /\ End + Step <= Aligned /\ Aligned <= Now /\ Aligned \in Int /\ End \in Int
        /\ FirstBar + Step <= Begin /\ Begin = FirstAsked * Step /\ FirstAsked \in Int
    BY Window
  <2>2. Step \in Nat \ {0, 1} /\ Now \in Nat /\ FirstBar \in Nat
    BY Sizes
  <2>3. FirstAsked * Step <= j * Step /\ FirstAsked * Step \in Int /\ j * Step \in Int
    <3>1. FirstAsked <= j
      BY <1>1, <2>1
    <3> QED BY <2>1, <2>2, <3>1, Apart
  <2> QED BY <1>1, <2>1, <2>2, <2>3
<1>3. PICK limit, l : limit = {Page} /\ l = Page /\ Asks(limit, l) /\ Capped(limit) = {Page}
  BY PageLimit
<1>4. Bounded
  BY DEF Bounded, Pager, None
<1>5. Klines({j * Step}, {(j + n - 1) * Step}, limit, Now) = CandlesOn(j, Most(n, l), Now, Capped(limit))
  <2>1. (j + n - 1) * Step <= Now
    BY <1>2
  <2> QED BY <1>1, <1>2, <1>3, <1>4, <2>1, Between
<1>6. Most(n, l) = p
  BY <1>1, <1>3 DEF Most, Pager, None
<1> QED BY <1>1, <1>2, <1>3, <1>5, <1>6

\* Two runs in a row, place by place.
LEMMA Joined ==
    ASSUME NEW S, NEW a \in Seq(S), NEW b \in Seq(S)
    PROVE  a \o b = [i \in 1..(Len(a) + Len(b)) |-> IF i <= Len(a) THEN a[i] ELSE b[i - Len(a)]]
<1>1. PICK c \in Seq(S) : c = a \o b
  BY ConcatProperties
<1>2. /\ Len(c) = Len(a) + Len(b)
      /\ \A i \in 1..(Len(a) + Len(b)) : c[i] = IF i <= Len(a) THEN a[i] ELSE b[i - Len(a)]
  BY <1>1, ConcatProperties
<1>3. c = [i \in 1..Len(c) |-> c[i]]
  OBVIOUS
<1> QED BY <1>1, <1>2, <1>3

\* The walk's record after a page.
LEMMA Moved ==
    ASSUME NEW c, NEW candles, NEW d, NEW whole, NEW e, NEW s, NEW t,
           NEW w, w = [cursor |-> c, candles |-> candles, ended |-> e, sound |-> s],
           NEW v, v = [w EXCEPT !.cursor = d, !.candles = whole, !.sound = t]
    PROVE  v = [cursor |-> d, candles |-> whole, ended |-> e, sound |-> t]
<1>1. v.cursor = d /\ v.candles = whole /\ v.ended = e /\ v.sound = t
  OBVIOUS
<1>2. v = [cursor |-> v.cursor, candles |-> v.candles, ended |-> v.ended, sound |-> v.sound]
  OBVIOUS
<1> QED BY <1>1, <1>2

Walked(m) ==
    [cursor |-> (FirstAsked + m) * Step, candles |-> CandlesOn(FirstAsked, m, Now, {Page}), ended |-> FALSE, sound |-> TRUE]

\* A page moves the walk from a run of the window to a longer one.
LEMMA NextWalked ==
    ASSUME Pager, NEW m \in Nat, m < WindowBars,
           NEW p \in Nat, p = IF WindowBars - m <= Page THEN WindowBars - m ELSE Page
    PROVE  NextPage(Walked(m)) = Walked(m + p)
<1>1. PICK b \in Int : b = FirstAsked
  BY Window
<1>2. Step \in Nat \ {0, 1} /\ Page \in Nat \ {0} /\ WindowBars \in Nat
  BY Sizes
<1>3. p >= 1 /\ p <= Page /\ m + p <= WindowBars
  BY <1>2
<1>4. PICK c \in Int, d \in Int : /\ c = (b + m) * Step /\ d = (b + (m + p)) * Step
                                  /\ (b + m + p - 1) * Step = d - Step /\ c < d /\ c <= End
  <2>1. (b + m + p - 1) * Step = (b + (m + p)) * Step - Step
    <3>1. PICK x \in Int : x = b + (m + p)
      OBVIOUS
    <3>2. b + m + p - 1 = x - 1 /\ (x - 1) * Step = x * Step - Step
      BY <1>2, <3>1
    <3> QED BY <3>1, <3>2
  <2>2. PICK x \in Int, y \in Int, z \in Int : x = b + m /\ y = b + (m + p) /\ z = b + WindowBars - 1 /\ x < y /\ x <= z
    BY <1>2, <1>3
  <2>3. x * Step + Step <= y * Step /\ x * Step <= z * Step /\ x * Step \in Int /\ y * Step \in Int /\ z * Step \in Int
    BY <1>2, <2>2, Apart
  <2>4. End = z * Step
    BY <1>1, <2>2, Window
  <2> QED BY <1>2, <2>1, <2>2, <2>3, <2>4
<1>5. PICK candles, page, whole : /\ candles = CandlesOn(b, m, Now, {Page})
                                  /\ page = CandlesOn(b + m, p, Now, {Page})
                                  /\ whole = CandlesOn(b, m + p, Now, {Page})
  OBVIOUS
<1>6. PICK w : w = [cursor |-> c, candles |-> candles, ended |-> FALSE, sound |-> TRUE] /\ w = Walked(m)
  BY <1>1, <1>4, <1>5 DEF Walked
<1>7. Klines({w.cursor}, {End}, {Page}, Now) = page
  <2>1. Klines({(FirstAsked + m) * Step}, {End}, {Page}, Now) = CandlesOn(FirstAsked + m, p, Now, {Page})
    BY PageIs
  <2>2. w.cursor = (FirstAsked + m) * Step
    BY <1>1, <1>4, <1>6
  <2> QED BY <1>1, <1>5, <2>1, <2>2
<1>8. page # <<>> /\ Len(page) = p /\ Last(page).open = d - Step
  <2>1. PICK j \in Int : j = b + m
    OBVIOUS
  <2>2. DOMAIN page = 1..p /\ Len(page) = p /\ \A i \in 1..p : page[i] = Candle((j + i - 1) * Step, Now, {Page})
    <3>1. page = CandlesOn(j, p, Now, {Page})
      BY <1>5, <2>1
    <3>2. PICK limit : limit = {Page}
      OBVIOUS
    <3> QED BY <3>1, <3>2, OnIs
  <2>3. p \in 1..p /\ j + p - 1 = b + m + p - 1
    BY <1>3, <2>1
  <2>4. Last(page) = Candle(d - Step, Now, {Page})
    BY <1>4, <2>2, <2>3 DEF Last
  <2>5. Last(page).open = d - Step
    BY <2>4, CandleIs DEF Pager, None
  <2> QED BY <2>2, <2>3, <2>5
<1>9. candles \o page = whole
  <2>1. DOMAIN candles = 1..m /\ Len(candles) = m /\ \A i \in 1..m : candles[i] = Candle((b + i - 1) * Step, Now, {Page})
    BY <1>5 DEF CandlesOn
  <2>2. DOMAIN page = 1..p /\ Len(page) = p /\ \A i \in 1..p : page[i] = Candle((b + m + i - 1) * Step, Now, {Page})
    BY <1>5 DEF CandlesOn
  <2>3. candles \o page = [i \in 1..(m + p) |-> IF i <= m THEN candles[i] ELSE page[i - m]]
    <3>1. PICK S : S = {candles[i] : i \in 1..m} \cup {page[i] : i \in 1..p}
      OBVIOUS
    <3>2. candles \in [1..m -> S] /\ page \in [1..p -> S]
      <4>1. candles = [i \in 1..m |-> candles[i]] /\ page = [i \in 1..p |-> page[i]]
        BY <1>5 DEF CandlesOn
      <4> QED BY <3>1, <4>1
    <3>3. candles \in Seq(S) /\ page \in Seq(S)
      BY <3>2
    <3>4. candles \o page = [i \in 1..(Len(candles) + Len(page)) |-> IF i <= Len(candles) THEN candles[i] ELSE page[i - Len(candles)]]
      BY <3>3, Joined
    <3>5. Len(candles) = m /\ Len(page) = p
      BY <2>1, <2>2
    <3> QED BY <3>4, <3>5
  <2>4. ASSUME NEW i \in 1..(m + p)
        PROVE  (IF i <= m THEN candles[i] ELSE page[i - m]) = Candle((b + i - 1) * Step, Now, {Page})
    <3>1. CASE i <= m
      <4>1. i \in 1..m
        BY <3>1
      <4>2. candles[i] = Candle((b + i - 1) * Step, Now, {Page})
        BY <2>1, <4>1
      <4> QED BY <3>1, <4>2
    <3>2. CASE ~(i <= m)
      <4>1. i - m \in 1..p /\ b + m + (i - m) - 1 = b + i - 1
        BY <3>2
      <4>2. page[i - m] = Candle((b + m + (i - m) - 1) * Step, Now, {Page})
        BY <2>2, <4>1
      <4> QED BY <3>2, <4>1, <4>2
    <3> QED BY <3>1, <3>2
  <2> QED BY <1>5, <2>3, <2>4 DEF CandlesOn
<1>10. PICK t, v : t = TRUE /\ v = NextPage(w) /\ v = [w EXCEPT !.cursor = d, !.candles = whole, !.sound = t]
  <2>1. ~(~w.sound \/ w.ended \/ w.cursor > End)
    <3>1. End \in Int
      BY Window
    <3> QED BY <1>4, <1>6, <3>1
  <2>2. w.candles \o page = whole /\ Last(page).open + Step = d
    BY <1>2, <1>4, <1>6, <1>8, <1>9
  <2>3. (Len(page) <= Page /\ d > w.cursor) = TRUE
    BY <1>2, <1>3, <1>4, <1>6, <1>8
  <2>4. NextPage(w) = [w EXCEPT !.cursor = d, !.candles = whole, !.sound = TRUE]
    BY <1>7, <1>8, <2>1, <2>2, <2>3 DEF NextPage
  <2> QED BY <2>4
<1>11. v = [cursor |-> d, candles |-> whole, ended |-> FALSE, sound |-> t]
  <2>1. PICK e, s : e = FALSE /\ s = TRUE /\ w = [cursor |-> c, candles |-> candles, ended |-> e, sound |-> s]
    BY <1>6
  <2> QED BY <1>10, <2>1, Moved
<1>12. Walked(m + p) = [cursor |-> d, candles |-> whole, ended |-> FALSE, sound |-> TRUE]
  BY <1>1, <1>4, <1>5 DEF Walked
<1> QED BY <1>6, <1>10, <1>11, <1>12

\* The walk ends with the whole window.
LEMMA PagedIs ==
    ASSUME Pager
    PROVE  Paged = Walked(WindowBars)
<1> DEFINE Got(n, m) == m <= WindowBars /\ (m = WindowBars \/ m = n * Page) /\ Pages[n] = Walked(m)
           P == {n \in Nat : n <= MaxPages => \E m \in Nat : Got(n, m)}
<1>1. Page \in Nat \ {0} /\ WindowBars \in Nat /\ MaxPages \in Nat /\ WindowBars <= MaxPages * Page
  BY Sizes
<1>2. 0 \in P
  <2>1. Pages[0] = Walked(0)
    <3>1. (FirstAsked + 0) * Step = Begin
      <4>1. FirstAsked + 0 = FirstAsked
        BY Window
      <4> QED BY <4>1, Window
    <3>2. CandlesOn(FirstAsked, 0, Now, {Page}) = <<>>
      BY DEF CandlesOn
    <3> QED BY <3>1, <3>2, PagesAre DEF FirstPage, Walked
  <2>2. 0 = 0 * Page
    BY <1>1
  <2> QED BY <1>1, <2>1, <2>2
<1>3. ASSUME NEW n \in P
      PROVE  n + 1 \in P
  <2> SUFFICES ASSUME n + 1 <= MaxPages PROVE \E m \in Nat : Got(n + 1, m)
    OBVIOUS
  <2>1. PICK m \in Nat : Got(n, m)
    BY <1>1
  <2>2. Pages[n + 1] = NextPage(Walked(m))
    <3>1. n + 1 \in 1..MaxPages /\ (n + 1) - 1 = n
      BY <1>1
    <3> QED BY <2>1, <3>1, PagesAre
  <2>3. CASE m = WindowBars
    <3>1. PICK w : w = Walked(m) /\ w.cursor = (FirstAsked + m) * Step
      <4>1. Walked(m).cursor = (FirstAsked + m) * Step
        BY DEF Walked
      <4> QED BY <4>1
    <3>2. w.cursor > End
      <4>1. PICK b \in Int : b = FirstAsked
        BY Window
      <4>2. PICK x \in Int, z \in Int : x = b + m /\ z = b + WindowBars - 1 /\ z < x
        BY <1>1, <2>3
      <4>3. z * Step + Step <= x * Step /\ z * Step \in Int /\ x * Step \in Int /\ Step \in Nat \ {0, 1}
        BY <4>2, Apart, Sizes
      <4>4. End = z * Step
        BY <4>1, <4>2, Window
      <4> QED BY <3>1, <4>1, <4>2, <4>3, <4>4
    <3>3. NextPage(w) = w
      BY <3>2 DEF NextPage
    <3>4. Got(n + 1, m)
      BY <1>1, <2>2, <2>3, <3>1, <3>3
    <3> QED BY <3>4
  <2>4. CASE m < WindowBars
    <3>1. PICK p \in Nat : p = IF WindowBars - m <= Page THEN WindowBars - m ELSE Page
      BY <1>1, <2>4
    <3>2. NextPage(Walked(m)) = Walked(m + p)
      BY <2>4, <3>1, NextWalked
    <3>3. m = n * Page
      BY <2>1, <2>4
    <3>4. (n + 1) * Page = n * Page + Page
      BY <1>1
    <3>5. m + p \in Nat /\ m + p <= WindowBars /\ (m + p = WindowBars \/ m + p = (n + 1) * Page)
      BY <1>1, <2>4, <3>1, <3>3, <3>4
    <3>6. Got(n + 1, m + p)
      BY <2>2, <3>2, <3>5
    <3> QED BY <3>5, <3>6
  <2> QED BY <1>1, <2>1, <2>3, <2>4
<1>4. \E m \in Nat : Got(MaxPages, m)
  <2>1. P \in SUBSET Nat
    OBVIOUS
  <2> HIDE DEF P
  <2>2. P = Nat
    BY <1>2, <1>3, <2>1, CountsUp
  <2>3. MaxPages \in P
    BY <1>1, <2>2
  <2> USE DEF P
  <2> QED BY <1>1, <2>3
<1>5. PICK m \in Nat : Got(MaxPages, m)
  BY <1>4
<1>6. m = WindowBars
  <2>1. MaxPages * Page \in Nat
    BY <1>1
  <2> QED BY <1>1, <1>5, <2>1
<1> QED BY <1>5, <1>6 DEF Paged

\* The pages are rounded, the window is not.
LEMMA PagingTold ==
    ASSUME lie = "inexact"
    PROVE  ~KlinePaging
<1>1. Bounded /\ Pager
  BY DEF Bounded, Pager, None
<1>2. PICK b \in Int, n \in Nat : b = FirstAsked /\ n = WindowBars /\ n >= 3
  BY Window, Sizes
<1>3. Paged.candles = CandlesOn(b, n, Now, {Page}) /\ Whole = CandlesOn(b, n, Now, {})
  BY <1>1, <1>2, PagedIs, WholeIs DEF Walked
<1>4. PICK t, c, d : c = Candle(t, Now, {Page}) /\ d = Candle(t, Now, {}) /\ CandlesOn(b, n, Now, {Page})[1] = c /\ CandlesOn(b, n, Now, {})[1] = d
  BY <1>2 DEF CandlesOn
<1>5. c.text = "rounded" /\ d.text = "exact"
  <2>1. PICK limit : limit = {Page}
    OBVIOUS
  <2>2. c.text = IF lie = "inexact" /\ limit = {Page} THEN "rounded" ELSE "exact"
    BY <1>4, <2>1, CandleIs
  <2>3. d.text = "exact"
    <3>1. {} # {Page}
      OBVIOUS
    <3>2. PICK none : none = {}
      OBVIOUS
    <3>3. d.text = IF lie = "inexact" /\ none = {Page} THEN "rounded" ELSE "exact"
      BY <1>4, <3>2, CandleIs
    <3> QED BY <3>1, <3>2, <3>3
  <2> QED BY <2>1, <2>2, <2>3
<1> QED BY <1>3, <1>4, <1>5 DEF KlinePaging

\* The first three of what a check was answered.
LEMMA Cut ==
    ASSUME NEW whole, NEW m \in Nat, NEW got, got = SubSeq(whole, 1, m)
    PROVE  /\ DOMAIN got = 1..m /\ Len(got) = m
           /\ \A i \in 1..m : got[i] = whole[i]
<1>1. got = [i \in 1..m |-> whole[i]]
  OBVIOUS
<1> QED BY <1>1

\* A request for a stretch leaves out one of its ends.
LEMMA EdgesTold ==
    ASSUME lie \in {"start_exclusive", "end_exclusive"}
    PROVE  ~KlineBounds
<1> SUFFICES ASSUME KlineBounds PROVE FALSE
  OBVIOUS
<1>1. PICK whole : whole = Whole /\ Len(whole) >= 3
  BY DEF KlineBounds
<1>2. PICK begin \in Int, end \in Int : begin = Begin /\ end = End
  BY Window
<1>3. PICK none, l : none = {} /\ l = MaxLimit /\ Asks(none, l) /\ Capped(none) = {}
  BY NoLimit
<1>4. lie \notin {"newest_first", "limit_refused", "off_grid", "gap_stops"}
  OBVIOUS
<1>5. whole = Klines({begin}, {end}, none, Now)
  BY <1>1, <1>2, <1>3 DEF Whole
<1>6. PICK k \in Int, n \in Nat :
         /\ whole = CandlesOn(k, n, Now, {})
         /\ \A i \in 1..n : (k + i - 1) * Step \in Int
  <2>1. \E k \in Int, n \in Nat :
              /\ Klines({begin}, {end}, none, Now) = CandlesOn(k, n, Now, Capped(none))
              /\ \A i \in 1..n : /\ (k + i - 1) * Step \in Int
                                 /\ (k + i - 1) * Step >= Low(begin) /\ (k + i - 1) * Step <= High(end)
    BY <1>3, <1>4, KlinesRun
  <2> QED BY <1>3, <1>5, <2>1
<1>7. DOMAIN whole = 1..n /\ Len(whole) = n /\ \A i \in 1..n : whole[i] = Candle((k + i - 1) * Step, Now, {})
  <2>1. PICK limit : limit = {}
    OBVIOUS
  <2>2. whole = CandlesOn(k, n, Now, limit)
    BY <1>6, <2>1
  <2> QED BY <2>1, <2>2, OnIs
<1>8. PICK s \in Int, e \in Int : s = whole[1].open /\ e = whole[3].open
  <2>1. 1 \in 1..n /\ 3 \in 1..n
    BY <1>1, <1>7
  <2>2. PICK t \in Int, u \in Int : whole[1] = Candle(t, Now, {}) /\ whole[3] = Candle(u, Now, {})
    BY <1>6, <1>7, <2>1
  <2>3. PICK limit : limit = {}
    OBVIOUS
  <2>4. whole[1].open = t /\ whole[3].open = u
    BY <1>4, <2>2, <2>3, CandleIs
  <2> QED BY <2>4
<1>9. PICK got : got = Klines({s}, {e}, none, Now) /\ got = SubSeq(whole, 1, 3)
  BY <1>1, <1>3, <1>8 DEF KlineBounds
<1>10. DOMAIN got = 1..3 /\ got[1] = whole[1] /\ got[3] = whole[3]
  <2>1. 3 \in Nat /\ 1 \in 1..3 /\ 3 \in 1..3
    OBVIOUS
  <2>2. \A i \in 1..3 : got[i] = whole[i]
    BY <1>9, <2>1, Cut
  <2>3. DOMAIN got = 1..3
    BY <1>9, <2>1, Cut
  <2> QED BY <2>1, <2>2, <2>3
<1>11. PICK j \in Int, m \in Nat :
              /\ got = CandlesOn(j, m, Now, Capped(none))
              /\ \A i \in 1..m : /\ (j + i - 1) * Step \in Int
                                 /\ (j + i - 1) * Step >= Low(s) /\ (j + i - 1) * Step <= High(e)
  <2>1. \E j \in Int, m \in Nat :
              /\ Klines({s}, {e}, none, Now) = CandlesOn(j, m, Now, Capped(none))
              /\ \A i \in 1..m : /\ (j + i - 1) * Step \in Int
                                 /\ (j + i - 1) * Step >= Low(s) /\ (j + i - 1) * Step <= High(e)
    BY <1>3, <1>4, KlinesRun
  <2> QED BY <1>9, <2>1
<1>12. DOMAIN got = 1..m /\ \A i \in 1..m : got[i] = Candle((j + i - 1) * Step, Now, Capped(none))
  BY <1>11, OnIs
<1>13. 1 \in 1..m /\ 3 \in 1..m
  BY <1>10, <1>12
<1>14. got[1].open >= Low(s) /\ got[3].open <= High(e)
  <2>3. PICK sent : sent = Capped(none)
    OBVIOUS
  <2>1. PICK t \in Int, u \in Int : /\ got[1] = Candle(t, Now, sent) /\ got[3] = Candle(u, Now, sent)
                                   /\ t >= Low(s) /\ u <= High(e)
    BY <1>11, <1>12, <1>13, <2>3
  <2>2. got[1].open = t /\ got[3].open = u
    BY <1>4, <2>1, CandleIs
  <2> QED BY <2>1, <2>2
<1>15. s >= Low(s) /\ e <= High(e)
  BY <1>8, <1>10, <1>14
<1> QED BY <1>15 DEF Low, High

\* More than was asked for, and a limit the venue refuses.
LEMMA LimitsTold ==
    ASSUME lie \in {"over_limit", "limit_refused"}
    PROVE  ~KlineBounds
<1> SUFFICES ASSUME KlineBounds PROVE FALSE
  OBVIOUS
<1>1. CASE lie = "limit_refused"
  <2>1. PICK limit, start, end : limit = {AnyLimit} /\ start = {Begin} /\ end = {End}
    OBVIOUS
  <2>2. AnyLimit \in limit /\ AnyLimit > MaxLimit /\ Sent(limit) = limit
    BY <1>1, <2>1, Sizes DEF Sent
  <2>3. Klines(start, end, limit, Now) = <<>>
    <3>1. PICK answer : answer = Rows(start, end, limit, Now)
      OBVIOUS
    <3>2. \E l \in limit : l > MaxLimit
      BY <2>2
    <3>3. answer = Refuses(400, -1130, "limit_not_valid")
      BY <3>1, <3>2 DEF Rows
    <3>4. ClassifyCode(-1130, "limit_not_valid") = {"InvalidRequest"}
      BY DEF ClassifyCode
    <3>5. FailsAs(answer, "InvalidRequest")
      BY <3>3, <3>4, RefusedAs
    <3>6. FetchKlines(answer).kind = "InvalidRequest"
      BY <3>5, CallsFail
    <3>7. PICK request : request = [start |-> start, end |-> end, limit |-> limit]
      OBVIOUS
    <3>8. request.start = start /\ request.end = end /\ request.limit = limit
      BY <3>7
    <3>9. Klines(start, end, limit, Now) =
            LET g == FetchKlines(Rows(request.start, request.end, request.limit, Now))
            IN  IF g.kind = "ok" THEN CHOOSE rows \in g.value : TRUE ELSE <<>>
      BY <1>1, <3>7 DEF Klines
    <3> QED BY <3>1, <3>6, <3>8, <3>9
  <2>4. Whole = <<>> /\ Len(Whole) >= 3
    BY <2>1, <2>3 DEF KlineBounds
  <2>5. Len(<<>>) = 0
    OBVIOUS
  <2> QED BY <2>4, <2>5
<1>2. CASE lie = "over_limit"
  <2>1. Bounded
    BY <1>2 DEF Bounded
  <2>2. PICK whole : whole = Whole /\ whole[1] = Candle(Begin, Now, {})
    BY <2>1, FirstCandle
  <2>3. PICK b \in Int, s \in Int : /\ b = FirstAsked /\ s = Begin /\ s = b * Step /\ FirstBar <= s
    BY Window, Sizes
  <2>4. whole[1].open = s
    <3>1. PICK limit : limit = {}
      OBVIOUS
    <3> QED BY <1>2, <2>2, <2>3, <3>1, CandleIs
  <2>5. PICK limit, l : limit = {2} /\ l = 2 /\ Asks(limit, l)
    <3>1. 2 <= MaxLimit /\ 2 \in Nat
      BY Sizes
    <3> QED BY <3>1, NoLimit
  <2>6. From({s}) = s
    <3>1. Low(s) = s
      BY <1>2 DEF Low
    <3> QED BY <2>3, <3>1, Froms, Sizes
  <2>7. Upto({}, Now) = Now /\ Now \in Int
    <3>1. Now \in Int /\ 0 \in Int
      BY Sizes
    <3>2. Top(Now) = Now
      BY <1>2 DEF Top
    <3> QED BY <3>1, <3>2, Uptos
  <2>8. PICK k \in Int, n \in Nat : Spans(k, n, s, Now)
    BY <2>7, OpensAre DEF Spans
  <2>9. n >= 3
    <3>1. PICK z \in Int : z = b + WindowBars - 1 /\ End = z * Step /\ z >= b + 2 /\ End <= Now
      <4>1. WindowBars \in Nat /\ WindowBars >= 3 /\ Step \in Nat \ {0, 1} /\ Now \in Int
        BY Sizes
      <4> QED BY <2>3, <4>1, Window
    <3>2. Step \in Nat \ {0, 1}
      BY Sizes
    <3>3. k <= b
      <4>1. k * Step < s + Step
        BY <2>8 DEF Spans
      <4>2. k * Step < b * Step + Step
        BY <2>3, <4>1
      <4> QED BY <3>2, <4>2, Apart
    <3>4. z < k + n
      <4>1. PICK y \in Int : y = k + n /\ Now < y * Step
        BY <2>8 DEF Spans
      <4>2. y <= z => y * Step <= z * Step
        BY <3>2, <4>1, Apart
      <4>3. y * Step \in Int /\ z * Step \in Int
        BY <3>2
      <4> QED BY <2>7, <3>1, <4>1, <4>2, <4>3
    <3>6. k * Step >= s
      BY <2>8 DEF Spans
    <3>7. b <= k
      <4>1. k < b => k * Step + Step <= b * Step
        BY <3>2, Apart
      <4>2. k * Step \in Int
        BY <3>2
      <4> QED BY <2>3, <3>2, <3>6, <4>1, <4>2
    <3> QED BY <3>1, <3>3, <3>4, <3>7
  <2>10. PICK got : got = Klines({s}, {}, limit, Now) /\ got = SubSeq(whole, 1, 2)
    BY <2>2, <2>4, <2>5 DEF KlineBounds
  <2>11. got = CandlesOn(k, n, Now, Capped(limit))
    <3>1. PICK none : none = {}
      OBVIOUS
    <3>2. lie \notin {"newest_first", "limit_refused"} /\ (lie = "gap_stops" => s >= FirstBar)
      BY <1>2
    <3>3. Upto(none, Now) \in Int /\ Spans(k, n, From({s}), Upto(none, Now))
      BY <2>6, <2>7, <2>8, <3>1
    <3>4. Klines({s}, none, limit, Now) = CandlesOn(k, Most(n, l), Now, Capped(limit))
      BY <2>5, <3>2, <3>3, KlinesFrom
    <3>5. Most(n, l) = n
      BY <1>2 DEF Most
    <3> QED BY <2>10, <3>1, <3>4, <3>5
  <2>12. DOMAIN got = 1..n /\ DOMAIN got = 1..2
    <3>1. DOMAIN got = 1..n
      BY <2>11, OnIs
    <3>2. 2 \in Nat
      OBVIOUS
    <3> QED BY <2>10, <3>1, <3>2, Cut
  <2>13. 3 \in 1..n /\ 3 \notin 1..2
    BY <2>9
  <2> QED BY <2>12, <2>13
<1> QED BY <1>1, <1>2

\* A bar that has not begun, and the gap that ends the answer.
LEMMA GapsTold ==
    ASSUME lie \in {"future_bar", "gap_stops"}
    PROVE  ~KlineGaps
<1> SUFFICES ASSUME KlineGaps PROVE FALSE
  OBVIOUS
<1>1. /\ Step \in Nat \ {0, 1} /\ Now \in Nat /\ FirstBar \in Nat /\ MaxLimit \in Nat /\ MaxLimit >= 3
      /\ FutureBars \in Nat \ {0} /\ AncientBars \in Nat /\ Ancient \in Nat
  BY Sizes
<1>2. CASE lie = "future_bar"
  <2>1. PICK c \in Int : c = FirstAsked + WindowBars - 1 + SettledBars /\ Aligned = c * Step
    <3>1. FirstAsked + WindowBars - 1 + SettledBars \in Int
      BY Window, Sizes
    <3> QED BY <3>1, Window
  <2>2. PICK f \in Int, s \in Int, e \in Int : /\ f = c + FutureBars /\ s = f * Step /\ s = Aligned + FutureBars * Step
                                               /\ e = s + AncientBars * Step /\ e = (f + (AncientBars + 1) - 1) * Step
    <3>1. PICK f \in Int : f = c + FutureBars
      BY <1>1
    <3>2. f * Step = Aligned + FutureBars * Step /\ f * Step \in Int
      BY <1>1, <2>1, <3>1
    <3>3. f * Step + AncientBars * Step = (f + (AncientBars + 1) - 1) * Step /\ f * Step + AncientBars * Step \in Int
      BY <1>1
    <3> QED BY <3>1, <3>2, <3>3
  <2>3. From({s}) = s
    <3>1. Low(s) = s
      BY <1>2 DEF Low
    <3>2. s >= FirstBar
      <4>1. FirstBar <= Aligned /\ Aligned \in Int
        BY <1>1, Window
      <4>2. FutureBars * Step \in Nat
        BY <1>1
      <4> QED BY <1>1, <2>2, <4>1, <4>2
    <3> QED BY <1>1, <3>1, <3>2, Froms
  <2>4. Upto({e}, Now) = e
    <3>1. High(e) = e /\ Top(Now) = Horizon
      BY <1>2 DEF High, Top
    <3>2. Horizon \in Int /\ e <= Horizon
      <4>1. (FutureBars + AncientBars) * Step = FutureBars * Step + AncientBars * Step
        BY <1>1
      <4>2. FutureBars * Step \in Int /\ AncientBars * Step \in Int /\ Aligned <= Now /\ Aligned \in Int
        BY <1>1, Window
      <4> QED BY <1>1, <2>2, <4>1, <4>2 DEF Horizon
    <3>3. Now \in Int
      BY <1>1
    <3>4. Upto({e}, Now) = IF Top(Now) <= High(e) THEN Top(Now) ELSE High(e)
      BY <3>3, Uptos
    <3> QED BY <3>1, <3>2, <3>4
  <2>5. PICK n \in Nat : n = AncientBars + 1 /\ n >= 1
    BY <1>1
  <2>6. Spans(f, n, s, e)
    <3>1. (f + n) * Step = (f + n - 1) * Step + Step
      BY <1>1
    <3> QED BY <1>1, <2>2, <2>5, <3>1 DEF Spans
  <2>7. PICK end, none, l : end = {e} /\ none = {} /\ l = MaxLimit /\ Asks(none, l)
    BY NoLimit
  <2>8. Klines({s}, end, none, Now) = CandlesOn(f, Most(n, l), Now, Capped(none))
    <3>1. lie \notin {"newest_first", "limit_refused"} /\ (lie = "gap_stops" => s >= FirstBar)
      BY <1>2
    <3>2. Upto(end, Now) \in Int /\ Spans(f, n, From({s}), Upto(end, Now))
      BY <2>3, <2>4, <2>6, <2>7
    <3> QED BY <2>7, <3>1, <3>2, KlinesFrom
  <2>9. PICK m \in Nat : m = Most(n, l) /\ m >= 1
    BY <1>1, <2>5, <2>7 DEF Most
  <2>10. 1 \in DOMAIN Klines({s}, end, none, Now)
    <3>1. DOMAIN Klines({s}, end, none, Now) = 1..m
      BY <2>8, <2>9, OnIs
    <3> QED BY <2>9, <3>1
  <2>11. Klines({s}, end, none, Now) = <<>>
    BY <2>2, <2>7 DEF KlineGaps
  <2> QED BY <2>10, <2>11
<1>3. CASE lie = "gap_stops"
  <2>1. PICK start, end, limit : start = {Ancient} /\ end = {End} /\ limit = {3}
    OBVIOUS
  <2>2. Sent(limit) = {3}
    <3>1. 3 \in Int /\ MaxLimit \in Int
      BY <1>1
    <3>2. Min({3, MaxLimit}) = 3
      BY <1>1, <3>1, Extremes
    <3> QED BY <1>3, <2>1, <3>2 DEF Sent, Capped
  <2>3. \E s \in start : s < FirstBar
    <3>1. AncientBars * Step \in Nat
      BY <1>1
    <3>2. Ancient + AncientBars * Step < FirstBar
      BY Sizes
    <3> QED BY <1>1, <2>1, <3>1, <3>2
  <2>4. PICK open, served : /\ open = (IF lie = "gap_stops" /\ \E s \in start : s < FirstBar THEN <<>>
                                        ELSE Opens(From(start), Upto(end, Now)))
                            /\ served = Served(open, start, Sent(limit))
    OBVIOUS
  <2>5. \A l \in Sent(limit) : ~(l > MaxLimit)
    BY <1>1, <2>2
  <2>6. Klines(start, end, limit, Now) = [i \in DOMAIN served |-> Candle(served[i], Now, Sent(limit))]
    BY <2>4, <2>5, KlinesServed
  <2>7. served = <<>>
    <3>1. open = <<>> /\ Len(open) = 0 /\ start # {}
      BY <1>3, <2>1, <2>3, <2>4
    <3>2. Min({3}) = 3 /\ Min({0, 3}) = 0
      <4>1. 3 \in Int /\ 0 \in Int
        OBVIOUS
      <4>2. Min({3}) = 3
        BY <4>1, Extremes
      <4>3. Min({0, 3}) = IF 0 <= 3 THEN 0 ELSE 3
        BY <4>1, Extremes
      <4> QED BY <4>2, <4>3
    <3>3. SubSeq(open, 1, 0) = <<>>
      BY <3>1
    <3> QED BY <1>3, <2>2, <2>4, <3>1, <3>2, <3>3 DEF Served
  <2>8. Klines(start, end, limit, Now) = <<>>
    BY <2>6, <2>7
  <2> QED BY <2>1, <2>8 DEF KlineGaps
<1> QED BY <1>2, <1>3

-----------------------------------------------------------------------------
(* The connector that keeps the contract passes the checks of candles.      *)

Honest == lie = None

\* An honest connector tells no lie of candles and serves its bounds.
LEMMA HonestIs ==
    ASSUME Honest
    PROVE  /\ lie \notin Lies /\ Bounded /\ Pager
           /\ \A n, l : Most(n, l) = IF n <= l THEN n ELSE l
           /\ \A s : Low(s) = s /\ High(s) = s /\ Top(s) = s
<1>1. lie \notin CandleLies /\ lie \notin ClockLies /\ lie \notin RuleLies
  BY DEF Honest, None, CandleLies, ClockLies, RuleLies
<1>2. lie \notin RefusalLies /\ lie \notin OrderLies
  BY DEF Honest, None, RefusalLies, OrderLies
<1>3. lie \notin Lies
  BY <1>1, <1>2 DEF Lies
<1>4. Bounded /\ Pager
  BY DEF Honest, None, Bounded, Pager
<1>5. \A n, l : Most(n, l) = IF n <= l THEN n ELSE l
  BY DEF Honest, None, Most
<1>6. \A s : Low(s) = s /\ High(s) = s /\ Top(s) = s
  BY DEF Honest, None, Low, High, Top
<1> QED BY <1>3, <1>4, <1>5, <1>6

Bar(t) == [open |-> t, close |-> t + Step - 1, prices |-> "good", text |-> "exact"]
Bars(k, n) == [i \in 1..n |-> Bar((k + i - 1) * Step)]

\* Its candles are the bars.
LEMMA HonestCandle ==
    ASSUME Honest, NEW k \in Int, NEW n \in Nat, NEW now, NEW limit
    PROVE  CandlesOn(k, n, now, limit) = Bars(k, n)
<1>1. \A t : Candle(t, now, limit) = Bar(t)
  BY DEF Honest, None, Candle, Bar
<1> QED BY <1>1 DEF CandlesOn, Bars

\* Bars of a run open in order, each within it.
LEMMA BarTimes ==
    ASSUME NEW k \in Int, NEW n \in Nat, NEW i \in 1..n,
           NEW first, first = k * Step, NEW t, t = (k + i - 1) * Step,
           NEW last, last = (k + n - 1) * Step
    PROVE  /\ first \in Int /\ t \in Int /\ last \in Int
           /\ first <= t /\ t <= last /\ (i < n => t + Step <= last)
<1>1. Step \in Nat \ {0, 1}
  BY Sizes
<1>2. PICK x \in Int, y \in Int : x = k + i - 1 /\ y = k + n - 1 /\ k <= x /\ x <= y /\ (i < n => x < y)
  OBVIOUS
<1>3. k * Step <= x * Step /\ x * Step <= y * Step /\ (x < y => x * Step + Step <= y * Step) /\ {k * Step, x * Step, y * Step} \subseteq Int
  BY <1>1, <1>2, Apart
<1> QED BY <1>2, <1>3

\* A run of bars is well formed (on the grid, in order, of good prices).
LEMMA BarsAre ==
    ASSUME NEW k \in Int, NEW n \in Nat, NEW candles, candles = Bars(k, n)
    PROVE  /\ DOMAIN candles = 1..n /\ Len(candles) = n
           /\ WellFormed(candles)
           /\ n > 0 => Last(candles).open = (k + n - 1) * Step
<1>1. Step \in Nat \ {0, 1}
  BY Sizes
<1>2. DOMAIN candles = 1..n /\ Len(candles) = n
  BY DEF Bars
<1>4. ASSUME NEW i \in 1..n, NEW t, t = (k + i - 1) * Step
      PROVE  candles[i].open = t /\ candles[i].close = t + Step - 1 /\ candles[i].prices = "good"
  <2>1. candles[i] = Bar(t)
    BY <1>4 DEF Bars
  <2> QED BY <2>1 DEF Bar
<1>5. WellFormed(candles)
  <2>1. ASSUME NEW i \in 1..n
        PROVE  candles[i].open % Step = 0 /\ candles[i].close = candles[i].open + Step - 1 /\ candles[i].prices # "prices_mixed"
    <3>1. PICK x \in Int : x = k + i - 1
      OBVIOUS
    <3>2. (x * Step) % Step = 0
      BY OnGrid
    <3> QED BY <1>4, <3>1, <3>2
  <2>2. ASSUME NEW i \in 1..(n - 1)
        PROVE  candles[i].open < candles[i + 1].open
    <3>1. PICK x \in Int : x = k + i - 1 /\ x + 1 = k + (i + 1) - 1 /\ i \in 1..n /\ i + 1 \in 1..n
      OBVIOUS
    <3>2. (x + 1) * Step = x * Step + Step /\ x * Step \in Int
      BY <1>1
    <3>3. candles[i].open = x * Step /\ candles[i + 1].open = (x + 1) * Step
      BY <1>4, <3>1
    <3> QED BY <1>1, <3>2, <3>3
  <2> QED BY <1>2, <2>1, <2>2 DEF WellFormed
<1>6. n > 0 => Last(candles).open = (k + n - 1) * Step
  <2>1. n > 0 => n \in 1..n
    OBVIOUS
  <2> QED BY <1>2, <1>4, <2>1 DEF Last
<1> QED BY <1>2, <1>5, <1>6

\* The window, asked of an honest connector.
LEMMA HonestWhole ==
    ASSUME Honest
    PROVE  /\ Whole = Bars(FirstAsked, WindowBars)
           /\ WindowBars \in Nat /\ WindowBars >= 3 /\ FirstAsked \in Int
<1>1. PICK b \in Int, n \in Nat : b = FirstAsked /\ n = WindowBars /\ n >= 3
  BY Window, Sizes
<1>2. Whole = CandlesOn(b, n, Now, {})
  BY <1>1, HonestIs, WholeIs
<1>3. PICK limit : limit = {}
  OBVIOUS
<1>4. CandlesOn(b, n, Now, limit) = Bars(b, n)
  BY HonestCandle
<1> QED BY <1>1, <1>2, <1>3, <1>4

\* An honest connector passes candle_normalization.
LEMMA HonestNormalization ==
    ASSUME Honest
    PROVE  CandleNormalization
<1> DEFINE whole == Whole
<1>1. PICK b \in Int, n \in Nat : b = FirstAsked /\ n = WindowBars /\ n >= 3 /\ whole = Whole /\ whole = Bars(b, n)
  BY HonestWhole
<1> HIDE DEF whole
<1>2. DOMAIN whole = 1..n /\ WellFormed(whole)
  BY <1>1, BarsAre
<1>3. /\ Begin = b * Step /\ End = (b + n - 1) * Step /\ Begin \in Int /\ End \in Int
      /\ End + Step <= Aligned /\ Aligned <= Now /\ Aligned \in Int
  BY <1>1, Window
<1>4. Step \in Nat \ {0, 1} /\ Now \in Nat
  BY Sizes
<1>5. whole # <<>>
  BY <1>1, <1>2
<1>6. ASSUME NEW i \in DOMAIN whole
      PROVE  whole[i].open \in Begin..End /\ whole[i].close < Now /\ whole[i].prices # "off_tick"
  <2>1. PICK x : x = (b + i - 1) * Step
    OBVIOUS
  <2>2. /\ whole[i].open = x /\ whole[i].close = x + Step - 1 /\ whole[i].prices = "good"
        /\ x \in Int /\ b * Step <= x /\ x <= (b + n - 1) * Step
    <3>1. i \in 1..n
      BY <1>2
    <3>2. whole = Bars(b, n)
      BY <1>1
    <3>3. PICK first, last : first = b * Step /\ last = (b + n - 1) * Step
      OBVIOUS
    <3>4. whole[i].open = x /\ whole[i].close = x + Step - 1 /\ whole[i].prices = "good"
      <4>1. whole[i] = Bar(x)
        BY <2>1, <3>1, <3>2 DEF Bars
      <4> QED BY <4>1 DEF Bar
    <3>5. x \in Int /\ first <= x /\ x <= last
      BY <2>1, <3>1, <3>3, BarTimes
    <3> QED BY <3>3, <3>4, <3>5
  <2>3. Begin <= x /\ x <= End
    BY <1>3, <2>2
  <2> QED BY <1>3, <1>4, <2>2, <2>3
<1>7. Inside(whole, Begin, End)
  BY <1>6 DEF Inside
<1>8. lie # "no_tick"
  BY DEF Honest, None
<1> QED BY <1>1, <1>2, <1>5, <1>6, <1>7, <1>8 DEF CandleNormalization

\* An honest connector passes closed_bars, whenever the second look is.
LEMMA HonestClosed ==
    ASSUME Honest, NEW later \in {Now, Now + Step}
    PROVE  ClosedBars(later)
<1>1. PICK k \in Int, m \in Nat :
              /\ m >= 1 /\ (lie # "over_limit" => m <= Latest)
              /\ Klines({}, {}, {Latest}, later) = CandlesOn(k, m, later, Capped({Latest}))
              /\ (k + m - 1) * Step <= later /\ later < (k + m - 1) * Step + Step - 1
  BY LatestAre DEF Honest, None
<1>2. PICK latest : latest = Klines({}, {}, {Latest}, later) /\ latest = Bars(k, m)
  <2>1. PICK limit : limit = Capped({Latest})
    OBVIOUS
  <2>2. CandlesOn(k, m, later, limit) = Bars(k, m)
    BY HonestCandle
  <2> QED BY <1>1, <2>1, <2>2
<1>3. /\ DOMAIN latest = 1..m /\ Len(latest) = m /\ WellFormed(latest)
      /\ m > 0 => Last(latest).open = (k + m - 1) * Step
  BY <1>2, BarsAre
<1>4. Step \in Nat \ {0, 1} /\ Now \in Nat /\ later \in Int /\ Latest \in Nat /\ (k + m - 1) * Step \in Int
  <2>1. Step \in Nat \ {0, 1} /\ Now \in Nat /\ Latest \in Nat
    BY Sizes
  <2> QED BY <2>1
<1>5. latest # <<>> /\ Len(latest) <= Latest
  <2>1. m <= Latest
    BY <1>1 DEF Honest, None
  <2> QED BY <1>1, <1>3, <2>1
<1>6. ASSUME NEW i \in 1..m, i < m
      PROVE  latest[i].close < later
  <2>1. PICK first, x, y : first = k * Step /\ x = (k + i - 1) * Step /\ y = (k + m - 1) * Step
    OBVIOUS
  <2>2. latest = Bars(k, m)
    BY <1>2
  <2>3. latest[i].close = x + Step - 1
    <3>1. latest[i] = Bar(x)
      BY <2>1, <2>2 DEF Bars
    <3> QED BY <3>1 DEF Bar
  <2>4. x \in Int /\ (i < m => x + Step <= y)
    BY <2>1, BarTimes
  <2> QED BY <1>1, <1>4, <1>6, <2>1, <2>3, <2>4
<1>7. Last(latest).open <= later
  BY <1>1, <1>3
<1>8. \A i \in 1..(Len(latest) - 1) : latest[i].close < later
  <2> SUFFICES ASSUME NEW i \in 1..(m - 1) PROVE latest[i].close < later
    BY <1>3
  <2>1. i \in 1..m /\ i < m
    OBVIOUS
  <2> QED BY <1>6, <2>1
<1> QED BY <1>2, <1>3, <1>5, <1>7, <1>8 DEF ClosedBars

\* From a start on, an honest connector serves the bars there are.
LEMMA HonestFrom ==
    ASSUME Honest, NEW s \in Int, NEW end, NEW upto \in Int, upto = Upto(end, Now),
           NEW from, from = IF FirstBar >= s THEN FirstBar ELSE s,
           NEW limit, NEW l, Asks(limit, l),
           NEW k \in Int, NEW n \in Nat, Spans(k, n, from, upto),
           NEW most, most = IF n <= l THEN n ELSE l
    PROVE  Klines({s}, end, limit, Now) = Bars(k, most)
<1>1. From({s}) = from
  BY HonestIs, Froms
<1>2. Most(n, l) = most /\ most \in Nat
  <2>1. lie # "limit_refused"
    BY DEF Honest, None
  <2>2. l \in Nat
    BY <2>1, Limits
  <2> QED BY <2>2, HonestIs
<1>3. lie \notin {"newest_first", "limit_refused"} /\ (lie = "gap_stops" => s >= FirstBar)
  BY DEF Honest, None
<1>4. Upto(end, Now) \in Int /\ Spans(k, n, From({s}), Upto(end, Now))
  BY <1>1
<1>5. Klines({s}, end, limit, Now) = CandlesOn(k, Most(n, l), Now, Capped(limit))
  BY <1>3, <1>4, KlinesFrom
<1>6. PICK sent : sent = Capped(limit)
  OBVIOUS
<1> QED BY <1>2, <1>5, <1>6, HonestCandle

\* A stretch with no bar in it.
LEMMA HonestNone ==
    ASSUME Honest, NEW s \in Int, NEW end, NEW upto \in Int, upto = Upto(end, Now),
           NEW from, from = IF FirstBar >= s THEN FirstBar ELSE s,
           NEW k \in Int, NEW zero \in Nat, zero = 0, Spans(k, zero, from, upto)
    PROVE  Klines({s}, end, {}, Now) = <<>>
<1>1. PICK none, l : none = {} /\ l = MaxLimit /\ Asks(none, l)
  BY NoLimit
<1>2. PICK most : most = IF zero <= l THEN zero ELSE l
  OBVIOUS
<1>3. most = zero
  BY <1>1, <1>2, Sizes
<1>4. Klines({s}, end, none, Now) = Bars(k, most)
  BY <1>1, <1>2, HonestFrom
<1> QED BY <1>1, <1>3, <1>4 DEF Bars

\* Asked for three candles, it serves one to three.
LEMMA HonestThree ==
    ASSUME Honest, NEW s \in Int, NEW end, NEW upto \in Int, upto = Upto(end, Now),
           NEW from, from = IF FirstBar >= s THEN FirstBar ELSE s,
           NEW k \in Int, NEW n \in Nat, n >= 1, Spans(k, n, from, upto)
    PROVE  \E m \in 1..3 : m <= n /\ Klines({s}, end, {3}, Now) = Bars(k, m)
<1>1. PICK limit, l : limit = {3} /\ l = 3 /\ Asks(limit, l)
  <2>1. 3 \in Nat /\ 3 <= MaxLimit
    BY Sizes
  <2> QED BY <2>1, NoLimit
<1>2. PICK most : most = IF n <= l THEN n ELSE l
  OBVIOUS
<1>3. most \in 1..3 /\ most <= n
  BY <1>1, <1>2
<1>4. Asks(limit, l)
  BY <1>1
<1>5. Klines({s}, end, limit, Now) = Bars(k, most)
  BY <1>2, <1>4, HonestFrom
<1> QED BY <1>1, <1>3, <1>5

\* An honest connector serves up to the end asked for, or now.
LEMMA HonestUpto ==
    ASSUME Honest, NEW e \in Int
    PROVE  /\ Upto({}, Now) = Now
           /\ Upto({e}, Now) = IF Now <= e THEN Now ELSE e
<1>1. Now \in Int /\ Top(Now) = Now /\ High(e) = e
  BY Sizes, HonestIs
<1> QED BY <1>1, Uptos

\* The beginning of a run of bars is one.
LEMMA BarsCut ==
    ASSUME NEW k \in Int, NEW n \in Nat, NEW m \in Nat, m <= n
    PROVE  SubSeq(Bars(k, n), 1, m) = Bars(k, m)
<1>1. PICK bars : bars = Bars(k, n)
  OBVIOUS
<1>2. \A i \in 1..m : bars[i] = Bar((k + i - 1) * Step)
  <2>1. \A i \in 1..m : i \in 1..n
    OBVIOUS
  <2> QED BY <1>1, <2>1 DEF Bars
<1>3. SubSeq(bars, 1, m) = [i \in 1..m |-> bars[i]]
  OBVIOUS
<1> QED BY <1>1, <1>2, <1>3 DEF Bars

\* An honest connector passes kline_bounds.
LEMMA HonestBounds ==
    ASSUME Honest
    PROVE  KlineBounds
<1> DEFINE whole == Whole
<1>1. PICK b \in Int, n \in Nat : b = FirstAsked /\ n = WindowBars /\ n >= 3 /\ whole = Whole /\ whole = Bars(b, n)
  BY HonestWhole
<1> HIDE DEF whole
<1>2. PICK s \in Int, e \in Int : s = Begin /\ e = End
  BY Window
<1>3. /\ s = b * Step /\ e = (b + n - 1) * Step /\ FirstBar + Step <= s
      /\ e + Step <= Aligned /\ Aligned <= Now /\ Aligned \in Int /\ Now < Aligned + Step - 1
      /\ Aligned = (b + n - 1 + SettledBars) * Step
  BY <1>1, <1>2, Window
<1>4. Step \in Nat \ {0, 1} /\ Now \in Nat /\ FirstBar \in Nat /\ SettledBars \in Nat /\ SettledBars > 0
      /\ WindowBars <= MaxLimit /\ MaxLimit \in Nat /\ AnyLimit \in Nat /\ AnyLimit > MaxLimit
  BY Sizes
<1>5. DOMAIN whole = 1..n /\ Len(whole) = n /\ WellFormed(whole)
  BY <1>1, BarsAre
<1>6. PICK u \in Int : u = (b + 2) * Step
  BY <1>4
<1>7. whole[1].open = s /\ whole[3].open = u
  <2>1. 1 \in 1..n /\ 3 \in 1..n
    BY <1>1
  <2>2. PICK x \in Int : x = b + 3 - 1 /\ x = b + 2
    OBVIOUS
  <2>3. PICK y \in Int : y = b + 1 - 1 /\ y = b
    OBVIOUS
  <2>4. whole[1].open = y * Step
    <3>1. whole[1] = Bar(y * Step)
      BY <1>1, <2>1, <2>3 DEF Bars
    <3> QED BY <3>1 DEF Bar
  <2>5. whole[3].open = x * Step
    <3>1. whole[3] = Bar(x * Step)
      BY <1>1, <2>1, <2>2 DEF Bars
    <3> QED BY <3>1 DEF Bar
  <2> QED BY <1>3, <1>6, <2>2, <2>3, <2>4, <2>5
<1>8. FirstBar <= s /\ e <= Now /\ u <= e /\ s <= u
  <2>1. PICK x \in Int, y \in Int : x = b + 2 /\ y = b + n - 1 /\ b <= x /\ x <= y
    BY <1>1
  <2>2. b * Step <= x * Step /\ x * Step <= y * Step /\ {b * Step, x * Step, y * Step} \subseteq Int
    BY <1>4, <2>1, Apart
  <2> QED BY <1>3, <1>4, <1>6, <2>1, <2>2
<1>9. Klines({s}, {u}, {}, Now) = Bars(b, 3)
  <2>1. PICK end, limit, l : end = {u} /\ limit = {} /\ l = MaxLimit /\ Asks(limit, l)
    BY NoLimit
  <2>2. Upto(end, Now) = u
    BY <1>8, <1>4, <2>1, HonestUpto
  <2>3. PICK m \in Nat : m = 3
    OBVIOUS
  <2>4. Spans(b, m, s, u)
    <3>1. (b + m) * Step = u + Step /\ (b + m - 1) * Step = u
      <4>1. PICK x \in Int : x = b + 2 /\ b + m = x + 1 /\ b + m - 1 = x
        BY <2>3
      <4>2. (x + 1) * Step = x * Step + Step
        BY <1>4
      <4> QED BY <1>6, <4>1, <4>2
    <3> QED BY <1>3, <1>4, <1>6, <2>3, <3>1 DEF Spans
  <2>5. s = (IF FirstBar >= s THEN FirstBar ELSE s) /\ m = (IF m <= l THEN m ELSE l)
    BY <1>1, <1>4, <1>8, <2>1, <2>3
  <2>6. Klines({s}, end, limit, Now) = Bars(b, m)
    BY <2>1, <2>2, <2>4, <2>5, HonestFrom
  <2> QED BY <2>1, <2>3, <2>6
<1>10. Klines({s}, {}, {2}, Now) = Bars(b, 2)
  <2>1. PICK end, limit, l : end = {} /\ limit = {2} /\ l = 2 /\ Asks(limit, l)
    <3>1. 2 \in Nat /\ 2 <= MaxLimit
      BY <1>1, <1>4
    <3> QED BY <3>1, NoLimit
  <2>2. PICK now \in Int : now = Now /\ Upto(end, Now) = now
    BY <1>2, <1>4, <2>1, HonestUpto
  <2>3. PICK m \in Nat : m = n + SettledBars /\ m >= 3
    BY <1>1, <1>4
  <2>4. Spans(b, m, s, now)
    <3>1. PICK x \in Int : x = b + n - 1 + SettledBars /\ b + m - 1 = x /\ b + m = x + 1
      BY <1>1, <1>4, <2>3
    <3>2. (x + 1) * Step = x * Step + Step /\ x * Step \in Int
      BY <1>4
    <3>3. x * Step <= now /\ now < x * Step + Step
      BY <1>3, <1>4, <2>2, <3>1
    <3> QED BY <1>3, <1>4, <2>3, <3>1, <3>2, <3>3 DEF Spans
  <2>5. s = (IF FirstBar >= s THEN FirstBar ELSE s) /\ l = (IF m <= l THEN m ELSE l)
    BY <1>4, <1>8, <2>1, <2>3
  <2>6. Klines({s}, end, limit, Now) = Bars(b, l)
    BY <2>1, <2>2, <2>4, <2>5, HonestFrom
  <2> QED BY <2>1, <2>6
<1>11. Klines({s}, {e}, {AnyLimit}, Now) = Bars(b, n)
  <2>1. PICK any \in Nat : any = AnyLimit /\ any > MaxLimit
    BY <1>4
  <2>2. PICK end, limit, l : l = MaxLimit /\ end = {e} /\ limit = {any}
    OBVIOUS
  <2>3. Asks(limit, l)
    BY <1>4, <2>1, <2>2 DEF Asks
  <2>4. Upto(end, Now) = e
    BY <1>4, <1>8, <2>2, HonestUpto
  <2>5. Spans(b, n, s, e)
    <3>1. PICK x \in Int : x = b + n - 1 /\ b + n = x + 1
      OBVIOUS
    <3>2. (x + 1) * Step = x * Step + Step /\ x * Step \in Int
      BY <1>4
    <3> QED BY <1>3, <1>4, <3>1, <3>2 DEF Spans
  <2>6. s = (IF FirstBar >= s THEN FirstBar ELSE s) /\ n = (IF n <= l THEN n ELSE l)
    BY <1>1, <1>4, <1>8, <2>2
  <2>7. Klines({s}, end, limit, Now) = Bars(b, n)
    BY <2>3, <2>4, <2>5, <2>6, HonestFrom
  <2> QED BY <2>1, <2>2, <2>7
<1>12. SubSeq(whole, 1, 3) = Bars(b, 3) /\ SubSeq(whole, 1, 2) = Bars(b, 2)
  <2>1. PICK x \in Nat, y \in Nat : x = 3 /\ y = 2 /\ x <= n /\ y <= n
    BY <1>1
  <2>2. SubSeq(Bars(b, n), 1, x) = Bars(b, x)
    BY <2>1, BarsCut
  <2>3. SubSeq(Bars(b, n), 1, y) = Bars(b, y)
    BY <2>1, BarsCut
  <2> QED BY <1>1, <2>1, <2>2, <2>3
<1> QED BY <1>1, <1>2, <1>5, <1>7, <1>9, <1>10, <1>11, <1>12 DEF KlineBounds

\* An honest connector passes kline_paging.
LEMMA HonestPaging ==
    ASSUME Honest
    PROVE  KlinePaging
<1> DEFINE whole == Whole
<1>1. PICK b \in Int, n \in Nat : b = FirstAsked /\ n = WindowBars /\ n >= 3 /\ whole = Whole /\ whole = Bars(b, n)
  BY HonestWhole
<1> HIDE DEF whole
<1>2. WellFormed(whole)
  BY <1>1, BarsAre
<1>3. PICK paged : paged = Paged /\ paged = Walked(n)
  BY <1>1, HonestIs, PagedIs
<1>4. PICK limit : limit = {Page}
  OBVIOUS
<1>5. paged.sound /\ paged.cursor = (b + n) * Step /\ paged.candles = CandlesOn(b, n, Now, limit)
  BY <1>1, <1>3, <1>4 DEF Walked
<1>6. paged.cursor > End
  <2>1. Step \in Nat \ {0, 1}
    BY Sizes
  <2>2. PICK x \in Int : x = b + n - 1 /\ x + 1 = b + n
    OBVIOUS
  <2>3. End = x * Step /\ (x + 1) * Step = x * Step + Step /\ x * Step \in Int
    BY <1>1, <2>1, <2>2, Window
  <2> QED BY <1>5, <2>1, <2>2, <2>3
<1>7. paged.candles = whole
  BY <1>1, <1>5, HonestCandle
<1> QED BY <1>1, <1>2, <1>3, <1>5, <1>6, <1>7 DEF KlinePaging

\* An honest connector passes kline_gaps.
LEMMA HonestGaps ==
    ASSUME Honest
    PROVE  KlineGaps
<1>1. /\ Step \in Nat \ {0, 1} /\ Now \in Nat /\ FirstBar \in Nat /\ MaxLimit \in Nat /\ MaxLimit >= 3
      /\ FutureBars \in Nat \ {0} /\ AncientBars \in Nat /\ Ancient \in Nat /\ Ancient + AncientBars * Step < FirstBar
  BY Sizes
<1>2. PICK stretch \in Nat : stretch = AncientBars * Step
  BY <1>1
<1>5. PICK zero \in Nat : zero = 0
  OBVIOUS
<1>6. PICK aligned \in Int : aligned = Aligned /\ aligned <= Now /\ Now < aligned + Step - 1 /\ FirstBar <= aligned
  BY <1>1, Window
<1>7. PICK begin \in Int, last \in Int, b \in Int : /\ begin = Begin /\ last = End /\ FirstBar + Step <= begin /\ begin < last
                                       /\ last + Step <= aligned /\ b = FirstAsked /\ last = (b + WindowBars - 1) * Step
  BY <1>6, Window
<1>8. ASSUME NEW future, future = Aligned + FutureBars * Step
      PROVE  Klines({future}, {future + AncientBars * Step}, {}, Now) = <<>>
  <2>1. PICK c \in Int : Aligned = c * Step
    <3>1. FirstAsked + WindowBars - 1 + SettledBars \in Int
      BY Window, Sizes
    <3> QED BY <3>1, Window
  <2>2. PICK s \in Int, f \in Int : s = future /\ f = c + FutureBars /\ s = f * Step
    <3>1. (c + FutureBars) * Step = c * Step + FutureBars * Step /\ (c + FutureBars) * Step \in Int
      BY <1>1
    <3> QED BY <1>1, <1>8, <2>1, <3>1
  <2>3. s >= aligned + Step
    <3>1. FutureBars * Step >= Step /\ FutureBars * Step \in Int
      <4>1. 1 <= FutureBars
        BY <1>1
      <4>2. 1 * Step <= FutureBars * Step
        BY <1>1, <4>1, Apart
      <4> QED BY <1>1, <4>2
    <3> QED BY <1>1, <1>6, <1>8, <2>2, <3>1
  <2>4. PICK e \in Int : e = s + stretch
    OBVIOUS
  <2>9. PICK end : end = {e}
    OBVIOUS
  <2>5. PICK now \in Int : now = Now /\ Upto(end, Now) = now
    <3>1. Now <= e
      BY <1>1, <1>2, <1>6, <2>3, <2>4
    <3> QED BY <1>1, <2>4, <2>9, <3>1, HonestUpto
  <2>6. s = IF FirstBar >= s THEN FirstBar ELSE s
    BY <1>1, <1>6, <2>3
  <2>7. Spans(f, zero, s, now)
    <3>1. PICK g \in Int : g = f + zero /\ g = f
      BY <1>5
    <3>2. g * Step = s /\ now < s
      BY <1>1, <1>6, <2>2, <2>3, <2>5, <3>1
    <3> QED BY <1>1, <1>5, <2>2, <3>1, <3>2 DEF Spans
  <2>8. Klines({s}, end, {}, Now) = <<>>
    BY <1>5, <2>5, <2>6, <2>7, HonestNone
  <2> QED BY <1>2, <2>2, <2>4, <2>8, <2>9
<1>9. Klines({Ancient}, {Ancient + AncientBars * Step}, {}, Now) = <<>>
  <2>1. PICK s \in Int, e \in Int, from \in Int :
              s = Ancient /\ e = s + stretch /\ from = FirstBar /\ e < from /\ from = IF FirstBar >= s THEN FirstBar ELSE s
    BY <1>1, <1>2
  <2>7. PICK end : end = {e}
    OBVIOUS
  <2>2. Upto(end, Now) = e
    BY <1>1, <1>6, <2>1, <2>7, HonestUpto
  <2>3. PICK k \in Int, n \in Nat : Spans(k, n, from, e)
    BY <2>1, OpensAre DEF Spans
  <2>4. n = 0
    <3>1. PICK x \in Int, y \in Int : x = k * Step /\ y = (k + n - 1) * Step /\ k + n - 1 \in Int
      BY <1>1
    <3>2. n > 0 => x <= y
      BY <1>1, <3>1, Apart
    <3>3. n > 0 => y <= e
      BY <2>3, <3>1 DEF Spans
    <3>4. from <= x
      BY <2>3, <3>1 DEF Spans
    <3> QED BY <2>1, <3>1, <3>2, <3>3, <3>4
  <2>5. Spans(k, zero, from, e)
    BY <1>5, <2>3, <2>4
  <2>6. Klines({s}, end, {}, Now) = <<>>
    BY <1>5, <2>1, <2>2, <2>5, HonestNone
  <2> QED BY <1>2, <2>1, <2>6, <2>7
<1>15. PICK oldest : oldest = Klines({Ancient}, {End}, {3}, Now)
  OBVIOUS
<1>10. PICK k \in Int, m \in 1..3 :
          /\ oldest = Bars(k, m)
          /\ FirstBar <= k * Step /\ (k + m - 1) * Step <= last
  <2>1. PICK s \in Int, from \in Int : s = Ancient /\ from = FirstBar /\ from = IF FirstBar >= s THEN FirstBar ELSE s
    BY <1>1, <1>2
  <2>10. PICK end : end = {last}
    OBVIOUS
  <2>2. Upto(end, Now) = last
    BY <1>1, <1>6, <1>7, <2>10, HonestUpto
  <2>3. PICK k \in Int, n \in Nat : Spans(k, n, from, last)
    BY <2>1, OpensAre DEF Spans
  <2>4. n >= 1
    <3>1. n = 0 => last < k * Step
      BY <2>3 DEF Spans
    <3>2. PICK x \in Int : x = k * Step /\ x < from + Step
      BY <1>1, <2>3 DEF Spans
    <3> QED BY <1>1, <1>7, <2>1, <3>1, <3>2
  <2>6. PICK m \in 1..3 : m <= n /\ Klines({s}, end, {3}, Now) = Bars(k, m)
    BY <2>1, <2>2, <2>3, <2>4, HonestThree
  <2>8. (k + m - 1) * Step <= last
    <3>1. PICK y \in Int, z \in Int : y = k + m - 1 /\ z = k + n - 1 /\ y <= z
      BY <2>6
    <3>2. y * Step <= z * Step /\ y * Step \in Int /\ z * Step \in Int
      BY <1>1, <3>1, Apart
    <3>3. z * Step <= last
      BY <2>3, <2>4, <3>1 DEF Spans
    <3> QED BY <3>1, <3>2, <3>3
  <2>9. FirstBar <= k * Step
    BY <2>1, <2>3 DEF Spans
  <2> QED BY <1>7, <1>15, <2>1, <2>6, <2>8, <2>9, <2>10
<1>11. DOMAIN oldest = 1..m /\ Len(oldest) = m /\ WellFormed(oldest)
  <2>1. m \in Nat
    OBVIOUS
  <2> QED BY <1>10, <2>1, BarsAre
<1>12. oldest # <<>> /\ Len(oldest) <= 3
  BY <1>11
<1>13. ASSUME NEW i \in DOMAIN oldest
       PROVE  oldest[i].open \in Ancient..End
  <2>1. i \in 1..m /\ m \in Nat
    BY <1>11
  <2>2. PICK first, x, y : first = k * Step /\ x = (k + i - 1) * Step /\ y = (k + m - 1) * Step
    OBVIOUS
  <2>3. oldest[i].open = x
    <3>1. oldest[i] = Bar(x)
      BY <1>10, <2>1, <2>2 DEF Bars
    <3> QED BY <3>1 DEF Bar
  <2>5. first \in Int /\ x \in Int /\ y \in Int /\ first <= x /\ x <= y
    BY <2>1, <2>2, BarTimes
  <2>4. Ancient <= FirstBar
    BY <1>1, <1>2
  <2> QED BY <1>1, <1>7, <1>10, <2>2, <2>3, <2>4, <2>5
<1>14. Inside(oldest, Ancient, End)
  BY <1>13 DEF Inside
<1> QED BY <1>8, <1>9, <1>11, <1>12, <1>14, <1>15 DEF KlineGaps

-----------------------------------------------------------------------------
(* Folds over a sequence, which take its last place first.                  *)

\* The last place of a set of places.
LEMMA LastPlace ==
    ASSUME NEW k \in Nat, NEW S \in SUBSET (1..k), S # {}
    PROVE  /\ Max(S) \in S /\ S \ {Max(S)} \in SUBSET (1..(k - 1))
           /\ \A x \in S : x <= Max(S)
<1> DEFINE HasLast(n) == \A T \in SUBSET (1..n) : T # {} => \E m \in T : \A x \in T : m >= x
           P == {n \in Nat : HasLast(n)}
<1>1. 0 \in P
  <2>1. \A T \in SUBSET (1..0) : T = {}
    OBVIOUS
  <2> QED BY <2>1
<1>2. ASSUME NEW n \in Nat, HasLast(n)
      PROVE  HasLast(n + 1)
  <2> SUFFICES ASSUME NEW T \in SUBSET (1..(n + 1)), T # {}
               PROVE  \E m \in T : \A x \in T : m >= x
    OBVIOUS
  <2>1. CASE n + 1 \in T
    <3>1. \A x \in T : n + 1 >= x
      OBVIOUS
    <3> QED BY <2>1, <3>1
  <2>2. CASE n + 1 \notin T
    <3>1. T \in SUBSET (1..n)
      BY <2>2
    <3> QED BY <1>2, <3>1
  <2> QED BY <2>1, <2>2
<1>3. HasLast(k)
  <2> HIDE DEF HasLast
  <2>1. 0 \in P /\ P \in SUBSET Nat /\ \A n \in P : n + 1 \in P
    BY <1>1, <1>2
  <2>2. P = Nat
    <3> HIDE DEF P
    <3> QED BY <2>1, CountsUp
  <2>3. k \in P
    BY <2>2
  <2> QED BY <2>3
<1>4. Max(S) \in S /\ \A x \in S : Max(S) >= x
  <2>1. \E m \in S : \A x \in S : m >= x
    BY <1>3
  <2> QED BY <2>1 DEF Max
<1>5. ASSUME NEW x \in S
      PROVE  x <= Max(S) /\ (x # Max(S) => x \in 1..(k - 1))
  <2>1. x \in 1..k /\ Max(S) \in 1..k /\ x <= Max(S)
    BY <1>4
  <2> QED BY <2>1
<1> QED BY <1>4, <1>5

\* The last of the places up to k.
LEMMA LastUpTo ==
    ASSUME NEW k \in Nat \ {0}
    PROVE  Max(1..k) = k /\ (1..k) \ {k} = 1..(k - 1) /\ 1..k # {}
<1>1. 1..k \in SUBSET (1..k) /\ k \in 1..k
  OBVIOUS
<1>2. Max(1..k) \in 1..k /\ \A x \in 1..k : x <= Max(1..k)
  BY <1>1, LastPlace
<1> QED BY <1>1, <1>2

IsFold(h, k, base, step) ==
    \A S \in SUBSET (1..k) :
        h[S] = IF S = {} THEN base ELSE step[<<h[S \ {Max(S)}], Max(S)>>]

\* A fold over the places of a sequence is well defined: the least place up to
\* which it was not would be one more than a place up to which it was.
LEMMA FoldExists ==
    ASSUME NEW n \in Nat, NEW V, NEW base \in V, NEW step \in [V \X (1..n) -> V]
    PROVE  \E h \in [SUBSET (1..n) -> V] : IsFold(h, n, base, step)
<1> DEFINE Equals(h, k) == IsFold(h, k, base, step)
           Good(k) == \E h \in [SUBSET (1..k) -> V] : Equals(h, k)
           P == {k \in Nat : k <= n => Good(k)}
<1>1. 0 \in P
  <2> DEFINE h == [S \in SUBSET (1..0) |-> base]
  <2>1. \A S \in SUBSET (1..0) : S = {}
    OBVIOUS
  <2>2. h \in [SUBSET (1..0) -> V] /\ Equals(h, 0)
    BY <2>1 DEF IsFold
  <2> QED BY <2>2
<1>2. ASSUME NEW k \in Nat, k + 1 <= n, Good(k)
      PROVE  Good(k + 1)
  <2>1. PICK g \in [SUBSET (1..k) -> V] : Equals(g, k)
    BY <1>2
  <2> DEFINE h == [S \in SUBSET (1..(k + 1)) |->
                     IF S = {} THEN base ELSE step[<<g[S \ {Max(S)}], Max(S)>>]]
  <2>2. ASSUME NEW S \in SUBSET (1..(k + 1)), S # {}
        PROVE  Max(S) \in 1..n /\ S \ {Max(S)} \in SUBSET (1..k)
    <3>1. PICK m \in Nat : m = k + 1 /\ m - 1 = k /\ 1..m \subseteq 1..n
      BY <1>2
    <3>2. Max(S) \in S /\ S \ {Max(S)} \in SUBSET (1..(m - 1))
      BY <2>2, <3>1, LastPlace
    <3> QED BY <3>1, <3>2
  <2>3. h \in [SUBSET (1..(k + 1)) -> V]
    <3> SUFFICES ASSUME NEW S \in SUBSET (1..(k + 1)), S # {}
                 PROVE  step[<<g[S \ {Max(S)}], Max(S)>>] \in V
      OBVIOUS
    <3>1. g[S \ {Max(S)}] \in V /\ Max(S) \in 1..n
      BY <2>1, <2>2
    <3> QED BY <3>1
  <2>4. ASSUME NEW S \in SUBSET (1..k)
        PROVE  h[S] = g[S]
    <3>1. S \in SUBSET (1..(k + 1))
      OBVIOUS
    <3> QED BY <2>1, <3>1 DEF IsFold
  <2>5. Equals(h, k + 1)
    <3> SUFFICES ASSUME NEW S \in SUBSET (1..(k + 1)), S # {}
                 PROVE  h[S] = step[<<h[S \ {Max(S)}], Max(S)>>]
      BY DEF IsFold
    <3>1. h[S \ {Max(S)}] = g[S \ {Max(S)}]
      BY <2>2, <2>4
    <3>2. h[S] = step[<<g[S \ {Max(S)}], Max(S)>>]
      OBVIOUS
    <3> QED BY <3>1, <3>2
  <2> HIDE DEF h
  <2> QED BY <2>3, <2>5
<1>3. Good(n)
  <2> HIDE DEF Good
  <2>1. 0 \in P /\ P \subseteq Nat /\ \A k \in P : k + 1 \in P
    BY <1>1, <1>2
  <2>2. P = Nat
    <3> HIDE DEF P
    <3> QED BY <2>1, CountsUp
  <2>3. n \in P
    BY <2>2
  <2> QED BY <2>3
<1> QED BY <1>3

-----------------------------------------------------------------------------
(* The rules of a symbol, read from its filters.                            *)

Rule(min, max, step, market_max, notional, tick) ==
    [symbol |-> "asked", min |-> min, max |-> max, step |-> step, market_min |-> {}, market_max |-> market_max,
     market_step |-> {}, notional |-> notional, tick |-> tick]

\* The rules of a connector that keeps the contract.
TrueRules == Rule({MinQty}, {100}, {LotStep}, {50}, {Notional}, {1})

\* The venue's amounts are whole, and its least quantity is a whole number of steps.
LEMMA Amounts ==
    /\ Notional \in Nat \ {0} /\ Multiple \in Nat \ {0} /\ LotStep \in Nat \ {0} /\ MinQty \in Nat \ {0}
    /\ BaseFee \in Nat \ {0} /\ MinQty <= 100 /\ MinQty % LotStep = 0
    /\ Polls \in Nat \ {0} /\ Lags \subseteq 0..(Polls - 1) /\ Partial \subseteq Nat /\ Funds \subseteq Int
BY SuiteAssumption

\* What the suite spends covers the least quantity and the fee.
LEMMA Spent ==
    Spend \in Nat \ {0} /\ MinQty + BaseFee <= Spend
<1>1. Spend \in Nat /\ MinQty + BaseFee <= Spend
  BY Amounts, SuiteAssumption DEF Spend
<1> QED BY <1>1, Amounts

\* A limit of zero is no limit (filter_decimal).
LEMMA Positive ==
    ASSUME NEW x \in Nat \ {0}
    PROVE  FilterDecimal({x}) = {x} /\ FilterDecimal({0}) = {} /\ FilterDecimal({}) = {}
BY DEF FilterDecimal

FilterSet == [type : SUBSET STRING, min : SUBSET Int, max : SUBSET Int, step : SUBSET Int, notional : SUBSET Int, tick : SUBSET Int]
RuleSet == [symbol : {"asked"}, min : SUBSET Int, max : SUBSET Int, step : SUBSET Int, market_min : SUBSET Int,
            market_max : SUBSET Int, market_step : SUBSET Int, notional : SUBSET Int, tick : SUBSET Int]

\* A filter leaves rules that are rules.
LEMMA RuleSetKept ==
    ASSUME NEW rules \in RuleSet, NEW filter, filter.min \in SUBSET Int, filter.max \in SUBSET Int,
           filter.step \in SUBSET Int, filter.notional \in SUBSET Int, filter.tick \in SUBSET Int
    PROVE  WithFilter(rules, filter) \in RuleSet
<1>1. \A limit \in SUBSET Int : FilterDecimal(limit) \in SUBSET Int
  BY DEF FilterDecimal
<1> DEFINE min == FilterDecimal(filter.min)
           max == FilterDecimal(filter.max)
           step == FilterDecimal(filter.step)
           notional == FilterDecimal(filter.notional)
           tick == FilterDecimal(filter.tick)
<1>2. {min, max, step, notional, tick} \subseteq SUBSET Int
  BY <1>1
<1>3. \/ WithFilter(rules, filter) = [rules EXCEPT !.min = min, !.max = max, !.step = step]
      \/ WithFilter(rules, filter) = [rules EXCEPT !.market_min = min, !.market_max = max, !.market_step = step]
      \/ WithFilter(rules, filter) = [rules EXCEPT !.notional = notional]
      \/ WithFilter(rules, filter) = [rules EXCEPT !.tick = tick]
      \/ WithFilter(rules, filter) = rules
  BY DEF WithFilter
<1> HIDE DEF min, max, step, notional, tick
<1>4. [rules EXCEPT !.min = min, !.max = max, !.step = step] \in RuleSet
  BY <1>2 DEF RuleSet
<1>5. [rules EXCEPT !.market_min = min, !.market_max = max, !.market_step = step] \in RuleSet
  BY <1>2 DEF RuleSet
<1>6. [rules EXCEPT !.notional = notional] \in RuleSet /\ [rules EXCEPT !.tick = tick] \in RuleSet
  BY <1>2 DEF RuleSet
<1> QED BY <1>3, <1>4, <1>5, <1>6

\* The rules filter by filter.
LEMMA RulesRun ==
    ASSUME NEW n \in Nat, NEW info, NEW filters, filters = info.filters, DOMAIN filters = 1..n,
           NEW base \in RuleSet, base = NoRules(info.symbol),
           \A i \in 1..n : /\ filters[i].min \in SUBSET Int /\ filters[i].max \in SUBSET Int
                           /\ filters[i].step \in SUBSET Int /\ filters[i].notional \in SUBSET Int
                           /\ filters[i].tick \in SUBSET Int
    PROVE  \E it : /\ ParseSymbolRules(info) = it[1..n] /\ it[1..0] = base
                   /\ \A k \in 1..n : it[1..k] = WithFilter(it[1..(k - 1)], filters[k])
<1> DEFINE Is(it) == it = [S \in SUBSET DOMAIN filters |->
                             IF S = {} THEN base ELSE WithFilter(it[S \ {Max(S)}], filters[Max(S)])]
           it == CHOOSE it : Is(it)
<1>1. ParseSymbolRules(info) = it[DOMAIN filters]
  BY DEF ParseSymbolRules, FoldLeft, MapThenFoldSet
<1>2. \E h : Is(h)
  <2> DEFINE step == [p \in RuleSet \X (1..n) |-> WithFilter(p[1], filters[p[2]])]
  <2>1. \A v \in RuleSet, i \in 1..n : WithFilter(v, filters[i]) \in RuleSet /\ step[<<v, i>>] = WithFilter(v, filters[i])
    BY RuleSetKept
  <2>2. step \in [RuleSet \X (1..n) -> RuleSet]
    BY <2>1
  <2> HIDE DEF step
  <2>3. PICK h \in [SUBSET (1..n) -> RuleSet] : IsFold(h, n, base, step)
    BY <2>2, FoldExists
  <2>4. ASSUME NEW S \in SUBSET (1..n), S # {}
        PROVE  h[S] = WithFilter(h[S \ {Max(S)}], filters[Max(S)])
    <3>1. Max(S) \in 1..n /\ h[S \ {Max(S)}] \in RuleSet
      BY <2>3, <2>4, LastPlace
    <3> QED BY <2>1, <2>3, <2>4, <3>1 DEF IsFold
  <2>5. h = [S \in SUBSET (1..n) |-> IF S = {} THEN base ELSE WithFilter(h[S \ {Max(S)}], filters[Max(S)])]
    BY <2>3, <2>4 DEF IsFold
  <2> QED BY <2>5
<1>3. Is(it)
  BY <1>2
<1> HIDE DEF it
<1>4. \A S \in SUBSET (1..n) : it[S] = IF S = {} THEN base ELSE WithFilter(it[S \ {Max(S)}], filters[Max(S)])
  BY <1>3
<1> HIDE DEF Is
<1>5. it[1..0] = base
  <2>1. 1..0 = {} /\ {} \in SUBSET (1..n)
    OBVIOUS
  <2> QED BY <1>4, <2>1
<1>6. ASSUME NEW k \in 1..n
      PROVE  it[1..k] = WithFilter(it[1..(k - 1)], filters[k])
  <2>1. k \in Nat \ {0} /\ 1..k \in SUBSET (1..n)
    OBVIOUS
  <2>2. Max(1..k) = k /\ (1..k) \ {k} = 1..(k - 1) /\ 1..k # {}
    BY <2>1, LastUpTo
  <2> QED BY <1>4, <2>1, <2>2
<1> QED BY <1>1, <1>5, <1>6

\* A filter's fields.
LEMMA FilterIs ==
    ASSUME NEW type, NEW min, NEW max, NEW step, NEW notional, NEW tick,
           NEW filter, filter = Filter(type, min, max, step, notional, tick)
    PROVE  /\ filter.type = type /\ filter.min = min /\ filter.max = max /\ filter.step = step
           /\ filter.notional = notional /\ filter.tick = tick
BY DEF Filter

\* What each filter makes of the rules before it.
LEMMA TickRead ==
    ASSUME NEW min, NEW max, NEW step, NEW market_max, NEW notional, NEW tick,
           NEW rules, rules = Rule(min, max, step, market_max, notional, tick), NEW filter,
           filter.type = {"PRICE_FILTER"}, NEW read, read = FilterDecimal(filter.tick)
    PROVE  WithFilter(rules, filter) = Rule(min, max, step, market_max, notional, read)
<1>1. {"PRICE_FILTER"} \notin {{"LOT_SIZE"}, {"MARKET_LOT_SIZE"}, {"MIN_NOTIONAL"}, {"NOTIONAL"}}
  OBVIOUS
<1>2. WithFilter(rules, filter) = [rules EXCEPT !.tick = read]
  BY <1>1 DEF WithFilter
<1> QED BY <1>2 DEF Rule

\* LOT_SIZE gives the least, the most and the step.
LEMMA LotRead ==
    ASSUME NEW min, NEW max, NEW step, NEW market_max, NEW notional, NEW tick,
           NEW rules, rules = Rule(min, max, step, market_max, notional, tick), NEW filter,
           filter.type = {"LOT_SIZE"}, NEW least, least = FilterDecimal(filter.min),
           NEW most, most = FilterDecimal(filter.max), NEW lot, lot = FilterDecimal(filter.step)
    PROVE  WithFilter(rules, filter) = Rule(least, most, lot, market_max, notional, tick)
<1>1. WithFilter(rules, filter) = [rules EXCEPT !.min = least, !.max = most, !.step = lot]
  BY DEF WithFilter
<1> QED BY <1>1 DEF Rule

\* MARKET_LOT_SIZE gives the most of a market order.
LEMMA MarketLotRead ==
    ASSUME NEW min, NEW max, NEW step, NEW market_max, NEW notional, NEW tick,
           NEW rules, rules = Rule(min, max, step, market_max, notional, tick), NEW filter,
           filter.type = {"MARKET_LOT_SIZE"}, FilterDecimal(filter.min) = {}, FilterDecimal(filter.step) = {},
           NEW most, most = FilterDecimal(filter.max)
    PROVE  WithFilter(rules, filter) = Rule(min, max, step, most, notional, tick)
<1>1. {"MARKET_LOT_SIZE"} # {"LOT_SIZE"}
  OBVIOUS
<1>2. WithFilter(rules, filter) = [rules EXCEPT !.market_min = {}, !.market_max = most, !.market_step = {}]
  BY <1>1 DEF WithFilter
<1> QED BY <1>2 DEF Rule

\* NOTIONAL gives the least amount, where none was given before.
LEMMA NotionalRead ==
    ASSUME NEW min, NEW max, NEW step, NEW market_max, NEW notional, NEW tick,
           NEW rules, rules = Rule(min, max, step, market_max, notional, tick), NEW filter,
           filter.type = {"NOTIONAL"}, notional = {}, NEW read, read = FilterDecimal(filter.notional)
    PROVE  WithFilter(rules, filter) = Rule(min, max, step, market_max, read, tick)
<1>1. {"NOTIONAL"} \notin {{"LOT_SIZE"}, {"MARKET_LOT_SIZE"}, {"MIN_NOTIONAL"}} /\ rules.notional = {}
  BY DEF Rule
<1>2. WithFilter(rules, filter) = [rules EXCEPT !.notional = read]
  BY <1>1 DEF WithFilter
<1> QED BY <1>2 DEF Rule

\* Other filters say nothing of the rules.
LEMMA PassedOver ==
    ASSUME NEW rules, NEW filter, filter.type \in {{}, {"MAX_NUM_ORDERS"}}
    PROVE  WithFilter(rules, filter) = rules
<1>1. filter.type \notin {{"LOT_SIZE"}, {"MARKET_LOT_SIZE"}, {"MIN_NOTIONAL"}, {"NOTIONAL"}, {"PRICE_FILTER"}}
  OBVIOUS
<1> QED BY <1>1 DEF WithFilter

\* The venue's filters are read as its rules.
LEMMA ParsedIs ==
    ParseSymbolRules(ExchangeInfo) = TrueRules
<1> DEFINE filters == ExchangeInfo.filters
           base == NoRules(ExchangeInfo.symbol)
           info == ExchangeInfo
<1>1. /\ DOMAIN filters = 1..6
      /\ filters[1] = Filter({"PRICE_FILTER"}, {}, {}, {}, {}, {1})
      /\ filters[2] = Filter({"LOT_SIZE"}, {MinQty}, {100}, {LotStep}, {}, {})
      /\ filters[3] = Filter({}, {}, {}, {}, {}, {})
      /\ filters[4] = Filter({"MARKET_LOT_SIZE"}, {0}, {50}, {0}, {}, {})
      /\ filters[5] = Filter({"NOTIONAL"}, {}, {}, {}, {Notional}, {})
      /\ filters[6] = Filter({"MAX_NUM_ORDERS"}, {}, {}, {}, {}, {})
  BY DEF ExchangeInfo
<1>2. base = Rule({}, {}, {}, {}, {}, {})
  BY DEF ExchangeInfo, NoRules, Rule
<1>3. filters = info.filters /\ base = NoRules(info.symbol) /\ info = ExchangeInfo
  OBVIOUS
<1> HIDE DEF filters, base, info
<1>4. /\ filters[1].type = {"PRICE_FILTER"} /\ filters[1].tick = {1}
      /\ filters[2].type = {"LOT_SIZE"} /\ filters[2].min = {MinQty} /\ filters[2].max = {100} /\ filters[2].step = {LotStep}
      /\ filters[3].type = {}
      /\ filters[4].type = {"MARKET_LOT_SIZE"} /\ filters[4].min = {0} /\ filters[4].max = {50} /\ filters[4].step = {0}
      /\ filters[5].type = {"NOTIONAL"} /\ filters[5].notional = {Notional}
      /\ filters[6].type = {"MAX_NUM_ORDERS"}
  BY <1>1 DEF Filter
<1>5. \A i \in 1..6 : /\ filters[i].min \in SUBSET Int /\ filters[i].max \in SUBSET Int
                      /\ filters[i].step \in SUBSET Int /\ filters[i].notional \in SUBSET Int
                      /\ filters[i].tick \in SUBSET Int
  <2>1. {MinQty, LotStep, Notional} \subseteq Int
    BY Amounts
  <2>2. \A i \in 1..6 : i = 1 \/ i = 2 \/ i = 3 \/ i = 4 \/ i = 5 \/ i = 6
    OBVIOUS
  <2>3. \A i \in {1, 3, 4, 6} : /\ filters[i].min \in SUBSET Int /\ filters[i].max \in SUBSET Int
                      /\ filters[i].step \in SUBSET Int /\ filters[i].notional \in SUBSET Int
                      /\ filters[i].tick \in SUBSET Int
    BY <1>1 DEF Filter
  <2>4. \A i \in {2, 5} : /\ filters[i].min \in SUBSET Int /\ filters[i].max \in SUBSET Int
                      /\ filters[i].step \in SUBSET Int /\ filters[i].notional \in SUBSET Int
                      /\ filters[i].tick \in SUBSET Int
    BY <1>1, <2>1 DEF Filter
  <2> QED BY <2>2, <2>3, <2>4
<1>6. base \in RuleSet
  BY <1>2 DEF Rule, RuleSet
<1>7. PICK it : /\ ParseSymbolRules(info) = it[1..6] /\ it[1..0] = base
                /\ \A k \in 1..6 : it[1..k] = WithFilter(it[1..(k - 1)], filters[k])
  <2>1. PICK n \in Nat : n = 6
    OBVIOUS
  <2>2. DOMAIN filters = 1..n /\ \A i \in 1..n : /\ filters[i].min \in SUBSET Int /\ filters[i].max \in SUBSET Int
                      /\ filters[i].step \in SUBSET Int /\ filters[i].notional \in SUBSET Int
                      /\ filters[i].tick \in SUBSET Int
    BY <1>1, <1>5, <2>1
  <2>3. \E it : /\ ParseSymbolRules(info) = it[1..n] /\ it[1..0] = base
                /\ \A k \in 1..n : it[1..k] = WithFilter(it[1..(k - 1)], filters[k])
    <3>1. n \in Nat /\ filters = info.filters /\ DOMAIN filters = 1..n
      BY <1>3, <2>1, <2>2
    <3>2. base \in RuleSet /\ base = NoRules(info.symbol)
      BY <1>3, <1>6
    <3>3. \A i \in 1..n : /\ filters[i].min \in SUBSET Int /\ filters[i].max \in SUBSET Int
                          /\ filters[i].step \in SUBSET Int /\ filters[i].notional \in SUBSET Int
                          /\ filters[i].tick \in SUBSET Int
      BY <2>2
    <3> QED BY <3>1, <3>2, <3>3, RulesRun, Z3T(60)
  <2> QED BY <2>1, <2>3
<1>8. /\ it[1..1] = WithFilter(it[1..0], filters[1]) /\ it[1..2] = WithFilter(it[1..1], filters[2])
      /\ it[1..3] = WithFilter(it[1..2], filters[3]) /\ it[1..4] = WithFilter(it[1..3], filters[4])
      /\ it[1..5] = WithFilter(it[1..4], filters[5]) /\ it[1..6] = WithFilter(it[1..5], filters[6])
  <2>1. /\ 1 \in 1..6 /\ 2 \in 1..6 /\ 3 \in 1..6 /\ 4 \in 1..6 /\ 5 \in 1..6 /\ 6 \in 1..6
        /\ 1 - 1 = 0 /\ 2 - 1 = 1 /\ 3 - 1 = 2 /\ 4 - 1 = 3 /\ 5 - 1 = 4 /\ 6 - 1 = 5
    OBVIOUS
  <2> QED BY <1>7, <2>1
<1>9. /\ FilterDecimal({1}) = {1} /\ FilterDecimal({MinQty}) = {MinQty} /\ FilterDecimal({100}) = {100}
      /\ FilterDecimal({LotStep}) = {LotStep} /\ FilterDecimal({50}) = {50} /\ FilterDecimal({Notional}) = {Notional}
      /\ FilterDecimal({0}) = {}
  <2>1. \A x \in Nat \ {0} : FilterDecimal({x}) = {x}
    BY Positive
  <2>2. {1, MinQty, 100, LotStep, 50, Notional} \subseteq Nat \ {0}
    BY Amounts
  <2>3. FilterDecimal({0}) = {}
    BY DEF FilterDecimal
  <2> QED BY <2>1, <2>2, <2>3
<1>10. PICK none, one, least, hundred, lot, fifty, worth :
          /\ none = {} /\ one = {1} /\ least = {MinQty} /\ hundred = {100} /\ lot = {LotStep} /\ fifty = {50} /\ worth = {Notional}
  OBVIOUS
<1>11. it[1..1] = Rule(none, none, none, none, none, one)
  <2>1. it[1..0] = Rule(none, none, none, none, none, none)
    BY <1>2, <1>7, <1>10
  <2>2. filters[1].type = {"PRICE_FILTER"} /\ one = FilterDecimal(filters[1].tick)
    BY <1>4, <1>9, <1>10
  <2> QED BY <1>8, <2>1, <2>2, TickRead
<1>12. it[1..2] = Rule(least, hundred, lot, none, none, one)
  <2>1. /\ filters[2].type = {"LOT_SIZE"} /\ least = FilterDecimal(filters[2].min)
        /\ hundred = FilterDecimal(filters[2].max) /\ lot = FilterDecimal(filters[2].step)
    BY <1>4, <1>9, <1>10
  <2> QED BY <1>8, <1>11, <2>1, LotRead
<1>13. it[1..3] = Rule(least, hundred, lot, none, none, one)
  <2>1. filters[3].type \in {{}, {"MAX_NUM_ORDERS"}}
    BY <1>4
  <2> QED BY <1>8, <1>12, <2>1, PassedOver
<1>14. it[1..4] = Rule(least, hundred, lot, fifty, none, one)
  <2>1. /\ filters[4].type = {"MARKET_LOT_SIZE"} /\ FilterDecimal(filters[4].min) = {}
        /\ FilterDecimal(filters[4].step) = {} /\ fifty = FilterDecimal(filters[4].max)
    BY <1>4, <1>9, <1>10
  <2> QED BY <1>8, <1>13, <2>1, MarketLotRead
<1>15. it[1..5] = Rule(least, hundred, lot, fifty, worth, one)
  <2>1. filters[5].type = {"NOTIONAL"} /\ worth = FilterDecimal(filters[5].notional) /\ none = {}
    BY <1>4, <1>9, <1>10
  <2> QED BY <1>8, <1>14, <2>1, NotionalRead
<1>16. it[1..6] = Rule(least, hundred, lot, fifty, worth, one)
  <2>1. filters[6].type \in {{}, {"MAX_NUM_ORDERS"}}
    BY <1>4
  <2> QED BY <1>8, <1>15, <2>1, PassedOver
<1> QED BY <1>3, <1>7, <1>10, <1>16 DEF TrueRules

-----------------------------------------------------------------------------
(* The rules and the clock.                                                 *)

\* The rules the connector reports, as the lie has them.
LEMMA RulesAre ==
    Rules = CASE lie = "zero_limit" -> [TrueRules EXCEPT !.market_step = {0}]
              [] lie = "min_over_max" -> [TrueRules EXCEPT !.max = {MinQty - 1}]
              [] lie = "no_step" -> [TrueRules EXCEPT !.step = {}]
              [] lie = "no_notional" -> [TrueRules EXCEPT !.notional = {}]
              [] lie = "no_tick" -> [TrueRules EXCEPT !.tick = {}]
              [] lie = "other_symbol" -> [TrueRules EXCEPT !.symbol = "other"]
              [] OTHER -> TrueRules
<1> DEFINE answer == Wrote("exchangeInfo", <<ExchangeInfo>>)
           result == Typed(SendPublic(answer), "exchangeInfo")
<1>1. PICK infos : infos = <<ExchangeInfo>>
  OBVIOUS
<1>2. result = [kind |-> "ok", value |-> {infos}]
  BY <1>1, Read
<1>3. infos # <<>> /\ Head(infos) = ExchangeInfo
  BY <1>1
<1>4. FetchSymbolRules(answer) =
        IF \E i \in result.value : i = <<>> THEN Failure("InvalidResponse")
        ELSE [result EXCEPT !.value = {ParseSymbolRules(Head(i)) : i \in result.value}]
  <2> HIDE DEF answer
  <2> QED BY DEF FetchSymbolRules
<1> HIDE DEF result
<1>5. FetchSymbolRules(answer).value = {ParseSymbolRules(Head(i)) : i \in {infos}}
  BY <1>2, <1>3, <1>4
<1>6. FetchSymbolRules(answer).value = {TrueRules}
  BY <1>3, <1>5, ParsedIs
<1>7. (CHOOSE r \in FetchSymbolRules(answer).value : TRUE) = TrueRules
  BY <1>6
<1> QED BY <1>7 DEF Rules

\* The venue's rules, field by field.
LEMMA TrueRulesAre ==
    /\ TrueRules.symbol = "asked" /\ TrueRules.min = {MinQty} /\ TrueRules.max = {100} /\ TrueRules.step = {LotStep}
    /\ TrueRules.market_min = {} /\ TrueRules.market_max = {50} /\ TrueRules.market_step = {}
    /\ TrueRules.notional = {Notional} /\ TrueRules.tick = {1}
BY DEF TrueRules, Rule

\* Without a lie about them the rules reported are the venue's.
LEMMA RulesKept ==
    ASSUME lie \notin RuleLies
    PROVE  Rules = TrueRules
BY RulesAre DEF RuleLies

\* The venue's rules pass symbol_rules, and the buy can be sized by them.
LEMMA HonestRules ==
    ASSUME lie \notin RuleLies
    PROVE  /\ SymbolRules /\ Sizable /\ Rules.notional # {}
           /\ EffectiveMin(Rules) = {MinQty} /\ EffectiveStep(Rules) = {LotStep}
<1>1. /\ Rules.symbol = "asked" /\ Rules.min = {MinQty} /\ Rules.max = {100} /\ Rules.step = {LotStep}
      /\ Rules.market_min = {} /\ Rules.market_max = {50} /\ Rules.market_step = {}
      /\ Rules.notional = {Notional} /\ Rules.tick = {1}
  BY RulesKept, TrueRulesAre
<1>2. MinQty > 0 /\ LotStep > 0 /\ Notional > 0 /\ MinQty <= 100
  BY Amounts
<1>3. \A limit \in UNION {Rules.min, Rules.max, Rules.step, Rules.market_min, Rules.market_max,
                          Rules.market_step, Rules.notional, Rules.tick} : limit > 0
  <2>1. UNION {Rules.min, Rules.max, Rules.step, Rules.market_min, Rules.market_max,
               Rules.market_step, Rules.notional, Rules.tick} = {MinQty, 100, LotStep, 50, Notional, 1}
    BY <1>1
  <2> QED BY <1>2, <2>1
<1>4. \A least \in Rules.min, most \in Rules.max : least <= most
  BY <1>1, <1>2
<1>5. \A least \in Rules.market_min, most \in Rules.market_max : least <= most
  BY <1>1
<1>6. EffectiveMin(Rules) = {MinQty} /\ EffectiveStep(Rules) = {LotStep}
  BY <1>1 DEF EffectiveMin, EffectiveStep
<1>7. Sizable
  BY <1>1, <1>2, <1>6 DEF Sizable
<1> QED BY <1>1, <1>3, <1>4, <1>5, <1>6, <1>7 DEF SymbolRules

\* Every lie about the rules but a missing notional is told by symbol_rules.
LEMMA RulesTold ==
    ASSUME lie \in RuleLies
    PROVE  IF lie = "no_notional" THEN Rules.notional = {} ELSE ~SymbolRules
<1>1. CASE lie = "zero_limit"
  <2>1. Rules.market_step = {0}
    BY <1>1, RulesAre DEF TrueRules, Rule
  <2>2. 0 \in UNION {Rules.min, Rules.max, Rules.step, Rules.market_min, Rules.market_max,
                     Rules.market_step, Rules.notional, Rules.tick} /\ ~(0 > 0)
    BY <2>1
  <2> QED BY <1>1, <2>2 DEF SymbolRules
<1>2. CASE lie = "min_over_max"
  <2>1. Rules.min = {MinQty} /\ Rules.max = {MinQty - 1}
    BY <1>2, RulesAre DEF TrueRules, Rule
  <2>2. ~(MinQty <= MinQty - 1)
    BY Amounts
  <2> QED BY <1>2, <2>1, <2>2 DEF SymbolRules
<1>3. CASE lie = "no_step"
  <2>1. Rules.market_step = {} /\ Rules.step = {}
    BY <1>3, RulesAre DEF TrueRules, Rule
  <2> QED BY <1>3, <2>1 DEF SymbolRules, EffectiveStep
<1>4. CASE lie = "no_notional"
  BY <1>4, RulesAre DEF TrueRules, Rule
<1>5. CASE lie = "no_tick"
  <2>1. Rules.tick = {}
    BY <1>5, RulesAre DEF TrueRules, Rule
  <2> QED BY <1>5, <2>1 DEF SymbolRules
<1>6. CASE lie = "other_symbol"
  <2>1. Rules.symbol = "other"
    BY <1>6, RulesAre DEF TrueRules, Rule
  <2> QED BY <1>6, <2>1 DEF SymbolRules
<1> QED BY <1>1, <1>2, <1>3, <1>4, <1>5, <1>6 DEF RuleLies

-----------------------------------------------------------------------------
(* The exchange clock.                                                      *)

\* The clock as it is read.
LEMMA ReadingIs ==
    ASSUME NEW now
    PROVE  Reading(now) = IF lie = "clock_in_seconds" THEN now \div 10 ELSE now
<1>1. PICK got : got = ReadClock(Wrote("time", now)) /\ got = [kind |-> "ok", value |-> {now}]
  BY Read DEF ReadClock
<1>2. got.value = {now}
  BY <1>1
<1>3. PICK read : read = (CHOOSE t \in got.value : TRUE) /\ read = now
  BY <1>2
<1>4. Reading(now) = IF lie = "clock_in_seconds" THEN read \div 10 ELSE read
  BY <1>1, <1>3 DEF Reading
<1> QED BY <1>3, <1>4

\* An honest clock does not fail server_time.
LEMMA HonestClock ==
    ASSUME Honest
    PROVE  ServerTime \in {"passed", "inconclusive"}
<1>1. Reading(Now) = Now /\ lie \notin ClockLies
  BY ReadingIs DEF Honest, None, ClockLies
<1>2. FirstReading = Now /\ SecondReading = Now
  BY <1>1 DEF FirstReading, SecondReading, ClockLies
<1>3. Now \in 10..99 /\ Now >= Now
  BY SuiteAssumption
<1> QED BY <1>2, <1>3 DEF ServerTime

\* A clock in seconds, or one that goes back, fails server_time.
LEMMA ClockTold ==
    ASSUME lie \in ClockLies
    PROVE  ServerTime = "failed"
<1>1. Now \in 10..99
  BY SuiteAssumption
<1>2. CASE lie = "clock_in_seconds"
  <2>1. FirstReading = Now \div 10
    BY <1>2, ReadingIs DEF FirstReading
  <2>2. Now \div 10 \notin 10..99
    BY <1>1
  <2> QED BY <2>1, <2>2 DEF ServerTime
<1>3. CASE lie = "clock_back"
  <2>1. FirstReading = Now
    BY <1>3, ReadingIs DEF FirstReading
  <2>2. PICK then : then = Now - 1
    OBVIOUS
  <2>3. SecondReading = then
    BY <1>3, <2>2, ReadingIs DEF SecondReading
  <2>4. ~(then >= Now)
    BY <1>1, <2>2
  <2> QED BY <2>1, <2>3, <2>4 DEF ServerTime
<1> QED BY <1>2, <1>3 DEF ClockLies

-----------------------------------------------------------------------------
(* The venue's refusals.                                                    *)

\* The least of some numbers is one of them.
LEMMA LeastOf ==
    ASSUME NEW S \in SUBSET Nat, S # {}
    PROVE  Min(S) \in S
<1> DEFINE Below == OpToRel(<, Nat)
<1>1. \A x, y \in Nat : x < y => <<x, y>> \in Below
  BY DEF OpToRel
<1>2. IsWellFoundedOn(Below, Nat)
  BY NatLessThanWellFounded
<1> HIDE DEF Below
<1>3. PICK least \in S : \A x \in S : ~(<<x, least>> \in Below)
  BY <1>2, WFMin
<1>4. \A x \in S : least <= x
  <2> SUFFICES ASSUME NEW x \in S PROVE least <= x
    OBVIOUS
  <2>1. ~(x < least)
    BY <1>1, <1>3
  <2> QED BY <2>1
<1> QED BY <1>4 DEF Min

\* A check is what the first of its parts that did not pass is.
LEMMA FirstIs ==
    ASSUME NEW n \in Nat, NEW outcomes, DOMAIN outcomes = 1..n
    PROVE  /\ FirstNot(outcomes) = "passed" => \A i \in 1..n : outcomes[i] = "passed"
           /\ (\A i \in 1..n : outcomes[i] = "passed") => FirstNot(outcomes) = "passed"
           /\ FirstNot(outcomes) = "passed" \/ \E i \in 1..n : FirstNot(outcomes) = outcomes[i]
<1> DEFINE bad == {i \in 1..n : outcomes[i] # "passed"}
<1>1. FirstNot(outcomes) = IF bad = {} THEN "passed" ELSE outcomes[Min(bad)]
  BY DEF FirstNot
<1>2. bad # {} => Min(bad) \in bad
  <2>1. bad \in SUBSET Nat
    OBVIOUS
  <2> HIDE DEF bad
  <2> QED BY <2>1, LeastOf
<1>3. bad # {} => Min(bad) \in 1..n /\ outcomes[Min(bad)] # "passed"
  BY <1>2
<1> QED BY <1>1, <1>3

\* A condition is told as passed or as failed.
LEMMA ToldIs ==
    ASSUME NEW c \in BOOLEAN
    PROVE  (Told(c) = "passed" <=> c) /\ Told(c) \in {"passed", "failed"}
BY DEF Told

\* A fault of the environment is never the connector's.
LEMMA GlitchesAre ==
    Glitches \subseteq {"inconclusive"} /\ (~Live => Glitches = {})
<1>1. SendPublic(NoAnswer).kind = "Transport"
  BY PageAs DEF FailsAs, Failure
<1>2. SendPublic(WebPage(403)).kind = "RateLimited" /\ SendPublic(WebPage(503)).kind = "OutcomeUnknown"
  BY PageAs DEF FailsAs, Failure
<1>3. SendPublic(Refuses(429, -1003, "too_much_weight")).kind = "RateLimited"
  BY LimitedAs DEF FailsAs, Failure
<1>4. SendPublic(Refuses(503, -1008, "overloaded")).kind = "OutcomeUnknown"
  BY BusyAs DEF FailsAs, Failure
<1>5. SendPublic(Refuses(400, -1001, "internal_error")).kind = "Unavailable"
  <2>1. FailsAs(Refuses(400, -1001, "internal_error"), "Unavailable")
    BY Codes, RefusedAs
  <2> QED BY <2>1 DEF FailsAs, Failure
<1>6. \A outage \in Outages : SendPublic(outage).kind \in EnvironmentKinds
  BY <1>1, <1>2, <1>3, <1>4, <1>5 DEF Outages, EnvironmentKinds
<1>7. Live => \A outage \in Outages : Unexpected(SendPublic(outage).kind) = "inconclusive"
  BY <1>6 DEF Unexpected, EnvironmentFailed
<1> QED BY <1>7 DEF Glitches

\* The kind expected passes; success and any other kind do not.
LEMMA ExpectedIs ==
    ASSUME NEW answer, NEW kind
    PROVE  /\ kind # "ok" => Expected(kind, kind) = "passed"
           /\ answer = "ok" \/ answer # kind => Expected(answer, kind) \in {"failed", "inconclusive"}
           /\ Expected(answer, kind) \in {"passed", "failed", "inconclusive"}
BY DEF Expected

\* The check each refusal is asked in.
Tells(refusal) ==
    CASE refusal \in {"below_notional", "off_step"} -> "rule_violations"
      [] refusal = "beyond_balance" -> "insufficient_balance"
      [] refusal \in {"unlisted_klines", "unlisted_rules"} -> "unknown_symbol"
      [] refusal \in {"unknown_query", "unknown_cancel"} -> "unknown_order"
      [] refusal = "rejected_key" -> "unauthorized"
      [] refusal \in {"too_late", "too_early"} -> "clock_skew"
      [] refusal \in {"over_weight", "banned", "firewall", "order_rate"} -> "rate_limited"
      [] refusal \in {"not_processed", "overloaded"} -> "unavailable"
      [] refusal \in {"failing", "order_timeout", "retry_code"} -> "outcome_unknown"
      [] OTHER -> "malformed_response"

AskedIn(check, refusal) ==
    /\ refusal \in RefusalLies /\ Tells(refusal) = check /\ Named(refusal) = Kind(check)
    /\ refusal \in SignedRefusals => check \in Signed

\* Each check of errors asks for a list of refusals, each its own.
LEMMA Listed ==
    ASSUME NEW check \in ErrorChecks
    PROVE  /\ \E n \in Nat : DOMAIN Refusals(check) = 1..n
           /\ \A i \in DOMAIN Refusals(check) : AskedIn(check, Refusals(check)[i])
<1>0. /\ DOMAIN <<1>> = 1..1 /\ DOMAIN <<1, 1>> = 1..2 /\ DOMAIN <<1, 1, 1>> = 1..3 /\ DOMAIN <<1, 1, 1, 1>> = 1..4
  OBVIOUS
<1>1. CASE check = "rule_violations"
  <2>1. Refusals(check) = <<"below_notional", "off_step">>
    BY <1>1 DEF Refusals
  <2>2. AskedIn(check, "below_notional") /\ AskedIn(check, "off_step")
    BY <1>1 DEF AskedIn, RefusalLies, Tells, Named, Kind, SignedRefusals, Signed
  <2> QED BY <2>1, <2>2
<1>2. CASE check = "insufficient_balance"
  <2>1. Refusals(check) = <<"beyond_balance">>
    BY <1>2 DEF Refusals
  <2>2. AskedIn(check, "beyond_balance")
    BY <1>2 DEF AskedIn, RefusalLies, Tells, Named, Kind, SignedRefusals, Signed
  <2> QED BY <2>1, <2>2
<1>3. CASE check = "unknown_symbol"
  <2>1. Refusals(check) \in {<<"unlisted_klines", "unlisted_rules">>, <<"unlisted_klines">>}
    BY <1>3 DEF Refusals
  <2>2. AskedIn(check, "unlisted_klines") /\ AskedIn(check, "unlisted_rules")
    BY <1>3 DEF AskedIn, RefusalLies, Tells, Named, Kind, SignedRefusals, Signed
  <2>3. CASE Refusals(check) = <<"unlisted_klines", "unlisted_rules">>
    BY <2>2, <2>3
  <2>4. CASE Refusals(check) = <<"unlisted_klines">>
    BY <2>2, <2>4
  <2> QED BY <2>1, <2>3, <2>4
<1>4. CASE check = "unknown_order"
  <2>1. Refusals(check) = <<"unknown_query", "unknown_cancel">>
    BY <1>4 DEF Refusals
  <2>2. AskedIn(check, "unknown_query") /\ AskedIn(check, "unknown_cancel")
    BY <1>4 DEF AskedIn, RefusalLies, Tells, Named, Kind, SignedRefusals, Signed
  <2> QED BY <2>1, <2>2
<1>5. CASE check = "unauthorized"
  <2>1. Refusals(check) = <<"rejected_key">>
    BY <1>5 DEF Refusals
  <2>2. AskedIn(check, "rejected_key")
    BY <1>5 DEF AskedIn, RefusalLies, Tells, Named, Kind, SignedRefusals, Signed
  <2> QED BY <2>1, <2>2
<1>6. CASE check = "clock_skew"
  <2>1. Refusals(check) = <<"too_late", "too_early">>
    BY <1>6 DEF Refusals
  <2>2. AskedIn(check, "too_late") /\ AskedIn(check, "too_early")
    BY <1>6 DEF AskedIn, RefusalLies, Tells, Named, Kind, SignedRefusals, Signed, Scripted
  <2> QED BY <2>1, <2>2
<1>7. CASE check = "rate_limited"
  <2>1. Refusals(check) = <<"over_weight", "banned", "firewall", "order_rate">>
    BY <1>7 DEF Refusals
  <2>2. /\ AskedIn(check, "over_weight") /\ AskedIn(check, "banned")
        /\ AskedIn(check, "firewall") /\ AskedIn(check, "order_rate")
    BY <1>7 DEF AskedIn, RefusalLies, Tells, Named, Kind, SignedRefusals, Signed, Scripted
  <2> QED BY <2>1, <2>2
<1>8. CASE check = "unavailable"
  <2>1. Refusals(check) = <<"not_processed", "overloaded">>
    BY <1>8 DEF Refusals
  <2>2. AskedIn(check, "not_processed") /\ AskedIn(check, "overloaded")
    BY <1>8 DEF AskedIn, RefusalLies, Tells, Named, Kind, SignedRefusals, Signed, Scripted
  <2> QED BY <2>1, <2>2
<1>9. CASE check = "outcome_unknown"
  <2>1. Refusals(check) = <<"failing", "order_timeout", "retry_code">>
    BY <1>9 DEF Refusals
  <2>2. AskedIn(check, "failing") /\ AskedIn(check, "order_timeout") /\ AskedIn(check, "retry_code")
    BY <1>9 DEF AskedIn, RefusalLies, Tells, Named, Kind, SignedRefusals, Signed, Scripted
  <2> QED BY <2>1, <2>2
<1>10. CASE check = "malformed_response"
  <2>1. Refusals(check) = <<"wrong_shape", "not_json">>
    BY <1>10 DEF Refusals
  <2>2. AskedIn(check, "wrong_shape") /\ AskedIn(check, "not_json")
    BY <1>10 DEF AskedIn, RefusalLies, Tells, Named, Kind, SignedRefusals, Signed, Scripted
  <2> QED BY <2>1, <2>2
<1> QED BY <1>1, <1>2, <1>3, <1>4, <1>5, <1>6, <1>7, <1>8, <1>9, <1>10 DEF ErrorChecks

\* Every refusal is asked, but for the rules of a connector without them.
LEMMA IsAsked ==
    ASSUME NEW refusal \in RefusalLies, refusal = "unlisted_rules" => "rules" \in target.caps
    PROVE  /\ Tells(refusal) \in ErrorChecks
           /\ \E i \in DOMAIN Refusals(Tells(refusal)) : Refusals(Tells(refusal))[i] = refusal
<1>1. CASE refusal \in {"below_notional", "off_step"}
  <2>1. Tells(refusal) = "rule_violations"
    BY <1>1 DEF Tells
  <2>2. Refusals("rule_violations") = <<"below_notional", "off_step">>
    BY DEF Refusals
  <2> QED BY <1>1, <2>1, <2>2 DEF ErrorChecks
<1>2. CASE refusal = "beyond_balance"
  BY <1>2 DEF Tells, Refusals, ErrorChecks
<1>3. CASE refusal \in {"unlisted_klines", "unlisted_rules"}
  <2>1. Tells(refusal) = "unknown_symbol"
    BY <1>3 DEF Tells
  <2>2. CASE "rules" \in target.caps
    <3>1. Refusals("unknown_symbol") = <<"unlisted_klines", "unlisted_rules">>
      BY <2>2 DEF Refusals
    <3> QED BY <1>3, <2>1, <3>1 DEF ErrorChecks
  <2>3. CASE "rules" \notin target.caps
    <3>1. Refusals("unknown_symbol") = <<"unlisted_klines">>
      BY <2>3 DEF Refusals
    <3>2. refusal = "unlisted_klines"
      BY <1>3, <2>3
    <3> QED BY <2>1, <3>1, <3>2 DEF ErrorChecks
  <2> QED BY <2>2, <2>3
<1>4. CASE refusal \in {"unknown_query", "unknown_cancel"}
  BY <1>4 DEF Tells, Refusals, ErrorChecks
<1>5. CASE refusal = "rejected_key"
  BY <1>5 DEF Tells, Refusals, ErrorChecks
<1>6. CASE refusal \in {"too_late", "too_early"}
  BY <1>6 DEF Tells, Refusals, ErrorChecks
<1>7. CASE refusal \in {"over_weight", "banned", "firewall", "order_rate"}
  <2>1. Tells(refusal) = "rate_limited"
    BY <1>7 DEF Tells
  <2>2. Refusals("rate_limited") = <<"over_weight", "banned", "firewall", "order_rate">>
    BY DEF Refusals
  <2> QED BY <1>7, <2>1, <2>2 DEF ErrorChecks
<1>8. CASE refusal \in {"not_processed", "overloaded"}
  BY <1>8 DEF Tells, Refusals, ErrorChecks
<1>9. CASE refusal \in {"failing", "order_timeout", "retry_code"}
  <2>1. Tells(refusal) = "outcome_unknown"
    BY <1>9 DEF Tells
  <2>2. Refusals("outcome_unknown") = <<"failing", "order_timeout", "retry_code">>
    BY DEF Refusals
  <2> QED BY <1>9, <2>1, <2>2 DEF ErrorChecks
<1>10. CASE refusal \in {"wrong_shape", "not_json"}
  <2>1. Tells(refusal) = "malformed_response"
    BY <1>10 DEF Tells
  <2>2. Refusals("malformed_response") = <<"wrong_shape", "not_json">>
    BY DEF Refusals
  <2> QED BY <1>10, <2>1, <2>2 DEF ErrorChecks
<1> QED BY <1>1, <1>2, <1>3, <1>4, <1>5, <1>6, <1>7, <1>8, <1>9, <1>10 DEF RefusalLies

\* The answers of a check, each told against the kind it must be.
Answering(check, n, outcomes) ==
    /\ DOMAIN outcomes = 1..n /\ DOMAIN Refusals(check) = 1..n
    /\ \A i \in 1..n : outcomes[i] = Expected(Answered(Refusals(check)[i], check), Kind(check))
    /\ ErrorCheck(check) \in {"failed", FirstNot(outcomes)}
    /\ lie \notin RuleLies => ErrorCheck(check) = FirstNot(outcomes)

\* A check of errors asks one refusal after another.
LEMMA AnswersTold ==
    ASSUME NEW check \in ErrorChecks
    PROVE  \E n \in Nat : \E outcomes : Answering(check, n, outcomes)
<1> DEFINE asked == Refusals(check)
<1>1. PICK n \in Nat : asked = Refusals(check) /\ DOMAIN asked = 1..n
  BY Listed
<1> HIDE DEF asked
<1> DEFINE outcomes == [i \in DOMAIN asked |-> Expected(Answered(asked[i], check), Kind(check))]
<1>2. ErrorCheck(check) =
        IF check \in {"rule_violations", "insufficient_balance"} /\ Rules.notional = {} THEN "failed"
        ELSE IF check = "rule_violations" /\ ~Sizable THEN "failed"
        ELSE FirstNot(outcomes)
  BY <1>1 DEF ErrorCheck
<1>3. DOMAIN outcomes = 1..n /\ \A i \in 1..n : outcomes[i] = Expected(Answered(Refusals(check)[i], check), Kind(check))
  BY <1>1
<1> HIDE DEF outcomes
<1>4. lie \notin RuleLies => ErrorCheck(check) = FirstNot(outcomes)
  BY <1>2, HonestRules
<1>5. Answering(check, n, outcomes)
  BY <1>1, <1>2, <1>3, <1>4 DEF Answering
<1> QED BY <1>5

KindsOfErrors == {"RuleViolation", "InsufficientBalance", "UnknownSymbol", "UnknownOrder", "Unauthorized", "ClockSkew",
                  "RateLimited", "Unavailable", "OutcomeUnknown", "InvalidResponse"}

\* The kind each check of errors expects.
LEMMA KindIs ==
    ASSUME NEW check \in ErrorChecks
    PROVE  /\ Kind(check) \in KindsOfErrors /\ Kind(check) # "ok"
           /\ check # "unavailable" => Kind(check) # "Unavailable"
           /\ check = "unavailable" => Kind(check) = "Unavailable"
BY DEF Kind, ErrorChecks, KindsOfErrors

\* A check of errors has one of the three outcomes.
LEMMA ErrorOutcomes ==
    ASSUME NEW check \in ErrorChecks
    PROVE  ErrorCheck(check) \in {"passed", "failed", "inconclusive"}
<1>1. PICK n \in Nat : \E outcomes : Answering(check, n, outcomes)
  BY AnswersTold
<1>2. PICK outcomes : Answering(check, n, outcomes)
  BY <1>1
<1>3. /\ DOMAIN outcomes = 1..n
      /\ \A i \in 1..n : outcomes[i] = Expected(Answered(Refusals(check)[i], check), Kind(check))
      /\ ErrorCheck(check) \in {"failed", FirstNot(outcomes)}
  BY <1>2 DEF Answering
<1>4. \A i \in 1..n : outcomes[i] \in {"passed", "failed", "inconclusive"}
  BY <1>3, ExpectedIs
<1> QED BY <1>3, <1>4, FirstIs

\* An honest connector passes every check of errors that runs.
LEMMA HonestErrors ==
    ASSUME Honest, MayRun, target \in Targets, ~Skewed,
           NEW check \in ErrorChecks, Gate(check) = "run"
    PROVE  ErrorCheck(check) = "passed"
<1>1. lie \notin RuleLies /\ lie \notin RefusalLies
  BY HonestIs DEF Lies
<1>4. PICK n \in Nat : \E outcomes : Answering(check, n, outcomes)
  BY AnswersTold
<1>5. PICK outcomes : Answering(check, n, outcomes)
  BY <1>4
<1>2. /\ DOMAIN outcomes = 1..n /\ DOMAIN Refusals(check) = 1..n
      /\ \A i \in 1..n : outcomes[i] = Expected(Answered(Refusals(check)[i], check), Kind(check))
      /\ ErrorCheck(check) = FirstNot(outcomes)
  BY <1>1, <1>5 DEF Answering
<1>3. ASSUME NEW i \in 1..n
      PROVE  outcomes[i] = "passed"
  <2>1. PICK refusal : refusal = Refusals(check)[i] /\ AskedIn(check, refusal)
    BY <1>2, Listed
  <2>2. refusal \in RefusalLies /\ (refusal \in SignedRefusals => Keys # {}) /\ Named(refusal) = Kind(check)
    BY <2>1, Gated DEF AskedIn
  <2>3. Asked(refusal).kind = Kind(check)
    BY <2>2, AskedAs
  <2>4. Answered(refusal, check) = Kind(check)
    BY <1>1, <2>2, <2>3 DEF Answered
  <2> QED BY <1>2, <2>1, <2>4, KindIs, ExpectedIs
<1> QED BY <1>2, <1>3, FirstIs

\* A refusal misread is not passed by the check that asks for it.
LEMMA RefusalTold ==
    ASSUME lie \in RefusalLies, lie = "unlisted_rules" => "rules" \in target.caps
    PROVE  Tells(lie) \in ErrorChecks /\ ErrorCheck(Tells(lie)) \in {"failed", "inconclusive"}
<1>7. PICK check \in ErrorChecks : check = Tells(lie) /\ \E j \in DOMAIN Refusals(check) : Refusals(check)[j] = lie
  BY IsAsked
<1>1. PICK j \in DOMAIN Refusals(check) : Refusals(check)[j] = lie
  BY <1>7
<1>8. PICK n \in Nat : \E outcomes : Answering(check, n, outcomes)
  BY AnswersTold
<1>9. PICK outcomes : Answering(check, n, outcomes)
  BY <1>8
<1>2. /\ DOMAIN outcomes = 1..n /\ DOMAIN Refusals(check) = 1..n
      /\ \A i \in 1..n : outcomes[i] = Expected(Answered(Refusals(check)[i], check), Kind(check))
      /\ ErrorCheck(check) \in {"failed", FirstNot(outcomes)}
  BY <1>9 DEF Answering
<1>3. PICK answer : answer = Answered(lie, check) /\ answer = IF check \in {"rule_violations", "insufficient_balance", "unknown_symbol"} THEN "ok"
                                                              ELSE IF check = "unavailable" THEN "OutcomeUnknown" ELSE "Unavailable"
  BY DEF Answered
<1>4. answer = "ok" \/ answer # Kind(check)
  BY <1>3, KindIs
<1>10. j \in 1..n /\ outcomes[j] = Expected(answer, Kind(check))
  BY <1>1, <1>2, <1>3
<1>11. Expected(answer, Kind(check)) \in {"failed", "inconclusive"}
  BY <1>4, ExpectedIs
<1>5. outcomes[j] \in {"failed", "inconclusive"} /\ j \in 1..n
  BY <1>10, <1>11
<1>6. FirstNot(outcomes) # "passed"
  BY <1>2, <1>5, FirstIs
<1> QED BY <1>2, <1>6, <1>7, ErrorOutcomes

\* Rules without a notional fail rule_violations.
LEMMA NotionalTold ==
    ASSUME lie = "no_notional"
    PROVE  ErrorCheck("rule_violations") = "failed"
<1>1. Rules.notional = {}
  BY RulesTold DEF RuleLies
<1> QED BY <1>1 DEF ErrorCheck

-----------------------------------------------------------------------------
(* What an order's fills add up to.                                         *)

\* No fills buy nothing and cost nothing.
LEMMA NoFills ==
    ASSUME NEW fills, DOMAIN fills = {}
    PROVE  Bought(fills) = 0 /\ Fees(fills) = 0
<1>1. Bought(fills) = 0
  <2> DEFINE Is(it) == it = [S \in SUBSET DOMAIN fills |-> IF S = {} THEN 0 ELSE it[S \ {Max(S)}] + fills[Max(S)].qty]
             it == CHOOSE it : Is(it)
  <2>1. Bought(fills) = it[DOMAIN fills]
    BY DEF Bought, FoldLeft, MapThenFoldSet
  <2>2. Is([S \in SUBSET DOMAIN fills |-> 0])
    OBVIOUS
  <2>3. Is(it)
    <3> HIDE DEF Is
    <3> QED BY <2>2
  <2> HIDE DEF it
  <2> QED BY <2>1, <2>3
<1>2. Fees(fills) = 0
  <2> DEFINE Is(it) == it = [S \in SUBSET DOMAIN fills |-> IF S = {} THEN 0 ELSE it[S \ {Max(S)}] +
                                (IF fills[Max(S)].asset = {"base"} THEN fills[Max(S)].commission ELSE 0)]
             it == CHOOSE it : Is(it)
  <2>1. Fees(fills) = it[DOMAIN fills]
    BY DEF Fees, FoldLeft, MapThenFoldSet
  <2>2. Is([S \in SUBSET DOMAIN fills |-> 0])
    OBVIOUS
  <2>3. Is(it)
    <3> HIDE DEF Is
    <3> QED BY <2>2
  <2> HIDE DEF it
  <2> QED BY <2>1, <2>3
<1> QED BY <1>1, <1>2

\* One fill's quantity, and its fee where it is paid in the asset bought.
LEMMA OneFill ==
    ASSUME NEW fills, DOMAIN fills = {1},
           NEW fill, fill = fills[1], fill.qty \in Int, fill.commission \in Int
    PROVE  /\ Bought(fills) = fill.qty
           /\ Fees(fills) = IF fill.asset = {"base"} THEN fill.commission ELSE 0
<1>1. Max({1}) = 1 /\ {1} \ {1} = {}
  <2>1. 1 \in Int
    OBVIOUS
  <2> QED BY <2>1, Extremes
<1>2. \A S \in SUBSET {1} : S # {} => S = {1}
  OBVIOUS
<1>3. Bought(fills) = fill.qty
  <2> DEFINE Is(it) == it = [S \in SUBSET DOMAIN fills |-> IF S = {} THEN 0 ELSE it[S \ {Max(S)}] + fills[Max(S)].qty]
             it == CHOOSE it : Is(it)
  <2>1. Bought(fills) = it[DOMAIN fills]
    BY DEF Bought, FoldLeft, MapThenFoldSet
  <2>2. PICK h : h = [S \in SUBSET {1} |-> IF S = {} THEN 0 ELSE 0 + fill.qty]
    OBVIOUS
  <2>3. h[{}] = 0 /\ h[{1}] = 0 + fill.qty
    BY <2>2
  <2>4. ASSUME NEW S \in SUBSET {1}, S # {}
        PROVE  h[S] = h[S \ {Max(S)}] + fills[Max(S)].qty
    BY <1>1, <1>2, <2>3, <2>4
  <2>5. h = [S \in SUBSET {1} |-> IF S = {} THEN 0 ELSE h[S \ {Max(S)}] + fills[Max(S)].qty]
    BY <2>2, <2>3, <2>4
  <2>6. Is(h)
    BY <2>5
  <2>7. Is(it)
    <3> HIDE DEF Is
    <3> QED BY <2>6
  <2> HIDE DEF it
  <2>8. it[{}] = 0 /\ it[{1}] = it[{}] + fill.qty
    BY <1>1, <2>7
  <2> QED BY <2>1, <2>8
<1>4. Fees(fills) = IF fill.asset = {"base"} THEN fill.commission ELSE 0
  <2> DEFINE Is(it) == it = [S \in SUBSET DOMAIN fills |-> IF S = {} THEN 0 ELSE it[S \ {Max(S)}] +
                                (IF fills[Max(S)].asset = {"base"} THEN fills[Max(S)].commission ELSE 0)]
             it == CHOOSE it : Is(it)
  <2>1. Fees(fills) = it[DOMAIN fills]
    BY DEF Fees, FoldLeft, MapThenFoldSet
  <2>2. PICK fee \in Int : fee = IF fill.asset = {"base"} THEN fill.commission ELSE 0
    OBVIOUS
  <2>3. PICK h : h = [S \in SUBSET {1} |-> IF S = {} THEN 0 ELSE 0 + fee]
    OBVIOUS
  <2>4. h[{}] = 0 /\ h[{1}] = 0 + fee
    BY <2>3
  <2>5. ASSUME NEW S \in SUBSET {1}, S # {}
        PROVE  h[S] = h[S \ {Max(S)}] + (IF fills[Max(S)].asset = {"base"} THEN fills[Max(S)].commission ELSE 0)
    <3>1. S = {1} /\ Max(S) = 1 /\ S \ {Max(S)} = {}
      BY <1>1, <1>2, <2>5
    <3>2. fee = (IF fills[Max(S)].asset = {"base"} THEN fills[Max(S)].commission ELSE 0)
      BY <2>2, <3>1
    <3> QED BY <2>4, <3>1, <3>2
  <2>6. h = [S \in SUBSET {1} |-> IF S = {} THEN 0 ELSE h[S \ {Max(S)}] +
                  (IF fills[Max(S)].asset = {"base"} THEN fills[Max(S)].commission ELSE 0)]
    BY <2>3, <2>4, <2>5
  <2>7. Is(h)
    BY <2>6
  <2>8. Is(it)
    <3> HIDE DEF Is
    <3> QED BY <2>7
  <2> HIDE DEF it
  <2>9. \A S \in SUBSET {1} : it[S] = IF S = {} THEN 0 ELSE it[S \ {Max(S)}] +
                  (IF fills[Max(S)].asset = {"base"} THEN fills[Max(S)].commission ELSE 0)
    BY <2>8
  <2> HIDE DEF Is
  <2>10. it[{}] = 0 /\ it[{1}] = it[{1} \ {Max({1})}] + (IF fills[Max({1})].asset = {"base"} THEN fills[Max({1})].commission ELSE 0)
    BY <2>9
  <2>11. it[{1}] = 0 + fee
    BY <1>1, <2>2, <2>10
  <2> QED BY <2>1, <2>2, <2>11
<1> QED BY <1>3, <1>4

-----------------------------------------------------------------------------
(* The order the buy comes back as.                                         *)

FilledAs(fills, executed) ==
    IF executed = 0 THEN fills = <<>>
    ELSE /\ DOMAIN fills = {1}
         /\ fills[1].qty = (IF lie = "fills_short" THEN executed - 1 ELSE executed)
         /\ fills[1].commission = BaseFee
         /\ fills[1].asset = (IF lie = "fee_hidden" THEN {} ELSE {"base"})
         /\ fills[1].trade = (IF lie = "no_trade_id" THEN {} ELSE {7})

Placed(order, executed) ==
    /\ order.id = (IF lie = "no_order_id" THEN {} ELSE {1})
    /\ order.client = (IF lie = "other_client_id" THEN {"other"} ELSE {"asked"})
    /\ order.status = (IF lie = "unfilled" THEN "NEW" ELSE IF executed = Spend THEN "FILLED" ELSE "EXPIRED")
    /\ order.executed = (IF lie = "no_executed" THEN {} ELSE {executed})
    /\ order.quote = (IF lie = "no_quote" THEN {} ELSE {executed})
    /\ order.time = (IF lie = "no_time" THEN {} ELSE {Now})
    /\ IF lie = "no_fills" THEN order.fills = {}
       ELSE \E fills : order.fills = {fills} /\ FilledAs(fills, executed)

\* The order submitted comes back as the venue wrote it.
LEMMA ParsedOrder ==
    ASSUME NEW keys, keys # {}, NEW raw, NEW request, request.quote # {}
    PROVE  SubmitMarketOrder(keys, request, Wrote("order", raw)).value = {ParseOrder(raw)}
<1>1. PICK answer : answer = Wrote("order", raw)
  OBVIOUS
<1>2. PICK result : result = Typed(SendSigned(keys, answer), "order")
  OBVIOUS
<1>3. result = [kind |-> "ok", value |-> {raw}]
  BY <1>1, <1>2, Read
<1>4. ReadOrder(keys, answer) = [result EXCEPT !.value = {ParseOrder(x) : x \in @}]
  BY <1>2 DEF ReadOrder
<1>5. ReadOrder(keys, answer).value = {ParseOrder(x) : x \in {raw}}
  BY <1>3, <1>4
<1>6. ReadOrder(keys, answer).value = {ParseOrder(raw)}
  BY <1>5
<1> QED BY <1>1, <1>6 DEF SubmitMarketOrder

\* What the venue writes of the buy.
LEMMA RawIs ==
    ASSUME NEW executed \in Nat, NEW raw, raw = RawOrder(executed), NEW status,
           status = IF executed = Spend THEN "FILLED" ELSE "EXPIRED"
    PROVE  /\ raw.id = {1} /\ raw.client = {"asked"} /\ raw.status = {status} /\ raw.executed = {executed}
           /\ raw.quote = {executed} /\ raw.time = {Now}
           /\ \E fills : /\ raw.fills = {fills}
                         /\ fills = IF executed = 0 THEN <<>>
                                    ELSE <<[qty |-> executed, commission |-> BaseFee, asset |-> {"base"}, trade |-> {7}]>>
BY DEF RawOrder

\* What was written of an order is what is read of it.
LEMMA ParsedOf ==
    ASSUME NEW raw, NEW status \in Statuses, raw.status = {status},
           NEW order, order = ParseOrder(raw)
    PROVE  /\ order.id = raw.id /\ order.client = raw.client /\ order.status = status
           /\ order.executed = raw.executed /\ order.quote = raw.quote /\ order.time = raw.time
           /\ order.fills = raw.fills
<1>1. FromExchange(raw.status) = status
  BY DEF FromExchange
<1> QED BY <1>1 DEF ParseOrder

\* The buy as the venue's answer is read.
LEMMA ParsedFields ==
    ASSUME NEW executed \in Nat, NEW order, order = ParseOrder(RawOrder(executed))
    PROVE  /\ order = [order EXCEPT !.status = order.status]
           /\ order.id = {1} /\ order.client = {"asked"}
           /\ order.status = (IF executed = Spend THEN "FILLED" ELSE "EXPIRED") /\ order.executed = {executed}
           /\ order.quote = {executed} /\ order.time = {Now}
           /\ \E fills : /\ order.fills = {fills}
                         /\ fills = IF executed = 0 THEN <<>>
                                    ELSE <<[qty |-> executed, commission |-> BaseFee, asset |-> {"base"}, trade |-> {7}]>>
<1>1. PICK status : status = IF executed = Spend THEN "FILLED" ELSE "EXPIRED"
  OBVIOUS
<1>2. status \in Statuses
  BY <1>1 DEF Statuses
<1>3. PICK raw : raw = RawOrder(executed)
  OBVIOUS
<1>4. raw.id = {1} /\ raw.client = {"asked"} /\ raw.status = {status} /\ raw.executed = {executed}
      /\ raw.quote = {executed} /\ raw.time = {Now}
  BY <1>1, <1>3, RawIs
<1>5. PICK fills : /\ raw.fills = {fills}
                   /\ fills = IF executed = 0 THEN <<>>
                              ELSE <<[qty |-> executed, commission |-> BaseFee, asset |-> {"base"}, trade |-> {7}]>>
  BY <1>1, <1>3, RawIs
<1>6. order.id = raw.id /\ order.client = raw.client /\ order.status = status
      /\ order.executed = raw.executed /\ order.quote = raw.quote /\ order.time = raw.time
      /\ order.fills = raw.fills
  BY <1>2, <1>3, <1>4, ParsedOf
<1>7. order = [order EXCEPT !.status = order.status]
  BY DEF ParseOrder
<1> QED BY <1>1, <1>4, <1>5, <1>6, <1>7

\* The buy as the connector reports it: as read, or with one field a lie.
LEMMA OrderBefore ==
    ASSUME NEW executed \in Nat, Keys # {}
    PROVE  \E order : /\ order = ParseOrder(RawOrder(executed))
                      /\ Order(executed) =
                            CASE lie = "unfilled" -> [order EXCEPT !.status = "NEW"]
                              [] lie = "no_executed" -> [order EXCEPT !.executed = {}]
                              [] lie = "no_quote" -> [order EXCEPT !.quote = {}]
                              [] lie = "no_fills" -> [order EXCEPT !.fills = {}]
                              [] lie \in {"fills_short", "fee_hidden", "no_trade_id"} ->
                                    [order EXCEPT !.fills = {[i \in DOMAIN fills |-> Misread(fills[i])] : fills \in @}]
                              [] lie = "no_order_id" -> [order EXCEPT !.id = {}]
                              [] lie = "no_time" -> [order EXCEPT !.time = {}]
                              [] lie = "other_client_id" -> [order EXCEPT !.client = {"other"}]
                              [] OTHER -> order
<1>1. PICK order : order = CHOOSE o \in SubmitMarketOrder(Keys, ByQuote(Spend), Wrote("order", RawOrder(executed))).value : TRUE
  OBVIOUS
<1>2. PICK parsed : parsed = ParseOrder(RawOrder(executed))
  OBVIOUS
<1>3. ByQuote(Spend).quote # {}
  BY DEF ByQuote
<1>4. SubmitMarketOrder(Keys, ByQuote(Spend), Wrote("order", RawOrder(executed))).value = {parsed}
  BY <1>2, <1>3, ParsedOrder
<1>5. order = parsed
  BY <1>1, <1>4
<1>6. order = ParseOrder(RawOrder(executed))
  BY <1>2, <1>5
<1> QED BY <1>1, <1>6 DEF Order

OrderFields == {"id", "client", "status", "executed", "quote", "requested", "requested_quote", "price", "time", "fills"}

\* The buy as the connector reports it, field by field.
LEMMA OrderIs ==
    ASSUME NEW executed \in Nat, Keys # {}, NEW order, order = Order(executed)
    PROVE  Placed(order, executed)
<1>1. PICK p : /\ p = ParseOrder(RawOrder(executed))
               /\ order =
                            CASE lie = "unfilled" -> [p EXCEPT !.status = "NEW"]
                              [] lie = "no_executed" -> [p EXCEPT !.executed = {}]
                              [] lie = "no_quote" -> [p EXCEPT !.quote = {}]
                              [] lie = "no_fills" -> [p EXCEPT !.fills = {}]
                              [] lie \in {"fills_short", "fee_hidden", "no_trade_id"} ->
                                    [p EXCEPT !.fills = {[i \in DOMAIN fills |-> Misread(fills[i])] : fills \in @}]
                              [] lie = "no_order_id" -> [p EXCEPT !.id = {}]
                              [] lie = "no_time" -> [p EXCEPT !.time = {}]
                              [] lie = "other_client_id" -> [p EXCEPT !.client = {"other"}]
                              [] OTHER -> p
  BY OrderBefore
<1>2. p \in [OrderFields -> {p[f] : f \in OrderFields}]
  <2>1. PICK raw : raw = RawOrder(executed)
    OBVIOUS
  <2>2. p = ParseOrder(raw)
    BY <1>1, <2>1
  <2>3. DOMAIN p = OrderFields
    BY <2>2 DEF ParseOrder, OrderFields
  <2>4. p = [f \in DOMAIN p |-> p[f]]
    BY <2>2 DEF ParseOrder
  <2> QED BY <2>3, <2>4
<1>3. p.id = {1} /\ p.client = {"asked"}
      /\ p.status = (IF executed = Spend THEN "FILLED" ELSE "EXPIRED") /\ p.executed = {executed}
      /\ p.quote = {executed} /\ p.time = {Now}
  BY <1>1, ParsedFields
<1>4. PICK fills : /\ p.fills = {fills}
                   /\ fills = IF executed = 0 THEN <<>>
                              ELSE <<[qty |-> executed, commission |-> BaseFee, asset |-> {"base"}, trade |-> {7}]>>
  BY <1>1, ParsedFields
<1>5. /\ executed = 0 => fills = <<>> /\ DOMAIN fills = {}
      /\ executed # 0 => /\ DOMAIN fills = {1} /\ fills[1].qty = executed /\ fills[1].commission = BaseFee
                         /\ fills[1].asset = {"base"} /\ fills[1].trade = {7}
                         /\ fills[1] \in [{"qty", "commission", "asset", "trade"} -> {executed, BaseFee, {"base"}, {7}}]
  BY <1>4
<1>6. CASE lie \in {"fills_short", "fee_hidden", "no_trade_id"}
  <2>1. PICK told : told = [i \in DOMAIN fills |-> Misread(fills[i])]
    OBVIOUS
  <2>2. order = [p EXCEPT !.fills = {[i \in DOMAIN x |-> Misread(x[i])] : x \in @}]
    BY <1>1, <1>6
  <2>3. order.fills = {[i \in DOMAIN x |-> Misread(x[i])] : x \in {fills}}
    BY <2>2, <1>2, <1>4 DEF OrderFields
  <2>4. order.fills = {told}
    BY <2>1, <2>3
  <2>5. /\ order.id = {1} /\ order.client = {"asked"}
        /\ order.status = (IF executed = Spend THEN "FILLED" ELSE "EXPIRED") /\ order.executed = {executed}
        /\ order.quote = {executed} /\ order.time = {Now}
    BY <2>2, <1>2, <1>3 DEF OrderFields
  <2>6. FilledAs(told, executed)
    <3>1. CASE executed = 0
      BY <3>1, <2>1, <1>5 DEF FilledAs
    <3>2. CASE executed # 0
      <4>1. DOMAIN told = {1} /\ told[1] = Misread(fills[1])
        BY <2>1, <1>5, <3>2
      <4>2. PICK fill : fill = fills[1]
        OBVIOUS
      <4>3. fill \in [{"qty", "commission", "asset", "trade"} -> {executed, BaseFee, {"base"}, {7}}]
            /\ fill.qty = executed /\ fill.commission = BaseFee /\ fill.asset = {"base"} /\ fill.trade = {7}
        BY <4>2, <1>5, <3>2
      <4>4. /\ Misread(fill).qty = (IF lie = "fills_short" THEN executed - 1 ELSE executed)
            /\ Misread(fill).commission = BaseFee
            /\ Misread(fill).asset = (IF lie = "fee_hidden" THEN {} ELSE {"base"})
            /\ Misread(fill).trade = (IF lie = "no_trade_id" THEN {} ELSE {7})
        BY <4>3, <1>6 DEF Misread
      <4> QED BY <4>1, <4>2, <4>4, <3>2 DEF FilledAs
    <3> QED BY <3>1, <3>2
  <2> QED BY <1>6, <2>4, <2>5, <2>6 DEF Placed
<1>7. CASE lie \notin {"fills_short", "fee_hidden", "no_trade_id"}
  <2>1. FilledAs(fills, executed)
    BY <1>5, <1>7 DEF FilledAs
  <2>2. order.fills = (IF lie = "no_fills" THEN {} ELSE {fills})
    BY <1>1, <1>2, <1>4, <1>7 DEF OrderFields
  <2>3. order.id = (IF lie = "no_order_id" THEN {} ELSE {1})
    BY <1>1, <1>2, <1>3, <1>7 DEF OrderFields
  <2>4. order.client = (IF lie = "other_client_id" THEN {"other"} ELSE {"asked"})
    BY <1>1, <1>2, <1>3, <1>7 DEF OrderFields
  <2>5. order.status = (IF lie = "unfilled" THEN "NEW" ELSE IF executed = Spend THEN "FILLED" ELSE "EXPIRED")
    BY <1>1, <1>2, <1>3, <1>7 DEF OrderFields
  <2>6. order.executed = (IF lie = "no_executed" THEN {} ELSE {executed})
    BY <1>1, <1>2, <1>3, <1>7 DEF OrderFields
  <2>7. order.quote = (IF lie = "no_quote" THEN {} ELSE {executed})
    BY <1>1, <1>2, <1>3, <1>7 DEF OrderFields
  <2>8. order.time = (IF lie = "no_time" THEN {} ELSE {Now})
    BY <1>1, <1>2, <1>3, <1>7 DEF OrderFields
  <2> QED BY <2>1, <2>2, <2>3, <2>4, <2>5, <2>6, <2>7, <2>8 DEF Placed
<1> QED BY <1>6, <1>7

\* What is left above zero.
LEMMA Floored ==
    ASSUME NEW x \in Int
    PROVE  Max({x, 0}) = IF x >= 0 THEN x ELSE 0
<1>1. CASE x >= 0
  <2>1. x >= x /\ x >= 0
    BY <1>1
  <2>2. \A y \in {x, 0} : x >= y
    BY <2>1
  <2>3. Max({x, 0}) \in {x, 0} /\ \A z \in {x, 0} : Max({x, 0}) >= z
    BY <2>2 DEF Max
  <2> QED BY <2>3, <1>1
<1>2. CASE ~(x >= 0)
  <2>1. 0 >= x /\ 0 >= 0
    BY <1>2
  <2>2. \A y \in {x, 0} : 0 >= y
    BY <2>1
  <2>3. Max({x, 0}) \in {x, 0} /\ \A z \in {x, 0} : Max({x, 0}) >= z
    BY <2>2 DEF Max
  <2> QED BY <2>3, <1>2
<1> QED BY <1>1, <1>2

\* The fills the connector reports of the buy.
LEMMA FillsAre ==
    ASSUME NEW order, NEW executed \in Nat, Placed(order, executed),
           NEW fills, fills = FillsOf(order)
    PROVE  IF lie = "no_fills" THEN order.fills = {} /\ fills = <<>>
           ELSE order.fills = {fills} /\ FilledAs(fills, executed)
BY DEF Placed, FillsOf

\* What the fills reported add up to.
LEMMA Summed ==
    ASSUME NEW fills, NEW executed \in Nat, FilledAs(fills, executed)
    PROVE  /\ Bought(fills) = (IF executed # 0 /\ lie = "fills_short" THEN executed - 1 ELSE executed)
           /\ Fees(fills) = (IF executed = 0 \/ lie = "fee_hidden" THEN 0 ELSE BaseFee)
<1>1. CASE executed = 0
  <2>1. fills = <<>>
    BY <1>1 DEF FilledAs
  <2>2. DOMAIN fills = {}
    BY <2>1
  <2>3. Bought(fills) = 0 /\ Fees(fills) = 0
    BY <2>2, NoFills
  <2> QED BY <1>1, <2>3
<1>2. CASE executed # 0
  <2>1. PICK fill : fill = fills[1]
    OBVIOUS
  <2>2. /\ DOMAIN fills = {1} /\ fill.commission = BaseFee
        /\ fill.qty = (IF lie = "fills_short" THEN executed - 1 ELSE executed)
        /\ fill.asset = (IF lie = "fee_hidden" THEN {} ELSE {"base"})
    BY <1>2, <2>1 DEF FilledAs
  <2>3. fill.qty \in Int /\ fill.commission \in Int
    BY <2>2, Amounts
  <2>4. /\ Bought(fills) = fill.qty
        /\ Fees(fills) = IF fill.asset = {"base"} THEN fill.commission ELSE 0
    BY <2>1, <2>2, <2>3, OneFill
  <2>5. {} # {"base"}
    OBVIOUS
  <2>6. fill.asset = {"base"} <=> lie # "fee_hidden"
    BY <2>2, <2>5
  <2>7. Fees(fills) = IF lie = "fee_hidden" THEN 0 ELSE BaseFee
    BY <2>2, <2>4, <2>6
  <2> QED BY <1>2, <2>2, <2>4, <2>7
<1> QED BY <1>1, <1>2

\* What the account is left with of what it bought.
MovedOf(executed) == Max({executed - BaseFee, 0})

\* What the buy moves: what was executed less the fee, which leaves the least
\* quantity to sell of a buy filled in full.
LEMMA MovedIs ==
    ASSUME NEW executed \in Nat
    PROVE  /\ MovedOf(executed) \in Nat /\ MovedOf(executed) <= executed
           /\ executed # 0 => MovedOf(executed) < executed
           /\ executed = Spend => MovedOf(executed) = executed - BaseFee /\ MovedOf(executed) >= MinQty
<1>1. BaseFee \in Nat \ {0} /\ MinQty \in Nat /\ Spend \in Nat /\ MinQty + BaseFee <= Spend
  BY Amounts, Spent
<1>2. PICK x \in Int : x = executed - BaseFee
  BY <1>1
<1>3. MovedOf(executed) = IF x >= 0 THEN x ELSE 0
  <2>1. Max({x, 0}) = IF x >= 0 THEN x ELSE 0
    BY Floored
  <2> QED BY <1>2, <2>1 DEF MovedOf
<1> QED BY <1>1, <1>2, <1>3

\* An order without its execution or its fills tells no net.
LEMMA NothingTold ==
    ASSUME NEW order, order.executed = {} \/ order.fills = {}
    PROVE  Net(order) = {}
<1>1. CASE order.executed = {}
  BY <1>1 DEF Net
<1>2. CASE order.fills = {}
  BY <1>2 DEF Net
<1> QED BY <1>1, <1>2

\* The net the order reported tells, against what moved.
LEMMA NetIs ==
    ASSUME NEW order, NEW executed \in Nat, Placed(order, executed)
    PROVE  /\ lie \in {"no_executed", "no_fills"} => Net(order) = {}
           /\ lie = "fee_hidden" => Net(order) = {executed}
           /\ lie \notin {"no_executed", "no_fills", "fee_hidden"} => Net(order) = {MovedOf(executed)}
<1>1. BaseFee \in Nat
  BY Amounts
<1>2. CASE lie \in {"no_executed", "no_fills"}
  <2>1. order.executed = {} \/ order.fills = {}
    BY <1>2 DEF Placed
  <2> QED BY <1>2, <2>1, NothingTold
<1>3. CASE lie \notin {"no_executed", "no_fills"}
  <2>1. PICK fills : fills = FillsOf(order)
    OBVIOUS
  <2>2. order.fills = {fills} /\ FilledAs(fills, executed)
    BY <1>3, <2>1, FillsAre
  <2>3. order.executed = {executed}
    BY <1>3 DEF Placed
  <2>4. Net(order) = {Max({executed - Fees(fills), 0})}
    BY <2>2, <2>3 DEF Net
  <2>5. Fees(fills) = (IF executed = 0 \/ lie = "fee_hidden" THEN 0 ELSE BaseFee)
    BY <2>2, Summed
  <2>6. CASE lie = "fee_hidden"
    <3>1. Fees(fills) = 0
      BY <2>5, <2>6
    <3>2. Max({executed, 0}) = executed
      <4>1. executed \in Int /\ executed >= 0
        OBVIOUS
      <4> QED BY <4>1, Floored
    <3>3. executed - 0 = executed
      OBVIOUS
    <3> QED BY <2>4, <2>6, <3>1, <3>2, <3>3
  <2>7. CASE lie # "fee_hidden" /\ executed # 0
    BY <2>4, <2>5, <2>7, <1>3 DEF MovedOf
  <2>8. CASE lie # "fee_hidden" /\ executed = 0
    <3>1. Max({0, 0}) = 0
      BY Extremes
    <3>2. MovedOf(0) = 0
      <4>1. PICK x \in Int : x = 0 - BaseFee
        BY <1>1
      <4>2. Max({x, 0}) = IF x >= 0 THEN x ELSE 0
        BY Floored
      <4> QED BY <1>1, <4>1, <4>2 DEF MovedOf
    <3>3. Fees(fills) = 0 /\ executed - 0 = 0
      BY <2>5, <2>8
    <3> QED BY <2>4, <2>8, <3>1, <3>2, <3>3, <1>3
  <2> QED BY <1>3, <2>6, <2>7, <2>8
<1> QED BY <1>2, <1>3

-----------------------------------------------------------------------------
(* The order on its face.                                                   *)

\* A failure in the first place is the verdict.
LEMMA FirstFails ==
    ASSUME NEW n \in Nat \ {0}, NEW outcomes, DOMAIN outcomes = 1..n, outcomes[1] # "passed"
    PROVE  FirstNot(outcomes) = outcomes[1]
<1> DEFINE bad == {i \in 1..n : outcomes[i] # "passed"}
<1>1. FirstNot(outcomes) = IF bad = {} THEN "passed" ELSE outcomes[Min(bad)]
  BY DEF FirstNot
<1>2. 1 \in bad /\ \A i \in bad : 1 <= i /\ i \in Nat
  OBVIOUS
<1>3. Min(bad) = 1
  <2> HIDE DEF bad
  <2> QED BY <1>2 DEF Min
<1> QED BY <1>1, <1>2, <1>3

Outcomes == {"passed", "failed", "inconclusive"}

FaceLies == {"unfilled", "no_executed", "no_quote", "no_fills", "fills_short", "no_trade_id", "no_order_id", "no_time"}

\* A verdict on an order that executed some of the amount: a connector is
\* blamed for what it broke, and not for a book too thin.
Faced(verdict, executed) ==
    /\ verdict \in Outcomes
    /\ Honest => verdict # "failed"
    /\ verdict = "passed" =>
          /\ executed = Spend /\ lie \notin FaceLies
          /\ "client_ids" \in target.caps => lie # "other_client_id"

\* The outcome of the order's status; only one filled in full passes.
LEMMA FilledIs ==
    ASSUME NEW status, status \in {"NEW", "FILLED", "EXPIRED"}
    PROVE  /\ Filled(status) \in Outcomes
           /\ Filled(status) = "passed" => status = "FILLED"
           /\ status = "FILLED" => Filled(status) = "passed"
           /\ Live /\ status = "EXPIRED" => Filled(status) = "inconclusive"
BY DEF Filled, Outcomes

\* On its face an honest order does not fail, and one passes only if it was filled
\* in full and none of its fields is a lie.
LEMMA FaceIs ==
    ASSUME NEW order, NEW executed \in Nat, Placed(order, executed), executed = Spend \/ Live
    PROVE  Faced(OnItsFace(order), executed)
<1> DEFINE fills == FillsOf(order)
           c2 == \E x \in order.executed : x > 0
           c3 == \E x \in order.quote : x > 0
           c4 == fills # <<>>
           c5 == {Bought(fills)} = order.executed
           c6 == \A i \in DOMAIN fills : fills[i].trade # {}
           c7 == order.id # {}
           c8 == order.time # {}
           c9 == "client_ids" \in target.caps => order.client = {"asked"}
<1>1. PICK outcomes : outcomes = <<Filled(order.status), Told(c2), Told(c3), Told(c4), Told(c5), Told(c6), Told(c7), Told(c8), Told(c9)>>
  OBVIOUS
<1>2. OnItsFace(order) = FirstNot(outcomes)
  BY <1>1 DEF OnItsFace
<1>3. DOMAIN outcomes = 1..9 /\ 9 \in Nat \ {0}
  BY <1>1
<1>4. /\ outcomes[1] = Filled(order.status) /\ outcomes[2] = Told(c2) /\ outcomes[3] = Told(c3)
      /\ outcomes[4] = Told(c4) /\ outcomes[5] = Told(c5) /\ outcomes[6] = Told(c6)
      /\ outcomes[7] = Told(c7) /\ outcomes[8] = Told(c8) /\ outcomes[9] = Told(c9)
  BY <1>1
<1>5. \A i \in 1..9 : i = 1 \/ i = 2 \/ i = 3 \/ i = 4 \/ i = 5 \/ i = 6 \/ i = 7 \/ i = 8 \/ i = 9
  OBVIOUS
<1>6. IF lie = "no_fills" THEN order.fills = {} /\ fills = <<>> ELSE FilledAs(fills, executed)
  BY FillsAre
<1>7. lie # "no_fills" => Bought(fills) = (IF executed # 0 /\ lie = "fills_short" THEN executed - 1 ELSE executed)
  BY <1>6, Summed
<1>8. Spend \in Nat \ {0}
  BY Spent
<1>9. order.status = (IF lie = "unfilled" THEN "NEW" ELSE IF executed = Spend THEN "FILLED" ELSE "EXPIRED")
  BY DEF Placed
<1> HIDE DEF fills
<1>10. /\ c2 \in BOOLEAN /\ c3 \in BOOLEAN /\ c4 \in BOOLEAN /\ c5 \in BOOLEAN /\ c6 \in BOOLEAN
       /\ c7 \in BOOLEAN /\ c8 \in BOOLEAN /\ c9 \in BOOLEAN
  OBVIOUS
<1>11. OnItsFace(order) \in Outcomes
  <2>1. outcomes[1] \in Outcomes
    BY <1>4, <1>9, FilledIs
  <2>2. /\ outcomes[2] \in Outcomes /\ outcomes[3] \in Outcomes /\ outcomes[4] \in Outcomes /\ outcomes[5] \in Outcomes
        /\ outcomes[6] \in Outcomes /\ outcomes[7] \in Outcomes /\ outcomes[8] \in Outcomes /\ outcomes[9] \in Outcomes
    BY <1>4 DEF Told, Outcomes
  <2>3. \A i \in 1..9 : outcomes[i] \in Outcomes
    BY <1>5, <2>1, <2>2
  <2>4. FirstNot(outcomes) = "passed" \/ \E i \in 1..9 : FirstNot(outcomes) = outcomes[i]
    BY <1>3, FirstIs
  <2> QED BY <1>2, <2>3, <2>4 DEF Outcomes
<1>12. ASSUME Honest
       PROVE  OnItsFace(order) # "failed"
  <2>1. CASE executed # Spend
    <3>1. order.status = "EXPIRED" /\ Live
      BY <2>1, <1>9, <1>12 DEF Honest, None
    <3>2. outcomes[1] = "inconclusive"
      BY <3>1, <1>4, FilledIs
    <3>3. FirstNot(outcomes) = outcomes[1]
      BY <3>2, <1>3, FirstFails
    <3> QED BY <3>2, <3>3, <1>2
  <2>2. CASE executed = Spend
    <3>1. outcomes[1] = "passed"
      BY <2>2, <1>4, <1>9, <1>12, FilledIs DEF Honest, None
    <3>2. /\ order.id = {1} /\ order.client = {"asked"} /\ order.executed = {executed} /\ order.quote = {executed}
          /\ order.time = {Now} /\ FilledAs(fills, executed) /\ Bought(fills) = executed
      BY <1>6, <1>7, <1>12 DEF Honest, None, Placed
    <3>3. executed > 0
      BY <2>2, <1>8
    <3>4. DOMAIN fills = {1} /\ fills[1].trade = {7}
      BY <3>2, <3>3, <1>12 DEF FilledAs, Honest, None
    <3>5. c2 /\ c3
      BY <3>2, <3>3
    <3>6. c4 /\ c6
      BY <3>4
    <3>7. c5 /\ c7 /\ c8 /\ c9
      BY <3>2
    <3>8. \A i \in 1..9 : outcomes[i] = "passed"
      BY <1>4, <1>5, <3>1, <3>5, <3>6, <3>7 DEF Told
    <3>9. FirstNot(outcomes) = "passed"
      BY <3>8, <1>3, FirstIs
    <3> QED BY <3>9, <1>2
  <2> QED BY <2>1, <2>2
<1>13. ASSUME OnItsFace(order) = "passed"
       PROVE  /\ executed = Spend /\ lie \notin FaceLies
              /\ "client_ids" \in target.caps => lie # "other_client_id"
  <2>1. \A i \in 1..9 : outcomes[i] = "passed"
    BY <1>2, <1>3, <1>13, FirstIs
  <2>2. order.status = "FILLED"
    BY <2>1, <1>4, <1>9, FilledIs
  <2>3. c2 /\ c3 /\ c4 /\ c5 /\ c6 /\ c7 /\ c8 /\ c9
    <3> HIDE DEF c2, c3, c4, c5, c6, c7, c8, c9
    <3>1. Told(c2) = "passed" /\ Told(c3) = "passed" /\ Told(c4) = "passed" /\ Told(c5) = "passed"
          /\ Told(c6) = "passed" /\ Told(c7) = "passed" /\ Told(c8) = "passed" /\ Told(c9) = "passed"
      BY <2>1, <1>4
    <3> QED BY <3>1 DEF Told
  <2>4. executed = Spend /\ lie # "unfilled"
    BY <2>2, <1>9
  <2>5. lie \notin {"no_executed", "no_quote", "no_order_id", "no_time"}
    BY <2>3 DEF Placed
  <2>6. lie # "no_fills"
    BY <2>3, <1>6
  <2>7. executed # 0
    BY <2>4, <1>8
  <2>8. lie # "fills_short"
    <3>1. order.executed = {executed}
      BY <2>5 DEF Placed
    <3>2. Bought(fills) = executed
      BY <3>1, <2>3
    <3> QED BY <3>2, <2>6, <2>7, <1>7
  <2>9. lie # "no_trade_id"
    BY <2>3, <2>6, <2>7, <1>6 DEF FilledAs
  <2>10. "client_ids" \in target.caps => lie # "other_client_id"
    BY <2>3 DEF Placed
  <2> QED BY <2>4, <2>5, <2>6, <2>8, <2>9, <2>10 DEF FaceLies
<1> QED BY <1>11, <1>12, <1>13 DEF Faced

-----------------------------------------------------------------------------
(* What the venue tells later of an order filled in full.                   *)

\* The order looked up comes back as the venue wrote it.
LEMMA FoundParsed ==
    ASSUME NEW keys, keys # {}, NEW raw, NEW by \in {ById, ByClient}
    PROVE  QueryOrder(keys, by, Wrote("order", raw)).value = {ParseOrder(raw)}
<1>1. PICK answer : answer = Wrote("order", raw)
  OBVIOUS
<1>2. PICK result : result = Typed(SendSigned(keys, answer), "order")
  OBVIOUS
<1>3. result = [kind |-> "ok", value |-> {raw}]
  BY <1>1, <1>2, Read
<1>4. ReadOrder(keys, answer) = [result EXCEPT !.value = {ParseOrder(x) : x \in @}]
  BY <1>2 DEF ReadOrder
<1>5. ReadOrder(keys, answer).value = {ParseOrder(x) : x \in {raw}}
  BY <1>3, <1>4
<1>6. ReadOrder(keys, answer).value = {ParseOrder(raw)}
  BY <1>5
<1>7. by.id # {} \/ by.client # {}
  BY DEF ById, ByClient
<1> QED BY <1>1, <1>6, <1>7 DEF QueryOrder

\* What the venue says later of a buy filled in full.
LEMMA LaterIs ==
    ASSUME NEW executed \in Nat, executed = Spend, NEW found, found = ParseOrder(Later(executed))
    PROVE  /\ found.id = {1} /\ found.client = {"asked"} /\ found.status = "FILLED"
           /\ found.executed = {executed} /\ found.quote = {executed}
           /\ DOMAIN found = OrderFields
<1>1. PICK raw : raw = Later(executed)
  OBVIOUS
<1>2. raw.id = {1} /\ raw.client = {"asked"} /\ raw.status = {"FILLED"} /\ raw.executed = {executed}
      /\ raw.quote = {executed}
  BY <1>1 DEF Later, RawOrder
<1>3. FromExchange(raw.status) = "FILLED"
  BY <1>2 DEF FromExchange, Statuses
<1>4. found = ParseOrder(raw)
  BY <1>1
<1>5. found.id = raw.id /\ found.client = raw.client /\ found.status = FromExchange(raw.status)
      /\ found.executed = raw.executed /\ found.quote = raw.quote
  BY <1>4 DEF ParseOrder
<1>6. DOMAIN found = OrderFields
  BY <1>4 DEF ParseOrder, OrderFields
<1> QED BY <1>2, <1>3, <1>5, <1>6

\* An order that was judged right on its face.
Passed(order, executed) ==
    /\ Placed(order, executed) /\ executed = Spend /\ lie \notin FaceLies
    /\ "client_ids" \in target.caps => lie # "other_client_id"

\* What an order that passed on its face says.
LEMMA PassedIs ==
    ASSUME NEW order, NEW executed \in Nat, Passed(order, executed)
    PROVE  /\ executed >= 2 /\ order.id = {1} /\ order.executed = {executed} /\ order.quote = {executed}
           /\ Max(order.executed) = executed
           /\ order.client = (IF lie = "other_client_id" THEN {"other"} ELSE {"asked"})
<1>1. order.id = {1} /\ order.executed = {executed} /\ order.quote = {executed}
      /\ order.client = (IF lie = "other_client_id" THEN {"other"} ELSE {"asked"})
  BY DEF Passed, Placed, FaceLies
<1>2. executed >= 2
  BY Spent, Amounts DEF Passed
<1>3. executed \in Int
  OBVIOUS
<1>4. Max({executed}) = executed
  BY <1>3, Extremes
<1> QED BY <1>1, <1>2, <1>4

\* The order looked up is the same order unless that is the lie.
LEMMA LookUpIs ==
    ASSUME NEW order, NEW executed \in Nat, Passed(order, executed), Keys # {},
           NEW by \in {ById, ByClient}, NEW wrong
    PROVE  /\ lie = wrong => ~SameOrder(order, LookedUp(order, by, wrong))
           /\ lie # wrong /\ lie # "other_client_id" => SameOrder(order, LookedUp(order, by, wrong))
<1>1. PICK found : found = CHOOSE o \in QueryOrder(Keys, by, Wrote("order", Later(Max(order.executed)))).value : TRUE
  OBVIOUS
<1>2. PICK parsed : parsed = ParseOrder(Later(executed))
  OBVIOUS
<1>3. Max(order.executed) = executed
  BY PassedIs
<1>4. QueryOrder(Keys, by, Wrote("order", Later(executed))).value = {parsed}
  BY <1>2, FoundParsed
<1>5. found = parsed
  BY <1>1, <1>3, <1>4
<1>6. executed = Spend
  BY DEF Passed
<1>7. /\ found.id = {1} /\ found.client = {"asked"} /\ found.status = "FILLED"
      /\ found.executed = {executed} /\ found.quote = {executed}
      /\ DOMAIN found = OrderFields
  BY <1>2, <1>5, <1>6, LaterIs
<1>8. LookedUp(order, by, wrong) = IF lie = wrong THEN [found EXCEPT !.executed = {1}] ELSE found
  BY <1>1 DEF LookedUp
<1>9. /\ executed >= 2 /\ order.id = {1} /\ order.executed = {executed} /\ order.quote = {executed}
      /\ order.client = (IF lie = "other_client_id" THEN {"other"} ELSE {"asked"})
  BY PassedIs
<1>10. CASE lie = wrong
  <2>1. LookedUp(order, by, wrong).executed = {1}
    BY <1>7, <1>8, <1>10 DEF OrderFields
  <2>2. {1} # {executed}
    BY <1>9
  <2> QED BY <1>9, <1>10, <2>1, <2>2 DEF SameOrder
<1>11. CASE lie # wrong
  BY <1>7, <1>8, <1>9, <1>11 DEF SameOrder
<1> QED BY <1>10, <1>11

\* It is among the open orders just when that is the lie.
LEMMA StillOpenIs ==
    ASSUME NEW order, NEW executed \in Nat, Passed(order, executed), Keys # {}
    PROVE  StillOpen(order) <=> lie = "still_open"
<1>1. PICK rows : rows = IF lie = "still_open" THEN <<Later(executed)>> ELSE <<>>
  OBVIOUS
<1>2. Max(order.executed) = executed /\ order.id = {1} /\ executed = Spend
  BY PassedIs DEF Passed
<1>3. PICK result : result = Typed(SendSigned(Keys, Wrote("orders", rows)), "orders")
  OBVIOUS
<1>4. result = [kind |-> "ok", value |-> {rows}]
  BY <1>3, Read
<1>5. PICK parsed : parsed = [i \in DOMAIN rows |-> ParseOrder(rows[i])]
  OBVIOUS
<1>6. PICK opened : opened = OpenOrders(Keys, Wrote("orders", rows)).value
  OBVIOUS
<1>7. opened = {[i \in DOMAIN x |-> ParseOrder(x[i])] : x \in {rows}}
  BY <1>3, <1>4, <1>6 DEF OpenOrders
<1>8. opened = {parsed}
  BY <1>5, <1>7
<1>9. StillOpen(order) <=> \E x \in opened : \E i \in DOMAIN x : x[i].id = order.id
  BY <1>1, <1>2, <1>6 DEF StillOpen
<1>10. StillOpen(order) <=> \E i \in DOMAIN parsed : parsed[i].id = order.id
  BY <1>8, <1>9
<1>11. CASE lie = "still_open"
  <2>1. DOMAIN rows = {1} /\ rows[1] = Later(executed)
    BY <1>1, <1>11
  <2>2. DOMAIN parsed = {1} /\ parsed[1] = ParseOrder(Later(executed))
    BY <2>1, <1>5
  <2>3. parsed[1].id = {1}
    <3>1. PICK found : found = ParseOrder(Later(executed))
      OBVIOUS
    <3>2. found.id = {1}
      BY <3>1, <1>2, LaterIs
    <3> QED BY <2>2, <3>1, <3>2
  <2> QED BY <1>2, <1>10, <1>11, <2>2, <2>3
<1>12. CASE lie # "still_open"
  <2>1. DOMAIN parsed = {}
    BY <1>1, <1>5, <1>12
  <2> QED BY <1>10, <1>12, <2>1
<1> QED BY <1>11, <1>12

\* A filled order cannot be cancelled unless that is the lie.
LEMMA CancelIs ==
    ASSUME NEW order, Keys # {}
    PROVE  /\ lie = "cancel_accepted" => CancelFilled(order) = "ok"
           /\ lie # "cancel_accepted" => CancelFilled(order) = "UnknownOrder"
<1>1. CASE lie = "cancel_accepted"
  <2>1. PICK answer : answer = Wrote("order", Later(Max(order.executed)))
    OBVIOUS
  <2>2. Typed(SendSigned(Keys, answer), "order") = [kind |-> "ok", value |-> {Later(Max(order.executed))}]
    BY <2>1, Read
  <2>3. ReadOrder(Keys, answer).kind = "ok"
    BY <2>2 DEF ReadOrder
  <2>4. CancelOrder(Keys, ById, answer).kind = "ok"
    BY <2>3 DEF CancelOrder, ById
  <2> QED BY <1>1, <2>1, <2>4 DEF CancelFilled
<1>2. CASE lie # "cancel_accepted"
  <2>1. PICK answer : answer = Refuses(400, -2011, "unknown_order_sent")
    OBVIOUS
  <2>2. FailsAs(answer, "UnknownOrder")
    BY <2>1, Codes, RefusedAs
  <2>3. CancelOrder(Keys, ById, answer).kind = "UnknownOrder"
    BY <2>2, CallsFail DEF CallsFailAs
  <2> QED BY <1>2, <2>1, <2>3 DEF CancelFilled
<1> QED BY <1>1, <1>2

\* Its trades show, late as they may, unless that is the lie.
LEMMA TradedIs ==
    ASSUME NEW order, NEW executed \in Nat, Passed(order, executed), Keys # {},
           NEW lag \in 0..(Polls - 1)
    PROVE  Traded(order, lag) <=> lie # "no_trades"
<1>1. executed >= 2 /\ order.id = {1} /\ order.executed = {executed} /\ Max(order.executed) = executed
  BY PassedIs
<1>2. PICK row : row = [id |-> 7, order |-> 1, is_buyer |-> TRUE, qty |-> Max(order.executed)]
  OBVIOUS
<1>3. ~(lag >= Polls)
  BY Amounts
<1>4. PICK rows : rows = IF lie = "no_trades" THEN <<>> ELSE <<row>>
  OBVIOUS
<1>5. PICK result : result = Typed(SendSigned(Keys, Wrote("trades", rows)), "trades")
  OBVIOUS
<1>6. result = [kind |-> "ok", value |-> {rows}]
  BY <1>5, Read
<1>7. PICK parsed : parsed = [i \in DOMAIN rows |-> ParseTrade(rows[i])]
  OBVIOUS
<1>8. PICK recent : recent = RecentTrades(Keys, Wrote("trades", rows)).value
  OBVIOUS
<1>9. recent = {[i \in DOMAIN x |-> ParseTrade(x[i])] : x \in {rows}}
  BY <1>5, <1>6, <1>8 DEF RecentTrades
<1>10. recent = {parsed}
  BY <1>7, <1>9
<1>11. PICK fills : fills = FillsOf(order)
  OBVIOUS
<1>12. (lie = "no_trades" \/ lag >= Polls) <=> lie = "no_trades"
  BY <1>3
<1>13. Wrote("trades", IF lie = "no_trades" \/ lag >= Polls THEN <<>> ELSE <<row>>) = Wrote("trades", rows)
  BY <1>4, <1>12
<1>19. PICK answer : answer = Wrote("trades", IF lie = "no_trades" \/ lag >= Polls THEN <<>> ELSE <<row>>)
  OBVIOUS
<1>20. recent = RecentTrades(Keys, answer).value
  BY <1>8, <1>13, <1>19
<1>21. Traded(order, lag) <=> \E x \in RecentTrades(Keys, answer).value : \A i \in DOMAIN FillsOf(order) :
                                 \E j \in DOMAIN x : {x[j].id} = FillsOf(order)[i].trade /\ {x[j].order} = order.id
  BY <1>2, <1>19 DEF Traded
<1>14. Traded(order, lag) <=> \E x \in recent : \A i \in DOMAIN fills :
                                 \E j \in DOMAIN x : {x[j].id} = fills[i].trade /\ {x[j].order} = order.id
  BY <1>11, <1>20, <1>21
<1>15. Traded(order, lag) <=> \A i \in DOMAIN fills :
                                 \E j \in DOMAIN parsed : {parsed[j].id} = fills[i].trade /\ {parsed[j].order} = order.id
  BY <1>10, <1>14
<1>16. DOMAIN fills = {1} /\ fills[1].trade = {7}
  <2>1. FilledAs(fills, executed) /\ lie # "no_trade_id"
    BY <1>11, FillsAre DEF Passed, FaceLies
  <2> QED BY <2>1, <1>1 DEF FilledAs
<1>17. CASE lie = "no_trades"
  <2>1. DOMAIN parsed = {}
    BY <1>4, <1>7, <1>17
  <2> QED BY <2>1, <1>15, <1>16, <1>17
<1>18. CASE lie # "no_trades"
  <2>1. DOMAIN rows = {1} /\ rows[1] = row
    BY <1>4, <1>18
  <2>2. DOMAIN parsed = {1} /\ parsed[1] = ParseTrade(row)
    BY <2>1, <1>7
  <2>3. parsed[1].id = 7 /\ parsed[1].order = 1
    BY <2>2, <1>2 DEF ParseTrade
  <2> QED BY <2>2, <2>3, <1>1, <1>15, <1>16, <1>18
<1> QED BY <1>17, <1>18

\* The balance shows what was bought, late as it may, unless the fee was hidden.
LEMMA SettledIs ==
    ASSUME NEW order, NEW executed \in Nat, Passed(order, executed), Keys # {},
           NEW lag \in 0..(Polls - 1),
           NEW moved, moved = MovedOf(executed)
    PROVE  Settled(order, moved, lag) <=> lie # "fee_hidden"
<1>1. ~(lag >= Polls)
  BY Amounts
<1>2. PICK balances : balances = [base |-> moved]
  OBVIOUS
<1>3. (IF lag >= Polls THEN 0 ELSE moved) = moved
  BY <1>1
<1>4. PICK answer : answer = Wrote("account", [base |-> IF lag >= Polls THEN 0 ELSE moved])
  OBVIOUS
<1>5. answer = Wrote("account", balances)
  BY <1>2, <1>3, <1>4
<1>6. AccountBalances(Keys, answer) = [kind |-> "ok", value |-> {balances}]
  BY <1>5, Read DEF AccountBalances
<1>7. Settled(order, moved, lag) <=> \E b \in AccountBalances(Keys, answer).value : {b.base} = Net(order)
  BY <1>4 DEF Settled
<1>8. Settled(order, moved, lag) <=> {moved} = Net(order)
  BY <1>2, <1>6, <1>7
<1>9. lie \notin {"no_executed", "no_fills"} /\ executed # 0
  BY PassedIs DEF Passed, FaceLies
<1>10. /\ lie = "fee_hidden" => Net(order) = {executed}
       /\ lie # "fee_hidden" => Net(order) = {moved}
  <2>1. Placed(order, executed)
    BY DEF Passed
  <2> QED BY <2>1, <1>9, NetIs
<1>11. moved # executed
  BY <1>9, MovedIs
<1> QED BY <1>8, <1>10, <1>11

LaterLies == {"query_differs", "still_open", "cancel_accepted", "no_trades", "fee_hidden"}

\* Read back, an honest order passes, and one passes only if nothing later is a lie.
LEMMA ReadBackIs ==
    ASSUME NEW order, NEW executed \in Nat, Passed(order, executed), Keys # {},
           NEW lag \in 0..(Polls - 1),
           NEW moved, moved = MovedOf(executed), NEW verdict, verdict = ReadBack(order, moved, lag)
    PROVE  /\ verdict \in Outcomes
           /\ Honest => verdict = "passed"
           /\ verdict = "passed" => lie \notin LaterLies
           /\ verdict = "passed" /\ "client_ids" \in target.caps => lie # "client_query_differs"
<1> DEFINE c1 == SameOrder(order, LookedUp(order, ById, "query_differs"))
           c2 == "client_ids" \in target.caps => SameOrder(order, LookedUp(order, ByClient, "client_query_differs"))
           c3 == ~StillOpen(order)
           o4 == Expected(CancelFilled(order), "UnknownOrder")
           c5 == Traded(order, lag)
           c6 == Settled(order, moved, lag)
<1>1. PICK outcomes : outcomes = <<Told(c1), Told(c2), Told(c3), o4, Told(c5), Told(c6)>>
  OBVIOUS
<1>2. verdict = FirstNot(outcomes)
  BY <1>1 DEF ReadBack
<1>3. DOMAIN outcomes = 1..6 /\ 6 \in Nat
  BY <1>1
<1>4. /\ outcomes[1] = Told(c1) /\ outcomes[2] = Told(c2) /\ outcomes[3] = Told(c3)
      /\ outcomes[4] = o4 /\ outcomes[5] = Told(c5) /\ outcomes[6] = Told(c6)
  BY <1>1
<1>5. \A i \in 1..6 : i = 1 \/ i = 2 \/ i = 3 \/ i = 4 \/ i = 5 \/ i = 6
  OBVIOUS
<1>6. /\ lie = "query_differs" => ~c1
      /\ Honest => c1
  BY LookUpIs DEF Honest, None
<1>7. /\ lie = "client_query_differs" /\ "client_ids" \in target.caps => ~c2
      /\ Honest => c2
  BY LookUpIs DEF Honest, None
<1>8. c3 <=> lie # "still_open"
  BY StillOpenIs
<1>9. /\ lie = "cancel_accepted" => o4 = "failed"
      /\ lie # "cancel_accepted" => o4 = "passed"
  BY CancelIs DEF Expected
<1>10. (c5 <=> lie # "no_trades") /\ (c6 <=> lie # "fee_hidden")
  BY TradedIs, SettledIs
<1> HIDE DEF c1, c2, c3, o4, c5, c6
<1>11. \A i \in 1..6 : outcomes[i] \in Outcomes
  BY <1>4, <1>5, <1>9 DEF Told, Outcomes
<1>12. verdict \in Outcomes
  BY <1>2, <1>3, <1>11, FirstIs DEF Outcomes
<1>13. ASSUME Honest
       PROVE  verdict = "passed"
  <2>1. c1 /\ c2 /\ c3 /\ o4 = "passed" /\ c5 /\ c6
    BY <1>6, <1>7, <1>8, <1>9, <1>10, <1>13 DEF Honest, None
  <2>2. \A i \in 1..6 : outcomes[i] = "passed"
    BY <1>4, <1>5, <2>1 DEF Told
  <2> QED BY <1>2, <1>3, <2>2, FirstIs
<1>14. ASSUME verdict = "passed"
       PROVE  lie \notin LaterLies /\ ("client_ids" \in target.caps => lie # "client_query_differs")
  <2>1. \A i \in 1..6 : outcomes[i] = "passed"
    BY <1>2, <1>3, <1>14, FirstIs
  <2>2. Told(c1) = "passed" /\ Told(c2) = "passed" /\ Told(c3) = "passed" /\ o4 = "passed"
        /\ Told(c5) = "passed" /\ Told(c6) = "passed"
    BY <1>4, <2>1
  <2>3. c1 /\ c2 /\ c3 /\ c5 /\ c6
    BY <2>2 DEF Told
  <2>4. lie # "cancel_accepted"
    BY <2>2, <1>9
  <2> QED BY <2>3, <2>4, <1>6, <1>7, <1>8, <1>10 DEF LaterLies
<1> QED BY <1>12, <1>13, <1>14

-----------------------------------------------------------------------------
(* Every check: what it says of an honest connector, and of a liar.         *)

MarketChecks == {"server_time", "candle_normalization", "closed_bars", "kline_bounds", "kline_paging", "kline_gaps",
                 "symbol_rules"}
Judged == MarketChecks \cup ErrorChecks

\* The check a lie is told in.
Teller ==
    CASE lie \in {"off_grid", "off_tick", "prices_mixed", "repeats", "newest_first"} -> "candle_normalization"
      [] lie = "close_now" -> "closed_bars"
      [] lie \in {"over_limit", "limit_refused", "start_exclusive", "end_exclusive"} -> "kline_bounds"
      [] lie = "inexact" -> "kline_paging"
      [] lie \in {"future_bar", "gap_stops"} -> "kline_gaps"
      [] lie \in ClockLies -> "server_time"
      [] lie = "no_notional" -> "rule_violations"
      [] lie \in RuleLies \ {"no_notional"} -> "symbol_rules"
      [] lie = "unlisted_rules" -> IF "rules" \in target.caps THEN Tells(lie) ELSE "symbol_rules"
      [] lie \in RefusalLies \ {"unlisted_rules"} -> Tells(lie)
      [] lie \in {"other_client_id", "client_query_differs"} /\ "client_ids" \notin target.caps -> "unknown_order"
      [] OTHER -> "lifecycle"

\* Each refusal is told by a check of errors.
LEMMA TellsIs ==
    ASSUME NEW refusal
    PROVE  Tells(refusal) \in ErrorChecks
BY DEF Tells, ErrorChecks

\* The check a lie is told by is one of the suite's.
LEMMA TellerIs ==
    Teller \in Judged \cup {"lifecycle"}
BY TellsIs DEF Teller, Judged, MarketChecks, ErrorChecks

\* Each check has one of the three outcomes.
LEMMA VerdictsAre ==
    ASSUME NEW check \in Judged, NEW verdict \in Verdicts(check)
    PROVE  verdict \in Outcomes
<1>1. ServerTime \in Outcomes
  BY DEF ServerTime, Outcomes
<1>2. \A c : Told(c) \in Outcomes
  BY DEF Told, Outcomes
<1>3. CASE check \in ErrorChecks
  <2>1. Verdicts(check) = {ErrorCheck(check)}
    BY <1>3 DEF Verdicts, ErrorChecks
  <2>2. ErrorCheck(check) \in Outcomes
    BY <1>3, ErrorOutcomes DEF Outcomes
  <2> QED BY <2>1, <2>2
<1>4. CASE check \in MarketChecks
  BY <1>1, <1>2, <1>4 DEF Verdicts, MarketChecks
<1> QED BY <1>3, <1>4 DEF Judged

\* No check that runs fails an honest connector whose clock is in the window.
LEMMA HonestVerdicts ==
    ASSUME Honest, MayRun, target \in Targets, ~Skewed, NEW check \in Judged, Gate(check) = "run",
           NEW verdict \in Verdicts(check)
    PROVE  verdict # "failed"
<1>1. CASE check \in ErrorChecks
  <2>1. Verdicts(check) = {ErrorCheck(check)}
    BY <1>1 DEF Verdicts, ErrorChecks
  <2>2. ErrorCheck(check) = "passed"
    BY <1>1, HonestErrors
  <2> QED BY <2>1, <2>2
<1>2. CASE check \in MarketChecks
  <2>1. CASE check = "server_time"
    BY <2>1, HonestClock DEF Verdicts
  <2>2. CASE check = "candle_normalization"
    BY <2>2, HonestNormalization DEF Verdicts, Told
  <2>3. CASE check = "closed_bars"
    BY <2>3, HonestClosed DEF Verdicts, Told
  <2>4. CASE check = "kline_bounds"
    BY <2>4, HonestBounds DEF Verdicts, Told
  <2>5. CASE check = "kline_paging"
    BY <2>5, HonestPaging DEF Verdicts, Told
  <2>6. CASE check = "kline_gaps"
    BY <2>6, HonestGaps DEF Verdicts, Told
  <2>7. CASE check = "symbol_rules"
    <3>1. SymbolRules
      BY HonestIs, HonestRules DEF Lies
    <3> QED BY <2>7, <3>1 DEF Verdicts, Told
  <2> QED BY <1>2, <2>1, <2>2, <2>3, <2>4, <2>5, <2>6, <2>7 DEF MarketChecks
<1> QED BY <1>1, <1>2 DEF Judged

\* The check a lie is told by, when it runs, does not pass.
LEMMA TellerTold ==
    ASSUME MayRun, lie \in Lies,
           NEW check, check = Teller, check # "lifecycle", Gate(check) = "run",
           NEW verdict \in Verdicts(check)
    PROVE  verdict # "passed"
<1>1. Needs(check) \subseteq target.caps
  BY Gated
<1>2. CASE lie \in {"off_grid", "off_tick", "prices_mixed", "repeats", "newest_first"}
  <2>1. check = "candle_normalization"
    BY <1>2 DEF Teller, ClockLies, RuleLies, RefusalLies
  <2> QED BY <1>2, <2>1, NormalizationTold DEF Verdicts, Told
<1>3. CASE lie = "close_now"
  <2>1. check = "closed_bars"
    BY <1>3 DEF Teller, ClockLies, RuleLies, RefusalLies
  <2> QED BY <1>3, <2>1, ClosedBarsTold DEF Verdicts, Told
<1>4. CASE lie \in {"over_limit", "limit_refused", "start_exclusive", "end_exclusive"}
  <2>1. check = "kline_bounds"
    BY <1>4 DEF Teller, ClockLies, RuleLies, RefusalLies
  <2>2. ~KlineBounds
    BY <1>4, LimitsTold, EdgesTold
  <2> QED BY <2>1, <2>2 DEF Verdicts, Told
<1>5. CASE lie = "inexact"
  <2>1. check = "kline_paging"
    BY <1>5 DEF Teller, ClockLies, RuleLies, RefusalLies
  <2> QED BY <1>5, <2>1, PagingTold DEF Verdicts, Told
<1>6. CASE lie \in {"future_bar", "gap_stops"}
  <2>1. check = "kline_gaps"
    BY <1>6 DEF Teller, ClockLies, RuleLies, RefusalLies
  <2> QED BY <1>6, <2>1, GapsTold DEF Verdicts, Told
<1>7. CASE lie \in ClockLies
  <2>1. check = "server_time"
    BY <1>7 DEF Teller, ClockLies, RuleLies, RefusalLies
  <2> QED BY <1>7, <2>1, ClockTold DEF Verdicts
<1>8. CASE lie \in RuleLies
  <2>1. CASE lie = "no_notional"
    <3>1. check = "rule_violations"
      BY <2>1 DEF Teller, ClockLies, RuleLies, RefusalLies
    <3> QED BY <2>1, <3>1, NotionalTold DEF Verdicts
  <2>2. CASE lie # "no_notional"
    <3>1. check = "symbol_rules"
      BY <1>8, <2>2 DEF Teller, ClockLies, RuleLies, RefusalLies
    <3>2. ~SymbolRules
      BY <1>8, <2>2, RulesTold
    <3> QED BY <3>1, <3>2 DEF Verdicts, Told
  <2> QED BY <2>1, <2>2
<1>9. CASE lie \in RefusalLies
  <2>1. CASE lie = "unlisted_rules" /\ "rules" \notin target.caps
    <3>1. check = "symbol_rules"
      BY <2>1 DEF Teller, ClockLies, RuleLies, RefusalLies
    <3>2. "rules" \in Needs(check)
      BY <3>1 DEF Needs
    <3> QED BY <1>1, <2>1, <3>2
  <2>2. CASE ~(lie = "unlisted_rules" /\ "rules" \notin target.caps)
    <3>1. check = Tells(lie)
      BY <1>9, <2>2 DEF Teller, ClockLies, RuleLies, RefusalLies
    <3>2. check \in ErrorChecks /\ ErrorCheck(check) \in {"failed", "inconclusive"}
      BY <1>9, <2>2, <3>1, RefusalTold
    <3>3. Verdicts(check) = {ErrorCheck(check)}
      BY <3>2 DEF Verdicts, ErrorChecks
    <3> QED BY <3>2, <3>3
  <2> QED BY <2>1, <2>2
<1>10. CASE lie \in OrderLies
  <2>1. CASE lie \in {"other_client_id", "client_query_differs"} /\ "client_ids" \notin target.caps
    <3>1. check = "unknown_order"
      BY <2>1 DEF Teller, ClockLies, RuleLies, RefusalLies
    <3>2. "client_ids" \in Needs(check)
      BY <3>1 DEF Needs
    <3> QED BY <1>1, <2>1, <3>2
  <2>2. CASE ~(lie \in {"other_client_id", "client_query_differs"} /\ "client_ids" \notin target.caps)
    <3>1. check = "lifecycle"
      BY <1>10, <2>2 DEF Teller, ClockLies, RuleLies, RefusalLies, OrderLies
    <3> QED BY <3>1
  <2> QED BY <2>1, <2>2
<1> QED BY <1>2, <1>3, <1>4, <1>5, <1>6, <1>7, <1>8, <1>9, <1>10 DEF Lies, CandleLies

-----------------------------------------------------------------------------
(* The inductive invariant.                                                 *)

LifeFields == {"step", "order", "moved", "checked", "lost", "thin"}
Steps == {"off", "buy", "inspect", "sell"}

SuiteTyped ==
    /\ target \in Targets /\ lie \in Lies \cup {None}
    /\ DOMAIN life = LifeFields /\ life.step \in Steps
    /\ DOMAIN report = {"told", "outcomes", "lifecycle"} /\ report.told \in 0..18
    /\ life.step # "off" => report.told = 7

\* What the buy may execute of the amount.
Executions == {Spend} \cup (IF Live THEN Partial ELSE {})

\* What the inspection of the order found.
Inspected(verdict, executed) ==
    /\ verdict \in Outcomes
    /\ Honest => verdict # "failed"
    /\ verdict = "passed" =>
          /\ executed = Spend /\ lie \notin FaceLies \cup LaterLies
          /\ "client_ids" \in target.caps => lie \notin {"other_client_id", "client_query_differs"}

Holding(order, executed) ==
    /\ Placed(order, executed) /\ life.moved = MovedOf(executed) /\ held = MovedOf(executed)
    /\ life.step = "sell" => Inspected(life.checked, executed)

\* How far the suite is, and what it holds there.
StageInv ==
    /\ report.lifecycle = None <=> report.told < 8
    /\ report.told < 8 /\ life.step \in {"off", "buy"} => held = 0
    /\ life.step # "off" => target.keys # {}
    /\ life.step \in {"inspect", "sell"} =>
          \E order \in life.order, executed \in Executions : life.order = {order} /\ Holding(order, executed)

FairInv ==
    Honest /\ ~Skewed => /\ "failed" \notin report.outcomes
                         /\ report.lifecycle = "failed" => held \in 1..(MinQty - 1)

Caught == ~(report.outcomes \cup {report.lifecycle} \subseteq {"passed", "replay_only", None})
Exempt == Live /\ lie \in RefusalLies /\ Tells(lie) \in Scripted

\* A liar is caught by the time the check its lie is told in has been judged.
TellingInv == \A p \in 1..report.told : lie # None /\ ~Exempt /\ CheckOrder[p] = Teller => Caught

SuiteInv == SuiteTyped /\ (MayRun => StageInv /\ FairInv /\ TellingInv /\ SoldBack)

\* What depends on the target and the lie stays with them.
LEMMA Kept ==
    ASSUME target' = target, lie' = lie
    PROVE  /\ MayRun' <=> MayRun
           /\ Live' <=> Live
           /\ Skewed' <=> Skewed
           /\ Exempt' <=> Exempt
           /\ Honest' <=> Honest
           /\ Teller' = Teller
           /\ Executions' = Executions
<1>1. (Live' <=> Live) /\ (Skewed' <=> Skewed)
  BY DEF Live, Skewed
<1>2. Exempt' <=> Exempt
  BY <1>1 DEF Exempt, Tells
<1>3. Teller' = Teller
  BY DEF Teller, Tells
<1>4. Executions' = Executions
  BY <1>1 DEF Executions
<1>5. MayRun' <=> MayRun
  BY DEF MayRun, Gate, MustNotRun, IsLocal, Lowered, FactoryBuilt, Missing, Live, Scripted, Signed
<1> QED BY <1>1, <1>2, <1>3, <1>4, <1>5 DEF Honest

\* So does what is said of the order.
LEMMA PlacedKept ==
    ASSUME lie' = lie, target' = target, NEW order, NEW executed, NEW verdict
    PROVE  /\ Placed(order, executed)' <=> Placed(order, executed)
           /\ Inspected(verdict, executed)' <=> Inspected(verdict, executed)
<1>1. Placed(order, executed)' <=> Placed(order, executed)
  BY DEF Placed, FilledAs
<1>2. Inspected(verdict, executed)' <=> Inspected(verdict, executed)
  BY DEF Inspected, Honest
<1> QED BY <1>1, <1>2

\* The suite's checks, by how many have been reported.
LEMMA CheckAt ==
    ASSUME report.told \in 0..17
    PROVE  /\ Running /\ Check = CheckOrder[report.told + 1]
           /\ Check = "lifecycle" <=> report.told = 7
           /\ Check \in Judged \cup {"lifecycle"}
<1>1. Len(CheckOrder) = 18
  BY DEF CheckOrder
<1>2. Check = CheckOrder[report.told + 1]
  BY DEF Check
<1>3. \A p \in 1..18 : (CheckOrder[p] = "lifecycle" <=> p = 8) /\ CheckOrder[p] \in Judged \cup {"lifecycle"}
  BY DEF CheckOrder, Judged, MarketChecks, ErrorChecks
<1> QED BY <1>1, <1>2, <1>3 DEF Running

\* It runs until all eighteen have.
LEMMA RunsTo ==
    ASSUME report.told \in 0..18
    PROVE  Running <=> report.told # 18
<1>1. Len(CheckOrder) = 18
  BY DEF CheckOrder
<1> QED BY <1>1 DEF Running

\* A report is one more outcome.
LEMMA ReportedIs ==
    ASSUME SuiteTyped, report.told \in 0..17, NEW outcome, Reported(outcome)
    PROVE  /\ DOMAIN report' = {"told", "outcomes", "lifecycle"}
           /\ report'.told = report.told + 1
           /\ report.told = 7 => report'.lifecycle = outcome /\ report'.outcomes = report.outcomes
           /\ report.told # 7 => report'.lifecycle = report.lifecycle /\ report'.outcomes = report.outcomes \cup {outcome}
<1>1. Check = "lifecycle" <=> report.told = 7
  BY CheckAt
<1>2. DOMAIN report = {"told", "outcomes", "lifecycle"}
  BY DEF SuiteTyped
<1>3. CASE report.told = 7
  <2>1. report' = [report EXCEPT !.told = @ + 1, !.lifecycle = outcome]
    BY <1>1, <1>3 DEF Reported
  <2> QED BY <1>2, <1>3, <2>1
<1>4. CASE report.told # 7
  <2>1. report' = [report EXCEPT !.told = @ + 1, !.outcomes = @ \cup {outcome}]
    BY <1>1, <1>4 DEF Reported
  <2> QED BY <1>2, <1>4, <2>1
<1> QED BY <1>3, <1>4

-----------------------------------------------------------------------------
(* The steps keep the invariant.                                            *)

\* The lifecycle that is not under way.
LEMMA NoLifeIs ==
    /\ DOMAIN NoLife = LifeFields /\ NoLife.step = "off"
    /\ \A lost : DOMAIN [NoLife EXCEPT !.lost = lost] = LifeFields /\ [NoLife EXCEPT !.lost = lost].step = "off"
                 /\ [NoLife EXCEPT !.lost = lost].lost = lost
    /\ \A thin : DOMAIN [NoLife EXCEPT !.thin = thin] = LifeFields /\ [NoLife EXCEPT !.thin = thin].step = "off"
                 /\ [NoLife EXCEPT !.thin = thin].thin = thin
    /\ \A lost, thin : DOMAIN [NoLife EXCEPT !.lost = lost, !.thin = thin] = LifeFields
                       /\ [NoLife EXCEPT !.lost = lost, !.thin = thin].step = "off"
BY DEF NoLife, LifeFields

\* A report keeps the types.
LEMMA TypedReport ==
    ASSUME SuiteTyped, report.told \in 0..17, NEW outcome, Reported(outcome)
    PROVE  DOMAIN report' = {"told", "outcomes", "lifecycle"} /\ report'.told \in 0..18
<1>1. DOMAIN report' = {"told", "outcomes", "lifecycle"} /\ report'.told = report.told + 1
  BY ReportedIs
<1> QED BY <1>1

\* The lifecycle is the eighth check.
LEMMA InLifecycle ==
    ASSUME SuiteTyped, LifecycleRuns
    PROVE  report.told = 7 /\ Check = "lifecycle" /\ Gate("lifecycle") = "run"
<1>1. report.told \in 0..17
  BY RunsTo DEF LifecycleRuns, SuiteTyped
<1> QED BY <1>1, CheckAt DEF LifecycleRuns

\* A sale that is not worth sending, and one that is.
Unsellable(asked) == (\E least \in EffectiveMin(Rules) : asked < least) \/ asked > held

Selling(asked, sold) ==
    /\ held' = held - sold
    /\ \/ /\ Reported(Both(life.checked, IF sold = asked THEN Told(lie # "sell_short") ELSE Filled("EXPIRED")))
          /\ life' = [NoLife EXCEPT !.thin = sold # asked]
       \/ \E glitch \in Glitches :
             /\ Reported(Both(life.checked, glitch))
             /\ life' = [NoLife EXCEPT !.lost = TRUE]

\* The sale: nothing to sell, a quantity the venue refuses, or one that sells.
LEMMA SellBackIs ==
    ASSUME SellBack
    PROVE  /\ life.step = "sell" /\ target' = target /\ lie' = lie
           /\ \E order \in life.order : \E qty : qty = {q \in SellQty(order) : q > 0} /\
                 \/ qty = {} /\ Closed("passed") /\ held' = held
                 \/ qty # {} /\ Unsellable(Max(qty)) /\ Closed("failed") /\ held' = held
                 \/ qty # {} /\ ~Unsellable(Max(qty)) /\ \E sold \in {Max(qty)} \cup (IF Live THEN {0} ELSE {}) :
                                                             Selling(Max(qty), sold)
<1>1. life.step = "sell" /\ target' = target /\ lie' = lie
  BY DEF SellBack
<1>2. PICK order \in life.order :
          LET qty == {q \in SellQty(order) : q > 0}
          IN  IF qty = {} THEN Closed("passed") /\ UNCHANGED held
              ELSE IF Unsellable(Max(qty)) THEN Closed("failed") /\ UNCHANGED held
              ELSE \E sold \in {Max(qty)} \cup (IF Live THEN {0} ELSE {}) : Selling(Max(qty), sold)
  BY DEF SellBack, Unsellable, Selling
<1>3. PICK qty : qty = {q \in SellQty(order) : q > 0}
  OBVIOUS
<1>4. IF qty = {} THEN Closed("passed") /\ held' = held
      ELSE IF Unsellable(Max(qty)) THEN Closed("failed") /\ held' = held
      ELSE \E sold \in {Max(qty)} \cup (IF Live THEN {0} ELSE {}) : Selling(Max(qty), sold)
  BY <1>2, <1>3
<1> QED BY <1>1, <1>3, <1>4

\* Every step keeps the types.
LEMMA TypedStep ==
    ASSUME SuiteTyped, SuiteNext
    PROVE  SuiteTyped'
<1> USE DEF SuiteTyped
<1>1. CASE Judge
  <2>1. report.told \in 0..17
    BY <1>1, RunsTo DEF Judge
  <2>2. PICK outcome : Reported(outcome)
    BY <1>1 DEF Judge
  <2>3. DOMAIN report' = {"told", "outcomes", "lifecycle"} /\ report'.told \in 0..18
    BY <2>1, <2>2, TypedReport
  <2>4. life' = life /\ life.step = "off" /\ target' = target /\ lie' = lie
    BY <1>1 DEF Judge
  <2> QED BY <2>3, <2>4
<1>2. CASE Prepare
  <2>1. report.told = 7 /\ life.step = "off" /\ target' = target /\ lie' = lie
    BY <1>2, InLifecycle DEF Prepare
  <2>2. PICK verdict : \/ life' = [life EXCEPT !.step = "buy"] /\ UNCHANGED report
                       \/ Reported(verdict) /\ UNCHANGED life
    BY <1>2 DEF Prepare
  <2>3. CASE life' = [life EXCEPT !.step = "buy"] /\ UNCHANGED report
    <3>1. DOMAIN life' = LifeFields /\ life'.step = "buy"
      BY <2>3 DEF LifeFields
    <3> QED BY <2>1, <2>3, <3>1 DEF Steps
  <2>4. CASE Reported(verdict) /\ UNCHANGED life
    <3>1. DOMAIN report' = {"told", "outcomes", "lifecycle"} /\ report'.told \in 0..18
      BY <2>1, <2>4, TypedReport
    <3> QED BY <2>1, <2>4, <3>1
  <2> QED BY <2>2, <2>3, <2>4
<1>3. CASE Buy
  <2>1. report.told = 7 /\ target' = target /\ lie' = lie
    BY <1>3 DEF Buy
  <2>2. PICK order, moved, glitch : \/ /\ life' = [life EXCEPT !.step = "inspect", !.order = {order}, !.moved = moved]
                                       /\ UNCHANGED report
                                    \/ Reported(glitch) /\ life' = [NoLife EXCEPT !.lost = TRUE]
    BY <1>3 DEF Buy
  <2>3. CASE life' = [life EXCEPT !.step = "inspect", !.order = {order}, !.moved = moved] /\ UNCHANGED report
    <3>1. DOMAIN life' = LifeFields /\ life'.step = "inspect"
      BY <2>3 DEF LifeFields
    <3> QED BY <2>1, <2>3, <3>1 DEF Steps
  <2>4. CASE Reported(glitch) /\ life' = [NoLife EXCEPT !.lost = TRUE]
    <3>1. DOMAIN report' = {"told", "outcomes", "lifecycle"} /\ report'.told \in 0..18
      BY <2>1, <2>4, TypedReport
    <3>2. DOMAIN life' = LifeFields /\ life'.step = "off"
      BY <2>4, NoLifeIs
    <3> QED BY <2>1, <3>1, <3>2 DEF Steps
  <2> QED BY <2>2, <2>3, <2>4
<1>4. CASE Inspect
  <2>1. PICK verdict : life' = [life EXCEPT !.step = "sell", !.checked = verdict]
    BY <1>4 DEF Inspect
  <2>2. DOMAIN life' = LifeFields /\ life'.step = "sell"
    BY <2>1 DEF LifeFields
  <2>3. report' = report /\ target' = target /\ lie' = lie /\ report.told = 7
    BY <1>4 DEF Inspect
  <2> QED BY <2>2, <2>3 DEF Steps
<1>5. CASE SellBack
  <2>1. report.told = 7 /\ target' = target /\ lie' = lie
    BY <1>5 DEF SellBack
  <2>2. \E outcome, lost, thin :
            /\ Reported(outcome)
            /\ \/ life' = [NoLife EXCEPT !.lost = lost, !.thin = thin]
               \/ life' = [NoLife EXCEPT !.thin = thin]
               \/ life' = [NoLife EXCEPT !.lost = TRUE]
    <3>1. PICK qty : \/ Closed("passed") \/ Closed("failed")
                     \/ \E sold : Selling(Max(qty), sold)
      BY <1>5, SellBackIs
    <3>2. CASE Closed("passed") \/ Closed("failed")
      <4>1. \E outcome : Reported(outcome)
        BY <3>2 DEF Closed
      <4>2. life' = [NoLife EXCEPT !.lost = life.lost, !.thin = life.thin]
        BY <3>2 DEF Closed
      <4>3. \E lost, thin : life' = [NoLife EXCEPT !.lost = lost, !.thin = thin]
        BY <4>2
      <4> QED BY <4>1, <4>3
    <3>3. CASE \E sold : Selling(Max(qty), sold)
      BY <3>3 DEF Selling
    <3> QED BY <3>1, <3>2, <3>3
  <2>3. PICK outcome, lost, thin :
            /\ Reported(outcome)
            /\ \/ life' = [NoLife EXCEPT !.lost = lost, !.thin = thin]
               \/ life' = [NoLife EXCEPT !.thin = thin]
               \/ life' = [NoLife EXCEPT !.lost = TRUE]
    BY <2>2
  <2>4. DOMAIN report' = {"told", "outcomes", "lifecycle"} /\ report'.told \in 0..18
    BY <2>1, <2>3, TypedReport
  <2>5. DOMAIN life' = LifeFields /\ life'.step = "off"
    <3>1. CASE life' = [NoLife EXCEPT !.lost = lost, !.thin = thin]
      BY <3>1, NoLifeIs
    <3>2. CASE life' = [NoLife EXCEPT !.thin = thin]
      BY <3>2, NoLifeIs
    <3>3. CASE life' = [NoLife EXCEPT !.lost = TRUE]
      BY <3>3, NoLifeIs
    <3> QED BY <2>3, <3>1, <3>2, <3>3
  <2> QED BY <2>1, <2>4, <2>5 DEF Steps
<1> QED BY <1>1, <1>2, <1>3, <1>4, <1>5 DEF SuiteNext

RunInv == StageInv /\ FairInv /\ TellingInv /\ SoldBack

\* What may be reported of the check the suite is at.
MayReport(outcome) ==
    /\ outcome # None
    /\ Check = Teller /\ lie # None /\ ~Exempt => outcome \notin {"passed", "replay_only"}
    /\ report.told # 7 /\ Honest /\ ~Skewed => outcome # "failed"

\* A verdict that may be reported keeps what the suite has said fair and telling.
LEMMA Reporting ==
    ASSUME SuiteTyped, RunInv, report.told \in 0..17,
           NEW outcome, Reported(outcome), MayReport(outcome),
           target' = target, lie' = lie,
           report.told # 7 => held' = held,
           report.told = 7 /\ Honest /\ ~Skewed /\ outcome = "failed" => held' \in 1..(MinQty - 1)
    PROVE  /\ report'.lifecycle = None <=> report'.told < 8
           /\ FairInv' /\ TellingInv'
<1>1. /\ DOMAIN report' = {"told", "outcomes", "lifecycle"}
      /\ report'.told = report.told + 1
      /\ report.told = 7 => report'.lifecycle = outcome /\ report'.outcomes = report.outcomes
      /\ report.told # 7 => report'.lifecycle = report.lifecycle /\ report'.outcomes = report.outcomes \cup {outcome}
  BY ReportedIs
<1>2. /\ report.lifecycle = None <=> report.told < 8
      /\ FairInv /\ TellingInv
  BY DEF RunInv, StageInv
<1>3. report'.lifecycle = None <=> report'.told < 8
  <2>1. outcome # None
    BY DEF MayReport
  <2>2. CASE report.told = 7
    BY <1>1, <2>1, <2>2
  <2>3. CASE report.told # 7
    BY <1>1, <1>2, <2>3
  <2> QED BY <2>2, <2>3
<1>4. FairInv'
  <2>1. SUFFICES ASSUME Honest, ~Skewed
                 PROVE  /\ "failed" \notin report'.outcomes
                        /\ report'.lifecycle = "failed" => held' \in 1..(MinQty - 1)
    BY Kept DEF FairInv
  <2>2. /\ "failed" \notin report.outcomes
        /\ report.lifecycle = "failed" => held \in 1..(MinQty - 1)
    BY <1>2, <2>1 DEF FairInv
  <2>3. CASE report.told = 7
    BY <1>1, <2>1, <2>2, <2>3
  <2>4. CASE report.told # 7
    <3>1. outcome # "failed"
      BY <2>1, <2>4 DEF MayReport
    <3> QED BY <1>1, <2>2, <2>4, <3>1
  <2> QED BY <2>3, <2>4
<1>5. Caught => Caught'
  <2>1. CASE report.told = 7
    <3>1. report.lifecycle = None
      BY <1>2, <2>1
    <3>2. Caught => \E o \in report.outcomes : o \notin {"passed", "replay_only", None}
      BY <3>1 DEF Caught
    <3>3. report'.outcomes = report.outcomes
      BY <1>1, <2>1
    <3> QED BY <3>2, <3>3 DEF Caught
  <2>2. CASE report.told # 7
    BY <1>1, <2>2 DEF Caught
  <2> QED BY <2>1, <2>2
<1>6. outcome \notin {"passed", "replay_only"} => Caught'
  <2>1. outcome # None
    BY DEF MayReport
  <2>2. outcome \in report'.outcomes \cup {report'.lifecycle}
    BY <1>1
  <2> QED BY <2>1, <2>2 DEF Caught
<1>7. TellingInv'
  <2>1. SUFFICES ASSUME NEW p \in 1..(report.told + 1), lie # None, ~Exempt, CheckOrder[p] = Teller
                 PROVE  Caught'
    BY <1>1, Kept DEF TellingInv
  <2>2. CASE p \in 1..report.told
    BY <1>2, <1>5, <2>1, <2>2 DEF TellingInv
  <2>3. CASE p = report.told + 1
    <3>1. Check = Teller
      BY <2>1, <2>3, CheckAt
    <3>2. outcome \notin {"passed", "replay_only"}
      BY <2>1, <3>1 DEF MayReport
    <3> QED BY <1>6, <3>2
  <2> QED BY <2>2, <2>3
<1> QED BY <1>3, <1>4, <1>7

\* No outcome of a check that does not run hides a lie.
LEMMA NotRun ==
    ASSUME MayRun, SuiteTyped, report.told \in 0..17, Gate(Check) # "run"
    PROVE  MayReport(Gate(Check))
<1>1. /\ Gate(Check) \in {"unsupported", "replay_only", "no_credentials", "run"}
      /\ Gate(Check) = "replay_only" => Check \in Scripted /\ Live
  BY Gated
<1>2. ASSUME Check = Teller, Gate(Check) = "replay_only"
      PROVE  Exempt
  <2>1. Teller \in Scripted /\ Live
    BY <1>1, <1>2
  <2>2. lie \in RefusalLies /\ Tells(lie) = Teller
    BY <2>1 DEF Teller, Scripted, ClockLies, RuleLies, RefusalLies
  <2> QED BY <2>1, <2>2 DEF Exempt
<1> QED BY <1>1, <1>2 DEF MayReport, None

\* The verdict of every check but the lifecycle may be reported.
LEMMA JudgeMay ==
    ASSUME MayRun, SuiteTyped, report.told \in 0..17, report.told # 7, Gate(Check) = "run",
           NEW outcome \in Verdicts(Check) \cup Glitches
    PROVE  MayReport(outcome)
<1>1. Check \in Judged
  BY CheckAt
<1>2. Check # "lifecycle"
  BY CheckAt
<1>3. outcome \in Outcomes
  BY <1>1, VerdictsAre, GlitchesAre DEF Outcomes
<1>4. target \in Targets /\ lie \in Lies \cup {None}
  BY DEF SuiteTyped
<1>5. ASSUME Check = Teller, lie # None
      PROVE  outcome # "passed"
  <2>1. CASE outcome \in Glitches
    BY <2>1, GlitchesAre
  <2>2. CASE outcome \in Verdicts(Check)
    BY <1>2, <1>4, <1>5, <2>2, TellerTold
  <2> QED BY <2>1, <2>2
<1>6. ASSUME Honest, ~Skewed
      PROVE  outcome # "failed"
  <2>1. CASE outcome \in Glitches
    BY <2>1, GlitchesAre
  <2>2. CASE outcome \in Verdicts(Check)
    BY <1>1, <1>4, <1>6, <2>2, HonestVerdicts
  <2> QED BY <2>1, <2>2
<1> QED BY <1>3, <1>5, <1>6 DEF MayReport, Outcomes, None

\* A check judged keeps the invariant.
LEMMA JudgeStep ==
    ASSUME SuiteTyped, MayRun, RunInv, Judge
    PROVE  RunInv'
<1>1. report.told \in 0..17 /\ life.step = "off"
  BY RunsTo DEF Judge, SuiteTyped
<1>2. life' = life /\ held' = held /\ target' = target /\ lie' = lie
  BY DEF Judge
<1>3. PICK outcome : /\ Reported(outcome)
                     /\ outcome \in IF Gate(Check) # "run" THEN {Gate(Check)} ELSE Verdicts(Check) \cup Glitches
  BY DEF Judge
<1>4. Check # "lifecycle" \/ Gate(Check) # "run"
  BY DEF Judge
<1>5. MayReport(outcome) /\ (report.told = 7 => outcome \notin {"passed", "failed"})
  <2>1. CASE Gate(Check) # "run"
    <3>1. outcome = Gate(Check)
      BY <1>3, <2>1
    <3>2. Gate(Check) \in {"unsupported", "replay_only", "no_credentials", "run"}
      BY Gated
    <3> QED BY <1>1, <2>1, <3>1, <3>2, NotRun
  <2>2. CASE Gate(Check) = "run"
    <3>1. report.told # 7
      BY <1>1, <1>4, <2>2, CheckAt
    <3> QED BY <1>1, <1>3, <2>2, <3>1, JudgeMay
  <2> QED BY <2>1, <2>2
<1>6. /\ report'.lifecycle = None <=> report'.told < 8
      /\ FairInv' /\ TellingInv'
  BY <1>1, <1>2, <1>3, <1>5, Reporting
<1>7. /\ report'.told = report.told + 1
      /\ report.told = 7 => report'.lifecycle = outcome
      /\ report.told # 7 => report'.lifecycle = report.lifecycle
  BY <1>1, <1>3, ReportedIs
<1>8. /\ report.lifecycle = None <=> report.told < 8
      /\ report.told < 8 /\ life.step \in {"off", "buy"} => held = 0
      /\ SoldBack
  BY DEF RunInv, StageInv
<1>9. StageInv'
  BY <1>1, <1>2, <1>6, <1>7, <1>8 DEF StageInv
<1>10. SoldBack'
  <2>1. CASE report.told = 7
    <3>1. held = 0 /\ MinQty > 0
      BY <1>1, <1>8, <2>1, Amounts
    <3> QED BY <1>2, <1>5, <1>7, <2>1, <3>1 DEF SoldBack
  <2>2. CASE report.told # 7
    BY <1>2, <1>7, <1>8, <2>2 DEF SoldBack
  <2> QED BY <2>1, <2>2
<1> QED BY <1>6, <1>9, <1>10 DEF RunInv

\* A request signed within the window is answered.
LEMMA InWindowIs ==
    ASSUME MayRun, target \in Targets, ~Skewed, NEW answer
    PROVE  InWindow(Keys, answer) = answer
<1>1. target.drift \in Int /\ RecvWindow \in Int /\ Now \in Int
  BY SuiteAssumption
<1>2. \A clock \in Keys : Live => ~(clock > Now + RecvWindow)
  <2>1. \A clock \in Keys : clock = Now + target.drift
    BY KeysAre
  <2>2. Live => ~(target.drift > RecvWindow)
    BY DEF Skewed
  <2> QED BY <1>1, <2>1, <2>2
<1> QED BY <1>2 DEF InWindow

\* A step that reports nothing leaves the report fair and telling.
LEMMA Unreported ==
    ASSUME RunInv, report' = report, report.told < 8, target' = target, lie' = lie
    PROVE  /\ report'.lifecycle = None <=> report'.told < 8
           /\ FairInv' /\ TellingInv' /\ SoldBack'
<1>1. /\ report.lifecycle = None <=> report.told < 8
      /\ FairInv /\ TellingInv
  BY DEF RunInv, StageInv
<1>2. report'.lifecycle = None /\ None \notin {"failed", "passed"}
  BY <1>1 DEF None
<1>3. FairInv'
  BY <1>1, <1>2, Kept DEF FairInv
<1>4. TellingInv'
  <2>1. Caught' <=> Caught
    BY DEF Caught
  <2> QED BY <1>1, <2>1, Kept DEF TellingInv
<1>5. SoldBack'
  BY <1>2 DEF SoldBack
<1> QED BY <1>1, <1>3, <1>4, <1>5

\* The lifecycle runs only with a key.
LEMMA HasKeys ==
    ASSUME MayRun, SuiteTyped, LifecycleRuns
    PROVE  target.keys # {}
<1>1. Gate("lifecycle") = "run"
  BY InLifecycle
<1>2. "lifecycle" \in Signed
  BY DEF Signed
<1>3. Keys # {}
  BY <1>1, <1>2, Gated
<1> QED BY <1>3, KeysAre

\* An unexpected error is no pass.
LEMMA UnexpectedIs ==
    ASSUME NEW kind
    PROVE  Unexpected(kind) \in {"inconclusive", "failed"}
BY DEF Unexpected

\* The preparation is judged, and fails no honest connector in the window.
LEMMA PrepareVerdict ==
    ASSUME MayRun, SuiteTyped, NEW free, NEW outcome \in {"passed"} \cup Glitches, NEW read,
           read = AccountBalances(Keys, InWindow(Keys, Wrote("account", [quote |-> free]))),
           NEW verdict,
           verdict = FirstNot(<<outcome, Told(Sizable),
                                IF read.kind # "ok" THEN Unexpected(read.kind) ELSE "passed",
                                IF \E balances \in read.value : balances.quote < Spend THEN "inconclusive" ELSE "passed">>),
           Keys # {}
    PROVE  /\ verdict \in Outcomes
           /\ Honest /\ ~Skewed => verdict # "failed"
<1>1. PICK o3 : o3 = IF read.kind # "ok" THEN Unexpected(read.kind) ELSE "passed"
  OBVIOUS
<1>2. PICK o4 : o4 = IF \E balances \in read.value : balances.quote < Spend THEN "inconclusive" ELSE "passed"
  OBVIOUS
<1>3. PICK outcomes : outcomes = <<outcome, Told(Sizable), o3, o4>>
  OBVIOUS
<1>4. verdict = FirstNot(outcomes)
  BY <1>1, <1>2, <1>3
<1>5. DOMAIN outcomes = 1..4 /\ 4 \in Nat
  BY <1>3
<1>6. outcomes[1] = outcome /\ outcomes[2] = Told(Sizable) /\ outcomes[3] = o3 /\ outcomes[4] = o4
  BY <1>3
<1>7. \A i \in 1..4 : i = 1 \/ i = 2 \/ i = 3 \/ i = 4
  OBVIOUS
<1>8. verdict = "passed" \/ \E i \in 1..4 : verdict = outcomes[i]
  BY <1>4, <1>5, FirstIs
<1>9. outcome \in {"passed", "inconclusive"} /\ Told(Sizable) \in Outcomes /\ o3 \in Outcomes /\ o4 \in {"passed", "inconclusive"}
  BY <1>1, <1>2, GlitchesAre, UnexpectedIs DEF Told, Outcomes
<1>10. verdict \in Outcomes
  BY <1>6, <1>7, <1>8, <1>9 DEF Outcomes
<1>11. ASSUME Honest, ~Skewed
       PROVE  verdict # "failed"
  <2>1. Sizable
    BY <1>11, HonestIs, HonestRules DEF Lies
  <2>2. Told(Sizable) = "passed"
    BY <2>1 DEF Told
  <2>3. InWindow(Keys, Wrote("account", [quote |-> free])) = Wrote("account", [quote |-> free])
    BY <1>11, InWindowIs DEF SuiteTyped
  <2>4. PICK funds : funds = [quote |-> free]
    OBVIOUS
  <2>5. Typed(SendSigned(Keys, Wrote("account", funds)), "account") = [kind |-> "ok", value |-> {funds}]
    BY Read
  <2>6. read.kind = "ok"
    BY <2>3, <2>4, <2>5 DEF AccountBalances
  <2>7. o3 = "passed"
    BY <1>1, <2>6
  <2> QED BY <1>6, <1>7, <1>8, <1>9, <2>2, <2>7
<1> QED BY <1>10, <1>11

\* The preparation keeps the invariant.
LEMMA PrepareStep ==
    ASSUME SuiteTyped, MayRun, RunInv, Prepare
    PROVE  RunInv'
<1>1. report.told = 7 /\ life.step = "off" /\ target' = target /\ lie' = lie /\ held' = held /\ LifecycleRuns
  BY InLifecycle DEF Prepare
<1>2. target.keys # {} /\ Keys # {}
  BY <1>1, HasKeys, KeysAre
<1>3. /\ report.lifecycle = None <=> report.told < 8
      /\ report.told < 8 /\ life.step \in {"off", "buy"} => held = 0
  BY DEF RunInv, StageInv
<1>4. \E verdict : /\ verdict \in Outcomes /\ (Honest /\ ~Skewed => verdict # "failed")
                   /\ IF verdict = "passed" THEN life' = [life EXCEPT !.step = "buy"] /\ report' = report
                      ELSE Reported(verdict) /\ life' = life
  <2>1. PICK free \in Funds, outcome \in {"passed"} \cup Glitches :
          LET read == AccountBalances(Keys, InWindow(Keys, Wrote("account", [quote |-> free])))
              verdict == FirstNot(<<outcome, Told(Sizable),
                                    IF read.kind # "ok" THEN Unexpected(read.kind) ELSE "passed",
                                    IF \E balances \in read.value : balances.quote < Spend THEN "inconclusive" ELSE "passed">>)
          IN  IF verdict = "passed"
              THEN life' = [life EXCEPT !.step = "buy"] /\ report' = report
              ELSE Reported(verdict) /\ life' = life
    BY DEF Prepare
  <2>2. PICK read : read = AccountBalances(Keys, InWindow(Keys, Wrote("account", [quote |-> free])))
    OBVIOUS
  <2>3. PICK verdict :
           verdict = FirstNot(<<outcome, Told(Sizable),
                                IF read.kind # "ok" THEN Unexpected(read.kind) ELSE "passed",
                                IF \E balances \in read.value : balances.quote < Spend THEN "inconclusive" ELSE "passed">>)
    OBVIOUS
  <2>4. IF verdict = "passed" THEN life' = [life EXCEPT !.step = "buy"] /\ report' = report
        ELSE Reported(verdict) /\ life' = life
    BY <2>1, <2>2, <2>3
  <2>5. verdict \in Outcomes /\ (Honest /\ ~Skewed => verdict # "failed")
    BY <1>2, <2>2, <2>3, PrepareVerdict
  <2> QED BY <2>4, <2>5
<1>5. PICK verdict : /\ verdict \in Outcomes /\ (Honest /\ ~Skewed => verdict # "failed")
                     /\ IF verdict = "passed" THEN life' = [life EXCEPT !.step = "buy"] /\ report' = report
                        ELSE Reported(verdict) /\ life' = life
  BY <1>4
<1>6. CASE verdict = "passed"
  <2>1. life'.step = "buy" /\ report' = report
    BY <1>5, <1>6 DEF SuiteTyped, LifeFields
  <2>2. /\ report'.lifecycle = None <=> report'.told < 8
        /\ FairInv' /\ TellingInv' /\ SoldBack'
    BY <1>1, <2>1, Unreported
  <2>3. StageInv'
    BY <1>1, <1>2, <1>3, <2>1, <2>2 DEF StageInv
  <2> QED BY <2>2, <2>3 DEF RunInv
<1>7. CASE verdict # "passed"
  <2>1. Reported(verdict) /\ life' = life
    BY <1>5, <1>7
  <2>2. MayReport(verdict)
    BY <1>1, <1>5, <1>7 DEF MayReport, Outcomes, None
  <2>3. /\ report'.lifecycle = None <=> report'.told < 8
        /\ FairInv' /\ TellingInv'
    BY <1>1, <1>5, <2>1, <2>2, Reporting
  <2>4. report'.told = 8 /\ report'.lifecycle = verdict
    BY <1>1, <2>1, ReportedIs
  <2>5. StageInv'
    BY <1>1, <2>1, <2>3, <2>4 DEF StageInv
  <2>6. held' = 0 /\ MinQty > 0
    BY <1>1, <1>3, Amounts
  <2>7. SoldBack'
    BY <1>7, <2>4, <2>6 DEF SoldBack
  <2> QED BY <2>3, <2>5, <2>7 DEF RunInv
<1> QED BY <1>6, <1>7

\* A buy is executed in full unless the target is live.
LEMMA ExecutionIs ==
    ASSUME NEW executed \in Executions
    PROVE  executed \in Nat /\ (executed = Spend \/ Live)
BY Spent, Amounts DEF Executions

\* The buy keeps the invariant.
LEMMA BuyStep ==
    ASSUME SuiteTyped, MayRun, RunInv, Buy
    PROVE  RunInv'
<1>1. report.told = 7 /\ life.step = "buy" /\ target' = target /\ lie' = lie
  BY DEF Buy, SuiteTyped
<1>2. /\ report.lifecycle = None <=> report.told < 8
      /\ target.keys # {} /\ Keys # {}
  BY <1>1, KeysAre DEF RunInv, StageInv
<1>3. PICK executed \in Executions :
          /\ held' = MovedOf(executed)
          /\ \/ /\ life' = [life EXCEPT !.step = "inspect", !.order = {Order(executed)}, !.moved = MovedOf(executed)]
                /\ report' = report
             \/ \E glitch \in Glitches : Reported(glitch) /\ life' = [NoLife EXCEPT !.lost = TRUE]
  BY DEF Buy, Executions, MovedOf
<1>4. executed \in Nat /\ MovedOf(executed) \in Nat
  BY ExecutionIs, MovedIs
<1>5. PICK order : order = Order(executed)
  OBVIOUS
<1>6. CASE life' = [life EXCEPT !.step = "inspect", !.order = {Order(executed)}, !.moved = MovedOf(executed)]
           /\ report' = report
  <2>1. life'.step = "inspect" /\ life'.order = {order} /\ life'.moved = MovedOf(executed)
    BY <1>5, <1>6 DEF SuiteTyped, LifeFields
  <2>2. Placed(order, executed)
    BY <1>2, <1>4, <1>5, OrderIs
  <2>3. Placed(order, executed)'
    BY <1>1, <2>2, PlacedKept
  <2>4. Holding(order, executed)'
    BY <1>3, <2>1, <2>3 DEF Holding
  <2>5. executed \in Executions'
    BY <1>1, Kept
  <2>6. \E o \in life'.order, e \in Executions' : life'.order = {o} /\ Holding(o, e)'
    BY <2>1, <2>4, <2>5
  <2>7. /\ report'.lifecycle = None <=> report'.told < 8
        /\ FairInv' /\ TellingInv' /\ SoldBack'
    BY <1>1, <1>6, Unreported
  <2>8. StageInv'
    BY <1>1, <1>2, <2>1, <2>6, <2>7 DEF StageInv
  <2> QED BY <2>7, <2>8 DEF RunInv
<1>7. CASE \E glitch \in Glitches : Reported(glitch) /\ life' = [NoLife EXCEPT !.lost = TRUE]
  <2>1. Reported("inconclusive") /\ life' = [NoLife EXCEPT !.lost = TRUE]
    BY <1>7, GlitchesAre
  <2>2. life'.step = "off" /\ life'.lost = TRUE
    BY <2>1, NoLifeIs
  <2>3. MayReport("inconclusive")
    BY DEF MayReport, None
  <2>4. /\ report'.lifecycle = None <=> report'.told < 8
        /\ FairInv' /\ TellingInv'
    BY <1>1, <2>1, <2>3, Reporting
  <2>5. report'.told = 8 /\ report'.lifecycle = "inconclusive"
    BY <1>1, <2>1, ReportedIs
  <2>6. StageInv'
    BY <2>2, <2>4, <2>5 DEF StageInv
  <2>7. SoldBack'
    BY <2>2, <2>5 DEF SoldBack
  <2> QED BY <2>4, <2>6, <2>7 DEF RunInv
<1> QED BY <1>3, <1>6, <1>7

\* What the inspection finds of the order.
LEMMA InspectedOrder ==
    ASSUME SuiteTyped, MayRun, Keys # {}, NEW executed \in Executions,
           NEW order, Placed(order, executed),
           NEW lag, lag \in IF Live THEN Lags ELSE {0}, NEW moved, moved = MovedOf(executed),
           NEW verdict, verdict \in IF OnItsFace(order) # "passed" THEN {OnItsFace(order)}
                                    ELSE {ReadBack(order, moved, lag)} \cup Glitches
    PROVE  Inspected(verdict, executed)
<1>1. executed \in Nat /\ (executed = Spend \/ Live)
  BY ExecutionIs
<1>2. Faced(OnItsFace(order), executed)
  BY <1>1, FaceIs
<1>3. lag \in 0..(Polls - 1)
  BY Amounts
<1>4. CASE OnItsFace(order) # "passed"
  <2>1. verdict = OnItsFace(order)
    BY <1>4
  <2> QED BY <1>2, <1>4, <2>1 DEF Faced, Inspected
<1>5. CASE OnItsFace(order) = "passed"
  <2>1. /\ executed = Spend /\ lie \notin FaceLies
        /\ "client_ids" \in target.caps => lie # "other_client_id"
    BY <1>2, <1>5 DEF Faced
  <2>2. Passed(order, executed)
    BY <2>1 DEF Passed
  <2>3. CASE verdict \in Glitches
    BY <2>3, GlitchesAre DEF Inspected, Outcomes
  <2>4. CASE verdict = ReadBack(order, moved, lag)
    <3>1. /\ verdict \in Outcomes
          /\ Honest => verdict = "passed"
          /\ verdict = "passed" => lie \notin LaterLies
          /\ verdict = "passed" /\ "client_ids" \in target.caps => lie # "client_query_differs"
      BY <1>1, <1>3, <2>2, <2>4, ReadBackIs
    <3> QED BY <2>1, <3>1 DEF Inspected
  <2> QED BY <1>5, <2>3, <2>4
<1> QED BY <1>4, <1>5

\* The inspection keeps the invariant.
LEMMA InspectStep ==
    ASSUME SuiteTyped, MayRun, RunInv, Inspect
    PROVE  RunInv'
<1>1. report.told = 7 /\ life.step = "inspect" /\ target' = target /\ lie' = lie /\ report' = report /\ held' = held
  BY DEF Inspect, SuiteTyped
<1>2. target.keys # {} /\ Keys # {}
  BY <1>1, KeysAre DEF RunInv, StageInv
<1>3. PICK order \in life.order, executed \in Executions : life.order = {order} /\ Holding(order, executed)
  BY <1>1 DEF RunInv, StageInv
<1>4. Placed(order, executed) /\ life.moved = MovedOf(executed) /\ held = MovedOf(executed)
  BY <1>3 DEF Holding
<1>5. PICK o \in life.order, lag \in IF Live THEN Lags ELSE {0} :
          \E verdict \in IF OnItsFace(o) # "passed" THEN {OnItsFace(o)} ELSE {ReadBack(o, life.moved, lag)} \cup Glitches :
             life' = [life EXCEPT !.step = "sell", !.checked = verdict]
  BY DEF Inspect
<1>6. o = order
  BY <1>3, <1>5
<1>7. PICK verdict \in IF OnItsFace(order) # "passed" THEN {OnItsFace(order)} ELSE {ReadBack(order, life.moved, lag)} \cup Glitches :
             life' = [life EXCEPT !.step = "sell", !.checked = verdict]
  BY <1>5, <1>6
<1>8. life'.step = "sell" /\ life'.checked = verdict /\ life'.order = {order} /\ life'.moved = MovedOf(executed)
  BY <1>3, <1>4, <1>7 DEF SuiteTyped, LifeFields
<1>9. Inspected(verdict, executed)
  BY <1>2, <1>4, <1>7, InspectedOrder
<1>10. Placed(order, executed)' /\ Inspected(verdict, executed)'
  BY <1>1, <1>4, <1>9, PlacedKept
<1>11. Holding(order, executed)'
  BY <1>1, <1>4, <1>8, <1>10 DEF Holding
<1>12. executed \in Executions'
  BY <1>1, Kept
<1>13. \E p \in life'.order, e \in Executions' : life'.order = {p} /\ Holding(p, e)'
  BY <1>8, <1>11, <1>12
<1>14. /\ report'.lifecycle = None <=> report'.told < 8
       /\ FairInv' /\ TellingInv' /\ SoldBack'
  BY <1>1, Unreported
<1>15. StageInv'
  BY <1>1, <1>2, <1>8, <1>13, <1>14 DEF StageInv
<1> QED BY <1>14, <1>15 DEF RunInv

\* What rounding down to the step leaves.
LEMMA Rounded ==
    ASSUME NEW moved \in Nat, NEW rest, rest = moved - (moved % LotStep)
    PROVE  /\ rest \in Nat /\ rest <= moved /\ moved - rest \in Nat /\ moved - rest < LotStep
           /\ moved >= MinQty => rest >= MinQty
           /\ LotStep <= MinQty
<1>1. LotStep \in Nat \ {0} /\ MinQty \in Nat \ {0} /\ MinQty % LotStep = 0
  BY Amounts
<1>2. PICK q \in Int, r \in 0..(LotStep - 1) : moved = q * LotStep + r /\ r = moved % LotStep
  <2>1. /\ moved \div LotStep \in Int /\ moved % LotStep \in 0..(LotStep - 1)
        /\ moved = (moved \div LotStep) * LotStep + (moved % LotStep)
    BY <1>1
  <2> QED BY <2>1
<1>3. PICK m \in Int : MinQty = m * LotStep
  <2>1. /\ MinQty \div LotStep \in Int
        /\ MinQty = (MinQty \div LotStep) * LotStep + (MinQty % LotStep)
    BY <1>1
  <2>2. PICK m \in Int : m = MinQty \div LotStep
    BY <2>1
  <2>3. m * LotStep \in Int
    BY <1>1
  <2> QED BY <1>1, <2>1, <2>2, <2>3
<1>4. q * LotStep \in Int /\ m * LotStep \in Int
  BY <1>1
<1>5. rest = q * LotStep
  BY <1>2, <1>4, <1>1
<1>6. rest \in Int /\ rest <= moved /\ moved - rest = r /\ r \in Nat /\ r < LotStep
  BY <1>1, <1>2, <1>4, <1>5
<1>7. rest >= 0
  <2>1. 0 * LotStep < q * LotStep + LotStep
    BY <1>1, <1>5, <1>6
  <2>2. 0 <= q
    BY <1>1, <2>1, Apart
  <2>3. 0 * LotStep <= q * LotStep
    BY <1>1, <2>2, Apart
  <2> QED BY <1>1, <1>5, <2>3
<1>8. moved >= MinQty => rest >= MinQty
  <2>1. ASSUME moved >= MinQty
        PROVE  rest >= MinQty
    <3>1. m * LotStep < q * LotStep + LotStep
      BY <1>1, <1>3, <1>4, <1>5, <1>6, <2>1
    <3>2. m <= q
      BY <1>1, <3>1, Apart
    <3>3. m * LotStep <= q * LotStep
      BY <1>1, <3>2, Apart
    <3> QED BY <1>3, <1>4, <1>5, <3>3
  <2> QED BY <2>1
<1>9. LotStep <= MinQty
  <2>1. 0 * LotStep < m * LotStep /\ 0 * LotStep = 0
    BY <1>1, <1>3, <1>4
  <2>2. 0 < m
    <3>1. m <= 0 => m * LotStep <= 0 * LotStep
      BY <1>1, Apart
    <3> QED BY <2>1, <3>1, <1>4
  <2>3. 0 * LotStep + LotStep <= m * LotStep
    BY <1>1, <2>2, Apart
  <2> QED BY <1>1, <1>3, <1>4, <2>1, <2>3
<1> QED BY <1>6, <1>7, <1>8, <1>9

\* Of two verdicts both must pass, and a failed one fails both.
LEMMA BothIs ==
    ASSUME NEW first \in Outcomes, NEW then \in Outcomes
    PROVE  /\ Both(first, then) \in Outcomes
           /\ Both(first, then) = "passed" => first = "passed" /\ then = "passed"
           /\ Both(first, then) = "failed" => first = "failed" \/ then = "failed"
           /\ then = "failed" => Both(first, then) = "failed"
BY DEF Both, Outcomes

\* The lies the lifecycle tells are those of orders.
LEMMA LifecycleTells ==
    ASSUME lie \in Lies, Teller = "lifecycle"
    PROVE  /\ lie \in OrderLies
           /\ lie \in {"other_client_id", "client_query_differs"} => "client_ids" \in target.caps
<1>1. Tells(lie) # "lifecycle"
  BY TellsIs DEF ErrorChecks
<1>2. lie \notin CandleLies
  BY DEF Teller, CandleLies, ClockLies, RuleLies, RefusalLies
<1>3. lie \notin ClockLies \cup RuleLies
  BY DEF Teller, ClockLies, RuleLies, RefusalLies
<1>4. lie \notin RefusalLies
  BY <1>1 DEF Teller, ClockLies, RuleLies, RefusalLies
<1>5. lie \in {"other_client_id", "client_query_differs"} => "client_ids" \in target.caps
  BY DEF Teller, ClockLies, RuleLies, RefusalLies
<1> QED BY <1>2, <1>3, <1>4, <1>5 DEF Lies

\* What selling back comes to.
Sale(outcome) ==
    /\ Reported(outcome) /\ outcome \in Outcomes /\ life'.step = "off"
    /\ outcome = "passed" => life.checked = "passed" /\ lie # "sell_short" /\ held' < LotStep
    /\ Honest /\ outcome = "failed" => held' \in 1..(MinQty - 1)
    /\ Honest /\ ~life'.lost /\ ~life'.thin => held' < MinQty

\* A sale of what was inspected keeps the invariant.
LEMMA SaleStep ==
    ASSUME SuiteTyped, MayRun, RunInv,
           NEW outcome, Sale(outcome), report.told = 7, life.step = "sell",
           NEW executed, Inspected(life.checked, executed), target' = target, lie' = lie
    PROVE  RunInv'
<1>1. outcome # None
  BY DEF Sale, Outcomes, None
<1>2. ASSUME Check = Teller, lie # None
      PROVE  outcome # "passed"
  <2>1. SUFFICES ASSUME outcome = "passed" PROVE FALSE
    OBVIOUS
  <2>2. life.checked = "passed" /\ lie # "sell_short"
    BY <2>1 DEF Sale
  <2>3. /\ lie \notin FaceLies \cup LaterLies
        /\ "client_ids" \in target.caps => lie \notin {"other_client_id", "client_query_differs"}
    BY <2>2 DEF Inspected
  <2>4. Teller = "lifecycle"
    BY <1>2, CheckAt
  <2>5. lie \in Lies
    BY <1>2 DEF SuiteTyped
  <2>6. /\ lie \in OrderLies
        /\ lie \in {"other_client_id", "client_query_differs"} => "client_ids" \in target.caps
    BY <2>4, <2>5, LifecycleTells
  <2> QED BY <2>2, <2>3, <2>6 DEF OrderLies, FaceLies, LaterLies
<1>3. MayReport(outcome)
  BY <1>1, <1>2 DEF MayReport, Sale, Outcomes
<1>4. Reported(outcome) /\ (Honest /\ outcome = "failed" => held' \in 1..(MinQty - 1)) /\ life'.step = "off"
  BY DEF Sale
<1>5. /\ report'.lifecycle = None <=> report'.told < 8
      /\ FairInv' /\ TellingInv'
  BY <1>3, <1>4, Reporting
<1>6. report'.told = 8 /\ report'.lifecycle = outcome
  BY <1>4, ReportedIs
<1>7. StageInv'
  BY <1>4, <1>5, <1>6 DEF StageInv
<1>8. SoldBack'
  BY <1>6 DEF SoldBack, Sale, Honest
<1> QED BY <1>5, <1>7, <1>8 DEF RunInv

\* A buy that expired is no pass, and on a live target no failure.
LEMMA ExpiredIs ==
    Filled("EXPIRED") \in {"failed", "inconclusive"} /\ (Live => Filled("EXPIRED") = "inconclusive")
BY DEF Filled

\* What a sale that was judged unsound before comes to.
LEMMA AnySale ==
    ASSUME NEW checked \in Outcomes, checked = life.checked, SellBack
    PROVE  \E then \in Outcomes : Reported(Both(checked, then)) /\ life'.step = "off"
<1>1. PICK qty : \/ Closed("passed") \/ Closed("failed")
                 \/ \E sold : Selling(Max(qty), sold)
  BY SellBackIs
<1>2. CASE Closed("passed") \/ Closed("failed")
  <2>1. life'.step = "off"
    <3>1. life' = [NoLife EXCEPT !.lost = life.lost, !.thin = life.thin]
      BY <1>2 DEF Closed
    <3> QED BY <3>1, NoLifeIs
  <2> QED BY <1>2, <2>1 DEF Closed, Outcomes
<1>3. CASE \E sold : Selling(Max(qty), sold)
  <2>1. PICK sold : Selling(Max(qty), sold)
    BY <1>3
  <2>2. PICK then : then = IF sold = Max(qty) THEN Told(lie # "sell_short") ELSE Filled("EXPIRED")
    OBVIOUS
  <2>3. then \in Outcomes
    BY <2>2, ExpiredIs DEF Told, Outcomes
  <2>4. \/ Reported(Both(checked, then)) /\ life' = [NoLife EXCEPT !.thin = sold # Max(qty)]
        \/ \E glitch \in Glitches : Reported(Both(checked, glitch)) /\ life' = [NoLife EXCEPT !.lost = TRUE]
    BY <2>1, <2>2 DEF Selling
  <2>5. life'.step = "off"
    BY <2>4, NoLifeIs
  <2>6. Glitches \subseteq Outcomes
    BY GlitchesAre DEF Outcomes
  <2> QED BY <2>3, <2>4, <2>5, <2>6
<1> QED BY <1>1, <1>2, <1>3

\* Where the order told its net, what is held is sold, to the step: a failure leaves
\* less than the least quantity.
LEMMA SoundSale ==
    ASSUME SuiteTyped, MayRun, NEW executed \in Executions,
           NEW order, life.order = {order}, Holding(order, executed),
           life.step = "sell", Inspected(life.checked, executed),
           Honest \/ life.checked = "passed", SellBack
    PROVE  \E outcome : Sale(outcome)
<1>1. PICK checked \in Outcomes : checked = life.checked
  BY DEF Inspected
<1>2. executed \in Nat
  BY ExecutionIs
<1>3. PICK moved \in Nat : moved = MovedOf(executed)
  BY <1>2, MovedIs
<1>4. held = moved /\ Placed(order, executed)
  BY <1>3 DEF Holding
<1>5. checked = "passed" => moved >= MinQty
  BY <1>1, <1>2, <1>3, MovedIs DEF Inspected
<1>6. Honest => checked # "failed"
  BY <1>1 DEF Inspected
<1>7. lie \notin {"no_executed", "no_fills", "fee_hidden"}
  BY DEF Honest, None, Inspected, FaceLies, LaterLies
<1>8. Net(order) = {moved}
  BY <1>2, <1>3, <1>4, <1>7, NetIs
<1>9. PICK rest \in Nat : rest = moved - (moved % LotStep)
  <2>1. LotStep \in Nat \ {0}
    BY Amounts
  <2>2. PICK rest : rest = moved - (moved % LotStep)
    OBVIOUS
  <2> QED BY <2>2, Rounded
<1>10. /\ rest <= moved /\ moved - rest \in Nat /\ moved - rest < LotStep
       /\ moved >= MinQty => rest >= MinQty
       /\ LotStep <= MinQty
  BY <1>9, Rounded
<1>11. SellQty(order) = {rest}
  BY <1>8, <1>9 DEF SellQty
<1>12. LotStep \in Nat \ {0} /\ MinQty \in Nat \ {0}
  BY Amounts
<1>13. Honest => EffectiveMin(Rules) = {MinQty}
  BY HonestIs, HonestRules DEF Lies
<1>14. PICK qty : /\ qty = {q \in {rest} : q > 0}
                  /\ \/ qty = {} /\ Closed("passed") /\ held' = held
                     \/ qty # {} /\ Unsellable(Max(qty)) /\ Closed("failed") /\ held' = held
                     \/ qty # {} /\ ~Unsellable(Max(qty)) /\ \E sold \in {Max(qty)} \cup (IF Live THEN {0} ELSE {}) :
                                                                 Selling(Max(qty), sold)
  <2>1. PICK o \in life.order : \E qty : qty = {q \in SellQty(o) : q > 0} /\
                     \/ qty = {} /\ Closed("passed") /\ held' = held
                     \/ qty # {} /\ Unsellable(Max(qty)) /\ Closed("failed") /\ held' = held
                     \/ qty # {} /\ ~Unsellable(Max(qty)) /\ \E sold \in {Max(qty)} \cup (IF Live THEN {0} ELSE {}) :
                                                                 Selling(Max(qty), sold)
    BY SellBackIs
  <2>2. SellQty(o) = {rest}
    BY <1>11, <2>1
  <2> QED BY <2>1, <2>2
<1>15. qty # {} => qty = {rest} /\ rest > 0 /\ Max(qty) = rest
  <2>1. rest \in Int
    OBVIOUS
  <2>2. Max({rest}) = rest
    BY <2>1, Extremes
  <2>3. qty # {} => qty = {rest} /\ rest > 0
    BY <1>14
  <2> QED BY <2>2, <2>3
<1>16. qty = {} => rest = 0
  BY <1>14
<1>17. {"passed", "failed", "inconclusive"} = Outcomes
  BY DEF Outcomes
<1>18. CASE qty = {} /\ Closed("passed") /\ held' = held
  <2>1. PICK outcome : outcome = Both(checked, "passed")
    OBVIOUS
  <2>2. Reported(outcome) /\ life'.step = "off"
    BY <1>1, <1>18, <2>1, NoLifeIs DEF Closed
  <2>3. moved < MinQty
    BY <1>10, <1>12, <1>16, <1>18
  <2>4. checked # "passed"
    BY <1>5, <1>12, <2>3
  <2>5. /\ outcome \in Outcomes
        /\ outcome = "passed" => checked = "passed"
        /\ outcome = "failed" => checked = "failed"
    BY <1>17, <2>1, BothIs
  <2>6. held' < MinQty
    BY <1>4, <1>18, <2>3
  <2>7. Sale(outcome)
    BY <1>6, <2>2, <2>4, <2>5, <2>6 DEF Sale
  <2> QED BY <2>7
<1>19. CASE qty # {} /\ Unsellable(Max(qty)) /\ Closed("failed") /\ held' = held
  <2>1. PICK outcome : outcome = Both(checked, "failed")
    OBVIOUS
  <2>2. Reported(outcome) /\ life'.step = "off"
    BY <1>1, <1>19, <2>1, NoLifeIs DEF Closed
  <2>3. outcome = "failed"
    BY <1>17, <2>1, BothIs
  <2>4. Unsellable(rest) /\ rest > 0
    BY <1>15, <1>19
  <2>5. Honest => rest < MinQty
    BY <1>4, <1>10, <1>12, <1>13, <2>4 DEF Unsellable
  <2>6. Honest => moved \in 1..(MinQty - 1)
    BY <1>10, <1>12, <2>4, <2>5
  <2>7. held' = moved
    BY <1>4, <1>19
  <2>8. Honest => held' \in 1..(MinQty - 1) /\ held' < MinQty
    BY <1>12, <2>6, <2>7
  <2>9. Sale(outcome)
    BY <2>2, <2>3, <2>8, <1>17 DEF Sale
  <2> QED BY <2>9
<1>20. CASE qty # {} /\ \E sold \in {Max(qty)} \cup (IF Live THEN {0} ELSE {}) : Selling(Max(qty), sold)
  <2>1. PICK sold \in {rest} \cup (IF Live THEN {0} ELSE {}) : Selling(rest, sold)
    BY <1>15, <1>20
  <2>2. rest > 0 /\ held' = held - sold
    BY <1>15, <1>20, <2>1 DEF Selling
  <2>3. sold = rest \/ (sold = 0 /\ sold # rest /\ Live)
    BY <2>1, <2>2
  <2>4. sold = rest => held' = moved - rest /\ held' < LotStep /\ held' < MinQty
    BY <1>4, <1>10, <1>12, <2>2
  <2>5. PICK then : then = IF sold = rest THEN Told(lie # "sell_short") ELSE Filled("EXPIRED")
    OBVIOUS
  <2>6. then \in Outcomes
    BY <2>5, ExpiredIs DEF Told, Outcomes
  <2>7. then = "passed" => sold = rest /\ lie # "sell_short"
    BY <2>5, ExpiredIs DEF Told
  <2>8. Honest => then # "failed"
    BY <2>3, <2>5, ExpiredIs DEF Told, Honest, None
  <2>9. CASE Reported(Both(checked, then)) /\ life' = [NoLife EXCEPT !.thin = sold # rest]
    <3>1. PICK outcome : outcome = Both(checked, then)
      OBVIOUS
    <3>2. /\ outcome \in Outcomes
          /\ outcome = "passed" => checked = "passed" /\ then = "passed"
          /\ outcome = "failed" => checked = "failed" \/ then = "failed"
      BY <2>6, <3>1, BothIs
    <3>3. life'.step = "off" /\ life'.thin = (sold # rest)
      BY <2>9, NoLifeIs
    <3>4. ~life'.thin => held' < MinQty
      BY <2>4, <3>3
    <3>5. outcome = "passed" => life.checked = "passed" /\ lie # "sell_short" /\ held' < LotStep
      BY <1>1, <2>4, <2>7, <3>2
    <3>6. Honest => outcome # "failed"
      BY <1>6, <2>8, <3>2
    <3>7. Reported(outcome)
      BY <2>9, <3>1
    <3>8. Sale(outcome)
      BY <3>2, <3>3, <3>4, <3>5, <3>6, <3>7 DEF Sale
    <3> QED BY <3>8
  <2>10. CASE \E glitch \in Glitches : Reported(Both(checked, glitch)) /\ life' = [NoLife EXCEPT !.lost = TRUE]
    <3>1. PICK outcome : outcome = Both(checked, "inconclusive")
      OBVIOUS
    <3>2. /\ outcome \in Outcomes
          /\ outcome # "passed"
          /\ outcome = "failed" => checked = "failed"
      BY <1>17, <3>1, BothIs
    <3>3. Reported(outcome) /\ life' = [NoLife EXCEPT !.lost = TRUE]
      BY <2>10, <3>1, GlitchesAre
    <3>4. life'.step = "off" /\ life'.lost
      BY <3>3, NoLifeIs
    <3>5. Sale(outcome)
      BY <1>6, <3>2, <3>3, <3>4 DEF Sale
    <3> QED BY <3>5
  <2>11. \/ Reported(Both(checked, then)) /\ life' = [NoLife EXCEPT !.thin = sold # rest]
         \/ \E glitch \in Glitches : Reported(Both(checked, glitch)) /\ life' = [NoLife EXCEPT !.lost = TRUE]
    BY <1>1, <2>1, <2>5 DEF Selling
  <2> QED BY <2>9, <2>10, <2>11
<1> QED BY <1>14, <1>18, <1>19, <1>20

\* The sale keeps the invariant.
LEMMA SellBackStep ==
    ASSUME SuiteTyped, MayRun, RunInv, SellBack
    PROVE  RunInv'
<1>1. life.step = "sell" /\ target' = target /\ lie' = lie /\ report.told = 7
  BY SellBackIs DEF SuiteTyped
<1>2. PICK order \in life.order, executed \in Executions : life.order = {order} /\ Holding(order, executed)
  BY <1>1 DEF RunInv, StageInv
<1>3. Inspected(life.checked, executed)
  BY <1>1, <1>2 DEF Holding
<1>4. CASE Honest \/ life.checked = "passed"
  <2>1. PICK outcome : Sale(outcome)
    BY <1>1, <1>2, <1>3, <1>4, SoundSale
  <2> QED BY <1>1, <1>3, <2>1, SaleStep
<1>5. CASE ~Honest /\ life.checked # "passed"
  <2>1. PICK checked \in Outcomes : checked = life.checked
    BY <1>3 DEF Inspected
  <2>2. PICK then \in Outcomes : Reported(Both(checked, then)) /\ life'.step = "off"
    BY <2>1, AnySale
  <2>3. Both(checked, then) \in Outcomes /\ Both(checked, then) # "passed"
    BY <1>5, <2>1, <2>2, BothIs
  <2>4. Sale(Both(checked, then))
    BY <1>5, <2>2, <2>3 DEF Sale
  <2> QED BY <1>1, <1>3, <2>4, SaleStep
<1> QED BY <1>4, <1>5

-----------------------------------------------------------------------------

\* The invariant is inductive.
LEMMA SuiteStep ==
    ASSUME SuiteInv, [SuiteNext]_suiteVars
    PROVE  SuiteInv'
<1>1. SuiteTyped /\ (MayRun => RunInv)
  BY DEF SuiteInv, RunInv
<1>2. CASE SuiteNext
  <2>1. SuiteTyped'
    BY <1>1, <1>2, TypedStep
  <2>2. target' = target /\ lie' = lie
    BY <1>2, SellBackIs DEF SuiteNext, Judge, Prepare, Buy, Inspect
  <2>3. ASSUME MayRun
        PROVE  RunInv'
    BY <1>1, <1>2, <2>3, JudgeStep, PrepareStep, BuyStep, InspectStep, SellBackStep DEF SuiteNext
  <2> QED BY <2>1, <2>2, <2>3, Kept DEF SuiteInv, RunInv
<1>3. CASE UNCHANGED suiteVars
  <2>1. target' = target /\ lie' = lie /\ report' = report /\ life' = life /\ held' = held
    BY <1>3 DEF suiteVars
  <2>2. SuiteTyped'
    BY <1>1, <2>1 DEF SuiteTyped
  <2>3. ASSUME MayRun
        PROVE  RunInv'
    <3>1. StageInv /\ FairInv /\ TellingInv /\ SoldBack
      BY <1>1, <2>3 DEF RunInv
    <3>2. FairInv'
      BY <2>1, <3>1, Kept DEF FairInv
    <3>3. TellingInv'
      BY <2>1, <3>1, Kept DEF TellingInv, Caught
    <3>4. SoldBack'
      BY <2>1, <3>1 DEF SoldBack
    <3>5. StageInv'
      <4>1. life.step \in {"inspect", "sell"} =>
               \E order \in life'.order, executed \in Executions' : life'.order = {order} /\ Holding(order, executed)'
        <5>1. SUFFICES ASSUME life.step \in {"inspect", "sell"}
                       PROVE  \E order \in life'.order, executed \in Executions' :
                                 life'.order = {order} /\ Holding(order, executed)'
          OBVIOUS
        <5>2. PICK order \in life.order, executed \in Executions : life.order = {order} /\ Holding(order, executed)
          BY <3>1, <5>1 DEF StageInv
        <5>3. Holding(order, executed)'
          BY <2>1, <5>2, PlacedKept DEF Holding
        <5> QED BY <2>1, <5>2, <5>3, Kept
      <4> QED BY <2>1, <3>1, <4>1 DEF StageInv
    <3> QED BY <3>2, <3>3, <3>4, <3>5 DEF RunInv
  <2> QED BY <2>1, <2>2, <2>3, Kept DEF SuiteInv, RunInv
<1> QED BY <1>2, <1>3

\* The suite starts with the invariant.
LEMMA SuiteStarts ==
    ASSUME SuiteInit
    PROVE  SuiteInv
<1>1. /\ report.told = 0 /\ report.outcomes = {} /\ report.lifecycle = None
      /\ DOMAIN report = {"told", "outcomes", "lifecycle"}
  BY DEF SuiteInit, NoReport
<1>2. life.step = "off" /\ DOMAIN life = LifeFields /\ held = 0
  BY NoLifeIs DEF SuiteInit
<1>3. SuiteTyped
  BY <1>1, <1>2 DEF SuiteInit, SuiteTyped, Steps
<1>4. StageInv /\ FairInv /\ TellingInv /\ SoldBack
  BY <1>1, <1>2 DEF StageInv, FairInv, TellingInv, SoldBack, None
<1> QED BY <1>3, <1>4 DEF SuiteInv

\* The invariant at the end of a run is JudgedRight.
LEMMA SuiteJudges ==
    ASSUME SuiteInv
    PROVE  JudgedRight
<1>1. SUFFICES ASSUME MayRun
               PROVE  HonestNotBlamed /\ LiarCaught /\ SoldBack
  BY DEF JudgedRight
<1>2. SuiteTyped /\ StageInv /\ FairInv /\ TellingInv /\ SoldBack
  BY <1>1 DEF SuiteInv
<1>3. HonestNotBlamed
  BY <1>2 DEF FairInv, HonestNotBlamed, Honest
<1>4. LiarCaught
  <2>1. SUFFICES ASSUME ~Running, lie # None, ~(Live /\ \E c \in Scripted : lie \in Range(Refusals(c)))
                 PROVE  ~(report.outcomes \cup {report.lifecycle} \subseteq {"passed", "replay_only"})
    BY DEF LiarCaught
  <2>2. report.told = 18
    BY <1>2, <2>1, RunsTo DEF SuiteTyped
  <2>3. PICK p \in 1..18 : CheckOrder[p] = Teller
    BY TellerIs DEF CheckOrder, Judged, MarketChecks, ErrorChecks
  <2>4. ~Exempt
    <3>1. SUFFICES ASSUME Exempt PROVE FALSE
      OBVIOUS
    <3>2. Live /\ lie \in RefusalLies /\ Tells(lie) \in Scripted
      BY <3>1 DEF Exempt
    <3>3. lie # "unlisted_rules"
      BY <3>2 DEF Tells, Scripted
    <3>4. \E i \in DOMAIN Refusals(Tells(lie)) : Refusals(Tells(lie))[i] = lie
      BY <3>2, <3>3, IsAsked
    <3>5. lie \in Range(Refusals(Tells(lie)))
      BY <3>4 DEF Range
    <3> QED BY <2>1, <3>2, <3>5
  <2>5. Caught
    BY <1>2, <2>1, <2>2, <2>3, <2>4 DEF TellingInv
  <2>6. report.lifecycle # None
    BY <1>2, <2>2 DEF StageInv
  <2> QED BY <2>5, <2>6 DEF Caught
<1> QED BY <1>2, <1>3, <1>4

\* Whatever the target, the lie and the order of events, a suite that may run
\* fails no check of an honest connector whose clock is in the window, but for a
\* sale that left less than the least quantity; once it has run through it has
\* not passed a connector that lies; and the lifecycle sells back what it bought
\* (JudgedRight: HonestNotBlamed, LiarCaught, SoldBack).
THEOREM JudgedRightAlways ==
    SuiteSpec => []JudgedRight
<1>1. SuiteInit => SuiteInv
  BY SuiteStarts
<1>2. SuiteInv /\ [SuiteNext]_suiteVars => SuiteInv'
  BY SuiteStep
<1>3. SuiteInv => JudgedRight
  BY SuiteJudges
<1> QED BY <1>1, <1>2, <1>3, PTL DEF SuiteSpec
=============================================================================
