-------------------------- MODULE ExchangeRegistry --------------------------
(* The connector registry: from a product line to its connectors.  Only a   *)
(* line whose adapter exists can be built, and the connectors that sign     *)
(* exist only where credentials were given.  An absent value is {}, a       *)
(* present one {v}.                                                         *)
EXTENDS BinanceAdapter

\* ExchangeId: what one venue sells of one product family.
Lines == [venue : {"binance", "bybit"}, category : {"spot", "linear", "inverse"}]
BinanceSpot == [venue |-> "binance", category |-> "spot"]

\* Every other line waits for its adapter.
Registered == {BinanceSpot}

(* lookup: operators name a venue, and get its Spot line if there is one.   *)
Lookup(name) == {line \in Registered : line.category = "spot" /\ line.venue = name}

\* The signed half of an exchange's connectors: both of them, or nothing.
SignedHalf(connectors) == {c \in connectors.trading : c \in connectors.account}

(* connect: what the line's factory builds, or nothing where there is none. *)
Connect(line, config) == {BuildConnectors(config) : registered \in {line} \cap Registered}
=============================================================================
