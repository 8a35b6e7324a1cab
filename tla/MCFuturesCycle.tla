--------------------------- MODULE MCFuturesCycle ---------------------------
EXTENDS FuturesCycle

Base(n) == [unit |-> "base", value |-> n]
Contracts(n) == [unit |-> "contracts", value |-> n]

Linear == [venue |-> "bybit", category |-> "linear", contract |-> "perpetual", settle |-> "USDT", base |-> "BTC",
           quote |-> "USDT", hasFaceValue |-> FALSE, status |-> "trading",
           step |-> Base(1), minQty |-> Base(1), maxQty |-> Base(4), notionalIn |-> "USDT",
           leverage |-> {[min |-> 2, max |-> 20, step |-> 1]}]
Inverse == [Linear EXCEPT !.category = "inverse", !.settle = "BTC", !.quote = "USD",
                          !.hasFaceValue = TRUE, !.step = Contracts(2), !.minQty = Contracts(2),
                          !.maxQty = Contracts(4), !.notionalIn = "none"]

\* An inverse perpetual; one outside the universe, one of another venue, and metadata at odds with itself.
MCListed ==
    {Inverse, [Inverse EXCEPT !.settle = "USDT"], [Linear EXCEPT !.settle = "USDC"],
     [Linear EXCEPT !.venue = "binance"],
     [Linear EXCEPT !.leverage = {[min |-> 2, max |-> 1, step |-> 1]}]}
MCAccount == [venue |-> "bybit"]

\* A part of the position on the index price, a stop the venue does not report the basis of, and
\* QuantForge's own moved to the last price, which as the operator's is as good as any.  A position
\* that is reversed has them all on the wrong side.
MCByHand ==
    {[side |-> "long", terms |-> "other", basis |-> "index", whole |-> FALSE],
     [side |-> "long", terms |-> "other", basis |-> "unreported", whole |-> TRUE],
     [side |-> "long", terms |-> "new", basis |-> "last", whole |-> TRUE]}
=============================================================================
