--------------------------- MODULE FuturesUnits ----------------------------
(* The checked values of a futures account: quantities in a family's unit,  *)
(* instruments (model/futures/instrument.rs), the orders and stops built    *)
(* from them (order.rs, stop.rs), and a closed cycle's realized PnL         *)
(* (accounting.rs).  A constructor is the set of what it returns: one value, *)
(* or none where the code returns an error.  Amounts are integers, in       *)
(* halves of a unit, so that a contract count may fail to be whole; texts   *)
(* and rounding are left out.                                               *)
EXTENDS FuturesIdentity

Sides == {"long", "short"}
Opposite(side) == IF side = "long" THEN "short" ELSE "long"

-----------------------------------------------------------------------------
(* Quantities.                                                              *)

UnitOf(category) == IF category = "inverse" THEN "contracts" ELSE "base"

IsWhole(value) == value % 2 = 0

(* Quantity::for_category: never negative, and a count of whole contracts.  *)
ForCategory(category, value) ==
    {quantity \in {[unit |-> UnitOf(category), value |-> value]} :
        /\ quantity.value >= 0
        /\ quantity.unit = "contracts" => IsWhole(quantity.value)}

InUnitOf(quantity, category) == quantity.unit = UnitOf(category)

-----------------------------------------------------------------------------
(* Instruments.                                                             *)

Quantities == [unit : {"base", "contracts"}, value : Nat]

(* InstrumentSpec: what an adapter read, not yet checked.                   *)
InstrumentSpec ==
    [venue : Venues, category : Categories, base : STRING, quote : STRING, settle : STRING,
     contract : {"perpetual", "tradfi", "dated"}, status : {"trading", "closed"},
     hasFaceValue : BOOLEAN, step : Quantities, minQty : Quantities, maxQty : Quantities,
     notionalIn : STRING, leverage : SUBSET [min : Nat, max : Nat, step : Int]]

Rules(spec) == {spec.step, spec.minQty, spec.maxQty}

(* FuturesInstrument::try_from.                                             *)
IsConsistent(spec) ==
    /\ IsFutures(spec.category)
    /\ (spec.category = "inverse") = spec.hasFaceValue
    /\ spec.category = "inverse" => spec.settle = spec.base
    /\ \A quantity \in Rules(spec) : InUnitOf(quantity, spec.category)
    /\ spec.step.value > 0
    /\ spec.minQty.value <= spec.maxQty.value
    /\ spec.notionalIn \in {"none", spec.quote}
    /\ \A leverage \in spec.leverage : leverage.min <= leverage.max /\ leverage.step > 0

(* Universe rule 1.                                                         *)
InUniverse(spec) ==
    /\ spec.contract = "perpetual"
    /\ spec.status = "trading"
    /\ spec.category = "linear" => spec.settle = "USDT"

-----------------------------------------------------------------------------
(* Orders and stops.                                                        *)

IsPositive(quantity) == quantity.value > 0

(* EntryOrder::new: the only order that opens exposure.                     *)
EntryOrder(spec, side, quantity, leg) ==
    {order \in {[side |-> side, quantity |-> quantity]} :
        /\ InUniverse(spec)
        /\ InUnitOf(quantity, spec.category)
        /\ IsPositive(quantity)
        /\ leg = "entry"}

\* Mutant: a close is held to the universe as an entry is.
CloseOrderInUniverse(spec, closes, quantity, leg) ==
    {order \in {[closes |-> closes, quantity |-> quantity]} :
        /\ InUniverse(spec)
        /\ InUnitOf(quantity, spec.category)
        /\ IsPositive(quantity)
        /\ leg = "close"}

(* CloseOrder::new: reduce-only, and not held to the universe.              *)
CloseOrder(spec, closes, quantity, leg) ==
    {order \in {[closes |-> closes, quantity |-> quantity]} :
        /\ InUnitOf(quantity, spec.category)
        /\ IsPositive(quantity)
        /\ leg = "close"}

WholePosition == [unit |-> "whole", value |-> 0]

(* StopRequest::new: a whole-position stop, or a bridge's fixed quantity.   *)
StopRequest(spec, side, terms, basis, scope, leg) ==
    {stop \in {[instrument |-> "own", side |-> side, terms |-> terms, basis |-> basis,
                scope |-> scope, status |-> "active"]} :
        IF scope = WholePosition
          THEN leg = "stop"
          ELSE InUnitOf(scope, spec.category) /\ IsPositive(scope) /\ leg = "bridge"}

-----------------------------------------------------------------------------
(* Realized PnL.  Money is an amount and its asset; Pending stands for a    *)
(* figure the venue has not reported.  Where a figure comes from is left    *)
(* out.                                                                     *)

Money(amount, asset) == [amount |-> amount, asset |-> asset]
Pending == Money(0, "pending")

Figures(pnl) == {pnl.gross, pnl.fees, pnl.funding, pnl.net}
Known(pnl) == Figures(pnl) \ {Pending}
IsComplete(pnl) == Pending \notin Figures(pnl)

Agree(pnl) == pnl.net.amount = pnl.gross.amount - pnl.fees.amount + pnl.funding.amount

(* RealizedPnl::checked: one asset, no fee of it set apart, figures that    *)
(* agree, and nothing pending once final.                                   *)
Checked(parts) ==
    {pnl \in {parts} :
        /\ \A figure \in Known(pnl) : figure.asset = pnl.settle
        /\ \A fee \in pnl.otherFees : fee.asset # pnl.settle
        /\ IsComplete(pnl) => Agree(pnl)
        /\ pnl.status = "final" => IsComplete(pnl)}

Provisional(settle, gross, fees, funding, net, otherFees) ==
    Checked([settle |-> settle, gross |-> gross, fees |-> fees, funding |-> funding,
             net |-> net, otherFees |-> otherFees, status |-> "provisional"])

\* checked_add and checked_sub: never of two assets.
AmountIn(figures, amount) ==
    {figure \in {Money(amount, f.asset) : f \in figures} :
        \A f \in figures : f.asset = figure.asset}

(* From the components: the net follows once all three are known.           *)
FromComponents(settle, gross, fees, funding, otherFees) ==
    UNION {Provisional(settle, gross, fees, funding, net, otherFees) : net \in
        IF Pending \in {gross, fees, funding}
          THEN {Pending}
          ELSE AmountIn({gross, fees, funding}, gross.amount - fees.amount + funding.amount)}

(* From a summary that is already net: never added to its own components.   *)
FromNet(settle, net, fees, funding, otherFees) ==
    UNION {Provisional(settle, gross, fees, funding, net, otherFees) : gross \in
        IF Pending \in {fees, funding}
          THEN {Pending}
          ELSE AmountIn({net, fees, funding}, net.amount + fees.amount - funding.amount)}

\* Mutant: final as soon as the net is known.
FinalizeByNet(pnl) ==
    {final \in {[pnl EXCEPT !.status = "final"]} : pnl.net # Pending}

Finalize(pnl) ==
    {final \in {[pnl EXCEPT !.status = "final"]} : IsComplete(pnl)}
=============================================================================
