---------------------------- MODULE FuturesCycle ----------------------------
(* One owned position cycle as the store records it                         *)
(* (model/futures/position.rs, protection_state.rs, coverage.rs), beside the *)
(* venue it is about: the account's position, QuantForge's stop and the     *)
(* operator's, and an operator who trades and moves stops by hand.  The     *)
(* record only learns of the venue from reads, which may be old when they   *)
(* are used, and which may be of another instrument.                        *)
EXTENDS FuturesUnits

CONSTANTS Account,          \* the account, of one venue
          Listed,           \* the instruments that may be listed
          MaxSize,          \* bound: units of position and of entry
          EntrySides,       \* the sides entered
          Terms,            \* a stop's price and price protection
          ByHand,           \* the stops the operator places
          Reasons           \* the close reasons used


VARIABLES spec,             \* the instrument traded
          held,             \* the account's position: positive when long
          working,          \* the entry's side and unfilled units
          stop,             \* the stop at the venue, QuantForge's or the operator's
          cycle,            \* the record
          snapshot,         \* the last position read, and when
          readback,         \* the last stop read
          later,            \* what has happened at the venue since those reads
          filled,           \* the entry has had a fill
          gone,             \* since then the position has been gone
          charged           \* the fees the venue charged

cycleVenue == <<spec, held, working, stop, filled, gone>>
reads == <<snapshot, readback, later>>
cycleVars == <<cycleVenue, cycle, reads, charged>>

Owners == {"ours", "operator"}
Abs(n) == IF n < 0 THEN -n ELSE n
SideOf(n) == IF n > 0 THEN "long" ELSE IF n < 0 THEN "short" ELSE "flat"
Units(n) == CHOOSE q \in ForCategory(spec.category, 2 * Abs(n)) : TRUE

-----------------------------------------------------------------------------
(* The record's pure parts.                                                 *)

ProtectionStates ==
    {"protection_pending", "protected", "protected_by_operator", "protection_unknown",
     "unprotected", "unprotected_by_operator", "closing", "closed"}

PROTECTION_TRANSITIONS ==
    ({"protection_pending"} \X (ProtectionStates \ {"protection_pending", "unprotected_by_operator"}))
    \cup ({"protected"} \X (ProtectionStates \ {"protected"}))
    \cup ({"protected_by_operator"} \X {"protection_pending", "protection_unknown",
                                        "unprotected_by_operator", "closing", "closed"})
    \cup ({"protection_unknown"} \X (ProtectionStates \ {"protection_unknown"}))
    \cup ({"unprotected"} \X {"protection_pending", "protected", "closing", "closed"})
    \cup ({"unprotected_by_operator"} \X {"protected_by_operator", "closing", "closed"})
    \cup ({"closing"} \X {"protected", "protection_unknown", "unprotected", "closed"})

NeedsEvidence == {"protected", "protected_by_operator", "unprotected_by_operator", "closed"}
ByEvidence == [ours |-> "protected", operator |-> "protected_by_operator"]

\* Mutant: any active stop on the side covers the position.
CoversAnySize(shown, position) ==
    /\ shown.instrument = position.instrument
    /\ position.held # 0
    /\ shown.side = SideOf(position.held)
    /\ shown.status = "active"
    /\ shown.basis # "unreported"

Covers(shown, position) ==
    /\ shown.instrument = position.instrument
    /\ position.held # 0
    /\ shown.side = SideOf(position.held)
    /\ shown.status = "active"
    /\ shown.scope = WholePosition
         \/ (shown.scope.unit = Units(position.held).unit
             /\ shown.scope.value >= Units(position.held).value)
    /\ shown.basis # "unreported"

\* CoveredStop::ours and operators: whose stop it is, the caller decides.
CoveredStop(owner, shown, position, recorded) ==
    /\ Covers(shown, position)
    /\ owner = "ours" => /\ shown.terms = recorded.terms
                         /\ shown.basis = "mark"
                         /\ recorded.basis = "mark"

\* Mutant: gone as soon as the side is not the other one.
GoneIfNotReversed(position, side) == SideOf(position.held) # Opposite(side)

Gone(position, side) ==
    \/ position.held = 0
    \/ SideOf(position.held) = Opposite(side)

NotRead == [instrument |-> "none", held |-> 0, since |-> FALSE]

\* Since the position was read: the units filled, and whether it has left its
\* side; since the stop was read, whether it has changed.
NothingLater == [grown |-> 0, left |-> FALSE, moved |-> FALSE]
NoStop == [status |-> "none"]
NoneRecorded == [terms |-> "none", basis |-> "none"]
NoPnl == [status |-> "none"]
NoCycle == [protection |-> "none"]

CloseReasons ==
    {"exit_signal", "stop_loss", "manual", "liquidation", "adl", "protective", "unknown"}

\* What a stop may trigger on; a venue need not say which.
TriggerBasis == {"mark", "last", "index"}

\* "pending" stands for a figure that is not reported; no asset has that name.
ASSUME CycleAssumption ==
    /\ ByHand \subseteq [side : Sides, terms : Terms \cup {"other"},
                         basis : TriggerBasis \cup {"unreported"}, whole : BOOLEAN]
    /\ MaxSize \in Nat \ {0} /\ Reasons \subseteq CloseReasons /\ EntrySides \subseteq Sides
    /\ Listed \subseteq InstrumentSpec /\ \A s \in Listed : s.settle # "pending"

-----------------------------------------------------------------------------
(* The venue, and the operator.                                             *)

IsOpen == cycle # NoCycle /\ cycle.protection # "closed"

\* Once the cycle has closed, only the accounting goes on.
Ongoing == cycle = NoCycle \/ IsOpen

VenueChanges ==
    /\ Ongoing
    /\ filled' = (filled \/ working'.left < working.left)
    /\ gone' = (gone \/ (filled /\ SideOf(held') # working.side))
    /\ later' = [grown |-> later.grown + (IF snapshot.instrument = "own"
                                          THEN working.left - working'.left ELSE 0),
                 left |-> later.left \/ (snapshot.instrument = "own" /\ SideOf(held') # SideOf(held)),
                 moved |-> later.moved \/ (readback # NoStop /\ stop' # stop)]
    /\ UNCHANGED <<cycle, snapshot, readback, charged>>

SendEntry ==
    /\ working.left = 0 /\ ~filled
    /\ \E side \in EntrySides, n \in 1..MaxSize :
         \E order \in EntryOrder(spec, side, Units(n), "entry") :
           working' = [side |-> order.side, left |-> order.quantity.value \div 2]
    /\ UNCHANGED <<spec, held, stop, filled, gone, cycle, reads, charged>>

FillEntry ==
    /\ working.left > 0
    /\ \E n \in 1..working.left :
         /\ working' = [working EXCEPT !.left = @ - n]
         /\ held' = IF working.side = "long" THEN held + n ELSE held - n
    /\ Abs(held') <= MaxSize
    /\ UNCHANGED <<spec, stop>>
    /\ VenueChanges

\* By hand: flat, or reversed.
OperatorTrades ==
    /\ filled
    /\ held' \in {0, IF working.side = "long" THEN -1 ELSE 1} \ {held}
    /\ UNCHANGED <<spec, working, stop>>
    /\ VenueChanges

Delist ==
    /\ spec.status = "trading"
    /\ spec' = [spec EXCEPT !.status = "closed"]
    /\ UNCHANGED <<held, working, stop>>
    /\ VenueChanges

\* A stop QuantForge asked for, on the mark price, whole or a bridge.
PlaceStop ==
    /\ cycle # NoCycle
    /\ \E terms \in Terms, scope \in {WholePosition, Units(1)} :
         stop' \in StopRequest(spec, cycle.side, terms, "mark", scope,
                              IF scope = WholePosition THEN "stop" ELSE "bridge")
    /\ UNCHANGED <<spec, held, working>>
    /\ VenueChanges

\* Of any basis, side and size; it may have the terms of QuantForge's.
OperatorPlacesStop ==
    /\ filled
    /\ \E s \in ByHand :
         stop' = [instrument |-> "own", side |-> s.side, terms |-> s.terms, basis |-> s.basis,
                  scope |-> IF s.whole THEN WholePosition ELSE Units(1), status |-> "active"]
    /\ UNCHANGED <<spec, held, working>>
    /\ VenueChanges

StopEnds ==
    /\ stop.status = "active"
    /\ \E status \in {"by_user", "ended"} : stop' = [stop EXCEPT !.status = status]
    /\ UNCHANGED <<spec, held, working>>
    /\ VenueChanges

\* Reduce-only, so what is left is on the same side.
Reduced == IF held > 0 THEN 0..held - 1 ELSE held + 1..0

StopTriggers ==
    /\ stop.status = "active"
    /\ stop.side = SideOf(held)
    /\ stop' = [stop EXCEPT !.status = "ended"]
    /\ held' \in Reduced
    /\ stop.scope = WholePosition => held' = 0
    /\ UNCHANGED <<spec, working>>
    /\ VenueChanges

\* An exit, or the protective close.
CloseFills ==
    /\ cycle # NoCycle /\ SideOf(held) = cycle.side
    /\ CloseOrder(spec, cycle.side, Units(held), "close") # {}
    /\ held' \in Reduced
    /\ UNCHANGED <<spec, working, stop>>
    /\ VenueChanges

-----------------------------------------------------------------------------
(* Reads: a position snapshot and a stop, each kept until the next one, of  *)
(* this instrument or of another.                                           *)

Here == [instrument |-> "own", held |-> held, since |-> filled]
Elsewhere(n) == [instrument |-> "other", held |-> n, since |-> TRUE]
StopElsewhere == [instrument |-> "other", side |-> "long", terms |-> "other", basis |-> "mark",
                  scope |-> WholePosition, status |-> "active"]

ReadPosition ==
    /\ Ongoing
    /\ snapshot' \in {Here, Elsewhere(0), Elsewhere(1)}
    /\ later' = [later EXCEPT !.grown = 0, !.left = FALSE]
    /\ UNCHANGED <<cycleVenue, cycle, readback, charged>>

ReadStop ==
    /\ Ongoing
    /\ readback' \in {stop, StopElsewhere} \ {NoStop}
    /\ later' = [later EXCEPT !.moved = FALSE]
    /\ UNCHANGED <<cycleVenue, cycle, snapshot, charged>>

-----------------------------------------------------------------------------
(* The record's operations.                                                 *)

Open ==
    /\ cycle = NoCycle /\ filled
    /\ cycle' = [protection |-> "protection_pending", side |-> working.side,
                 stop |-> NoneRecorded, reason |-> "none", pnl |-> NoPnl]
    /\ UNCHANGED <<cycleVenue, reads, charged>>

\* Called for a stop QuantForge placed, so on the mark price.
RecordStop ==
    /\ IsOpen
    /\ \E terms \in Terms :
         cycle' = [cycle EXCEPT !.stop = [terms |-> terms, basis |-> "mark"]]
    /\ UNCHANGED <<cycleVenue, reads, charged>>

MoveProtection(to) ==
    /\ cycle # NoCycle
    /\ to \notin NeedsEvidence
    /\ <<cycle.protection, to>> \in PROTECTION_TRANSITIONS
    /\ cycle' = [cycle EXCEPT !.protection = to]
    /\ UNCHANGED <<cycleVenue, reads, charged>>

Verified(owner) ==
    /\ cycle # NoCycle
    /\ readback # NoStop /\ snapshot.instrument # "none"
    /\ CoveredStop(owner, readback, snapshot, cycle.stop)
    /\ readback.instrument = "own"
    /\ readback.side = cycle.side
    /\ cycle.protection = ByEvidence[owner]
         \/ <<cycle.protection, ByEvidence[owner]>> \in PROTECTION_TRANSITIONS
    /\ cycle' = [cycle EXCEPT !.protection = ByEvidence[owner]]
    /\ UNCHANGED <<cycleVenue, reads, charged>>

RemovedByOperator ==
    /\ cycle # NoCycle
    /\ <<cycle.protection, "unprotected_by_operator">> \in PROTECTION_TRANSITIONS
    /\ cycle' = [cycle EXCEPT !.protection = "unprotected_by_operator"]
    /\ UNCHANGED <<cycleVenue, reads, charged>>

\* The operator's command needs no evidence; a cancelled stop says who did it.
Commanded == RemovedByOperator
UserCancelled == readback # NoStop /\ readback.status = "by_user" /\ RemovedByOperator

\* The caller is done with its reads once the cycle has closed.
Close(reason) ==
    /\ cycle # NoCycle
    /\ snapshot.instrument = "own"
    /\ Gone(snapshot, cycle.side)
    /\ <<cycle.protection, "closed">> \in PROTECTION_TRANSITIONS
    /\ cycle' = [cycle EXCEPT !.protection = "closed", !.reason = reason]
    /\ snapshot' = NotRead /\ readback' = NoStop /\ later' = NothingLater
    /\ UNCHANGED <<cycleVenue, charged>>

\* PositionCycle::try_from: what a load of the record asks of it.
CycleReadable ==
    /\ (cycle.protection = "closed") = (cycle.reason # "none")
    /\ cycle.pnl = NoPnl \/ cycle.pnl.settle = spec.settle

-----------------------------------------------------------------------------
(* Accounting after the close.  The venue charged some fees, in the         *)
(* settlement asset or in another; its reports of gross, fees and funding   *)
(* come when they come, and the caller sorts the fees into those it counts  *)
(* and those it lists apart.                                                *)

TrueGross == 4
TrueFunding == 2
FeeKinds == {Money(2, spec.settle), Money(2, "other")}
Total(fees) == Money(IF Money(2, spec.settle) \in fees THEN 2 ELSE 0, spec.settle)
TrueNet(fees) == TrueGross - Total(fees).amount + TrueFunding

Reports(amount) == {Pending, Money(amount, spec.settle)}

\* Two assets have no total.
Totals(counted) ==
    IF counted = {} THEN {Pending, Money(0, spec.settle)}
    ELSE {Pending} \cup {fee \in counted : counted = {fee}}

Accounted(fees) ==
    UNION {UNION {FromComponents(spec.settle, gross, total, funding, fees \ counted)
                    \cup FromNet(spec.settle, Money(TrueNet(fees), spec.settle), total, funding,
                                 fees \ counted)
                  : gross \in Reports(TrueGross), total \in Totals(counted),
                    funding \in Reports(TrueFunding)}
           : counted \in SUBSET fees}

\* The caller accounts for a closed cycle whose entry and stop are over.
SetPnl ==
    /\ cycle # NoCycle /\ cycle.protection = "closed"
    /\ working.left = 0 /\ stop.status \in {"none", "ended"}
    /\ \E fees \in IF cycle.pnl = NoPnl THEN SUBSET FeeKinds ELSE {charged} :
         /\ charged' = fees
         /\ \E pnl \in Accounted(fees) :
              \E kept \in {pnl} \cup Finalize(pnl) :
                /\ kept.settle = spec.settle
                /\ cycle' = [cycle EXCEPT !.pnl = kept]
    /\ UNCHANGED <<cycleVenue, reads>>

-----------------------------------------------------------------------------
CycleInit ==
    /\ spec \in {s \in Listed :
                  /\ IsConsistent(s) /\ InUniverse(s)
                  /\ PositionKey(Account, [venue |-> s.venue, category |-> s.category]) # {}}
    /\ held = 0
    /\ working \in [side : EntrySides, left : {0}]
    /\ stop = NoStop
    /\ cycle = NoCycle
    /\ snapshot = NotRead
    /\ readback = NoStop
    /\ later = NothingLater
    /\ filled = FALSE
    /\ gone = FALSE
    /\ charged = {}

Venue ==
    \/ SendEntry \/ FillEntry \/ OperatorTrades \/ Delist \/ PlaceStop \/ OperatorPlacesStop
    \/ StopEnds \/ StopTriggers \/ CloseFills

Record ==
    \/ Open \/ RecordStop \/ Commanded \/ UserCancelled \/ SetPnl
    \/ \E to \in ProtectionStates : MoveProtection(to)
    \/ \E owner \in Owners : Verified(owner)
    \/ \E reason \in Reasons : Close(reason)

Reads == ReadPosition \/ ReadStop

CycleNext == Venue \/ Reads \/ Record

CycleSpec == CycleInit /\ [][CycleNext]_cycleVars

-----------------------------------------------------------------------------
(* Properties.                                                              *)

\* Every value is of its type, and the saved record can be loaded again: only
\* a closed cycle has a reason and a time (PositionCycle::try_from).
CycleTypeOK ==
    /\ held \in -MaxSize..MaxSize
    /\ working \in [side : Sides, left : 0..MaxSize]
    /\ later \in [grown : Nat, left : BOOLEAN, moved : BOOLEAN]
    /\ cycle # NoCycle => /\ cycle.protection \in ProtectionStates
                          /\ cycle.reason \in Reasons \cup {"none"}
                          /\ CycleReadable

\* How much of the position no active stop would close.
Bare ==
    LET size == 2 * Abs(held)
        covered == IF stop.status # "active" \/ stop.side # SideOf(held) THEN 0
                   ELSE IF stop.scope = WholePosition THEN size ELSE stop.scope.value
    IN IF covered < size THEN size - covered ELSE 0

\* A cycle is called protected only when it is: no more of the position is bare
\* than has been filled since it was read, none if the stop closes whatever
\* there is; QuantForge's stop is on the mark price with the recorded terms,
\* the operator's on a basis that is known (CoveredStop, verified).  The reads
\* may be apart and in either order, and the position may have grown or shrunk
\* between them and since.  What two reads cannot tell is whether the stop has
\* been changed since it was read, or the position has gone since it was.
ProtectedWasCovered ==
    [][\A owner \in Owners : Verified(owner) /\ ~later.left /\ ~later.moved =>
         /\ Bare <= (IF stop.scope = WholePosition THEN 0 ELSE 2 * later.grown)
         /\ IF owner = "ours" THEN stop.terms = cycle.stop.terms /\ stop.basis = "mark"
                              ELSE stop.basis \in TriggerBasis]_cycleVars

\* A cycle closes on a snapshot taken since its entry filled only if its
\* position has been gone since: flat, or reversed (ProtectionState::closed).
ClosedWasGone ==
    [][(\E reason \in Reasons : Close(reason)) /\ snapshot.since => gone]_cycleVars

\* Whatever has become of the instrument, a held position can be closed: its
\* snapshot's quantity makes a close order (CloseOrder::new).
CanAlwaysClose ==
    held # 0 => CloseOrder(spec, SideOf(held), Units(held), "close") # {}

\* A final PnL is whole: its net is what the venue paid, with every fee of the
\* settlement asset counted once (RealizedPnl::checked, finalize).
FinalIsWhole ==
    (cycle # NoCycle /\ cycle.pnl.status = "final") =>
        /\ IsComplete(cycle.pnl)
        /\ cycle.pnl.net = Money(TrueNet(charged), spec.settle)
        /\ cycle.pnl.fees = Total(charged)
=============================================================================
