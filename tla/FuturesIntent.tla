--------------------------- MODULE FuturesIntent ---------------------------
(* The record of one external signal on a futures account, an entry or an   *)
(* exit (model/futures/intent.rs over intent_state.rs): the orders sent for *)
(* it, and what their venue's evidence proves about them.                   *)
(*                                                                          *)
(* Nothing calls the record yet but its tests, so its caller is any caller: *)
(* it delivers what the venue has reported, as often as it likes, in any    *)
(* order and however old, saves the record when it likes and may be killed. *)
(* It does send an order only once its attempt is saved, at the time the    *)
(* attempt says.  A call that returns an error changes nothing and is no    *)
(* step.  The venue tells the truth about its orders.                       *)
EXTENDS FuturesIdentity

CONSTANTS
    Kinds,          \* which intents: a subset of {"entry", "exit"}
    Owner, Epoch,   \* who issues its orders: the profile's tag, the store's epoch
    Operation,      \* the operation they are for
    ForeignTexts,   \* the client order ids of other orders, a sequence of texts
    Delay,          \* PROPAGATION_DELAY_MS
    LookupsVerified,\* the venue's lookups are verified to show orders in time
    Retention,      \* how long its lookups show an order that ended unfilled
    Quantity,       \* what an order asks for
    BareSubmit,     \* the caller may move to submitting without an attempt
    MaxAttempts,    \* bound: how many attempts are recorded
    MaxTime         \* bound: how far the clock runs

ASSUME BoundsAssumption ==
    /\ Kinds \subseteq {"entry", "exit"}
    /\ {Epoch, Operation, Retention, MaxAttempts, MaxTime} \subseteq Nat
    /\ {Delay, Quantity} \subseteq Nat \ {0}
    /\ {LookupsVerified, BareSubmit} \subseteq BOOLEAN
    /\ MaxAttempts <= MAX_ATTEMPT
    /\ Len(ForeignTexts) \in Nat
    /\ \A i \in 1..Len(ForeignTexts) : IsText(ForeignTexts[i])

VARIABLES
    intent,     \* the caller's record
    stored,     \* the record in the store
    orders,     \* the venue's order for each attempt
    reported,   \* what it has reported of each order: every state it was in
    lookup,     \* the caller's last lookup that answered "not found"
    observed,   \* the caller's last snapshot of the position
    now

venue == <<orders, reported>>
evidence == <<lookup, observed>>
vars == <<intent, stored, orders, reported, lookup, observed, now>>

-----------------------------------------------------------------------------
(* The state machine (IntentState).                                         *)

States == {"received", "admitted", "rejected", "duplicate", "noop", "expired",
           "submitting", "outcome_unknown", "not_placed", "partially_filled",
           "filled", "unfilled"}

TRANSITIONS ==
    ({"received"} \X {"admitted", "rejected", "duplicate", "noop"})
      \cup ({"admitted"} \X {"submitting", "expired", "rejected", "noop"})
      \cup ({"submitting"} \X {"partially_filled", "filled", "unfilled", "rejected",
                               "outcome_unknown"})
      \cup ({"outcome_unknown"} \X {"partially_filled", "filled", "unfilled", "rejected",
                                    "not_placed"})
      \cup {<<"partially_filled", "filled">>}

Unresolved == {"submitting", "outcome_unknown"}

\* The states move_to refuses: they need the venue's evidence.
Gated(s) ==
    {"partially_filled", "filled", "unfilled", "not_placed"}
      \cup (IF s \in Unresolved THEN {"rejected"} ELSE {})

IsFinal(order) == order.status \in {"filled", "canceled", "rejected"}

NothingExecuted(order) == IsFinal(order) /\ order.filled = 0

Refused == "refused"

(* IntentState::on_order: what an order read back proves, or Refused where  *)
(* it contradicts the state.                                                *)
OnOrderState(s, order) ==
    LET to == CASE NothingExecuted(order) /\ order.status = "rejected" -> "rejected"
                [] NothingExecuted(order) /\ order.status # "rejected" -> "unfilled"
                [] IsFinal(order) /\ order.filled > 0                  -> "filled"
                [] ~IsFinal(order) /\ order.filled > 0                 -> "partially_filled"
                [] OTHER                                               -> s
    IN IF to = s \/ <<s, to>> \in TRANSITIONS THEN to ELSE Refused

OnFillState(s) ==
    CASE s \in {"partially_filled", "filled"}        -> s
      [] <<s, "partially_filled">> \in TRANSITIONS   -> "partially_filled"
      [] OTHER                                       -> Refused

-----------------------------------------------------------------------------
(* The record.  Its attempts are the times they were sent at, in order; the *)
(* place of an attempt is its number in its client order id.  The orders    *)
(* after those of the attempts are somebody else's.  `counted` is no field  *)
(* of the record: it remembers whether the record has accepted evidence     *)
(* that something was executed.                                             *)

Attempts == 1..MaxAttempts
Foreign == MaxAttempts + 1..MaxAttempts + Len(ForeignTexts)
Ids == Attempts \cup Foreign

\* The leg its orders are sent as.
LegOf(kind) == IF kind = "entry" THEN "entry" ELSE "close"

IssuedFor(kind, id) == ClientOrderId(Owner, Epoch, Operation, LegOf(kind), id)

\* An order of somebody else's carries another id than any attempt's.
ASSUME ForeignAssumption ==
    \A kind \in Kinds, id \in Attempts, i \in 1..Len(ForeignTexts) :
      \A own \in IssuedFor(kind, id) : ForeignTexts[i] # Display(own)

\* What the venue carries as the order's client id.
TextOf(kind, id) ==
    IF id \in Attempts THEN CHOOSE text \in {Display(own) : own \in IssuedFor(kind, id)} : TRUE
    ELSE ForeignTexts[id - MaxAttempts]

Sent(record) == 1..Len(record.attempts)

SentIds(record) == UNION {IssuedFor(record.kind, id) : id \in Sent(record)}

\* What QuantForge reads in each text.
ReadAs == [kind \in Kinds |-> [id \in Ids |-> ParseOurs(TextOf(kind, id))]]

(* own: the id read back from the venue is one of the record's attempts.    *)
Own(id) == ReadAs[intent.kind][id] \cap SentIds(intent) # {}

\* Only an exit retries, and its latest attempt decides.
Superseded(id) == intent.kind = "exit" /\ id # Len(intent.attempts)

NewRecord(kind) ==
    [kind |-> kind, state |-> "received", attempts |-> <<>>, counted |-> FALSE]

\* What try_from accepts of a stored record.
Readable(record) ==
    /\ record.state \in Unresolved \cup {"partially_filled", "filled", "unfilled", "not_placed"}
         => record.attempts # <<>>
    /\ record.kind = "entry" => Len(record.attempts) <= 1

(* move_to: admission's outcomes, submitting, expiry, an unknown outcome.   *)
MoveTo(to) ==
    /\ to \notin Gated(intent.state)
    /\ ~(to = "expired" /\ intent.kind = "exit")
    /\ <<intent.state, to>> \in TRANSITIONS
    /\ to = "submitting" => BareSubmit
    /\ intent' = [intent EXCEPT !.state = to]
    /\ UNCHANGED <<stored, venue, evidence, now>>

\* Mutant: whatever is unresolved may be sent again.
MayAttemptAgain ==
    \/ intent.state = "admitted" /\ intent.attempts = <<>>
    \/ intent.state \in Unresolved

\* An entry is sent once; an exit may retry while its outcome is open.
MayAttempt ==
    \/ intent.state = "admitted" /\ intent.attempts = <<>>
    \/ intent.state \in Unresolved /\ intent.kind = "exit"

(* record_attempt: the first moves the intent to submitting.                *)
RecordAttempt ==
    /\ MayAttempt
    /\ Len(intent.attempts) < MaxAttempts
    /\ intent' = [intent EXCEPT
         !.state = IF intent.state = "admitted" THEN "submitting" ELSE intent.state,
         !.attempts = Append(intent.attempts, now)]
    /\ UNCHANGED <<stored, venue, evidence, now>>

\* Mutant: whatever a superseded attempt's order says is ignored.
AfterOrderLatest(id, order) ==
    IF Superseded(id) THEN intent.state ELSE OnOrderState(intent.state, order)

\* The state an order leaves, if the record accepts it: an earlier attempt's
\* order that ended without a fill says nothing.
AfterOrder(id, order) ==
    IF Superseded(id) /\ NothingExecuted(order)
      THEN intent.state
      ELSE OnOrderState(intent.state, order)

(* on_order, with any state the order has been in.                          *)
OnOrder(id, order) ==
    /\ Own(id)
    /\ AfterOrder(id, order) # Refused
    /\ intent' = [intent EXCEPT !.state = AfterOrder(id, order),
                                !.counted = intent.counted \/ order.filled > 0]
    /\ UNCHANGED <<stored, venue, evidence, now>>

(* on_fill, with a fill of an order that has executed.                      *)
OnFill(id) ==
    /\ Own(id)
    /\ OnFillState(intent.state) # Refused
    /\ intent' = [intent EXCEPT !.state = OnFillState(intent.state), !.counted = TRUE]
    /\ UNCHANGED <<stored, venue, evidence, now>>

(* on_rejection: the venue answered that it refused the attempt.            *)
OnRejection(id) ==
    /\ Own(id)
    /\ ~Superseded(id)
    /\ IF Len(intent.attempts) > 1
         THEN <<intent.state, "rejected">> \in TRANSITIONS
         ELSE intent.state = "submitting"
    /\ intent' = [intent EXCEPT !.state = "rejected"]
    /\ UNCHANGED <<stored, venue, evidence, now>>

NoLookup == [id |-> 0, at |-> 0]
NoSnapshot == [at |-> 0, flat |-> FALSE]

\* Mutant: a lookup proves something at once.
ProvenAtOnce(sentAt) ==
    /\ lookup.at - sentAt <= Retention
    /\ observed.at >= lookup.at
    /\ observed.flat

(* NotPlacedEvidence: a verified lookup past the propagation delay, inside  *)
(* retention, and a flat snapshot from after it.                            *)
Proven(sentAt) ==
    /\ LookupsVerified
    /\ lookup.at >= sentAt + Delay
    /\ lookup.at <= sentAt + Retention
    /\ observed.at >= sentAt + Delay
    /\ observed.at >= lookup.at
    /\ observed.flat

EntryNotPlaced ==
    /\ intent.kind = "entry"
    /\ lookup # NoLookup /\ Own(lookup.id)
    /\ Proven(intent.attempts[lookup.id])
    /\ <<intent.state, "not_placed">> \in TRANSITIONS
    /\ intent' = [intent EXCEPT !.state = "not_placed"]
    /\ UNCHANGED <<stored, venue, evidence, now>>

-----------------------------------------------------------------------------
(* The caller: it saves its record, is killed and loads what it saved, with *)
(* none of the evidence it had, and asks the venue.                         *)

Save ==
    /\ stored # intent
    /\ stored' = intent
    /\ UNCHANGED <<intent, venue, evidence, now>>

Load ==
    /\ Readable(stored)
    /\ intent' = stored
    /\ lookup' = NoLookup
    /\ observed' = NoSnapshot
    /\ UNCHANGED <<stored, venue, now>>

Send(id) ==
    /\ id \in Sent(intent) /\ id \in Sent(stored)
    /\ stored.attempts[id] = now
    /\ orders[id].status = "unsent"
    /\ orders' = [orders EXCEPT ![id].status = "flight"]
    /\ UNCHANGED <<intent, stored, reported, evidence, now>>

\* Whether a lookup answers "not found": the order is not there, not there
\* to be seen yet, or ended unfilled too long ago.
Unseen(id) ==
    id \in Attempts =>
      \/ ~orders[id].visible
      \/ /\ NothingExecuted(orders[id])
         /\ id \in Sent(intent) /\ now > intent.attempts[id] + Retention

LookUp(id) ==
    /\ intent.kind = "entry"
    /\ Unseen(id)
    /\ lookup' = [id |-> id, at |-> now]
    /\ UNCHANGED <<intent, stored, venue, observed, now>>

\* A position shows what was executed, or is flat if the operator closed it.
Observe ==
    /\ intent.kind = "entry"
    /\ \E flat \in {TRUE, \A id \in Attempts : orders[id].filled = 0} :
         observed' = [at |-> now, flat |-> flat]
    /\ UNCHANGED <<intent, stored, venue, lookup, now>>

-----------------------------------------------------------------------------
(* The venue.                                                               *)

NoOrder == [status |-> "unsent", filled |-> 0, visible |-> FALSE]

Report(id, order) ==
    /\ orders' = [orders EXCEPT ![id] = order]
    /\ reported' = [reported EXCEPT
         ![id] = reported[id] \cup {[status |-> order.status, filled |-> order.filled]}]
    /\ UNCHANGED <<intent, stored, evidence, now>>

\* It refuses the order, or the order never arrives.
Turn(id) ==
    /\ orders[id].status = "flight"
    /\ \E status \in {"turned_down", "lost"} :
         orders' = [orders EXCEPT ![id].status = status]
    /\ UNCHANGED <<intent, stored, reported, evidence, now>>

Accept(id) ==
    /\ orders[id].status = "flight"
    /\ Report(id, [orders[id] EXCEPT !.status = "new"])

Working(id) == orders[id].status \in {"new", "partially_filled"}

Show(id) ==
    /\ Working(id) \/ IsFinal(orders[id])
    /\ ~orders[id].visible
    /\ orders' = [orders EXCEPT ![id].visible = TRUE]
    /\ UNCHANGED <<intent, stored, reported, evidence, now>>

Execute(id) ==
    /\ Working(id)
    /\ Report(id, [orders[id] EXCEPT
         !.status = IF orders[id].filled + 1 = Quantity THEN "filled" ELSE "partially_filled",
         !.filled = orders[id].filled + 1])

\* It cancels the order or lets it expire, or rejects one that has not filled.
End(id) ==
    /\ Working(id)
    /\ \E status \in {"canceled", "rejected"} :
         /\ status = "rejected" => orders[id].filled = 0
         /\ Report(id, [orders[id] EXCEPT !.status = status])

\* What a verified venue guarantees: past the propagation delay an order that
\* was sent is there for a lookup to see, or will never be.
Settled(id) ==
    orders[id].status \in {"unsent", "turned_down", "lost"} \/ orders[id].visible

Tick ==
    /\ now < MaxTime
    /\ LookupsVerified => \A id \in Sent(intent) : now + 1 >= intent.attempts[id] + Delay => Settled(id)
    /\ now' = now + 1
    /\ UNCHANGED <<intent, stored, venue, evidence>>

-----------------------------------------------------------------------------
\* An order that is somebody else's has filled.
ForeignOrder == [status |-> "filled", filled |-> Quantity]

Init ==
    /\ \E kind \in Kinds : intent = NewRecord(kind)
    /\ stored = intent
    /\ orders = [id \in Attempts |-> NoOrder]
    /\ reported = [id \in Ids |-> IF id \in Foreign THEN {ForeignOrder} ELSE {}]
    /\ lookup = NoLookup
    /\ observed = NoSnapshot
    /\ now = 0

RecordStep ==
    \/ \E to \in States : MoveTo(to)
    \/ RecordAttempt
    \/ \E id \in Ids : \E order \in reported[id] : OnOrder(id, order)
    \/ \E id \in Ids : (\E order \in reported[id] : order.filled > 0) /\ OnFill(id)
    \/ \E id \in Attempts : orders[id].status = "turned_down" /\ OnRejection(id)
    \/ EntryNotPlaced

CallerStep ==
    \/ Save
    \/ Load
    \/ \E id \in Attempts : Send(id)
    \/ \E id \in Ids \cap 1..MaxAttempts + 1 : LookUp(id)
    \/ Observe

VenueStep ==
    \/ \E id \in Attempts : Turn(id) \/ Accept(id) \/ Show(id) \/ Execute(id) \/ End(id)
    \/ Tick

Next == RecordStep \/ CallerStep \/ VenueStep

Spec == Init /\ [][Next]_vars

-----------------------------------------------------------------------------
Times == 0..MaxTime

IsRecord(record) ==
    /\ record \in [kind : Kinds, state : States, attempts : Seq(Times), counted : BOOLEAN]
    /\ Len(record.attempts) <= MaxAttempts
    /\ record.kind = "entry" => Len(record.attempts) <= 1
    /\ record.attempts # <<>> => record.state \notin {"received", "admitted", "expired"}

Statuses == {"unsent", "flight", "turned_down", "lost", "new", "partially_filled",
             "filled", "canceled", "rejected"}

(* The record and its stored copy are records; an entry has one attempt at  *)
(* most, and an intent that is still to be submitted none.                  *)
TypeOK ==
    /\ IsRecord(intent) /\ IsRecord(stored)
    /\ stored.kind = intent.kind
    /\ orders \in [Attempts -> [status : Statuses, filled : 0..Quantity, visible : BOOLEAN]]
    /\ reported \in [Ids -> SUBSET [status : Statuses, filled : 0..Quantity]]
    /\ lookup \in [id : Ids, at : Times] \cup {NoLookup}
    /\ observed \in [at : Times, flat : BOOLEAN]
    /\ now \in Times

(* "An acknowledgement is never evidence of a fill" (intent_state.rs:3-4):  *)
(* a record that says filled has an order of its own that executed and is   *)
(* final, and one that says partially filled an order that executed,        *)
(* whatever was reported late, twice or of somebody else's order.           *)
FilledIsExecuted ==
    /\ intent.state = "filled" =>
         \E id \in Sent(intent) : IsFinal(orders[id]) /\ orders[id].filled > 0
    /\ intent.state = "partially_filled" =>
         \E id \in Sent(intent) : orders[id].filled > 0

\* The order was never placed, and never will be.
NeverPlaced(id) ==
    \/ orders[id].status \in {"turned_down", "lost"}
    \/ orders[id].status = "unsent" /\ now > intent.attempts[id]

(* intent.rs:155-160, 179-181 and 198-203: an entry that is rejected,       *)
(* unfilled or not placed has executed nothing and never will, so its key   *)
(* may take another entry; an exit settles without a fill only when the     *)
(* attempt that decides, its latest, is over without one.                   *)
SettledIsOver ==
    LET Dead(id) == NeverPlaced(id) \/ NothingExecuted(orders[id])
        decides == IF intent.kind = "entry" THEN 1 ELSE Len(intent.attempts)
    IN intent.attempts # <<>> =>
         /\ intent.state \in {"rejected", "unfilled"} => Dead(decides)
         /\ intent.kind = "entry" /\ intent.state = "not_placed" => NeverPlaced(1)

(* intent.rs:158-160: evidence that an order executed is counted or refused *)
(* as a contradiction, "rather than swallowed".                             *)
ExecutionCounts ==
    intent.counted => intent.state \in {"partially_filled", "filled"}

(* intent.rs:126 "An entry is sent once and never again", whenever the      *)
(* process is killed and whatever it had saved.                             *)
EntrySentOnce ==
    intent.kind = "entry" =>
      \A i, j \in Attempts : orders[i].status # "unsent" /\ orders[j].status # "unsent" => i = j

(* intent.rs:75 "the record a store keeps": what is saved can be loaded.    *)
RecordReadable == Readable(stored)
=============================================================================
