-------------------------- MODULE FuturesIdentity --------------------------
(* Who owns what on a futures account: product lines (model/market.rs), the *)
(* position key (model/futures/identity.rs), and the client order ids that  *)
(* tell QuantForge's own orders from anybody else's                         *)
(* (model/futures/client_order_id.rs).  A constructor is the set of what it *)
(* returns: one value, or none where the code returns an error.  An id's    *)
(* text is the record of its five parts, its numbers the sequences of their *)
(* base 36 digits, most significant first.                                  *)
EXTENDS Integers, Sequences

CONSTANTS OwnerTags,        \* the well-formed owner tags
          MaxEpoch          \* the greatest activation epoch: a u32's, made small

-----------------------------------------------------------------------------
(* Product lines and position keys.                                         *)

Venues == {"binance", "bybit"}
Categories == {"spot", "linear", "inverse"}
IsFutures(category) == category # "spot"

\* ExchangeId: what one venue sells of one family.
Lines == [venue : Venues, category : Categories]

(* PositionKey::new: a futures position, on the account's own venue.        *)
PositionKey(account, line) ==
    {key \in {[account |-> account, line |-> line]} :
        /\ line \in Lines
        /\ IsFutures(line.category)
        /\ line.venue = account.venue}

-----------------------------------------------------------------------------
(* Client order ids.                                                        *)

LAYOUT == "qf1"
MAX_LEN == 36
MAX_ATTEMPT == 36 * 36 - 1

OrderLegs == {"entry", "close", "stop", "bridge"}
Letter == [entry |-> "e", close |-> "c", stop |-> "s", bridge |-> "b"]

ToBase36[value \in Nat] ==
    IF value < 36 THEN <<value>> ELSE Append(ToBase36[value \div 36], value % 36)

Base36Digits == 0..35

NumberOf(digits) ==
    LET upTo[i \in 0..Len(digits)] == IF i = 0 THEN 0 ELSE 36 * upTo[i - 1] + digits[i]
    IN upTo[Len(digits)]

\* Mutant: a number is read however it is spelled.
FromAnyBase36(digits, max) ==
    {value \in {NumberOf(digits)} : digits # <<>> /\ value <= max}

(* from_base36: the canonical spelling only, and no number too wide.        *)
FromBase36(digits, max) ==
    {value \in {NumberOf(digits)} :
        /\ digits # <<>>
        /\ Len(digits) > 1 => digits[1] # 0
        /\ value <= max}

(* ClientOrderId::new.                                                      *)
ClientOrderId(owner, epoch, operation, leg, attempt) ==
    {id \in {[owner |-> owner, epoch |-> epoch, operation |-> operation, leg |-> leg,
              attempt |-> attempt]} : attempt \in 1..MAX_ATTEMPT}

Display(id) ==
    [layout |-> LAYOUT, owner |-> id.owner, epoch |-> ToBase36[id.epoch],
     operation |-> ToBase36[id.operation], letter |-> Letter[id.leg],
     attempt |-> ToBase36[id.attempt]]

\* A text that splits at its four dashes.
IsText(text) ==
    /\ text = [layout |-> text.layout, owner |-> text.owner, epoch |-> text.epoch,
               operation |-> text.operation, letter |-> text.letter, attempt |-> text.attempt]
    /\ {text.epoch, text.operation, text.attempt} \subseteq Seq(Base36Digits)

\* Layout, tag and letter, and the four dashes.
TextLen(text) == 3 + 6 + 1 + 4 + Len(text.epoch) + Len(text.operation) + Len(text.attempt)

(* parse_ours: layout 1 and nothing else.  An operation's 64 bits, which    *)
(* the length allows, are not limited further.                              *)
ParseOurs(text) ==
    UNION {ClientOrderId(text.owner, epoch, operation, leg, attempt) :
        epoch \in FromBase36(text.epoch, MaxEpoch),
        operation \in FromBase36(text.operation, NumberOf(text.operation)) \ {0},
        leg \in {leg \in OrderLegs : /\ text.layout = LAYOUT /\ TextLen(text) <= MAX_LEN
                                     /\ text.owner \in OwnerTags
                                     /\ Letter[leg] = text.letter},
        attempt \in FromBase36(text.attempt, MAX_ATTEMPT)}
=============================================================================
