--------------------------- MODULE LiveRunProofs ---------------------------
(***************************************************************************)
(* Theorems about LiveRun, for every value of its constants.               *)
(*                                                                         *)
(* PositionAccounted speaks of the moments between orders, and is not      *)
(* inductive: Accounted follows an order through the steps of both         *)
(* processes, and rests on Alone, which says that whatever is not left to  *)
(* the operator was done by one process with a current copy of the row.    *)
(* PastInv and OnceInv say what the strategy is fed; they need of IInv     *)
(* that the bars in hand come after the last one the process has marked.   *)
(***************************************************************************)
EXTENDS LiveRun, FiniteSetTheorems, TLAPS

-----------------------------------------------------------------------------
(* The inductive invariant                                                 *)

Near(a, b) == a <= b /\ ("nofills" \notin Faults => a = b)

Delta == IF target = "long" THEN Kept(deal.got) ELSE -deal.got

\* A process that runs has a row and a copy of it.
Copies ==
    /\ pc # "off" => mem \in Rows /\ row \in Rows
    /\ cpc # "off" => cmem \in Rows /\ row \in Rows

\* The order in hand exists.
InHand ==
    /\ pc \in {"log", "apply", "trade"} => deal.id \in 1..orders
    /\ cpc \in {"log", "apply", "trade"} => cdeal.id \in 1..orders

\* What "logged" stands for, and where the trade row is reached.
Logged ==
    /\ pc \in {"apply", "trade"} /\ deal.logged => deal.id \in events
    /\ pc = "trade" => deal.logged
    /\ cpc \in {"apply", "trade"} /\ cdeal.logged => cdeal.id \in events
    /\ cpc = "trade" => cdeal.logged

\* Bars are taken in order, and `trade close` holds a copy no newer than the row.
Ordered ==
    /\ pc \in {"off", "begin", "warm", "poll"} => queue = {}
    /\ pc # "off" => \A b \in queue : b > mem.last
    /\ pc # "off" => row.last <= mem.last
    /\ cpc # "off" => cmem.last <= row.last

\* While nothing is left to the operator one process drives the run, and its
\* copy of the position is the row's but between a fill and the end of the run.
Alone ==
    ~astray =>
        /\ pc = "off" \/ cpc = "off"
        /\ pc \notin {"off", "fail"} => mem.pos = row.pos
        /\ cpc \in {"sell", "log", "apply"} => cmem.pos = row.pos
        /\ pc \in {"order", "log", "apply"} => target # CurrentTarget(mem.pos)

\* What the venue holds for the run, at each stage of an order.
Accounted ==
    ~astray =>
        /\ ~InFlight => Near(held, Position + dust)
        /\ pc \in {"log", "apply"} => /\ Near(held, row.pos.qty + dust + Delta)
                                      /\ target = "flat" => deal.got <= mem.pos.qty
                                      /\ "nofills" \notin Faults => deal.fills
        /\ pc = "fail" => Near(held, mem.pos.qty + dust)
        /\ cpc \in {"log", "apply"} => /\ Near(held, row.pos.qty + dust - cdeal.got)
                                       /\ cdeal.got <= cmem.pos.qty

IInv == TypeOK /\ Copies /\ InHand /\ Logged /\ Ordered /\ Alone /\ Accounted /\ NeverDoubled

-----------------------------------------------------------------------------
(* Quantities and answers                                                  *)

\* The fee of a buy never exceeds it.
LEMMA KeptBound == ASSUME NEW got \in Nat PROVE Kept(got) \in Nat /\ Kept(got) <= got
BY LiveRunAssumption DEF Kept

\* Rounding to the lot step goes down, and never below zero.
LEMMA RoundBound ==
    ASSUME NEW q \in Int
    PROVE  RoundDown(q) \in Int /\ RoundDown(q) <= q
<1>1. q % Step \in Int /\ q % Step >= 0
  BY LiveRunAssumption
<1> QED BY <1>1 DEF RoundDown

\* An exit asks for no more than the position.
LEMMA SellableBound ==
    ASSUME NEW pos \in Positions, held \in Int
    PROVE  Sellable(pos) \in Int /\ Sellable(pos) <= pos.qty
<1>1. pos.qty \in Int /\ Free \in Int
  BY LiveRunAssumption DEF Positions, Free
<1>2. Lower(Free, pos.qty) \in Int /\ Lower(Free, pos.qty) <= pos.qty
  BY <1>1 DEF Lower
<1> QED BY <1>1, <1>2, RoundBound DEF Sellable

\* What an exit leaves is still in the position or written off.
LEMMA ExitAccounted ==
    ASSUME NEW pos \in Positions, NEW closed \in Nat, closed <= pos.qty
    PROVE  /\ AfterExit(pos, closed) \in Positions
           /\ WrittenOff(pos, closed) \in Nat
           /\ AfterExit(pos, closed).qty + WrittenOff(pos, closed) = pos.qty - closed
BY DEF AfterExit, WrittenOff, IsDust, Positions, Flat

\* A fault leaves both outcomes, anything else is certain.
LEMMA WorksFact ==
    ASSUME NEW f
    PROVE  Works(f) \subseteq BOOLEAN /\ (f \notin Faults => Works(f) = {TRUE})
BY DEF Works

\* The answer to an order that executed `got`.
LEMMA AnswerFields ==
    ASSUME NEW got \in Nat, orders \in Nat, NEW d \in Answers(got)
    PROVE  /\ d \in Deals /\ d.id = orders + 1 /\ d.got = got /\ d.logged = FALSE
           /\ "nofills" \notin Faults => d.fills = TRUE
<1>1. PICK said \in Works("unreported"), fills \in Works("nofills"),
           priced \in Works("unpriced") :
           d = [id |-> orders + 1, got |-> got, said |-> said, fills |-> fills,
                priced |-> priced, logged |-> FALSE]
  BY DEF Answers
<1>2. said \in BOOLEAN /\ fills \in BOOLEAN /\ priced \in BOOLEAN
  BY WorksFact
<1>3. d \in Deals
  BY <1>1, <1>2 DEF Deals
<1>4. "nofills" \notin Faults => fills = TRUE
  BY WorksFact
<1> QED BY <1>1, <1>3, <1>4

\* A write answers yes or no, and lands or not.
LEMMA WriteFields ==
    ASSUME NEW f, NEW w \in Writes(f)
    PROVE  w.ok \in BOOLEAN /\ w.lands \in BOOLEAN /\ (w.ok => w.lands)
BY WorksFact DEF Writes

-----------------------------------------------------------------------------
(* The initial state                                                       *)

LEMMA NoDealIsDeal == NoDeal \in Deals
BY DEF NoDeal, Deals

LEMMA InitEstablishes == Init => IInv
<1> SUFFICES ASSUME Init PROVE IInv
  OBVIOUS
<1>1. TypeOK
  <2>1. stored \subseteq Bars
    BY LiveRunAssumption DEF Init, Bars
  <2>2. clock \in 0..MaxBar /\ starts \in 0..MaxStarts
    BY LiveRunAssumption DEF Init
  <2>3. deal \in Deals /\ cdeal \in Deals
    BY NoDealIsDeal DEF Init
  <2>4. events \subseteq 1..orders /\ trades \subseteq 1..orders
    BY DEF Init
  <2>5. queue \subseteq Bars /\ fed \subseteq Bars /\ born \in Nat
    BY DEF Init
  <2>6. /\ row \in Rows \cup {NoRow} /\ mem \in Rows \cup {NoRow}
        /\ cmem \in Rows \cup {NoRow}
    BY DEF Init
  <2>7. astray \in BOOLEAN /\ twice \in BOOLEAN
    BY Zenon DEF Init
  <2>8. orders \in Nat /\ held \in Int /\ dust \in Nat
    BY DEF Init
  <2> QED BY <2>1, <2>2, <2>3, <2>4, <2>5, <2>6, <2>7, <2>8 DEF Init, TypeOK
<1>2. Copies /\ InHand /\ Logged /\ Ordered
  BY DEF Init, Copies, InHand, Logged, Ordered
<1>3. Alone /\ Accounted
  BY DEF Init, Alone, Accounted, InFlight, Position, Near
<1>4. NeverDoubled
  <2>1. PICK got \in Fills : TRUE
    BY LiveRunAssumption
  <2>2. got \in Nat
    BY LiveRunAssumption
  <2>3. held <= dust + Kept(got)
    BY <2>2, KeptBound DEF Init
  <2> QED BY <2>3 DEF NeverDoubled
<1> QED BY <1>1, <1>2, <1>3, <1>4 DEF IInv

-----------------------------------------------------------------------------
(* Types                                                                   *)

\* A sync stores bars that have closed.
LEMMA SyncStores ==
    ASSUME NEW start \in Nat \ {0}, NEW ok \in BOOLEAN, clock \in 0..MaxBar,
           stored \subseteq Bars, Sync(start, ok)
    PROVE  stored' \subseteq Bars
<1>1. \A upto \in Int : upto <= clock => start..upto \subseteq Bars
  BY LiveRunAssumption DEF Bars
<1>2. PICK upto \in Int : upto <= clock /\ stored' = stored \cup start..upto
  BY LiveRunAssumption DEF Sync
<1> QED BY <1>1, <1>2

LEMMA StartsPositive ==
    ASSUME clock \in 0..MaxBar, mem \in Rows
    PROVE  /\ \A settling \in BOOLEAN : BootstrapStart(settling) \in Nat \ {0}
           /\ PollStart \in Nat \ {0}
BY LiveRunAssumption DEF BootstrapStart, PollStart, Rows

Statuses == {"starting", "running", "stopped", "failed"}

LEMMA RowFields == ASSUME NEW r \in Rows PROVE r.pos \in Positions /\ r.last \in 0..MaxBar
BY DEF Rows

\* A row with another position, another last bar or another status is a row.
LEMMA RowPos ==
    ASSUME NEW r \in Rows, NEW pos \in Positions, NEW st \in Statuses
    PROVE  LET n == [r EXCEPT !.pos = pos, !.status = st]
           IN n \in Rows /\ n.pos = pos /\ n.last = r.last
BY DEF Rows, Statuses

LEMMA RowLast ==
    ASSUME NEW r \in Rows, NEW last \in 0..MaxBar
    PROVE  LET n == [r EXCEPT !.last = last, !.status = "running"]
           IN n \in Rows /\ n.pos = r.pos /\ n.last = last
BY DEF Rows

LEMMA RowStatus ==
    ASSUME NEW r \in Rows, NEW st \in Statuses
    PROVE  LET n == [r EXCEPT !.status = st]
           IN n \in Rows /\ n.pos = r.pos /\ n.last = r.last
BY DEF Rows, Statuses

LEMMA PositionFields ==
    ASSUME NEW pos \in Positions
    PROVE  pos.qty \in Nat /\ pos.priced \in BOOLEAN
BY DEF Positions

\* TypeOK is preserved by every step.
LEMMA TypeStep == ASSUME IInv, [Next]_vars PROVE TypeOK' /\ Copies'
<1> USE DEF journal, venue, bot, closer
<1>0. TypeOK /\ Copies /\ InHand
  BY DEF IInv
<1>1. CASE Tick
  BY <1>0, <1>1, LiveRunAssumption DEF Tick, TypeOK, Copies
<1>2. CASE LoadOrCreate
  <2>1. FreshRow \in Rows
    BY LiveRunAssumption DEF FreshRow, Flat, Rows, Positions
  <2>2. row' \in Rows
    BY <1>0, <1>2, <2>1 DEF LoadOrCreate, TypeOK, Copies
  <2>3. starts' \in 0..MaxStarts /\ born' \in Nat
    BY <1>0, <1>2, LiveRunAssumption DEF LoadOrCreate, TypeOK, Copies
  <2> QED BY <1>0, <1>2, <2>2, <2>3 DEF LoadOrCreate, TypeOK, Copies
<1>3. CASE SaveBegin
  BY <1>0, <1>3 DEF SaveBegin, TypeOK, Copies
<1>4. CASE WarmUp
  <2>1. mem \in Rows
    BY <1>0, <1>4 DEF WarmUp, Copies
  <2>2. stored' \subseteq Bars
    <3>1. PICK ok \in Works("fetch"), settling \in BOOLEAN : Sync(BootstrapStart(settling), ok)
      BY <1>4 DEF WarmUp
    <3> QED BY <1>0, <2>1, <3>1, WorksFact, SyncStores, StartsPositive DEF TypeOK, Copies
  <2>3. Newest(stored', Warmup) \subseteq Bars
    BY <2>2 DEF Newest
  <2>4. \A last \in Newest(stored', Warmup) \cup {0} : last \in 0..MaxBar
    BY <2>3, LiveRunAssumption DEF Bars
  <2>5. mem' \in Rows /\ fed' \subseteq Bars
    <3>1. CASE mem' = mem
      BY <1>0, <1>4, <2>1, <2>3, <3>1 DEF WarmUp, TypeOK, Copies
    <3>2. CASE \E last \in Newest(stored', Warmup) \cup {0} :
                 mem' = [mem EXCEPT !.last = last, !.status = "running"]
      <4>1. mem' \in Rows
        BY <2>1, <2>4, <3>2, RowLast
      <4> QED BY <1>0, <1>4, <2>3, <4>1 DEF WarmUp, TypeOK, Copies
    <3> QED BY <1>4, <3>1, <3>2 DEF WarmUp
  <2>6. pc' \in {"order", "mark", "poll", "fail"} /\ target' \in {"long", "flat"}
    BY <1>0, <1>4 DEF WarmUp, TypeOK, Copies
  <2> QED BY <1>0, <1>4, <2>2, <2>5, <2>6 DEF WarmUp, TypeOK, Copies
<1>5. CASE Poll
  <2>1. mem \in Rows
    BY <1>0, <1>5 DEF Poll, Copies
  <2>2. stored' \subseteq Bars
    <3>1. PICK ok \in Works("fetch") : Sync(PollStart, ok)
      BY <1>5 DEF Poll
    <3> QED BY <1>0, <2>1, <3>1, WorksFact, SyncStores, StartsPositive DEF TypeOK, Copies
  <2>3. queue' \subseteq Bars /\ pc' \in {"bar", "fail"}
    BY <1>0, <1>5, <2>2 DEF Poll, Unprocessed, TypeOK, Copies
  <2> QED BY <1>0, <1>5, <2>2, <2>3 DEF Poll, TypeOK, Copies
<1>6. CASE OnBar
  <2>1. fed' \subseteq Bars /\ twice' \in BOOLEAN
    BY <1>0, <1>6 DEF OnBar, TypeOK, Copies
  <2>2. target' \in {"long", "flat"} /\ pc' \in {"order", "mark", "fail"}
    BY <1>0, <1>6 DEF OnBar, TypeOK, Wanted, CurrentTarget
  <2> QED BY <1>0, <1>6, <2>1, <2>2 DEF OnBar, TypeOK, Copies
<1>7. CASE MarkBar
  <2>1. mem \in Rows
    BY <1>0, <1>7 DEF MarkBar, Copies
  <2>2. \A b \in queue : b \in 0..MaxBar
    BY <1>0 DEF TypeOK, Bars
  <2>3. mem' \in Rows /\ queue' \subseteq Bars
    <3>1. CASE queue = {}
      BY <1>0, <1>7, <2>1, <3>1 DEF MarkBar, TypeOK, Copies
    <3>2. CASE queue # {}
      <4>1. PICK b \in queue : /\ mem' = [mem EXCEPT !.last = b, !.status = "running"]
                               /\ queue' = queue \ {b}
        BY <1>7, <3>2 DEF MarkBar
      <4>2. [mem EXCEPT !.last = b, !.status = "running"] \in Rows
        BY <2>1, <2>2, RowLast
      <4> QED BY <1>0, <4>1, <4>2 DEF TypeOK, Copies
    <3> QED BY <3>1, <3>2
  <2>4. row' \in Rows \cup {NoRow} /\ pc' \in {"fail", "poll", "bar"}
    BY <1>0, <1>7, <2>3 DEF MarkBar, TypeOK, Copies
  <2> QED BY <1>0, <1>7, <2>3, <2>4 DEF MarkBar, TypeOK, Copies
<1>8. CASE Sleep \/ Refused
  BY <1>0, <1>8 DEF Sleep, Refused, TypeOK, Copies
<1>9. CASE SubmitEntry
  <2>1. PICK got \in Fills : Executed(Kept(got)) /\ Answered(got)
    BY <1>9 DEF SubmitEntry
  <2>2. got \in Nat /\ Kept(got) \in Nat
    BY LiveRunAssumption, KeptBound
  <2>3. orders' \in Nat /\ held' \in Int /\ 1..orders \subseteq 1..orders'
    BY <1>0, <2>1, <2>2 DEF Executed, TypeOK, Copies
  <2>4. deal' \in Deals /\ pc' \in {"log", "fail"} /\ astray' \in BOOLEAN
    BY <1>0, <2>1, <2>2, AnswerFields, NoDealIsDeal DEF Answered, TypeOK, Copies
  <2> QED BY <1>0, <1>9, <2>3, <2>4 DEF SubmitEntry, TypeOK, Copies
<1>10. CASE SubmitExit
  <2>1. CASE UNCHANGED <<venue, astray, deal>> /\ pc' \in {"mark", "fail"}
    BY <1>0, <1>10, <2>1 DEF SubmitExit, TypeOK, Copies
  <2>2. ASSUME NEW got \in 0..Sellable(mem.pos), Executed(-got), Answered(got)
        PROVE  TypeOK' /\ Copies'
    <3>1. got \in Nat
      OBVIOUS
    <3>2. orders' \in Nat /\ held' \in Int /\ 1..orders \subseteq 1..orders'
      BY <1>0, <2>2, <3>1 DEF Executed, TypeOK, Copies
    <3>3. deal' \in Deals /\ pc' \in {"log", "fail"} /\ astray' \in BOOLEAN
      BY <1>0, <2>2, <3>1, AnswerFields, NoDealIsDeal DEF Answered, TypeOK, Copies
    <3> QED BY <1>0, <1>10, <3>2, <3>3 DEF SubmitExit, TypeOK, Copies
  <2> QED BY <1>10, <2>1, <2>2 DEF SubmitExit
<1>11. CASE LogOrder
  <2>1. PICK w \in Writes("journal") :
            /\ events' = IF w.lands THEN events \cup {deal.id} ELSE events
            /\ deal' = [deal EXCEPT !.logged = w.ok]
    BY <1>11 DEF LogOrder
  <2>2. deal' \in Deals
    BY <1>0, <2>1, WriteFields DEF TypeOK, Deals
  <2>3. events' \subseteq 1..orders
    BY <1>0, <1>11, <2>1 DEF LogOrder, Copies, InHand, TypeOK
  <2> QED BY <1>0, <1>11, <2>2, <2>3 DEF LogOrder, TypeOK, Copies
<1>12. CASE ApplyEntry
  <2>1. mem \in Rows /\ Bought \in Nat
    BY <1>0, <1>12, KeptBound DEF ApplyEntry, Copies, InHand, Bought, TypeOK, Deals
  <2>2. [qty |-> Bought, priced |-> deal.priced] \in Positions
    BY <1>0, <2>1 DEF TypeOK, Deals, Positions
  <2>3. mem' \in Rows /\ row' \in Rows
    <3>1. [mem EXCEPT !.pos = [qty |-> Bought, priced |-> deal.priced],
                      !.status = "running"] \in Rows
      BY <2>1, <2>2, RowPos DEF Statuses
    <3> QED BY <1>0, <1>12, <2>1, <3>1
            DEF ApplyEntry, Unreported, Nothing, Recorded, TypeOK, Copies
  <2>4. /\ pc' \in {"mark", "fail"} /\ astray' \in BOOLEAN /\ dust' = dust
        /\ deal' \in Deals
    BY <1>0, <1>12, NoDealIsDeal DEF ApplyEntry, Unreported, Nothing, Recorded, TypeOK, Copies
  <2> QED BY <1>0, <1>12, <2>3, <2>4 DEF ApplyEntry, TypeOK, Copies
<1>13. CASE ApplyExit
  <2>1. mem \in Rows /\ row \in Rows /\ mem.pos \in Positions /\ deal.got \in Nat
    BY <1>0, <1>13, RowFields DEF ApplyExit, Copies, InHand, TypeOK, Deals, Rows
  <2> DEFINE closed == Lower(deal.got, mem.pos.qty)
  <2>2. closed \in Nat /\ closed <= mem.pos.qty
    BY <2>1, PositionFields DEF Lower
  <2>3. AfterExit(mem.pos, closed) \in Positions /\ WrittenOff(mem.pos, closed) \in Nat
    BY <2>1, <2>2, ExitAccounted
  <2>4. /\ mem' \in Rows /\ row' \in Rows /\ dust' \in Nat
        /\ pc' \in {"trade", "mark", "fail"} /\ astray' \in BOOLEAN
    <3>1. CASE Unreported
      BY <1>0, <1>13, <2>1, <3>1 DEF ApplyExit, Unreported, TypeOK, Copies
    <3>2. CASE Nothing /\ UNCHANGED dust /\ UNCHANGED astray
      BY <1>0, <1>13, <2>1, <3>2 DEF ApplyExit, Nothing, TypeOK, Copies
    <3>3. ASSUME NEW next \in {"trade", "fail"}, Recorded(AfterExit(mem.pos, closed), next),
                 dust' = dust + WrittenOff(mem.pos, closed), UNCHANGED astray
          PROVE  <2>4
      <4>1. [mem EXCEPT !.pos = AfterExit(mem.pos, closed), !.status = "running"] \in Rows
        BY <2>1, <2>3, RowPos DEF Statuses
      <4>2. mem' \in Rows /\ row' \in Rows /\ pc' \in {"trade", "fail"}
        BY <1>0, <2>1, <3>3, <4>1 DEF Recorded, TypeOK
      <4>3. dust' \in Nat /\ astray' \in BOOLEAN
        BY <1>0, <2>3, <3>3 DEF TypeOK, Copies
      <4> QED BY <4>2, <4>3
    <3>4. \/ Unreported
          \/ Nothing /\ UNCHANGED dust /\ UNCHANGED astray
          \/ \E next \in {"trade", "fail"} :
                /\ Recorded(AfterExit(mem.pos, closed), next)
                /\ dust' = dust + WrittenOff(mem.pos, closed) /\ UNCHANGED astray
      BY <1>13 DEF ApplyExit
    <3> QED BY <3>1, <3>2, <3>3, <3>4
  <2>5. deal' \in Deals
    BY <1>0, <1>13, NoDealIsDeal DEF ApplyExit, TypeOK, Copies
  <2> QED BY <1>0, <1>13, <2>4, <2>5 DEF ApplyExit, TypeOK, Copies
<1>14. CASE LogTrade
  <2>1. trades' \subseteq 1..orders
    BY <1>0, <1>14 DEF LogTrade, Copies, InHand, TypeOK
  <2>2. pc' \in {"mark", "fail"}
    BY <1>14 DEF LogTrade
  <2> QED BY <1>0, <1>14, <2>1, <2>2, NoDealIsDeal DEF LogTrade, TypeOK, Copies
<1>15. CASE Finish \/ Fail \/ Crash
  <2>1. Gone
    BY <1>15 DEF Finish, Fail, Crash
  <2>2. row' \in Rows
    <3>1. mem \in Rows
      BY <1>0, <1>15 DEF Finish, Fail, Crash, Copies
    <3>2. \A st \in {"stopped", "failed"} : [mem EXCEPT !.status = st] \in Rows
      BY <3>1, RowStatus DEF Statuses
    <3> QED BY <1>0, <1>15, <3>2 DEF Finish, Fail, Crash, TypeOK, Copies
  <2>3. astray' \in BOOLEAN
    BY <1>0, <1>15, WriteFields DEF Finish, Fail, Crash, Unsaved, TypeOK, Copies
  <2> QED BY <1>0, <1>15, <2>1, <2>2, <2>3, NoDealIsDeal
          DEF Finish, Fail, Crash, Gone, TypeOK, Copies
<1>16. CASE CloseLoad
  BY <1>0, <1>16 DEF CloseLoad, TypeOK, Copies
<1>17. CASE CloseBail \/ CloseCrash
  <2>1. astray' \in BOOLEAN
    BY <1>0, <1>17 DEF CloseBail, CloseCrash, TypeOK, Copies
  <2> QED BY <1>0, <1>17, <2>1, NoDealIsDeal DEF CloseBail, CloseCrash, CloseGone, TypeOK, Copies
<1>18. CASE CloseSell
  <2>0. cmem \in Rows /\ row \in Rows
    BY <1>0, <1>18 DEF CloseSell, Copies
  <2>1. PICK got \in 0..Sellable(cmem.pos) :
            /\ Executed(-got)
            /\ \/ cdeal' \in Answers(got) /\ cpc' = "log" /\ UNCHANGED <<astray, cmem>>
               \/ CloseGone /\ astray' = TRUE
    BY <1>18 DEF CloseSell
  <2>2. orders' \in Nat /\ held' \in Int /\ 1..orders \subseteq 1..orders'
    BY <1>0, <2>1 DEF Executed, TypeOK, Copies
  <2>3. got \in Nat
    OBVIOUS
  <2>4. /\ cdeal' \in Deals /\ cpc' \in {"log", "off"} /\ astray' \in BOOLEAN
        /\ (cpc' # "off" => cmem' \in Rows) /\ (cpc' = "off" => cmem' = NoRow)
    BY <1>0, <2>0, <2>1, <2>3, AnswerFields, NoDealIsDeal DEF CloseGone, TypeOK
  <2> QED BY <1>0, <1>18, <2>2, <2>4 DEF CloseSell, TypeOK, Copies
<1>19. CASE CloseLogOrder
  <2>0. cmem \in Rows /\ row \in Rows
    BY <1>0, <1>19 DEF CloseLogOrder, Copies
  <2>1. PICK w \in Writes("journal") :
            /\ events' = IF w.lands THEN events \cup {cdeal.id} ELSE events
            /\ \/ /\ cpc' = "apply" /\ cdeal' = [cdeal EXCEPT !.logged = w.ok]
                  /\ UNCHANGED <<cmem, astray>>
               \/ CloseGone /\ astray' = TRUE
    BY <1>19 DEF CloseLogOrder
  <2>2. /\ cdeal' \in Deals /\ cpc' \in {"apply", "off"} /\ astray' \in BOOLEAN
        /\ (cpc' # "off" => cmem' \in Rows) /\ (cpc' = "off" => cmem' = NoRow)
    BY <1>0, <2>0, <2>1, WriteFields, NoDealIsDeal DEF CloseGone, TypeOK, Deals
  <2>3. events' \subseteq 1..orders
    BY <1>0, <1>19, <2>1 DEF CloseLogOrder, Copies, InHand, TypeOK
  <2> QED BY <1>0, <1>19, <2>2, <2>3 DEF CloseLogOrder, TypeOK, Copies
<1>20. CASE CloseApply
  <2>1. cmem \in Rows /\ row \in Rows /\ cmem.pos \in Positions /\ cdeal.got \in Nat
    BY <1>0, <1>20, RowFields DEF CloseApply, Copies, InHand, TypeOK, Deals, Rows
  <2> DEFINE closed == Lower(cdeal.got, cmem.pos.qty)
             left == AfterExit(cmem.pos, closed)
             next == [cmem EXCEPT !.pos = left,
                         !.status = IF left = Flat THEN "stopped" ELSE "running"]
  <2>2. closed \in Nat /\ closed <= cmem.pos.qty
    BY <2>1, PositionFields DEF Lower
  <2>3. left \in Positions /\ WrittenOff(cmem.pos, closed) \in Nat
    BY <2>1, <2>2, ExitAccounted
  <2>4. next \in Rows
    BY <2>1, <2>3, RowPos DEF Statuses
  <2>5. /\ (cpc' # "off" => cmem' \in Rows) /\ (cpc' = "off" => cmem' = NoRow)
        /\ row' \in Rows /\ dust' \in Nat /\ cpc' \in {"trade", "off"}
        /\ astray' \in BOOLEAN /\ cdeal' \in Deals
    <3> HIDE DEF closed, left, next
    <3>1. CASE CloseGone /\ UNCHANGED <<row, dust, astray>>
      BY <1>0, <2>1, <3>1, NoDealIsDeal DEF CloseGone, TypeOK
    <3>2. ASSUME dust' = dust + WrittenOff(cmem.pos, closed), NEW w \in Writes("save"),
                 row' = IF w.lands THEN next ELSE row, astray' = (astray \/ ~w.ok),
                 CloseGone \/ (cpc' = "trade" /\ UNCHANGED <<cmem, cdeal>>)
          PROVE  <2>5
      BY <1>0, <2>1, <2>3, <2>4, <3>2, NoDealIsDeal DEF CloseGone, TypeOK, Copies
    <3> QED BY <1>20, <3>1, <3>2 DEF CloseApply, closed, left, next
  <2> QED BY <1>0, <1>20, <2>5 DEF CloseApply, TypeOK, Copies
<1>21. CASE CloseLogTrade
  <2>1. trades' \subseteq 1..orders
    BY <1>0, <1>21 DEF CloseLogTrade, Copies, InHand, TypeOK
  <2> QED BY <1>0, <1>21, <2>1, NoDealIsDeal DEF CloseLogTrade, CloseGone, TypeOK, Copies
<1>22. CASE UNCHANGED vars
  BY <1>0, <1>22 DEF vars, TypeOK, Copies
<1> QED
  BY <1>1, <1>2, <1>3, <1>4, <1>5, <1>6, <1>7, <1>8, <1>9, <1>10, <1>11, <1>12, <1>13,
     <1>14, <1>15, <1>16, <1>17, <1>18, <1>19, <1>20, <1>21, <1>22
     DEF Next, BotStep, CloseStep

-----------------------------------------------------------------------------
(* The order in hand, the journal rows, and the bars                       *)

\* InHand and Logged are preserved by every step.
LEMMA HandStep == ASSUME IInv, [Next]_vars PROVE InHand' /\ Logged'
<1> USE DEF journal, venue, bot, closer
<1>0. TypeOK /\ InHand /\ Logged
  BY DEF IInv
<1>1. ASSUME UNCHANGED <<venue, events, closer>>,
             pc' \notin {"log", "apply", "trade"} \/ UNCHANGED <<pc, deal>>
      PROVE  InHand' /\ Logged'
  BY <1>0, <1>1 DEF InHand, Logged
<1>2. CASE Tick
  BY <1>1, <1>2 DEF Tick
<1>3. CASE LoadOrCreate
  BY <1>1, <1>3 DEF LoadOrCreate
<1>4. CASE SaveBegin \/ WarmUp \/ Poll \/ OnBar
  BY <1>1, <1>4 DEF SaveBegin, WarmUp, Poll, OnBar
<1>5. CASE MarkBar \/ Sleep \/ Refused \/ Finish \/ Fail \/ Crash
  BY <1>1, <1>5 DEF MarkBar, Sleep, Refused, Finish, Fail, Crash, Gone
<1>6. ASSUME NEW got \in Nat, NEW delta \in Int, Executed(delta), Answered(got),
             UNCHANGED <<events, closer>>
      PROVE  InHand' /\ Logged'
  <2>1. orders' = orders + 1 /\ orders \in Nat
    BY <1>0, <1>6 DEF Executed, TypeOK
  <2>2. pc' = "fail" \/ (pc' = "log" /\ deal'.id = orders + 1)
    BY <1>6, <2>1, AnswerFields DEF Answered
  <2> QED BY <1>0, <1>6, <2>1, <2>2 DEF InHand, Logged
<1>7. CASE SubmitEntry
  <2>1. PICK got \in Fills : Executed(Kept(got)) /\ Answered(got)
    BY <1>7 DEF SubmitEntry
  <2>2. got \in Nat /\ Kept(got) \in Int
    BY LiveRunAssumption, KeptBound
  <2> QED BY <1>6, <1>7, <2>1, <2>2 DEF SubmitEntry
<1>8. CASE SubmitExit
  <2>1. CASE UNCHANGED <<venue, deal>> /\ pc' \in {"mark", "fail"}
    BY <1>1, <1>8, <2>1 DEF SubmitExit
  <2>2. CASE \E got \in 0..Sellable(mem.pos) : Executed(-got) /\ Answered(got)
    BY <1>6, <1>8, <2>2 DEF SubmitExit
  <2> QED BY <1>8, <2>1, <2>2 DEF SubmitExit
<1>9. CASE LogOrder
  <2>1. PICK w \in Writes("journal") :
            /\ events' = IF w.lands THEN events \cup {deal.id} ELSE events
            /\ deal' = [deal EXCEPT !.logged = w.ok]
    BY <1>9 DEF LogOrder
  <2>2. deal'.id = deal.id /\ (deal'.logged => deal'.id \in events')
    BY <1>0, <2>1, WriteFields DEF TypeOK, Deals
  <2> QED BY <1>0, <1>9, <2>1, <2>2 DEF LogOrder, InHand, Logged
<1>10. CASE ApplyEntry
  <2>1. pc' \in {"mark", "fail"}
    BY <1>10 DEF ApplyEntry, Unreported, Nothing, Recorded
  <2> QED BY <1>1, <1>10, <2>1 DEF ApplyEntry
<1>11. CASE ApplyExit
  <2>1. pc' \in {"mark", "fail"} \/ (pc' = "trade" /\ deal.logged /\ deal' = deal)
    BY <1>11 DEF ApplyExit, Unreported, Nothing, Recorded
  <2> QED BY <1>0, <1>1, <1>11, <2>1 DEF ApplyExit, InHand, Logged
<1>12. CASE LogTrade
  BY <1>1, <1>12 DEF LogTrade
<1>13. CASE CloseLoad \/ CloseBail \/ CloseCrash
  BY <1>0, <1>13 DEF CloseLoad, CloseBail, CloseCrash, CloseGone, InHand, Logged
<1>14. CASE CloseSell
  <2>1. PICK got \in 0..Sellable(cmem.pos) :
            /\ Executed(-got)
            /\ (cdeal' \in Answers(got) /\ cpc' = "log") \/ CloseGone
    BY <1>14 DEF CloseSell
  <2>2. orders' = orders + 1 /\ orders \in Nat
    BY <1>0, <2>1 DEF Executed, TypeOK
  <2>3. cpc' = "off" \/ (cpc' = "log" /\ cdeal'.id = orders + 1)
    <3>1. got \in Nat
      OBVIOUS
    <3> QED BY <2>1, <2>2, <3>1, AnswerFields DEF CloseGone
  <2> QED BY <1>0, <1>14, <2>2, <2>3 DEF CloseSell, InHand, Logged
<1>15. CASE CloseLogOrder
  <2>1. PICK w \in Writes("journal") :
            /\ events' = IF w.lands THEN events \cup {cdeal.id} ELSE events
            /\ (cpc' = "apply" /\ cdeal' = [cdeal EXCEPT !.logged = w.ok]) \/ CloseGone
    BY <1>15 DEF CloseLogOrder
  <2>2. \/ cpc' = "off"
        \/ cpc' = "apply" /\ cdeal'.id = cdeal.id /\ (cdeal'.logged => cdeal'.id \in events')
    BY <1>0, <2>1, WriteFields DEF TypeOK, Deals, CloseGone
  <2> QED BY <1>0, <1>15, <2>1, <2>2 DEF CloseLogOrder, InHand, Logged
<1>16. CASE CloseApply
  <2>1. cpc' = "off" \/ (cpc' = "trade" /\ cdeal.logged /\ cdeal' = cdeal)
    BY <1>16 DEF CloseApply, CloseGone
  <2> QED BY <1>0, <1>16, <2>1 DEF CloseApply, InHand, Logged
<1>17. CASE CloseLogTrade
  BY <1>0, <1>17 DEF CloseLogTrade, CloseGone, InHand, Logged
<1>18. CASE UNCHANGED vars
  BY <1>1, <1>18 DEF vars
<1> QED
  BY <1>2, <1>3, <1>4, <1>5, <1>7, <1>8, <1>9, <1>10, <1>11, <1>12, <1>13, <1>14, <1>15,
     <1>16, <1>17, <1>18 DEF Next, BotStep, CloseStep

\* A closed trade keeps the event of its order: every trade row is written with
\* an order whose event is known to be there.
LEMMA TradeStep == ASSUME IInv, TradeHasEvent, [Next]_vars PROVE TradeHasEvent'
<1> USE DEF journal, venue, bot, closer
<1>0. Logged
  BY DEF IInv
<1>1. CASE LogTrade
  BY <1>0, <1>1 DEF LogTrade, Logged, TradeHasEvent
<1>2. CASE CloseLogTrade
  BY <1>0, <1>2 DEF CloseLogTrade, Logged, TradeHasEvent
<1>3. ASSUME trades' = trades, events \subseteq events' PROVE TradeHasEvent'
  BY <1>3 DEF TradeHasEvent
<1>4. CASE Tick \/ LoadOrCreate \/ Crash \/ CloseLoad \/ CloseCrash \/ UNCHANGED vars
  BY <1>3, <1>4 DEF Tick, LoadOrCreate, Crash, CloseLoad, CloseCrash, vars
<1>5. CASE BotStep /\ ~LogTrade
  BY <1>3, <1>5 DEF BotStep, SaveBegin, WarmUp, Poll, OnBar, MarkBar, Sleep, Refused,
     SubmitEntry, SubmitExit, LogOrder, ApplyEntry, ApplyExit, Finish, Fail
<1>6. CASE CloseStep /\ ~CloseLogTrade
  BY <1>3, <1>6 DEF CloseStep, CloseBail, CloseSell, CloseLogOrder, CloseApply
<1> QED BY <1>1, <1>2, <1>4, <1>5, <1>6 DEF Next

\* Ordered is preserved by every step.
LEMMA OrderStep == ASSUME IInv, TypeOK', Copies', [Next]_vars PROVE Ordered'
<1> USE DEF journal, venue, bot, closer
<1>0. TypeOK /\ Copies /\ Ordered /\ TypeOK' /\ Copies' /\ LiveRunAssumption
  BY LiveRunAssumption DEF IInv
<1>1. ASSUME UNCHANGED <<row, mem, queue, closer>>,
             pc # "off", pc' # "off", pc' \in {"begin", "warm", "poll"} => queue = {}
      PROVE  Ordered'
  BY <1>0, <1>1 DEF Ordered
<1>2. CASE Tick \/ UNCHANGED vars
  BY <1>0, <1>2 DEF Tick, vars, Ordered
<1>3. CASE LoadOrCreate
  <2>1. row' \in Rows /\ row'.last \in 0..MaxBar /\ (cpc # "off" => row' = row)
    BY <1>0, <1>3, RowFields DEF LoadOrCreate, TypeOK, Copies, FreshRow, Flat, Rows, Positions
  <2> QED BY <1>0, <1>3, <2>1 DEF LoadOrCreate, Ordered
<1>4. CASE SaveBegin
  <2>1. mem.last \in 0..MaxBar /\ row.last \in 0..MaxBar /\ (cpc # "off" => cmem.last \in 0..MaxBar)
    BY <1>0, <1>4, RowFields DEF SaveBegin, Copies
  <2> QED BY <1>0, <1>4, <2>1 DEF SaveBegin, Ordered
<1>5. CASE WarmUp
  <2>1. mem \in Rows /\ row \in Rows /\ queue = {} /\ row.last <= mem.last
    BY <1>0, <1>5 DEF WarmUp, Copies, Ordered
  <2>2. row.last <= mem'.last
    <3>1. mem'.last \in 0..MaxBar /\ mem.last \in 0..MaxBar /\ row.last \in 0..MaxBar
      BY <1>0, <1>5, <2>1, RowFields DEF WarmUp, Copies
    <3>2. mem' = mem \/ mem.last = 0
      BY <1>5 DEF WarmUp
    <3> QED BY <2>1, <3>1, <3>2
  <2> QED BY <1>0, <1>5, <2>1, <2>2 DEF WarmUp, Ordered
<1>6. CASE Poll
  BY <1>0, <1>6 DEF Poll, Unprocessed, Ordered
<1>7. CASE OnBar \/ Sleep \/ Refused \/ SubmitEntry \/ SubmitExit \/ LogOrder \/ LogTrade
  <2>1. UNCHANGED <<row, mem, queue, closer>> /\ pc # "off" /\ pc' # "off"
    BY <1>7 DEF Answered, OnBar, Sleep, Refused, SubmitEntry, SubmitExit, LogOrder, LogTrade
  <2>2. pc' \in {"begin", "warm", "poll"} => queue = {}
    BY <1>7 DEF OnBar, Sleep, Refused, SubmitEntry, Answered, SubmitExit, LogOrder, LogTrade
  <2> QED BY <1>1, <2>1, <2>2
<1>8. CASE MarkBar
  <2>0. mem \in Rows /\ row \in Rows /\ mem' \in Rows /\ (cpc # "off" => cmem \in Rows)
    BY <1>0, <1>8 DEF MarkBar, Copies
  <2>1. /\ mem.last \in Int /\ row.last \in Int /\ mem'.last \in Int
        /\ (cpc # "off" => cmem.last \in Int) /\ queue \subseteq Int
    <3>1. \A r \in Rows : r.last \in Int
      BY <1>0 DEF Rows, LiveRunAssumption
    <3>2. queue \subseteq Int
      BY <1>0 DEF TypeOK, Bars
    <3> QED BY <2>0, <3>1, <3>2
  <2>2. mem.last <= mem'.last /\ \A b \in queue' : b > mem'.last
    <3>1. CASE queue = {}
      BY <1>8, <2>1, <3>1 DEF MarkBar
    <3>2. CASE queue # {}
      <4>1. PICK b \in queue : /\ IsNext(b, queue) /\ queue' = queue \ {b}
                               /\ mem' = [mem EXCEPT !.last = b, !.status = "running"]
        BY <1>8, <3>2 DEF MarkBar
      <4>2. mem'.last = b
        BY <1>0, <1>8, <4>1 DEF MarkBar, Copies, Rows
      <4>3. b > mem.last
        BY <1>0, <1>8 DEF MarkBar, Ordered
      <4> QED BY <2>1, <4>1, <4>2, <4>3 DEF IsNext
    <3> QED BY <3>1, <3>2
  <2>3. row'.last \in Int /\ row'.last <= mem'.last /\ row.last <= row'.last
    <3>1. row.last <= mem.last
      BY <1>0, <1>8 DEF MarkBar, Ordered
    <3>2. row' = row \/ row' = mem'
      BY <1>8 DEF MarkBar
    <3>3. row.last <= mem'.last /\ mem'.last <= mem'.last
      BY <2>1, <2>2, <3>1
    <3>4. CASE row' = row
      BY <2>1, <3>3, <3>4
    <3>5. CASE row' = mem'
      BY <2>1, <3>3, <3>5
    <3> QED BY <3>2, <3>4, <3>5
  <2>5. pc' \in {"begin", "warm", "poll"} => queue' = {}
    BY <1>8 DEF MarkBar
  <2>6. pc # "off" /\ UNCHANGED closer
    BY <1>8 DEF MarkBar
  <2>7. cpc # "off" => cmem.last <= row'.last
    <3>1. cpc # "off" => cmem.last <= row.last
      BY <1>0 DEF Ordered
    <3> QED BY <2>1, <2>3, <3>1
  <2>8. pc' # "off"
    BY <1>8 DEF MarkBar
  <2> QED BY <2>2, <2>3, <2>5, <2>6, <2>7, <2>8 DEF Ordered
<1>9. ASSUME UNCHANGED <<queue, closer>>, pc # "off", pc' \notin {"off", "begin", "warm", "poll"},
             mem'.last = mem.last, row' = row \/ row'.last = mem.last
      PROVE  Ordered'
  <2>1. /\ mem.last \in 0..MaxBar /\ row.last \in 0..MaxBar
        /\ (cpc # "off" => cmem.last \in 0..MaxBar)
    BY <1>0, <1>9, RowFields DEF Copies
  <2> QED BY <1>0, <1>9, <2>1 DEF Ordered
<1>10. CASE ApplyEntry \/ ApplyExit
  <2>1. mem \in Rows /\ UNCHANGED <<queue, closer>> /\ pc # "off"
    BY <1>0, <1>10 DEF ApplyEntry, ApplyExit, Copies
  <2>2. pc' \in {"mark", "trade", "fail"}
    BY <1>10 DEF ApplyEntry, ApplyExit, Unreported, Nothing, Recorded
  <2>3. UNCHANGED <<row, mem>> \/ \E pos, next : Recorded(pos, next)
    BY <1>10 DEF ApplyEntry, ApplyExit, Unreported, Nothing
  <2>4. mem'.last = mem.last /\ (row' = row \/ row' = mem')
    BY <2>1, <2>3 DEF Recorded, Rows
  <2> QED BY <1>9, <2>1, <2>2, <2>4
<1>11. CASE Finish \/ Fail \/ Crash
  <2>1. mem \in Rows /\ row \in Rows /\ Gone /\ UNCHANGED closer
    BY <1>0, <1>11 DEF Finish, Fail, Crash, Copies
  <2>2. row' = row \/ row'.last = mem.last
    BY <1>11, <2>1 DEF Finish, Fail, Crash, Rows
  <2>3. /\ mem.last \in 0..MaxBar /\ row.last \in 0..MaxBar
        /\ (cpc # "off" => cmem.last \in 0..MaxBar)
    BY <1>0, <2>1, RowFields DEF Copies
  <2>4. pc # "off"
    BY <1>11 DEF Finish, Fail, Crash
  <2> QED BY <1>0, <2>1, <2>2, <2>3, <2>4 DEF Ordered, Gone
<1>12. CASE CloseLoad
  <2>1. row \in Rows /\ row.last \in 0..MaxBar
    BY <1>0, <1>12, RowFields DEF CloseLoad, TypeOK
  <2> QED BY <1>0, <1>12, <2>1 DEF CloseLoad, Ordered
<1>13. CASE CloseBail \/ CloseCrash \/ CloseSell \/ CloseLogOrder \/ CloseLogTrade
  <2>1. UNCHANGED <<row, bot>> /\ (cpc' = "off" \/ UNCHANGED cmem) /\ cpc # "off"
    BY <1>13 DEF CloseBail, CloseCrash, CloseSell, CloseLogOrder, CloseLogTrade, CloseGone
  <2> QED BY <1>0, <2>1 DEF Ordered
<1>14. CASE CloseApply
  <2>1. cmem \in Rows /\ row \in Rows /\ cpc # "off" /\ UNCHANGED bot
    BY <1>0, <1>14 DEF CloseApply, Copies
  <2>2. row' = row \/ row'.last = cmem.last
    BY <1>14, <2>1 DEF CloseApply, Rows
  <2>3. cpc' = "off" \/ cmem' = cmem
    BY <1>14 DEF CloseApply, CloseGone
  <2>4. /\ cmem.last \in 0..MaxBar /\ row.last \in 0..MaxBar
        /\ (pc # "off" => mem.last \in 0..MaxBar)
    BY <1>0, <2>1, RowFields DEF Copies
  <2> QED BY <1>0, <2>1, <2>2, <2>3, <2>4 DEF Ordered
<1> QED
  BY <1>2, <1>3, <1>4, <1>5, <1>6, <1>7, <1>8, <1>10, <1>11, <1>12, <1>13, <1>14
     DEF Next, BotStep, CloseStep

-----------------------------------------------------------------------------
(* One process at a time, each with a current copy                         *)

\* Nothing takes back what was left to the operator.
LEMMA AstrayStays == ASSUME [Next]_vars, astray PROVE astray'
<1> USE DEF journal, venue, bot, closer
<1>1. CASE Tick \/ LoadOrCreate \/ Crash \/ CloseLoad \/ CloseCrash \/ UNCHANGED vars
  BY <1>1 DEF Tick, LoadOrCreate, Crash, CloseLoad, CloseCrash, vars
<1>2. CASE SaveBegin \/ WarmUp \/ Poll \/ OnBar \/ MarkBar \/ Sleep \/ Refused
  BY <1>2 DEF SaveBegin, WarmUp, Poll, OnBar, MarkBar, Sleep, Refused
<1>3. CASE SubmitEntry \/ SubmitExit \/ LogOrder
  BY <1>3 DEF SubmitEntry, SubmitExit, LogOrder, Answered
<1>4. CASE ApplyEntry \/ ApplyExit \/ LogTrade \/ Finish \/ Fail
  BY <1>4 DEF ApplyEntry, ApplyExit, LogTrade, Finish, Fail, Unreported
<1>5. CASE CloseStep
  BY <1>5 DEF CloseStep, CloseBail, CloseSell, CloseLogOrder, CloseApply, CloseLogTrade
<1> QED BY <1>1, <1>2, <1>3, <1>4, <1>5 DEF Next, BotStep

\* Alone is preserved by every step.
LEMMA AloneStep == ASSUME IInv, TypeOK', Copies', [Next]_vars PROVE Alone'
<1> USE DEF journal, venue, bot, closer
<1>0. TypeOK /\ Copies /\ Alone /\ Copies'
  BY DEF IInv
<1> SUFFICES ASSUME ~astray' PROVE Alone'
  BY DEF Alone
<1>a. ~astray
  BY AstrayStays
<1>b. ASSUME pc # "off", UNCHANGED closer,
             pc' \notin {"off", "fail"} => mem'.pos = row'.pos,
             pc' \in {"order", "log", "apply"} => target' # CurrentTarget(mem'.pos)
      PROVE  Alone'
  <2>1. cpc = "off"
    BY <1>0, <1>a, <1>b DEF Alone
  <2> QED BY <1>b, <2>1 DEF Alone
<1>1. CASE Tick \/ UNCHANGED vars
  BY <1>0, <1>1 DEF Tick, vars, Alone
<1>2. CASE LoadOrCreate
  BY <1>0, <1>2 DEF LoadOrCreate, Alone
<1>3. CASE SaveBegin
  <2>1. mem.pos = row.pos /\ mem' = mem /\ (row' = row \/ row' = mem)
    BY <1>0, <1>3, <1>a DEF SaveBegin, Alone
  <2>2. mem'.pos = row'.pos
    BY <2>1
  <2>3. UNCHANGED closer /\ pc # "off" /\ pc' \in {"warm", "fail"}
    BY <1>3 DEF SaveBegin
  <2> QED BY <1>b, <2>2, <2>3
<1>4. CASE WarmUp
  <2>1. mem \in Rows /\ mem.pos = row.pos /\ row' = row /\ UNCHANGED closer /\ pc # "off"
    BY <1>0, <1>4, <1>a DEF WarmUp, Alone, Copies
  <2>2. mem'.pos = mem.pos
    BY <1>4, <2>1 DEF WarmUp, Rows
  <2>3. pc' \in {"order", "mark", "poll", "fail"}
    BY <1>4 DEF WarmUp
  <2>4. pc' = "order" => target' # CurrentTarget(mem.pos)
    BY <1>4 DEF WarmUp
  <2> QED BY <1>b, <2>1, <2>2, <2>3, <2>4
<1>5. CASE Poll \/ Sleep \/ Refused
  <2>1. /\ mem.pos = row.pos /\ UNCHANGED <<row, mem, closer>> /\ pc # "off"
        /\ pc' \in {"bar", "poll", "finish", "fail"}
    BY <1>0, <1>5, <1>a DEF Poll, Sleep, Refused, Alone
  <2> QED BY <1>b, <2>1
<1>6. CASE OnBar
  <2>1. /\ mem.pos = row.pos /\ UNCHANGED <<row, mem, closer>> /\ pc # "off"
        /\ pc' \in {"order", "mark", "fail"}
        /\ pc' = "order" => target' # CurrentTarget(mem.pos)
    BY <1>0, <1>6, <1>a DEF OnBar, Alone
  <2> QED BY <1>b, <2>1
<1>7. CASE MarkBar
  <2>1. mem \in Rows /\ mem.pos = row.pos /\ UNCHANGED closer /\ pc # "off"
    BY <1>0, <1>7, <1>a DEF MarkBar, Alone, Copies
  <2>2. mem'.pos = mem.pos
    BY <1>7, <2>1 DEF MarkBar, Rows
  <2>3. row' = row \/ row' = mem'
    BY <1>7 DEF MarkBar
  <2>4. row'.pos = mem'.pos
    BY <2>1, <2>2, <2>3
  <2>5. pc' \in {"poll", "bar", "fail"}
    BY <1>7 DEF MarkBar
  <2> QED BY <1>b, <2>1, <2>4, <2>5
<1>8. CASE SubmitEntry \/ SubmitExit
  <2>1. /\ mem.pos = row.pos /\ UNCHANGED <<row, mem, target, closer>> /\ pc = "order"
        /\ target # CurrentTarget(mem.pos)
    BY <1>0, <1>8, <1>a DEF SubmitEntry, SubmitExit, Alone
  <2>2. pc' \in {"log", "mark", "fail"}
    BY <1>8 DEF SubmitEntry, SubmitExit, Answered
  <2> QED BY <1>b, <2>1, <2>2
<1>9. CASE LogOrder
  <2>1. /\ mem.pos = row.pos /\ UNCHANGED <<row, mem, target, closer>> /\ pc = "log"
        /\ target # CurrentTarget(mem.pos) /\ pc' = "apply"
    BY <1>0, <1>9, <1>a DEF LogOrder, Alone
  <2> QED BY <1>b, <2>1
<1>10. CASE ApplyEntry \/ ApplyExit
  <2>1. mem.pos = row.pos /\ pc = "apply" /\ UNCHANGED closer
    BY <1>0, <1>10, <1>a DEF ApplyEntry, ApplyExit, Alone
  <2>2. pc' \in {"mark", "trade", "fail"}
    BY <1>10 DEF ApplyEntry, ApplyExit, Unreported, Nothing, Recorded
  <2>3. UNCHANGED <<row, mem>> \/ pc' = "fail" \/ row' = mem'
    BY <1>10, WriteFields DEF ApplyEntry, ApplyExit, Unreported, Nothing, Recorded
  <2> QED BY <1>b, <2>1, <2>2, <2>3
<1>11. CASE LogTrade
  <2>1. /\ mem.pos = row.pos /\ UNCHANGED <<row, mem, closer>> /\ pc = "trade"
        /\ pc' \in {"mark", "fail"}
    BY <1>0, <1>11, <1>a DEF LogTrade, Alone
  <2> QED BY <1>b, <2>1
<1>12. CASE Finish \/ Fail \/ Crash
  <2>1. pc # "off" /\ pc' = "off" /\ UNCHANGED closer
    BY <1>12 DEF Finish, Fail, Crash, Gone
  <2> QED BY <1>b, <2>1
<1>13. CASE CloseLoad
  <2>1. pc = "off" /\ pc' = "off" /\ cmem' = row /\ row' = row
    BY <1>13 DEF CloseLoad
  <2> QED BY <2>1 DEF Alone
<1>14. CASE CloseStep \/ CloseCrash
  <2>1. cpc # "off" /\ pc' = pc
    BY <1>14 DEF CloseStep, CloseBail, CloseSell, CloseLogOrder, CloseApply,
       CloseLogTrade, CloseCrash
  <2>2. pc = "off"
    BY <1>0, <1>a, <2>1 DEF Alone
  <2>3. cpc' \in {"off", "trade"} \/
        (cpc \in {"sell", "log"} /\ cmem' = cmem /\ row' = row)
    BY <1>14 DEF CloseStep, CloseBail, CloseSell, CloseLogOrder, CloseApply,
       CloseLogTrade, CloseCrash, CloseGone
  <2> QED BY <1>0, <1>a, <2>1, <2>2, <2>3 DEF Alone
<1> QED
  BY <1>1, <1>2, <1>3, <1>4, <1>5, <1>6, <1>7, <1>8, <1>9, <1>10, <1>11, <1>12, <1>13,
     <1>14 DEF Next, BotStep

-----------------------------------------------------------------------------
(* What the venue holds                                                    *)

LEMMA NearShift ==
    ASSUME NEW a \in Int, NEW b \in Int, NEW d \in Int, Near(a, b)
    PROVE  Near(a + d, b + d)
BY DEF Near

\* The quantities the accounting is about are numbers.
LEMMA Numbers ==
    ASSUME TypeOK, Copies
    PROVE  /\ held \in Int /\ dust \in Nat /\ deal.got \in Nat /\ cdeal.got \in Nat
           /\ (pc # "off" => mem.pos \in Positions /\ row.pos \in Positions)
           /\ (cpc # "off" => cmem.pos \in Positions /\ row.pos \in Positions)
           /\ (pc # "off" \/ cpc # "off" => row # NoRow /\ Position = row.pos.qty)
           /\ Position \in Nat
<1>1. held \in Int /\ dust \in Nat /\ deal.got \in Nat /\ cdeal.got \in Nat
  BY DEF TypeOK, Deals
<1>2. (pc # "off" => mem.pos \in Positions) /\ (cpc # "off" => cmem.pos \in Positions)
  BY RowFields DEF Copies
<1>3. row # NoRow => row.pos \in Positions /\ Position = row.pos.qty
  BY RowFields DEF TypeOK, Position
<1>4. pc # "off" \/ cpc # "off" => row # NoRow
  BY LiveRunAssumption DEF Copies, LiveRunAssumption
<1>5. Position \in Nat
  BY <1>3, PositionFields DEF Position
<1> QED BY <1>1, <1>2, <1>3, <1>4, <1>5

\* Accounted is preserved by every step.
LEMMA AccountedStep == ASSUME IInv, TypeOK', Copies', Alone', [Next]_vars PROVE Accounted'
<1> USE DEF journal, venue, bot, closer
<1>0. TypeOK /\ Copies /\ Alone /\ Accounted
  BY DEF IInv
<1> SUFFICES ASSUME ~astray' PROVE Accounted'
  BY DEF Accounted
<1>a. ~astray
  BY AstrayStays
<1>n. /\ held \in Int /\ dust \in Nat /\ deal.got \in Nat /\ cdeal.got \in Nat
      /\ Position \in Nat
      /\ (pc # "off" => mem.pos \in Positions /\ row.pos \in Positions
                         /\ Position = row.pos.qty)
      /\ (cpc # "off" => cmem.pos \in Positions /\ row.pos \in Positions
                         /\ Position = row.pos.qty)
  BY <1>0, Numbers
<1>f. /\ (pc # "off" => row \in Rows /\ mem \in Rows /\ row # NoRow)
      /\ (cpc # "off" => row \in Rows /\ cmem \in Rows /\ row # NoRow)
  BY <1>0, LiveRunAssumption DEF Copies, LiveRunAssumption
\* Steps between orders.
<1>q. ASSUME ~InFlight, UNCHANGED <<held, dust>>, Position' = Position,
             pc' \notin {"log", "apply"}, cpc' \notin {"log", "apply"},
             pc' = "fail" => mem'.pos.qty = Position
      PROVE  Accounted'
  BY <1>0, <1>a, <1>q DEF Accounted
\* Steps of `trade run` between orders.
<1>r. ASSUME pc \notin {"off", "log", "apply", "fail"}, UNCHANGED <<held, dust, closer>>,
             row' \in Rows, row'.pos = row.pos, pc' \notin {"log", "apply"},
             pc' = "fail" => mem'.pos = row.pos
      PROVE  Accounted'
  <2>1. cpc = "off"
    BY <1>0, <1>a, <1>r DEF Alone
  <2>2. Position' = Position
    BY <1>f, <1>r, LiveRunAssumption DEF Position, LiveRunAssumption
  <2>3. pc' = "fail" => mem'.pos.qty = Position
    BY <1>n, <1>r
  <2>4. ~InFlight
    BY <1>r, <2>1 DEF InFlight
  <2> QED BY <1>q, <1>r, <2>1, <2>2, <2>3, <2>4
<1>1. CASE Tick \/ UNCHANGED vars
  BY <1>0, <1>1 DEF Tick, vars, Accounted, InFlight, Position, Delta
<1>2. CASE LoadOrCreate
  <2>1. cpc = "off" /\ pc = "off" /\ UNCHANGED <<held, dust, closer>> /\ pc' \in {"begin", "off"}
    BY <1>2 DEF LoadOrCreate
  <2>2. Position' = Position
    <3>1. CASE row = NoRow
      BY <1>2, <3>1 DEF LoadOrCreate, Position, FreshRow, Flat
    <3>2. CASE row # NoRow
      BY <1>2, <3>2 DEF LoadOrCreate, Position
    <3> QED BY <3>1, <3>2
  <2> QED BY <1>q, <2>1, <2>2 DEF InFlight
<1>3. CASE SaveBegin
  <2>1. mem.pos = row.pos /\ mem' = mem /\ (row' = row \/ row' = mem) /\ pc = "begin"
    BY <1>0, <1>3, <1>a DEF SaveBegin, Alone
  <2>2. UNCHANGED <<held, dust, closer>> /\ pc' \in {"warm", "fail"}
    BY <1>3 DEF SaveBegin
  <2> QED BY <1>f, <1>r, <2>1, <2>2
<1>4. CASE WarmUp
  <2>1. mem \in Rows /\ mem.pos = row.pos /\ row' = row /\ pc = "warm"
    BY <1>0, <1>4, <1>a DEF WarmUp, Alone, Copies
  <2>2. mem'.pos = mem.pos
    BY <1>4, <2>1 DEF WarmUp, Rows
  <2>3. UNCHANGED <<held, dust, closer>> /\ pc' \in {"order", "mark", "poll", "fail"}
    BY <1>4 DEF WarmUp
  <2> QED BY <1>f, <1>r, <2>1, <2>2, <2>3
<1>5. CASE Poll \/ Sleep \/ Refused \/ OnBar
  <2>1. mem.pos = row.pos /\ UNCHANGED <<row, mem>> /\ pc \in {"poll", "bar", "order"}
    BY <1>0, <1>5, <1>a DEF Poll, Sleep, Refused, OnBar, Alone
  <2>2. UNCHANGED <<held, dust, closer>> /\ pc' \in {"poll", "bar", "order", "mark", "finish", "fail"}
    BY <1>5 DEF Poll, Sleep, Refused, OnBar
  <2> QED BY <1>f, <1>r, <2>1, <2>2
<1>6. CASE MarkBar
  <2>1. mem \in Rows /\ mem.pos = row.pos /\ pc = "mark"
    BY <1>0, <1>6, <1>a DEF MarkBar, Alone, Copies
  <2>2. mem'.pos = mem.pos
    BY <1>6, <2>1 DEF MarkBar, Rows
  <2>3. UNCHANGED <<held, dust, closer>> /\ pc' \in {"poll", "bar", "fail"}
    BY <1>6 DEF MarkBar
  <2>4. (row' = row \/ row' = mem') /\ row' \in Rows
    <3>1. (row' = row \/ row' = mem') /\ pc' # "off"
      BY <1>6 DEF MarkBar
    <3> QED BY <3>1 DEF Copies
  <2>5. row'.pos = row.pos
    BY <2>1, <2>2, <2>4
  <2> QED BY <1>r, <2>1, <2>2, <2>3, <2>4, <2>5
\* An order that is sent and answered.
<1>7. CASE SubmitEntry
  <2>1. PICK got \in Fills : Executed(Kept(got)) /\ Answered(got)
    BY <1>7 DEF SubmitEntry
  <2>2. got \in Nat /\ Kept(got) \in Nat
    BY LiveRunAssumption, KeptBound DEF LiveRunAssumption
  <2>3. orders \in Nat /\ deal' \in Answers(got) /\ pc' = "log"
    BY <1>0, <2>1 DEF Answered, TypeOK
  <2>4. deal'.got = got /\ ("nofills" \notin Faults => deal'.fills = TRUE)
    BY <2>2, <2>3, AnswerFields
  <2>5. pc = "order" /\ target = "long" /\ UNCHANGED <<row, mem, dust, target, closer>>
    BY <1>7 DEF SubmitEntry
  <2>6. cpc = "off" /\ Near(held, Position + dust) /\ Position = row.pos.qty
    BY <1>0, <1>a, <1>n, <2>5 DEF Alone, Accounted, InFlight
  <2>7. Near(held + Kept(got), (Position + dust) + Kept(got))
    BY <1>n, <2>2, <2>6, NearShift
  <2>8. held' = held + Kept(got) /\ Delta' = Kept(got)
    BY <2>1, <2>4, <2>5 DEF Executed, Delta
  <2>9. Near(held', row'.pos.qty + dust' + Delta')
    BY <2>5, <2>6, <2>7, <2>8
  <2> QED BY <2>3, <2>4, <2>5, <2>6, <2>9 DEF Accounted, InFlight
<1>8. CASE SubmitExit
  <2>1. pc = "order" /\ target = "flat" /\ UNCHANGED <<row, mem, dust, target, closer>>
    BY <1>8 DEF SubmitExit
  <2>2. CASE UNCHANGED <<venue, astray, deal>> /\ pc' \in {"mark", "fail"}
    <3>1. mem.pos = row.pos
      BY <1>0, <1>a, <2>1 DEF Alone
    <3> QED BY <1>f, <1>r, <2>1, <2>2, <3>1
  <2>3. ASSUME NEW got \in 0..Sellable(mem.pos), Executed(-got), Answered(got)
        PROVE  Accounted'
    <3>1. got \in Nat /\ got <= mem.pos.qty
      <4>1. Sellable(mem.pos) \in Int /\ Sellable(mem.pos) <= mem.pos.qty
        BY <1>n, <2>1, SellableBound
      <4>2. mem.pos.qty \in Nat
        BY <1>n, <2>1, PositionFields
      <4> QED BY <4>1, <4>2
    <3>2. orders \in Nat /\ deal' \in Answers(got) /\ pc' = "log"
      BY <1>0, <2>3 DEF Answered, TypeOK
    <3>3. deal'.got = got /\ ("nofills" \notin Faults => deal'.fills = TRUE)
      BY <3>1, <3>2, AnswerFields
    <3>4. cpc = "off" /\ Near(held, Position + dust) /\ Position = row.pos.qty
      BY <1>0, <1>a, <1>n, <2>1 DEF Alone, Accounted, InFlight
    <3>5. Near(held + (-got), (Position + dust) + (-got))
      BY <1>n, <3>1, <3>4, NearShift
    <3>6. held' = held + (-got) /\ Delta' = -got
      BY <2>1, <2>3, <3>3 DEF Executed, Delta
    <3>7. Near(held', row'.pos.qty + dust' + Delta')
      BY <2>1, <3>4, <3>5, <3>6
    <3>8. deal'.got <= mem'.pos.qty
      BY <2>1, <3>1, <3>3
    <3> QED BY <2>1, <3>2, <3>3, <3>4, <3>7, <3>8 DEF Accounted, InFlight
  <2> QED BY <1>8, <2>2, <2>3 DEF SubmitExit
<1>9. CASE LogOrder
  <2>1. /\ pc = "log" /\ pc' = "apply"
        /\ UNCHANGED <<row, mem, held, dust, target, closer>>
    BY <1>9 DEF LogOrder
  <2>2. deal'.got = deal.got /\ deal'.fills = deal.fills
    <3>1. PICK w \in Writes("journal") : deal' = [deal EXCEPT !.logged = w.ok]
      BY <1>9 DEF LogOrder
    <3> QED BY <1>0, <3>1 DEF TypeOK, Deals
  <2>3. Delta' = Delta
    BY <2>1, <2>2 DEF Delta
  <2>4. cpc = "off"
    BY <1>0, <1>a, <2>1 DEF Alone
  <2> QED BY <1>0, <1>a, <2>1, <2>2, <2>3, <2>4 DEF Accounted, InFlight
\* An order that is applied: the position takes what the venue executed.
<1>p. ASSUME pc = "apply", NEW pos \in Positions, UNCHANGED closer,
             pc' \in {"mark", "trade", "fail"}, Near(held', pos.qty + dust'),
             mem'.pos = pos, pc' # "fail" => row'.pos = pos
      PROVE  Accounted'
  <2>1. cpc = "off"
    BY <1>0, <1>a, <1>p DEF Alone
  <2>2. pc' = "fail" => Near(held', mem'.pos.qty + dust')
    BY <1>p
  <2>3. pc' # "fail" => Position' = row'.pos.qty
    <3>1. row' \in Rows
      BY <1>p DEF Copies
    <3> QED BY <3>1, LiveRunAssumption DEF Position, LiveRunAssumption
  <2>4. pc' # "fail" => Near(held', Position' + dust')
    BY <1>p, <2>3
  <2> QED BY <1>p, <2>1, <2>2, <2>4 DEF Accounted, InFlight
<1>10. CASE ApplyEntry
  <2>1. /\ pc = "apply" /\ target = "long" /\ held' = held /\ UNCHANGED closer
        /\ mem.pos = row.pos /\ target # CurrentTarget(mem.pos)
    BY <1>0, <1>a, <1>10 DEF ApplyEntry, Alone
  <2>2. mem.pos \in Positions /\ mem.pos.qty = 0
    <3>1. mem.pos \in Positions /\ mem.pos.qty \in Nat
      BY <1>n, <2>1, PositionFields
    <3> QED BY <2>1, <3>1 DEF CurrentTarget
  <2>3. /\ Near(held, row.pos.qty + dust + Kept(deal.got))
        /\ "nofills" \notin Faults => deal.fills
    BY <1>0, <1>a, <2>1 DEF Accounted, Delta
  <2>4. deal.said /\ dust' = dust
    BY <1>10 DEF ApplyEntry, Unreported
  <2>5. Kept(deal.got) \in Nat /\ Kept(deal.got) <= deal.got
    BY <1>n, KeptBound
  <2>6. Bought \in Nat /\ Near(held, Bought + dust)
    BY <1>n, <2>1, <2>2, <2>3, <2>5 DEF Near, Bought
  <2>7. CASE Bought = 0
    <3>1. UNCHANGED <<row, mem>> /\ pc' \in {"mark", "fail"}
      BY <1>10, <2>4, <2>7 DEF ApplyEntry, Nothing, Unreported
    <3>2. Near(held', mem.pos.qty + dust')
      BY <2>1, <2>2, <2>4, <2>6, <2>7
    <3> QED BY <1>p, <2>1, <2>2, <3>1, <3>2
  <2>8. CASE Bought # 0
    <3> DEFINE pos == [qty |-> Bought, priced |-> deal.priced]
    <3>1. pos \in Positions
      BY <1>0, <2>6 DEF TypeOK, Deals, Positions
    <3>2. Recorded(pos, IF deal.logged THEN "mark" ELSE "fail")
      BY <1>10, <2>4, <2>8 DEF ApplyEntry, Unreported
    <3>3. mem'.pos = pos
      <4>1. mem \in Rows /\ mem' = [mem EXCEPT !.pos = pos, !.status = "running"]
        BY <1>f, <2>1, <3>2 DEF Recorded
      <4> QED BY <3>1, <4>1, RowPos DEF Statuses
    <3>4. pc' \in {"mark", "fail"} /\ (pc' # "fail" => row' = mem')
      BY <3>2, WriteFields DEF Recorded
    <3>5. Near(held', pos.qty + dust')
      BY <2>1, <2>4, <2>6
    <3> QED BY <1>p, <2>1, <3>1, <3>3, <3>4, <3>5
  <2> QED BY <2>7, <2>8
<1>11. CASE ApplyExit
  <2>1. /\ pc = "apply" /\ target = "flat" /\ held' = held /\ UNCHANGED closer
        /\ mem.pos = row.pos
    BY <1>0, <1>a, <1>11 DEF ApplyExit, Alone
  <2>2. Near(held, row.pos.qty + dust + (-deal.got)) /\ deal.got <= mem.pos.qty
    BY <1>0, <1>a, <2>1 DEF Accounted, Delta
  <2>3. deal.said
    BY <1>11 DEF ApplyExit, Unreported
  <2>4. mem.pos \in Positions /\ mem.pos.qty \in Nat
    BY <1>n, <2>1, PositionFields
  <2>5. Lower(deal.got, mem.pos.qty) = deal.got
    BY <1>n, <2>2, <2>4 DEF Lower
  <2>6. CASE deal.got = 0
    <3>1. UNCHANGED <<row, mem, dust>> /\ pc' \in {"mark", "fail"}
      BY <1>11, <2>3, <2>5, <2>6 DEF ApplyExit, Nothing, Unreported
    <3>2. Near(held', mem.pos.qty + dust')
      BY <1>n, <2>1, <2>2, <2>4, <2>6, <3>1 DEF Near
    <3> QED BY <1>p, <2>1, <2>4, <3>1, <3>2
  <2>7. CASE deal.got # 0
    <3> DEFINE pos == AfterExit(mem.pos, deal.got)
               off == WrittenOff(mem.pos, deal.got)
               next == IF deal.logged /\ mem.pos.priced /\ deal.priced
                       THEN "trade" ELSE "fail"
    <3>1. pos \in Positions /\ off \in Nat /\ pos.qty + off = mem.pos.qty - deal.got
      BY <1>n, <2>2, <2>4, ExitAccounted
    <3>2. Recorded(pos, next) /\ dust' = dust + off
      BY <1>11, <2>3, <2>5, <2>7 DEF ApplyExit, Unreported
    <3> HIDE DEF pos, off
    <3>3. mem'.pos = pos
      <4>1. mem \in Rows /\ mem' = [mem EXCEPT !.pos = pos, !.status = "running"]
        BY <1>f, <2>1, <3>2 DEF Recorded
      <4> QED BY <3>1, <4>1, RowPos DEF Statuses
    <3>4. pc' \in {"trade", "fail"} /\ (pc' # "fail" => row' = mem')
      BY <3>2, WriteFields DEF Recorded
    <3>5. Near(held', pos.qty + dust')
      <4>1. pos.qty \in Nat
        BY <3>1, PositionFields
      <4>2. pos.qty + dust' = mem.pos.qty + dust + (-deal.got)
        BY <1>n, <2>4, <3>1, <3>2, <4>1
      <4> QED BY <2>1, <2>2, <4>2
    <3> QED BY <1>p, <2>1, <3>1, <3>3, <3>4, <3>5
  <2> QED BY <2>6, <2>7
<1>12. CASE LogTrade
  <2>1. mem.pos = row.pos /\ UNCHANGED <<row, mem>> /\ pc = "trade"
    BY <1>0, <1>12, <1>a DEF LogTrade, Alone
  <2>2. UNCHANGED <<held, dust, closer>> /\ pc' \in {"mark", "fail"}
    BY <1>12 DEF LogTrade
  <2> QED BY <1>f, <1>r, <2>1, <2>2
\* The ends of the process.
<1>13. CASE Finish
  <2>1. mem \in Rows /\ row \in Rows /\ mem.pos = row.pos /\ pc = "finish"
    BY <1>0, <1>13, <1>a, <1>f DEF Finish, Alone
  <2>2. UNCHANGED <<held, dust, closer>> /\ pc' = "off"
    BY <1>13 DEF Finish, Gone
  <2>3. row' = row \/ row' = [mem EXCEPT !.status = "stopped"]
    BY <1>13 DEF Finish
  <2>4. row' \in Rows /\ row'.pos = row.pos
    BY <2>1, <2>3, RowStatus DEF Statuses
  <2> QED BY <1>r, <2>1, <2>2, <2>4
\* After the end the row alone has to account for what is held.
<1>e. ASSUME pc # "off", pc' = "off", UNCHANGED <<held, dust, closer>>,
             Near(held, row'.pos.qty + dust), row' \in Rows
      PROVE  Accounted'
  <2>1. cpc = "off"
    BY <1>0, <1>a, <1>e DEF Alone
  <2>2. Position' = row'.pos.qty
    BY <1>e, LiveRunAssumption DEF Position, LiveRunAssumption
  <2>3. Near(held', Position' + dust')
    BY <1>e, <2>2
  <2> QED BY <1>e, <2>1, <2>3 DEF Accounted
<1>14. CASE Fail
  <2>1. pc = "fail" /\ pc' = "off" /\ UNCHANGED <<held, dust, closer>>
    BY <1>14 DEF Fail, Gone
  <2>2. mem \in Rows /\ row \in Rows /\ Near(held, mem.pos.qty + dust)
    BY <1>0, <1>a, <1>f, <2>1 DEF Accounted
  <2>3. row' = [mem EXCEPT !.status = "failed"] \/ (row' = row /\ row.pos = mem.pos)
    <3>1. PICK w \in Writes("save") :
             /\ row' = IF w.lands THEN [mem EXCEPT !.status = "failed"] ELSE row
             /\ astray' = (astray \/ (~w.ok /\ Unsaved))
      BY <1>14 DEF Fail
    <3>2. CASE w.ok
      BY <3>1, <3>2, WriteFields
    <3>3. CASE ~w.ok
      BY <2>1, <3>1, <3>3 DEF Unsaved
    <3> QED BY <3>2, <3>3
  <2>4. row' \in Rows /\ row'.pos = mem.pos
    BY <2>2, <2>3, RowStatus DEF Statuses
  <2>5. Near(held, row'.pos.qty + dust)
    BY <2>2, <2>4
  <2> QED BY <1>e, <2>1, <2>4, <2>5
<1>15. CASE Crash
  <2>1. pc # "off" /\ pc' = "off" /\ UNCHANGED <<held, dust, closer, row>> /\ ~Unsaved
    BY <1>15 DEF Crash, Gone
  <2>2. row \in Rows /\ Position = row.pos.qty /\ cpc = "off"
    BY <1>0, <1>a, <1>f, <1>n, <2>1 DEF Alone
  <2>3. CASE pc = "fail"
    <3>1. mem.pos = row.pos /\ Near(held, mem.pos.qty + dust)
      BY <1>0, <1>a, <2>1, <2>3 DEF Unsaved, Accounted
    <3> QED BY <1>e, <2>1, <2>2, <3>1
  <2>4. CASE pc # "fail"
    <3>1. Near(held, Position + dust)
      BY <1>0, <1>a, <2>1, <2>2, <2>4 DEF Unsaved, Accounted, InFlight
    <3> QED BY <1>e, <2>1, <2>2, <3>1
  <2> QED BY <2>3, <2>4
\* `trade close`, with `trade run` not running.
<1>16. CASE CloseLoad
  <2>1. pc = "off" /\ pc' = "off" /\ cpc = "off" /\ cpc' = "sell" /\ row' = row
    BY <1>16 DEF CloseLoad
  <2>2. UNCHANGED <<held, dust>> /\ Position' = Position
    BY <1>16 DEF CloseLoad, Position
  <2> QED BY <1>q, <2>1, <2>2 DEF InFlight
<1>c. ASSUME cpc # "off", UNCHANGED bot PROVE pc = "off" /\ pc' = "off"
  BY <1>0, <1>a, <1>c DEF Alone
<1>17. CASE CloseBail \/ CloseCrash \/ CloseLogTrade
  <2>1. cpc # "off" /\ UNCHANGED bot /\ UNCHANGED <<held, dust, row>> /\ cpc' = "off"
    BY <1>17 DEF CloseBail, CloseCrash, CloseLogTrade, CloseGone
  <2>2. cpc \notin {"log", "apply"}
    BY <1>17 DEF CloseBail, CloseCrash, CloseLogTrade
  <2>3. Position' = Position
    BY <2>1 DEF Position
  <2> QED BY <1>c, <1>q, <2>1, <2>2, <2>3 DEF InFlight
<1>18. CASE CloseSell
  <2>1. /\ cpc = "sell" /\ UNCHANGED bot /\ UNCHANGED <<dust, row>>
        /\ cmem.pos = row.pos /\ cmem.pos \in Positions
    BY <1>0, <1>18, <1>a, <1>n DEF CloseSell, Alone
  <2>2. PICK got \in 0..Sellable(cmem.pos) :
            /\ Executed(-got)
            /\ \/ cdeal' \in Answers(got) /\ cpc' = "log" /\ UNCHANGED <<astray, cmem>>
               \/ CloseGone /\ astray' = TRUE
    BY <1>18 DEF CloseSell
  <2>3. got \in Nat /\ got <= cmem.pos.qty
    <3>1. Sellable(cmem.pos) \in Int /\ Sellable(cmem.pos) <= cmem.pos.qty
      BY <1>n, <2>1, SellableBound
    <3>2. cmem.pos.qty \in Nat
      BY <2>1, PositionFields
    <3> QED BY <3>1, <3>2
  <2>4. cdeal'.got = got /\ cpc' = "log" /\ UNCHANGED cmem
    BY <1>0, <2>2, <2>3, AnswerFields DEF TypeOK
  <2>5. Near(held, Position + dust) /\ Position = row.pos.qty /\ pc = "off" /\ pc' = "off"
    BY <1>0, <1>a, <1>c, <1>n, <2>1 DEF Accounted, InFlight
  <2>6. Near(held + (-got), (Position + dust) + (-got))
    <3>1. held \in Int /\ (Position + dust) \in Int /\ (-got) \in Int
      BY <1>n, <2>3
    <3> QED BY <2>5, <3>1, NearShift
  <2>7. held' = held + (-got) /\ (Position + dust) + (-got) = row.pos.qty + dust - got
    BY <1>n, <2>2, <2>3, <2>5 DEF Executed
  <2>8. Near(held', row'.pos.qty + dust' - cdeal'.got) /\ cdeal'.got <= cmem'.pos.qty
    BY <2>1, <2>3, <2>4, <2>6, <2>7
  <2> QED BY <2>4, <2>5, <2>8 DEF Accounted, InFlight
<1>19. CASE CloseLogOrder
  <2>1. /\ cpc = "log" /\ UNCHANGED bot /\ UNCHANGED <<held, dust, row>>
        /\ cpc' = "apply" /\ UNCHANGED cmem
    BY <1>19 DEF CloseLogOrder
  <2>2. cdeal'.got = cdeal.got
    <3>1. PICK w \in Writes("journal") : cdeal' = [cdeal EXCEPT !.logged = w.ok]
      BY <1>19 DEF CloseLogOrder
    <3> QED BY <1>0, <3>1 DEF TypeOK, Deals
  <2> QED BY <1>0, <1>a, <1>c, <2>1, <2>2 DEF Accounted, InFlight
<1>20. CASE CloseApply
  <2>1. cpc = "apply" /\ UNCHANGED bot /\ held' = held /\ cpc' \in {"trade", "off"}
    BY <1>20 DEF CloseApply, CloseGone
  <2>2. pc = "off" /\ pc' = "off" /\ cmem.pos = row.pos /\ cmem.pos \in Positions
    BY <1>0, <1>a, <1>c, <1>n, <2>1 DEF Alone
  <2>3. Near(held, row.pos.qty + dust - cdeal.got) /\ cdeal.got <= cmem.pos.qty
    BY <1>0, <1>a, <2>1 DEF Accounted
  <2>4. cmem.pos.qty \in Nat
    BY <2>2, PositionFields
  <2>5. Near(held', Position' + dust')
    <3>1. CASE ~(cdeal.got > 0 /\ cmem.pos.qty > 0)
      <4>1. UNCHANGED <<row, dust>> /\ cdeal.got = 0
        BY <1>20, <1>n, <2>3, <2>4, <3>1 DEF CloseApply
      <4>2. Position' = row.pos.qty
        BY <1>n, <2>1, <4>1 DEF Position
      <4> QED BY <1>n, <2>1, <2>2, <2>3, <2>4, <4>1, <4>2 DEF Near
    <3>2. CASE cdeal.got > 0 /\ cmem.pos.qty > 0
      <4> DEFINE left == AfterExit(cmem.pos, cdeal.got)
                 off == WrittenOff(cmem.pos, cdeal.got)
                 st == IF left = Flat THEN "stopped" ELSE "running"
                 next == [cmem EXCEPT !.pos = left, !.status = st]
      <4>1. left \in Positions /\ off \in Nat /\ left.qty + off = cmem.pos.qty - cdeal.got
        BY <1>n, <2>2, <2>3, ExitAccounted
      <4>2. Lower(cdeal.got, cmem.pos.qty) = cdeal.got
        BY <1>n, <2>3, <2>4 DEF Lower
      <4>3. row' = next /\ dust' = dust + off
        BY <1>20, <3>2, <4>2, WriteFields DEF CloseApply
      <4>4. next \in Rows /\ next.pos = left
        <5>1. st \in Statuses
          BY DEF Statuses
        <5>2. cmem \in Rows
          BY <1>f, <2>1
        <5>3. left \in Positions
          BY <4>1
        <5> HIDE DEF left, st
        <5> QED BY <5>1, <5>2, <5>3, RowPos
      <4> HIDE DEF left, off, next
      <4>5. Position' = left.qty
        BY <4>3, <4>4, LiveRunAssumption DEF Position, LiveRunAssumption
      <4>6. left.qty \in Nat
        BY <4>1, PositionFields
      <4>7. left.qty + dust' = cmem.pos.qty + dust - cdeal.got
        BY <1>n, <2>4, <4>1, <4>3, <4>6
      <4> QED BY <2>1, <2>2, <2>3, <4>5, <4>7
    <3> QED BY <3>1, <3>2
  <2> QED BY <2>1, <2>2, <2>5 DEF Accounted
<1> QED
  BY <1>1, <1>2, <1>3, <1>4, <1>5, <1>6, <1>7, <1>8, <1>9, <1>10, <1>11, <1>12, <1>13,
     <1>14, <1>15, <1>16, <1>17, <1>18, <1>19, <1>20 DEF Next, BotStep, CloseStep

\* NeverDoubled is preserved by every step: a buy is sent by a run that holds
\* nothing, and a sale never sells more than the position.
LEMMA DoubledStep == ASSUME IInv, TypeOK', Copies', [Next]_vars PROVE NeverDoubled'
<1> USE DEF journal, venue, bot, closer
<1>0. TypeOK /\ Copies /\ Alone /\ Accounted /\ NeverDoubled
  BY DEF IInv
<1> SUFFICES ASSUME ~astray' PROVE NeverDoubled'
  BY DEF NeverDoubled
<1>a. ~astray
  BY AstrayStays
<1>b. PICK bought \in Fills : held <= dust + Kept(bought)
  BY <1>0, <1>a DEF NeverDoubled
<1>c. bought \in Nat /\ Kept(bought) \in Nat
  BY LiveRunAssumption, KeptBound DEF LiveRunAssumption
<1>n. held \in Int /\ dust \in Nat /\ held' \in Int /\ dust' \in Nat
  BY <1>0 DEF TypeOK
<1>d. ASSUME held' <= held, dust' >= dust PROVE NeverDoubled'
  <2>1. held' <= dust' + Kept(bought)
    BY <1>b, <1>c, <1>d, <1>n
  <2> QED BY <2>1 DEF NeverDoubled, Kept
<1>1. CASE held' = held /\ dust' = dust
  BY <1>1, <1>d, <1>n
<1>2. CASE SubmitEntry
  <2>1. PICK got \in Fills : Executed(Kept(got))
    BY <1>2 DEF SubmitEntry
  <2>2. got \in Nat /\ Kept(got) \in Nat
    BY LiveRunAssumption, KeptBound DEF LiveRunAssumption
  <2>3. pc = "order" /\ target = "long" /\ dust' = dust
    BY <1>2 DEF SubmitEntry
  <2>4. /\ mem.pos \in Positions /\ mem.pos = row.pos /\ Position = row.pos.qty
        /\ cpc = "off" /\ target # CurrentTarget(mem.pos)
    BY <1>0, <1>a, <2>3, Numbers DEF Alone
  <2>5. Position = 0
    BY <2>3, <2>4, PositionFields DEF CurrentTarget
  <2>6. held <= dust
    BY <1>0, <1>a, <1>n, <2>3, <2>4, <2>5 DEF Accounted, InFlight, Near
  <2>7. held' <= dust' + Kept(got)
    BY <1>n, <2>1, <2>2, <2>3, <2>6 DEF Executed
  <2> QED BY <2>7 DEF NeverDoubled, Kept
<1>3. CASE SubmitExit
  <2>1. dust' = dust
    BY <1>3 DEF SubmitExit
  <2>2. held' = held \/ \E got \in Nat : held' = held + (-got)
    BY <1>3 DEF SubmitExit, Executed
  <2>3. held' <= held /\ dust' >= dust
    BY <1>n, <2>1, <2>2
  <2> QED BY <1>d, <2>3
<1>4. CASE CloseSell
  <2>1. dust' = dust
    BY <1>4 DEF CloseSell
  <2>2. \E got \in Nat : held' = held + (-got)
    BY <1>4 DEF CloseSell, Executed
  <2>3. held' <= held /\ dust' >= dust
    BY <1>n, <2>1, <2>2
  <2> QED BY <1>d, <2>3
<1>5. CASE ApplyEntry
  BY <1>1, <1>5 DEF ApplyEntry, Unreported
<1>6. CASE ApplyExit
  <2>1. pc = "apply" /\ held' = held
    BY <1>6 DEF ApplyExit
  <2>2. mem.pos \in Positions /\ mem.pos.qty \in Nat /\ deal.got \in Nat
    BY <1>0, <2>1, Numbers, PositionFields
  <2> DEFINE closed == Lower(deal.got, mem.pos.qty)
  <2>3. closed \in Nat /\ closed <= mem.pos.qty
    BY <2>2 DEF Lower
  <2>4. WrittenOff(mem.pos, closed) \in Nat
    BY <2>2, <2>3, ExitAccounted
  <2> HIDE DEF closed
  <2>5. dust' = dust \/ dust' = dust + WrittenOff(mem.pos, closed)
    BY <1>6 DEF ApplyExit, Unreported, closed
  <2>6. held' <= held /\ dust' >= dust
    BY <1>n, <2>1, <2>4, <2>5
  <2> QED BY <1>d, <2>6
<1>7. CASE CloseApply
  <2>1. cpc = "apply" /\ held' = held
    BY <1>7 DEF CloseApply
  <2>2. cmem.pos \in Positions /\ cmem.pos.qty \in Nat /\ cdeal.got \in Nat
    BY <1>0, <2>1, Numbers, PositionFields
  <2> DEFINE closed == Lower(cdeal.got, cmem.pos.qty)
  <2>3. closed \in Nat /\ closed <= cmem.pos.qty
    BY <2>2 DEF Lower
  <2>4. WrittenOff(cmem.pos, closed) \in Nat
    BY <2>2, <2>3, ExitAccounted
  <2> HIDE DEF closed
  <2>5. dust' = dust \/ dust' = dust + WrittenOff(cmem.pos, closed)
    BY <1>7 DEF CloseApply, closed
  <2>6. held' <= held /\ dust' >= dust
    BY <1>n, <2>1, <2>4, <2>5
  <2> QED BY <1>d, <2>6
<1>8. CASE Tick \/ LoadOrCreate \/ Crash \/ CloseLoad \/ CloseCrash \/ UNCHANGED vars
  BY <1>1, <1>8 DEF Tick, LoadOrCreate, Crash, CloseLoad, CloseCrash, vars
<1>9. CASE SaveBegin \/ WarmUp \/ Poll \/ OnBar \/ MarkBar \/ Sleep \/ Refused
  BY <1>1, <1>9 DEF SaveBegin, WarmUp, Poll, OnBar, MarkBar, Sleep, Refused
<1>10. CASE LogOrder \/ LogTrade \/ Finish \/ Fail
  BY <1>1, <1>10 DEF LogOrder, LogTrade, Finish, Fail
<1>11. CASE CloseBail \/ CloseLogOrder \/ CloseLogTrade
  BY <1>1, <1>11 DEF CloseBail, CloseLogOrder, CloseLogTrade
<1> QED
  BY <1>2, <1>3, <1>4, <1>5, <1>6, <1>7, <1>8, <1>9, <1>10, <1>11
     DEF Next, BotStep, CloseStep

-----------------------------------------------------------------------------
(* The theorems                                                            *)

\* The inductive invariant holds in every reachable state.
THEOREM Invariant == Spec => []IInv
<1>1. Init => IInv
  BY InitEstablishes
<1>2. IInv /\ [Next]_vars => IInv'
  <2> SUFFICES ASSUME IInv, [Next]_vars PROVE IInv'
    OBVIOUS
  <2>1. TypeOK' /\ Copies'
    BY TypeStep
  <2>2. InHand' /\ Logged'
    BY HandStep
  <2>3. Ordered'
    BY <2>1, OrderStep
  <2>4. Alone'
    BY <2>1, AloneStep
  <2>5. Accounted' /\ NeverDoubled'
    BY <2>1, <2>4, AccountedStep, DoubledStep
  <2> QED BY <2>1, <2>2, <2>3, <2>4, <2>5 DEF IInv
<1> QED BY <1>1, <1>2, PTL DEF Spec

\* Every variable keeps its type through every step of `trade run` and of
\* `trade close` (src/engine/live, src/cli/trade/close.rs).
THEOREM TypeCorrect == Spec => []TypeOK
<1>1. IInv => TypeOK
  BY DEF IInv
<1> QED BY <1>1, Invariant, PTL

\* Whatever fails or is killed, the saved position and the dust written off
\* account for what the venue executed, unless the operator was left to
\* reconcile it (execution.rs:116-146, close.rs:169-198).
THEOREM PositionIsAccounted == Spec => []PositionAccounted
<1>1. IInv => PositionAccounted
  BY DEF IInv, Accounted, PositionAccounted, Near
<1> QED BY <1>1, Invariant, PTL

\* No sequence of restarts, replayed bars and failed writes makes the run buy
\* on top of a position (execution.rs:25-40).
THEOREM NeverBuysTwice == Spec => []NeverDoubled
<1>1. IInv => NeverDoubled
  BY DEF IInv
<1> QED BY <1>1, Invariant, PTL

\* A closed trade is never recorded without the event of its order, whichever
\* process closed it and whichever write failed.
THEOREM TradesHaveEvents == Spec => []TradeHasEvent
<1>1. Init => TradeHasEvent
  BY DEF Init, TradeHasEvent
<1>2. IInv /\ TradeHasEvent /\ [Next]_vars => TradeHasEvent'
  BY TradeStep
<1> QED BY <1>1, <1>2, Invariant, PTL DEF Spec

\* The row never runs ahead of the run that drives it, `trade close` writing
\* the same row or not: a resumed run skips no bar.
THEOREM RowStaysBehind == Spec => []RowBehindRun
<1>1. IInv => RowBehindRun
  BY DEF IInv, Ordered, RowBehindRun
<1> QED BY <1>1, Invariant, PTL

-----------------------------------------------------------------------------
(* What the strategy is fed                                                *)

Looping == {"poll", "bar", "finish"}
OnABar == {"order", "log", "apply", "trade", "mark"}

\* A row that has processed a bar has processed all there was when it was born.
Since(r) == r.last = 0 \/ r.last >= born

\* Nothing that had closed when the run was created is left to trade on, once
\* the warm-up had a bar.
PastInv ==
    /\ stored \subseteq 1..clock
    /\ row # NoRow => born <= clock /\ Since(row)
    /\ pc # "off" => Since(mem)
    /\ cpc # "off" => Since(cmem)
    /\ pc \in Looping \cup OnABar => mem.last >= born

\* The first start feeds the strategy nothing newer than its row but the bar
\* it is on.
OnceInv ==
    /\ starts = 0 => row = NoRow /\ pc = "off"
    /\ pc = "off" => fed = {} /\ ~twice
    /\ starts = 1 =>
         /\ ~twice
         /\ pc \in {"begin", "warm"} => fed = {} /\ mem.last = 0
         /\ pc \in Looping => \A c \in fed : c <= mem.last
         /\ pc \in OnABar => \A c \in fed : c <= mem.last \/ IsNext(c, queue)

\* A warm-up that finds a bar ends at the last one that has closed.
LEMMA WarmedUp ==
    ASSUME TypeOK, mem \in Rows, mem.last = 0, PastInv, Warmup > 2, NEW settling \in BOOLEAN,
           NEW bars, bars = Newest(stored', Warmup), Sync(BootstrapStart(settling), TRUE),
           NEW last \in bars \cup {0}, IsLast(last, bars)
    PROVE  last >= clock
<1>1. clock \in Nat /\ Warmup \in Nat
  BY LiveRunAssumption DEF TypeOK
<1>2. stored' = stored \cup BootstrapStart(settling)..clock
  BY DEF Sync
<1>3. /\ BootstrapStart(settling) \in Nat \ {0}
      /\ clock > 0 => BootstrapStart(settling) <= clock
  BY <1>1, LiveRunAssumption DEF BootstrapStart
<1>4. \A c \in stored' : c \in Nat /\ c <= clock
  BY <1>1, <1>2, <1>3 DEF PastInv
<1>5. CASE clock = 0
  <2>1. last \in Nat
    BY <1>4 DEF Newest
  <2> QED BY <1>5, <2>1
<1>6. CASE clock > 0
  <2>1. clock \in stored'
    BY <1>1, <1>2, <1>3, <1>6
  <2>2. {c \in stored' : c > clock} = {}
    BY <1>1, <1>4
  <2>3. Cardinality({c \in stored' : c > clock}) = 0
    BY <2>2, FS_EmptySet
  <2>4. clock \in bars
    BY <1>1, <2>1, <2>3 DEF Newest
  <2> QED BY <2>4 DEF IsLast
<1> QED BY <1>1, <1>5, <1>6

\* Every step keeps the past out of the loop.
LEMMA PastStep ==
    ASSUME IInv, TypeOK', Copies', PastInv, Warmup > 2, [Next]_vars PROVE PastInv'
<1> USE DEF journal, venue, bot, closer
<1>0. /\ TypeOK /\ Copies /\ Ordered /\ PastInv /\ TypeOK' /\ Copies' /\ LiveRunAssumption
      /\ clock \in Nat /\ born \in Nat
  BY LiveRunAssumption DEF IInv, TypeOK
<1>1. ASSUME UNCHANGED <<clock, stored, born>>, row # NoRow, row' = row \/ Since(row'),
             pc' # "off" => Since(mem'), cpc' # "off" => Since(cmem'),
             pc' \in Looping \cup OnABar => mem'.last >= born
      PROVE  PastInv'
  BY <1>0, <1>1 DEF PastInv, Since
<1>2. ASSUME UNCHANGED <<clock, stored, born, closer>>, row # NoRow, pc # "off",
             UNCHANGED mem, row' = row \/ row'.last = mem.last,
             pc' \in Looping \cup OnABar => pc \in Looping \cup OnABar
      PROVE  PastInv'
  BY <1>0, <1>1, <1>2 DEF PastInv, Since
<1>3. CASE Tick
  BY <1>0, <1>3 DEF Tick, PastInv, Since
<1>4. CASE UNCHANGED vars
  BY <1>0, <1>4 DEF vars, PastInv, Since
<1>5. CASE LoadOrCreate
  <2>1. CASE row = NoRow
    <3>1. row' = FreshRow /\ born' = clock /\ cpc' = "off" /\ row'.last = 0
      BY <1>0, <1>5, <2>1 DEF LoadOrCreate, Copies, FreshRow, LiveRunAssumption
    <3> QED BY <1>0, <1>5, <3>1 DEF LoadOrCreate, PastInv, Since, Looping, OnABar
  <2>2. CASE row # NoRow
    BY <1>0, <1>5, <2>2 DEF LoadOrCreate, PastInv, Since, Looping, OnABar
  <2> QED BY <2>1, <2>2
<1>6. CASE SaveBegin
  <2>1. row # NoRow /\ pc' \notin Looping \cup OnABar
    BY <1>0, <1>6, LiveRunAssumption DEF SaveBegin, Copies, Looping, OnABar
  <2> QED BY <1>2, <1>6, <2>1 DEF SaveBegin
<1>7. CASE WarmUp
  <2>1. mem \in Rows /\ row \in Rows /\ row # NoRow /\ pc # "off"
    BY <1>0, <1>7, LiveRunAssumption DEF WarmUp, Copies
  <2>2. PICK ok \in BOOLEAN, settling \in BOOLEAN :
          Sync(BootstrapStart(settling), ok) /\ (pc' # "fail" => ok)
    BY <1>7, WorksFact DEF WarmUp
  <2>3. stored' \subseteq 1..clock
    <3>1. BootstrapStart(settling) \in Nat \ {0}
      BY <1>0, <2>1, StartsPositive DEF TypeOK
    <3>2. \A upto \in Int : upto <= clock => BootstrapStart(settling)..upto \subseteq 1..clock
      BY <1>0, <3>1
    <3>3. PICK upto \in Int : upto <= clock /\ stored' = stored \cup BootstrapStart(settling)..upto
      BY <1>0, <2>2, <3>1 DEF Sync
    <3> QED BY <1>0, <3>2, <3>3 DEF PastInv
  <2>4. /\ UNCHANGED <<clock, row, born, closer>>
        /\ pc' \in {"order", "mark", "poll", "fail"}
    BY <1>7 DEF WarmUp
  <2>5. CASE pc' = "fail"
    <3>1. mem' = mem
      BY <1>7, <2>5 DEF WarmUp
    <3> QED BY <1>0, <2>1, <2>3, <2>4, <2>5, <3>1 DEF PastInv, Since, Looping, OnABar
  <2>6. CASE pc' # "fail" /\ mem.last # 0
    <3>1. mem' = mem
      BY <1>7, <2>6 DEF WarmUp
    <3> QED BY <1>0, <2>1, <2>3, <2>4, <2>6, <3>1 DEF PastInv, Since
  <2>7. CASE pc' # "fail" /\ mem.last = 0
    <3>1. PICK bars : bars = Newest(stored', Warmup)
      OBVIOUS
    <3>2. PICK last \in bars \cup {0} :
            IsLast(last, bars) /\ mem' = [mem EXCEPT !.last = last, !.status = "running"]
      BY <1>7, <2>7, <3>1 DEF WarmUp
    <3>3. Sync(BootstrapStart(settling), TRUE)
      <4>1. ok = TRUE
        BY <2>2, <2>7
      <4> QED BY <2>2, <4>1
    <3>4. last >= clock
      BY <1>0, <2>1, <2>7, <3>1, <3>2, <3>3, WarmedUp
    <3>5. mem'.last = last
      BY <2>1, <3>2 DEF Rows
    <3>6. mem'.last \in Nat
      BY <1>0, <2>4, LiveRunAssumption DEF Copies, Rows
    <3>7. mem'.last >= born
      BY <1>0, <2>1, <3>4, <3>5, <3>6 DEF PastInv
    <3> QED BY <1>0, <2>1, <2>3, <2>4, <3>7 DEF PastInv, Since
  <2> QED BY <2>5, <2>6, <2>7
<1>8. CASE Poll
  <2>1. mem \in Rows /\ row \in Rows /\ row # NoRow
    BY <1>0, <1>8, LiveRunAssumption DEF Poll, Copies
  <2>2. PICK ok \in BOOLEAN : Sync(PollStart, ok)
    BY <1>8, WorksFact DEF Poll
  <2>3. stored' \subseteq 1..clock
    <3>1. PollStart \in Nat \ {0}
      BY <1>0, <2>1, StartsPositive DEF TypeOK
    <3>2. \A upto \in Int : upto <= clock => PollStart..upto \subseteq 1..clock
      BY <1>0, <3>1
    <3>3. CASE ok
      <4>1. stored' = stored \cup PollStart..clock
        BY <2>2, <3>3 DEF Sync
      <4>2. PollStart..clock \subseteq 1..clock
        BY <1>0, <3>2
      <4> QED BY <1>0, <4>1, <4>2 DEF PastInv
    <3>4. CASE ~ok
      <4>1. PICK upto \in 0..clock : stored' = stored \cup PollStart..upto
        BY <2>2, <3>4 DEF Sync
      <4> QED BY <1>0, <3>1, <3>2, <4>1 DEF PastInv
    <3> QED BY <3>3, <3>4
  <2>4. UNCHANGED <<clock, row, born, mem, closer>> /\ pc = "poll" /\ pc' \in {"bar", "fail"}
    BY <1>8 DEF Poll
  <2> QED BY <1>0, <2>1, <2>3, <2>4 DEF PastInv, Since, Looping, OnABar
<1>9. CASE OnBar \/ Sleep \/ Refused \/ SubmitEntry \/ SubmitExit \/ LogOrder \/ LogTrade
  <2>1. /\ UNCHANGED <<clock, stored, born, row, mem, closer>> /\ pc # "off"
        /\ pc \in Looping \cup OnABar
    BY <1>9 DEF Answered, OnBar, Sleep, Refused, SubmitEntry, SubmitExit, LogOrder, LogTrade,
                Looping, OnABar
  <2>2. row # NoRow
    BY <1>0, <2>1, LiveRunAssumption DEF Copies
  <2> QED BY <1>2, <2>1, <2>2
<1>10. CASE MarkBar
  <2>1. mem \in Rows /\ row \in Rows /\ row # NoRow /\ mem' \in Rows
    BY <1>0, <1>10, LiveRunAssumption DEF MarkBar, Copies
  <2>2. mem'.last >= mem.last
    <3>1. CASE queue = {}
      BY <1>0, <1>10, <2>1, <3>1, LiveRunAssumption DEF MarkBar, Rows
    <3>2. CASE queue # {}
      <4>1. PICK b \in queue : mem' = [mem EXCEPT !.last = b, !.status = "running"]
        BY <1>10, <3>2 DEF MarkBar
      <4>2. mem'.last = b
        BY <2>1, <4>1 DEF Rows
      <4>3. b > mem.last
        BY <1>0, <1>10 DEF MarkBar, Ordered
      <4>4. b \in Nat /\ mem.last \in Nat
        BY <1>0, <2>1, RowFields, LiveRunAssumption DEF TypeOK, Bars
      <4> QED BY <4>2, <4>3, <4>4
    <3> QED BY <3>1, <3>2
  <2>3. mem'.last >= born
    <3>1. mem.last >= born
      BY <1>0, <1>10 DEF MarkBar, PastInv, OnABar
    <3>2. mem.last \in Nat /\ mem'.last \in Nat
      BY <2>1, RowFields, LiveRunAssumption
    <3> QED BY <1>0, <2>2, <3>1, <3>2
  <2>4. UNCHANGED <<clock, stored, born, closer>> /\ (row' = row \/ row' = mem')
    BY <1>10 DEF MarkBar
  <2> QED BY <1>0, <1>1, <2>1, <2>3, <2>4 DEF Since, PastInv
<1>11. CASE ApplyEntry \/ ApplyExit
  <2>1. mem \in Rows /\ row # NoRow /\ pc = "apply"
    BY <1>0, <1>11, LiveRunAssumption DEF ApplyEntry, ApplyExit, Copies
  <2>2. UNCHANGED <<row, mem>> \/ \E pos, next : Recorded(pos, next)
    BY <1>11 DEF ApplyEntry, ApplyExit, Unreported, Nothing
  <2>3. mem'.last = mem.last /\ (row' = row \/ row' = mem')
    BY <2>1, <2>2 DEF Recorded, Rows
  <2>4. UNCHANGED <<clock, stored, born, closer>>
    BY <1>11 DEF ApplyEntry, ApplyExit
  <2> QED BY <1>0, <1>1, <2>1, <2>3, <2>4 DEF Since, PastInv, OnABar
<1>12. CASE Finish \/ Fail \/ Crash
  <2>1. /\ mem \in Rows /\ row # NoRow /\ pc' = "off" /\ pc # "off"
        /\ UNCHANGED <<clock, stored, born, closer>>
    BY <1>0, <1>12, LiveRunAssumption DEF Finish, Fail, Crash, Gone, Copies
  <2>2. row' = row \/ row'.last = mem.last
    BY <1>12, <2>1 DEF Finish, Fail, Crash, Rows
  <2> QED BY <1>0, <1>1, <2>1, <2>2 DEF Since, PastInv, Looping, OnABar
<1>13. CASE CloseLoad
  BY <1>0, <1>1, <1>13 DEF CloseLoad, PastInv, Since
<1>14. CASE CloseBail \/ CloseSell \/ CloseLogOrder \/ CloseLogTrade \/ CloseCrash
  <2>1. UNCHANGED <<clock, stored, born, row, bot>> /\ (cpc' = "off" \/ UNCHANGED cmem) /\ cpc # "off"
    BY <1>14 DEF CloseBail, CloseCrash, CloseSell, CloseLogOrder, CloseLogTrade, CloseGone
  <2>2. row # NoRow
    BY <1>0, <2>1, LiveRunAssumption DEF Copies
  <2> QED BY <1>0, <1>1, <2>1, <2>2 DEF PastInv, Since
<1>15. CASE CloseApply
  <2>1. cmem \in Rows /\ row # NoRow /\ cpc # "off" /\ UNCHANGED <<clock, stored, born, bot>>
    BY <1>0, <1>15, LiveRunAssumption DEF CloseApply, Copies
  <2>2. row' = row \/ row'.last = cmem.last
    BY <1>15, <2>1 DEF CloseApply, Rows
  <2>3. cpc' = "off" \/ cmem' = cmem
    BY <1>15 DEF CloseApply, CloseGone
  <2> QED BY <1>0, <1>1, <2>1, <2>2, <2>3 DEF PastInv, Since
<1> QED
  BY <1>3, <1>4, <1>5, <1>6, <1>7, <1>8, <1>9, <1>10, <1>11, <1>12, <1>13, <1>14, <1>15
     DEF Next, BotStep, CloseStep

\* A run that warms up on three bars or more never trades on a bar that had
\* settled when it was created, whatever the store held, and however often it
\* is restarted before it has processed one (runner.rs:26-90).  With one bar,
\* or with two in the second a bar settles, the warm-up may fetch none.
THEOREM PastIsNeverTraded ==
  ASSUME Warmup > 2
  PROVE  Spec => []PastNeverTraded
<1>1. Init => PastInv
  BY DEF Init, PastInv, Looping, OnABar
<1>2. IInv /\ PastInv /\ [Next]_vars => PastInv'
  BY TypeStep, PastStep
<1>3. IInv /\ PastInv => PastNeverTraded
  <2> SUFFICES ASSUME IInv, PastInv, pc = "order", NEW b \in queue PROVE b > born
    BY DEF PastNeverTraded
  <2>1. mem \in Rows /\ mem.last >= born /\ b > mem.last
    BY DEF IInv, Copies, Ordered, PastInv, OnABar
  <2>2. mem.last \in Nat /\ b \in Nat /\ born \in Nat
    BY <2>1, LiveRunAssumption DEF Rows, IInv, TypeOK, Bars
  <2> QED BY <2>1, <2>2
<1> QED BY <1>1, <1>2, <1>3, Invariant, PTL DEF Spec

\* Every step of the first start feeds what comes after all it fed before.
LEMMA OnceStep ==
    ASSUME IInv, TypeOK', Copies', OnceInv, [Next]_vars PROVE OnceInv'
<1> USE DEF journal, venue, bot, closer
<1>0. /\ TypeOK /\ Copies /\ Ordered /\ OnceInv /\ TypeOK' /\ Copies' /\ LiveRunAssumption
      /\ starts \in Nat
  BY LiveRunAssumption DEF IInv, TypeOK
<1>1. ASSUME UNCHANGED <<starts, fed, twice, mem>>, starts # 0,
             pc' # "off" /\ pc # "off",
             pc' \in {"begin", "warm"} => pc \in {"begin", "warm"},
             pc' \in Looping => pc \in Looping,
             pc' \in OnABar => pc \in OnABar /\ queue' = queue
      PROVE  OnceInv'
  BY <1>0, <1>1 DEF OnceInv, IsNext
<1>2. ASSUME UNCHANGED <<starts, bot>>, starts = 0 => row' = row
      PROVE  OnceInv'
  BY <1>0, <1>2 DEF OnceInv, IsNext
<1>3. pc # "off" => starts # 0 /\ mem \in Rows /\ row \in Rows
  BY <1>0 DEF OnceInv, Copies
<1>4. cpc # "off" => starts # 0
  BY <1>0, LiveRunAssumption DEF OnceInv, Copies
<1>5. CASE UNCHANGED vars
  BY <1>2, <1>5 DEF vars
<1>6. CASE Tick
  BY <1>2, <1>6 DEF Tick
<1>7. CASE LoadOrCreate
  <2>1. /\ pc = "off" /\ starts' = starts + 1 /\ starts' # 0
        /\ UNCHANGED <<fed, twice>> /\ fed = {} /\ ~twice
        /\ pc' \in {"off", "begin"} /\ (pc' = "begin" => mem' = row')
    BY <1>0, <1>7 DEF LoadOrCreate, OnceInv
  <2>2. starts' = 1 => row' = FreshRow
    BY <1>0, <1>7, <2>1 DEF LoadOrCreate, OnceInv
  <2> QED BY <1>0, <2>1, <2>2 DEF OnceInv, FreshRow, Looping, OnABar
<1>8. CASE SaveBegin
  <2>1. UNCHANGED <<starts, fed, twice, mem>> /\ pc = "begin" /\ pc' \in {"warm", "fail"}
    BY <1>8 DEF SaveBegin
  <2> QED BY <1>1, <1>3, <2>1 DEF Looping, OnABar
<1>9. CASE WarmUp
  <2>1. /\ pc = "warm" /\ UNCHANGED <<starts, twice, queue>>
        /\ pc' \in {"order", "mark", "poll", "fail"}
    BY <1>9 DEF WarmUp
  <2>2. CASE starts # 1
    BY <1>0, <1>3, <2>1, <2>2 DEF OnceInv
  <2>3. CASE starts = 1 /\ pc' = "fail"
    BY <1>0, <2>1, <2>3 DEF OnceInv, Looping, OnABar
  <2>4. CASE starts = 1 /\ pc' # "fail"
    <3>1. mem.last = 0
      BY <1>0, <2>1, <2>4 DEF OnceInv
    <3>2. PICK last \in fed' \cup {0} :
            IsLast(last, fed') /\ mem' = [mem EXCEPT !.last = last, !.status = "running"]
      BY <1>9, <2>4, <3>1 DEF WarmUp
    <3>3. mem'.last = last
      BY <1>3, <2>1, <3>2 DEF Rows
    <3>4. \A c \in fed' : c <= mem'.last
      BY <3>2, <3>3 DEF IsLast
    <3> QED BY <1>0, <2>1, <2>4, <3>4 DEF OnceInv
  <2> QED BY <2>2, <2>3, <2>4
<1>10. CASE Poll
  <2>1. UNCHANGED <<starts, fed, twice, mem>> /\ pc = "poll" /\ pc' \in {"bar", "fail"}
    BY <1>10 DEF Poll
  <2> QED BY <1>1, <1>3, <2>1 DEF Looping, OnABar
<1>11. CASE OnBar
  <2>1. PICK b \in queue : /\ IsNext(b, queue)
                           /\ fed' = fed \cup {b}
                           /\ twice' = (twice \/ \E c \in fed : b <= c)
    BY <1>11 DEF OnBar
  <2>2. pc = "bar" /\ UNCHANGED <<starts, mem, queue>> /\ pc' \in {"order", "mark", "fail"}
    BY <1>11 DEF OnBar
  <2>3. CASE starts # 1
    BY <1>0, <1>3, <2>2, <2>3 DEF OnceInv
  <2>4. CASE starts = 1
    <3>1. ~twice /\ \A c \in fed : c <= mem.last
      BY <1>0, <2>2, <2>4 DEF OnceInv, Looping
    <3>2. mem.last \in Nat /\ b \in Nat /\ \A c \in fed : c \in Nat
      BY <1>0, <1>3, <2>2, RowFields DEF TypeOK, Bars
    <3>3. b > mem.last
      BY <1>0, <2>2 DEF Ordered
    <3>4. \A c \in fed : ~(b <= c)
      BY <3>1, <3>2, <3>3
    <3>5. ~twice'
      BY <2>1, <3>1, <3>4, Zenon
    <3>6. \A c \in fed' : c <= mem'.last \/ IsNext(c, queue')
      BY <2>1, <2>2, <3>1
    <3> QED BY <1>3, <2>2, <2>4, <3>5, <3>6 DEF OnceInv, Looping
  <2> QED BY <2>3, <2>4
<1>12. CASE MarkBar
  <2>1. /\ pc = "mark" /\ UNCHANGED <<starts, fed, twice>> /\ pc' \in {"poll", "bar", "fail"}
    BY <1>12 DEF MarkBar
  <2>2. CASE starts # 1
    BY <1>0, <1>3, <2>1, <2>2 DEF OnceInv
  <2>3. CASE starts = 1
    <3>1. ~twice /\ \A c \in fed : c <= mem.last \/ IsNext(c, queue)
      BY <1>0, <2>1, <2>3 DEF OnceInv, OnABar
    <3>2. \A c \in fed : c <= mem'.last
      <4>1. CASE queue = {}
        <5>1. mem' = mem /\ \A c \in fed : ~IsNext(c, queue)
          BY <1>12, <4>1 DEF MarkBar, IsNext
        <5> QED BY <3>1, <5>1
      <4>2. CASE queue # {}
        <5>1. PICK b \in queue : IsNext(b, queue) /\ mem' = [mem EXCEPT !.last = b, !.status = "running"]
          BY <1>12, <4>2 DEF MarkBar
        <5>2. mem'.last = b
          BY <1>3, <2>1, <5>1 DEF Rows
        <5>3. b > mem.last
          BY <1>0, <2>1 DEF Ordered
        <5>4. mem.last \in Nat /\ b \in Nat /\ \A c \in fed : c \in Nat
          BY <1>0, <1>3, <2>1, RowFields DEF TypeOK, Bars
        <5>5. \A c \in fed : IsNext(c, queue) => c <= b
          BY <5>1 DEF IsNext
        <5> QED BY <3>1, <5>2, <5>3, <5>4, <5>5
      <4> QED BY <4>1, <4>2
    <3> QED BY <1>3, <2>1, <2>3, <3>1, <3>2 DEF OnceInv, OnABar
  <2> QED BY <2>2, <2>3
<1>13. CASE Sleep
  <2>1. /\ UNCHANGED <<starts, fed, twice, mem>> /\ pc = "bar" /\ pc' \in {"poll", "finish"}
    BY <1>13 DEF Sleep
  <2> QED BY <1>1, <1>3, <2>1 DEF Looping, OnABar
<1>14. CASE Refused \/ SubmitEntry \/ SubmitExit \/ LogOrder \/ LogTrade
  <2>1. /\ UNCHANGED <<starts, fed, twice, mem, queue>>
        /\ pc \in OnABar /\ pc' \in OnABar \cup {"fail"}
    BY <1>14 DEF Answered, Refused, SubmitEntry, SubmitExit, LogOrder, LogTrade, OnABar
  <2> QED BY <1>1, <1>3, <2>1 DEF Looping, OnABar
<1>15. CASE ApplyEntry \/ ApplyExit
  <2>1. /\ UNCHANGED <<starts, fed, twice, queue>>
        /\ pc = "apply" /\ pc' \in {"trade", "mark", "fail"}
    BY <1>15 DEF ApplyEntry, ApplyExit, Unreported, Nothing, Recorded
  <2>2. UNCHANGED <<row, mem>> \/ \E pos, next : Recorded(pos, next)
    BY <1>15 DEF ApplyEntry, ApplyExit, Unreported, Nothing
  <2>3. mem'.last = mem.last
    BY <1>3, <2>1, <2>2 DEF Recorded, Rows
  <2> QED BY <1>0, <1>3, <2>1, <2>3 DEF OnceInv, Looping, OnABar, IsNext
<1>16. CASE Finish \/ Fail \/ Crash
  <2>1. /\ starts' = starts /\ pc # "off" /\ pc' = "off" /\ fed' = {} /\ ~twice'
    BY <1>16 DEF Finish, Fail, Crash, Gone
  <2> QED BY <1>3, <2>1 DEF OnceInv, Looping, OnABar
<1>17. CASE CloseLoad
  BY <1>2, <1>17 DEF CloseLoad
<1>18. CASE CloseBail \/ CloseSell \/ CloseLogOrder \/ CloseApply \/ CloseLogTrade \/ CloseCrash
  <2>1. UNCHANGED <<starts, bot>> /\ cpc # "off"
    BY <1>18 DEF CloseBail, CloseCrash, CloseSell, CloseLogOrder, CloseApply, CloseLogTrade
  <2> QED BY <1>2, <1>4, <2>1
<1> QED
  BY <1>5, <1>6, <1>7, <1>8, <1>9, <1>10, <1>11, <1>12, <1>13, <1>14, <1>15, <1>16, <1>17, <1>18
     DEF Next, BotStep, CloseStep

\* The first start of a run hands the strategy each bar once and in order, the
\* warm-up's bars and the loop's alike, whatever fails and whenever it ends
\* (sdk/strategy.rs:48-49).
THEOREM NewRunDeliversOnce == Spec => []DeliveredOnceWhenNew
<1>1. Init => OnceInv
  BY DEF Init, OnceInv, Looping, OnABar
<1>2. IInv /\ OnceInv /\ [Next]_vars => OnceInv'
  BY TypeStep, OnceStep
<1>3. OnceInv => DeliveredOnceWhenNew
  BY DEF OnceInv, DeliveredOnceWhenNew
<1> QED BY <1>1, <1>2, <1>3, Invariant, PTL DEF Spec
=============================================================================
