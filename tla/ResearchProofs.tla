--------------------------- MODULE ResearchProofs ---------------------------
(* One market's candles, synced and backtested on: for every number of      *)
(* syncs, ranges, page sizes and clocks, and for every history, market and  *)
(* strategy.                                                                *)
EXTENDS DataSync, Backtest, FiniteSetTheorems, WellFoundedInduction, TLAPS

-----------------------------------------------------------------------------
(* Syncs.  A candle a page settles was closed when the request went out,    *)
(* so the exchange's answer holds it as final (Asked, Paged).  Whoever      *)
(* leaves candles unpacked still owes a refresh (Owed).  A sync that is     *)
(* alone has every candle of its range up to where it stands (Upto), and    *)
(* nothing it has not fetched is older than a candle that is stored         *)
(* (Gapless): that is why reading on from the newest stored candle is safe. *)

SetConfig == [start : Nat, end : Nat \cup {Never}, follow : BOOLEAN]
Places == Nat \cup {Never}
Shapes == {"final", "forming"}

Offs == [step : {"off"}]
Fails == [step : {"failed"}]
Passes == [step : {"pass"}, cfg : SetConfig, refreshed : BOOLEAN, held : Places, next : Nat]
Asks == [step : {"asked"}, cfg : SetConfig, refreshed : BOOLEAN, held : Places, next : Nat,
         end : Nat, cursor : Nat, wrote : BOOLEAN, cutoff : Nat]
Pages == UNION {[page -> Shapes] : page \in (SUBSET Listed) \ {{}}}
Answers == [step : {"answered"}, cfg : SetConfig, refreshed : BOOLEAN, held : Places, next : Nat,
            end : Nat, cursor : Nat, wrote : BOOLEAN, cutoff : Nat, page : Pages]
Fetches == [step : {"fetched", "packing"}, cfg : SetConfig, refreshed : BOOLEAN, held : Places,
            next : Nat, end : Nat, wrote : BOOLEAN]
Tails == [step : {"ended"}, refreshed : BOOLEAN]
Ranges == [step : {"ended"}, refreshed : BOOLEAN, start : Nat, end : Nat, next : Nat,
           held : Places, warned : BOOLEAN]

Doing == Offs \cup Fails \cup Passes \cup Asks \cup Answers \cup Fetches \cup Tails \cup Ranges

TypeOK ==
    /\ time \in Nat /\ Time0 <= time
    /\ drift \in [Syncs -> Drifts]
    /\ DOMAIN store \subseteq Listed /\ store \in [DOMAIN store -> Shapes]
    /\ dirty \in BOOLEAN
    /\ sync \in [Syncs -> Doing]

(* The clock a request's candles are settled by was read before it.         *)
Asked(s) == sync[s].step \in {"asked", "answered"} => sync[s].cutoff <= Host(s)

Paged(s) ==
    At(s, "answered") =>
      \A c \in DOMAIN sync[s].page :
        SettledBy(c, sync[s].cutoff) => sync[s].page[c] = "final"

AskInv == TypeOK /\ \A s \in Syncs : Asked(s)

FinalInv ==
    /\ AskInv
    /\ \A s \in Syncs : Paged(s)
    /\ StoredIsFinal

(* Who still has to pack what is dirty, or has failed to.                   *)
Owes(s) ==
    \/ sync[s].step \in {"failed", "pass", "ended"} /\ (At(s, "failed") \/ ~sync[s].refreshed)
    \/ sync[s].step \in {"asked", "answered", "fetched", "packing"} /\ Packs(sync[s])

Owed == dirty /\ (\E s \in Syncs : ~At(s, "off")) => \E s \in Syncs : Owes(s)

PackInv == TypeOK /\ Owed

(* A sync no other runs beside.                                             *)
Alone(s) == \A t \in Syncs \ {s} : At(t, "off")

Opened(s) == \A b \in DOMAIN store : b <= time /\ b < Host(s)

Held(it, to) ==
    \A c \in Listed : it.cfg.start <= c /\ c <= it.cfg.end /\ c < to => c \in DOMAIN store

Gapless(it) ==
    \A c \in Listed, b \in DOMAIN store :
        it.cfg.start <= c /\ c <= it.cfg.end /\ c <= b => c \in DOMAIN store

Fetching(it) ==
    /\ it.cfg.start <= it.next /\ it.next <= it.cursor /\ it.cursor <= it.end
    /\ Held(it, it.cursor)
    /\ it.end <= it.cfg.end
    /\ \A b \in DOMAIN store : b < it.cutoff /\ (b <= it.end \/ it.end = it.cfg.end)

Page(it) ==
    /\ \A c \in DOMAIN it.page : it.cursor <= c /\ c <= it.end /\ c <= time
    /\ \A c \in DOMAIN it.page, b \in Listed :
         it.cursor <= b /\ b <= c => b \in DOMAIN it.page

Reached(it) == it.cfg.start <= it.next /\ Held(it, it.next)

(* What of its range a bounded sync has.                                    *)
Covers(it) ==
    /\ it.step \in {"asked", "answered"} /\ it.cfg.end # Never => Fetching(it)
    /\ it.step = "answered" => Page(it)
    /\ it.step \in {"fetched", "packing"} /\ it.cfg.end # Never =>
         Reached(it) /\ it.end <= it.cfg.end /\ (it.step = "fetched" => Gapless(it))
    /\ it.step = "pass" /\ it.cfg.end # Never => Reached(it)
    /\ it.step = "ended" /\ "warned" \in DOMAIN it /\ ~it.warned => Covered(it)

AloneInv == \A s \in Syncs : Alone(s) => Opened(s) /\ Covers(sync[s])

CoverInv == AskInv /\ AloneInv

-----------------------------------------------------------------------------
(* The smallest and the greatest of some numbers, and a page of klines.     *)

\* A set of numbers has a smallest (held back first, settled_len).
LEMMA MinOf ==
  ASSUME NEW S \in SUBSET Nat, S # {}
  PROVE  Min(S) \in S /\ \A x \in S : Min(S) <= x
<1> DEFINE Below == OpToRel(<, Nat)
<1>1. \A x, y \in Nat : x < y => <<x, y>> \in Below
  BY DEF OpToRel
<1>2. IsWellFoundedOn(Below, Nat)
  BY NatLessThanWellFounded
<1> HIDE DEF Below
<1>3. PICK least \in S : \A x \in S : ~(<<x, least>> \in Below)
  BY <1>2, WFMin
<1>4. \A x \in S : least <= x
  <2> SUFFICES ASSUME NEW x \in S PROVE least <= x
    OBVIOUS
  <2>1. least \in Nat /\ x \in Nat
    OBVIOUS
  <2>2. ~(x < least)
    BY <1>1, <1>3, <2>1
  <2> QED BY <2>1, <2>2
<1> QED
  BY <1>4 DEF Min

\* A finite set of numbers has a greatest (the newest candle, max_open_time_ms).
LEMMA MaxOf ==
  ASSUME NEW S \in SUBSET Nat, S # {}, IsFiniteSet(S)
  PROVE  Max(S) \in S /\ \A x \in S : x <= Max(S)
<1> DEFINE After(y) == {x \in S : y < x}
           T == {After(y) : y \in S}
<1>1. IsWellFoundedOn(StrictSubsetOrdering(S), FiniteSubsetsOf(S))
  BY FS_StrictSubsetOrderingWellFounded
<1>2. T \subseteq FiniteSubsetsOf(S) /\ T # {}
  <2>1. \A y \in S : After(y) \in SUBSET S
    OBVIOUS
  <2> HIDE DEF After
  <2>2. \A y \in S : IsFiniteSet(After(y))
    BY <2>1, FS_Subset
  <2> QED BY <2>1, <2>2 DEF FiniteSubsetsOf
<1>3. PICK least \in T : \A other \in T : ~ (<<other, least>> \in StrictSubsetOrdering(S))
  <2> HIDE DEF T
  <2> QED BY <1>1, <1>2, WFMin
<1>4. PICK y \in S : least = After(y)
  OBVIOUS
<1>5. ASSUME NEW x \in S, y < x PROVE FALSE
  <2>0. y < x /\ x \in Nat /\ y \in Nat /\ \A z \in S : z \in Nat
    BY <1>5
  <2>1. After(x) \subseteq After(y) /\ x \in After(y) /\ x \notin After(x)
    <3>1. x \in After(y) /\ x \notin After(x)
      BY <2>0
    <3>2. \A z \in After(x) : z \in S /\ z \in Nat /\ x < z
      BY <2>0
    <3>3. \A z \in After(x) : z \in After(y)
      BY <2>0, <3>2
    <3> QED BY <3>1, <3>3
  <2>2. <<After(x), After(y)>> \in StrictSubsetOrdering(S)
    BY <2>1 DEF StrictSubsetOrdering
  <2> QED BY <1>3, <1>4, <2>2
<1>6. \A x \in S : x <= y
  BY <1>5
<1> QED
  BY <1>6 DEF Max

\* A page of klines starts with the oldest of the range and skips none; it is
\* empty only when nothing of the range is open (fetch_klines).
LEMMA KlinesPage ==
  ASSUME NEW start \in Nat, NEW end \in Nat, time \in Nat
  PROVE  LET page == Klines(start, end) IN
         /\ page \in SUBSET Listed /\ IsFiniteSet(page)
         /\ \A c \in page : start <= c /\ c <= end /\ c <= time
         /\ \A c \in page, b \in Listed : start <= b /\ b <= c => b \in page
         /\ page = {} => \A c \in Listed : ~(start <= c /\ c <= end /\ c <= time)
<1> DEFINE open == {c \in Listed : start <= c /\ c <= end /\ c <= time}
           Older(c) == {b \in open : b < c}
<1>1. Klines(start, end) = {c \in open : Cardinality(Older(c)) < Limit}
  BY DEF Klines
<1>2. open \in SUBSET Listed /\ open \in SUBSET Nat /\ IsFiniteSet(open)
  BY SyncAssumption, FS_Subset
<1>3. \A c \in open : Older(c) \in SUBSET open /\ IsFiniteSet(Older(c))
  BY <1>2, FS_Subset
<1>4. ASSUME NEW c \in open, NEW b \in open, b <= c, Cardinality(Older(c)) < Limit
      PROVE  Cardinality(Older(b)) < Limit
  <2>1. Older(b) \in SUBSET Older(c)
    BY <1>2, <1>4
  <2>2. Cardinality(Older(b)) <= Cardinality(Older(c)) /\ Cardinality(Older(b)) \in Nat
        /\ Cardinality(Older(c)) \in Nat
    BY <1>3, <2>1, FS_Subset, FS_CardinalityType
  <2> QED BY <1>4, <2>2, SyncAssumption
<1>5. ASSUME open # {} PROVE \E c \in open : Cardinality(Older(c)) < Limit
  <2>1. PICK c \in open : \A x \in open : c <= x
    BY <1>2, <1>5, MinOf
  <2>2. Older(c) = {}
    BY <1>2, <2>1
  <2>3. Cardinality(Older(c)) = 0
    BY <2>2, FS_EmptySet
  <2> QED BY <2>3, SyncAssumption
<1>6. IsFiniteSet(Klines(start, end))
  BY <1>1, <1>2, FS_Subset
<1> HIDE DEF Older
<1>7. \A c \in Klines(start, end), b \in Listed : start <= b /\ b <= c => b \in Klines(start, end)
  <2> SUFFICES ASSUME NEW c \in Klines(start, end), NEW b \in Listed, start <= b, b <= c
               PROVE  b \in Klines(start, end)
    OBVIOUS
  <2>1. c \in open /\ Cardinality(Older(c)) < Limit
    BY <1>1
  <2>2. b \in open
    BY <2>1, SyncAssumption
  <2> QED BY <1>1, <1>4, <2>1, <2>2
<1> QED
  BY <1>1, <1>5, <1>6, <1>7

-----------------------------------------------------------------------------
(* Types.                                                                   *)

\* A host's clock never shows less than it did at the start (now_utc_ms).
LEMMA HostNat ==
  ASSUME TypeOK, NEW s \in Syncs
  PROVE  Host(s) \in Nat /\ drift[s] \in Int /\ Time0 + drift[s] <= Host(s) /\ drift[s] \in Drifts
BY SyncAssumption DEF TypeOK, Host

\* A page in hand has candles, and a last one (sync_market_range).
LEMMA PageIs ==
  ASSUME NEW page \in Pages
  PROVE  /\ DOMAIN page \in SUBSET Listed /\ DOMAIN page # {} /\ IsFiniteSet(DOMAIN page)
         /\ page \in [DOMAIN page -> Shapes]
         /\ Max(DOMAIN page) \in DOMAIN page
         /\ \A c \in DOMAIN page : c <= Max(DOMAIN page)
<1>1. /\ DOMAIN page \in SUBSET Listed /\ DOMAIN page # {}
      /\ page \in [DOMAIN page -> Shapes]
  <2>1. PICK d \in (SUBSET Listed) \ {{}} : page \in [d -> Shapes]
    BY DEF Pages
  <2>2. DOMAIN page = d
    BY <2>1
  <2>3. d \in SUBSET Listed /\ d # {}
    BY <2>1
  <2> QED BY <2>1, <2>2, <2>3
<1>2. IsFiniteSet(DOMAIN page) /\ DOMAIN page \in SUBSET Nat
  BY <1>1, SyncAssumption, FS_Subset
<1> QED
  BY <1>1, <1>2, MaxOf

\* What a sync is doing decides what it holds.
LEMMA ShapeOf ==
  ASSUME NEW it \in Doing
  PROVE  /\ it.step = "pass" => it \in Passes
         /\ it.step = "asked" => it \in Asks
         /\ it.step = "answered" => it \in Answers
         /\ it.step \in {"fetched", "packing"} => it \in Fetches
         /\ it.step = "ended" => it \in Tails \/ it \in Ranges
         /\ it.step \in {"off", "failed", "pass", "asked", "answered", "fetched", "packing", "ended"}
BY DEF Doing, Offs, Fails, Passes, Asks, Answers, Fetches, Tails, Ranges

\* A pass ends at its range's end or at the host's clock (effective_end_time_ms).
LEMMA EndIs ==
  ASSUME NEW cfg \in SetConfig, NEW now \in Nat
  PROVE  /\ EffectiveEnd(cfg, now) \in Nat
         /\ cfg.end # Never => EffectiveEnd(cfg, now) <= cfg.end
         /\ EffectiveEnd(cfg, now) = now \/ EffectiveEnd(cfg, now) = cfg.end
BY DEF EffectiveEnd, SetConfig, Least, Never

\* A request has the shape of one (sync_market_range).
LEMMA AskingTyped ==
  ASSUME NEW it, it.cfg \in SetConfig, it.refreshed \in BOOLEAN, it.next \in Nat,
         NEW end \in Nat, NEW cursor \in Nat, NEW wrote \in BOOLEAN, NEW now \in Nat
  PROVE  Asking(it, end, cursor, wrote, now) \in Asks
BY DEF Asking, Asks, Places

\* A fetched range has the shape of one (SyncRangeOutcome).
LEMMA FetchedTyped ==
  ASSUME NEW it, it.cfg \in SetConfig, it.refreshed \in BOOLEAN, it.next \in Nat, it.end \in Nat,
         it.wrote \in BOOLEAN, NEW held \in Places
  PROVE  Fetched(it, held) \in Fetches
BY DEF Fetched, Fetches

\* After a pass the sync waits for the next, or is over (run).
LEMMA AfterPassTyped ==
  ASSUME NEW it, it.cfg \in SetConfig, it.refreshed \in BOOLEAN, it.next \in Nat,
         it.held \in Places, NEW end \in Nat
  PROVE  AfterPass(it, end) \subseteq Doing
<1>1. Ended(it, end) \in Tails \cup Ranges
  BY DEF Ended, Tails, Ranges, SetConfig, Uncovered
<1>2. [step |-> "pass", cfg |-> it.cfg, refreshed |-> it.refreshed,
       held |-> it.held, next |-> it.next] \in Passes
  BY DEF Passes
<1> QED
  BY <1>1, <1>2 DEF AfterPass, Doing

\* What a pass leaves to the next, or to the summary (run).
LEMMA AfterPassIs ==
  ASSUME NEW it, NEW end, NEW on \in AfterPass(it, end)
  PROVE  /\ on.step \in {"pass", "ended"} /\ on.refreshed = it.refreshed
         /\ on.step = "pass" => on.cfg = it.cfg /\ on.held = it.held /\ on.next = it.next
         /\ on.step = "ended" => on = Ended(it, end)
BY DEF AfterPass, Ended

\* What each step of a sync puts in its place.
LEMMA BeginIs ==
  ASSUME TypeOK, NEW s \in Syncs, Begin(s)
  PROVE  /\ At(s, "off")
         /\ \E cfg \in SetConfig : sync' = [sync EXCEPT ![s] =
              [step |-> "pass", cfg |-> cfg, refreshed |-> FALSE, held |-> Never,
               next |-> cfg.start]]
<1>1. PICK cfg \in Configs[s] :
        sync' = [sync EXCEPT ![s] =
          [step |-> "pass",
           cfg |-> [cfg EXCEPT !.start = IF cfg.start = Never THEN Host(s) ELSE cfg.start],
           refreshed |-> FALSE, held |-> Never,
           next |-> IF cfg.start = Never THEN Host(s) ELSE cfg.start]]
  BY DEF Begin
<1>2. cfg \in ConfigSpace /\ Host(s) \in Nat
  BY SyncAssumption, HostNat
<1>3. PICK start : start = IF cfg.start = Never THEN Host(s) ELSE cfg.start
  OBVIOUS
<1>4. start \in Nat
  BY <1>2, <1>3 DEF ConfigSpace
<1>5. PICK set : set = [cfg EXCEPT !.start = start]
  OBVIOUS
<1>6. set \in SetConfig /\ set.start = start
  BY <1>2, <1>4, <1>5 DEF ConfigSpace, SetConfig
<1>7. sync' = [sync EXCEPT ![s] = [step |-> "pass", cfg |-> set, refreshed |-> FALSE,
                                   held |-> Never, next |-> set.start]]
  BY <1>1, <1>3, <1>5, <1>6
<1> QED
  BY <1>6, <1>7 DEF Begin

\* A pass requests its first page, or waits (run).
LEMMA BeginPassIs ==
  ASSUME TypeOK, NEW s \in Syncs, BeginPass(s)
  PROVE  \E it \in Passes, end \in Nat : \E on \in Doing :
           /\ it = sync[s] /\ end = EffectiveEnd(it.cfg, Host(s))
           /\ it.next <= end => on = Asking(it, end, it.next, FALSE, Host(s))
           /\ ~(it.next <= end) => on \in AfterPass(it, end)
           /\ sync' = [sync EXCEPT ![s] = on]
<1>1. PICK it : it = sync[s]
  OBVIOUS
<1>2. it \in Doing /\ it.step = "pass"
  BY <1>1 DEF TypeOK, BeginPass, At
<1>3. it \in Passes
  BY <1>2, ShapeOf
<1>4. PICK end : end = EffectiveEnd(it.cfg, Host(s))
  OBVIOUS
<1>5. it.cfg \in SetConfig /\ it.next \in Nat /\ it.refreshed \in BOOLEAN /\ it.held \in Places
  BY <1>3 DEF Passes
<1>6. Host(s) \in Nat /\ end \in Nat
  BY <1>4, <1>5, EndIs, HostNat
<1>7. PICK on : /\ it.next <= end => on = Asking(it, end, it.next, FALSE, Host(s))
                /\ ~(it.next <= end) => on \in AfterPass(it, end)
                /\ sync' = [sync EXCEPT ![s] = on]
  BY <1>1, <1>4 DEF BeginPass
<1>8. Asking(it, end, it.next, FALSE, Host(s)) \in Asks
  BY <1>5, <1>6, AskingTyped
<1>9. AfterPass(it, end) \subseteq Doing
  BY <1>5, <1>6, AfterPassTyped
<1>10. on \in Doing
  BY <1>7, <1>8, <1>9 DEF Doing
<1> QED
  BY <1>1, <1>3, <1>4, <1>6, <1>7, <1>10

\* An answer is a page, or the end of the paging (sync_market_range).
LEMMA AnswerIs ==
  ASSUME TypeOK, NEW s \in Syncs, Answer(s)
  PROVE  \E it \in Asks : \E page \in SUBSET Listed :
           /\ it = sync[s] /\ page = Klines(it.cursor, it.end)
           /\ page = {} => /\ Fetched(it, Never) \in Fetches
                           /\ sync' = [sync EXCEPT ![s] = Fetched(it, Never)]
           /\ page # {} =>
                LET seen == [c \in page |-> Shape(c)] IN
                /\ Answered(it, seen) \in Answers
                /\ sync' = [sync EXCEPT ![s] = Answered(it, seen)]
<1>1. PICK it : it = sync[s]
  OBVIOUS
<1>2. it \in Doing /\ it.step = "asked"
  BY <1>1 DEF TypeOK, Answer, At
<1>3. it \in Asks
  BY <1>2, ShapeOf
<1>4. PICK page : page = Klines(it.cursor, it.end)
  OBVIOUS
<1>5. page \in SUBSET Listed
  BY <1>3, <1>4, KlinesPage DEF Asks, TypeOK
<1>6. PICK seen : seen = [c \in page |-> Shape(c)]
  OBVIOUS
<1>7. seen \in [page -> Shapes]
  BY <1>6 DEF Shape, Shapes
<1>8. ASSUME page # {} PROVE seen \in Pages
  <2>1. page \in (SUBSET Listed) \ {{}}
    BY <1>5, <1>8
  <2> QED BY <1>7, <2>1 DEF Pages
<1>9. ASSUME page # {} PROVE Answered(it, seen) \in Answers
  BY <1>3, <1>8, <1>9 DEF Asks, Answered, Answers
<1>10. Fetched(it, Never) \in Fetches
  BY <1>3, FetchedTyped DEF Asks, Places
<1>11. sync' = [sync EXCEPT ![s] = IF page = {} THEN Fetched(it, Never) ELSE Answered(it, seen)]
  BY <1>1, <1>4, <1>6 DEF Answer
<1> QED
  BY <1>1, <1>3, <1>4, <1>5, <1>6, <1>9, <1>10, <1>11

\* A page is stored up to the candles it holds back.
Stores(s, it, on, settled, held) ==
    LET cursor == NextPage(Max(DOMAIN it.page))
        wrote == it.wrote \/ settled # {}
    IN /\ it = sync[s]
       /\ settled = SettledOf(DOMAIN it.page, it.cutoff)
       /\ held = DOMAIN it.page \ settled
       /\ store' = [c \in DOMAIN store \cup settled |->
                   IF c \in settled THEN it.page[c] ELSE store[c]]
       /\ dirty' = (dirty \/ settled # {})
       /\ sync' = [sync EXCEPT ![s] = on]
       /\ cursor \in Nat
       /\ held # {} => on.held = Min(held) /\ on \in Fetches /\ on.step = "fetched"
       /\ held = {} /\ ~(cursor <= it.end) =>
            on.held = Never /\ on \in Fetches /\ on.step = "fetched"
       /\ held = {} /\ cursor <= it.end => on = Asking(it, it.end, cursor, wrote, Host(s))
       /\ on.cfg = it.cfg /\ on.refreshed = it.refreshed /\ on.next = it.next
       /\ on.end = it.end /\ on.wrote = wrote

\* What storing a page does, as Stores says (sync_market_range).
LEMMA StorePageIs ==
  ASSUME TypeOK, NEW s \in Syncs, StorePage(s)
  PROVE  \E it \in Answers, on \in Doing, settled \in SUBSET Listed, held \in SUBSET Listed :
           Stores(s, it, on, settled, held)
<1>1. PICK it : it = sync[s]
  OBVIOUS
<1>2. it \in Doing /\ it.step = "answered"
  BY <1>1 DEF TypeOK, StorePage, At
<1>3. it \in Answers
  BY <1>2, ShapeOf
<1>4. PICK settled : settled = SettledOf(DOMAIN it.page, it.cutoff)
  OBVIOUS
<1>5. PICK held : held = DOMAIN it.page \ settled
  OBVIOUS
<1>6. PICK cursor : cursor = NextPage(Max(DOMAIN it.page))
  OBVIOUS
<1>7. PICK wrote : wrote = (it.wrote \/ settled # {})
  OBVIOUS
<1>8. PICK now : now = [it EXCEPT !.wrote = wrote]
  OBVIOUS
<1>9. /\ it.page \in Pages /\ it.cfg \in SetConfig /\ it.refreshed \in BOOLEAN
      /\ it.next \in Nat /\ it.end \in Nat /\ it.wrote \in BOOLEAN
  BY <1>3 DEF Answers
<1>10. DOMAIN it.page \in SUBSET Listed /\ Max(DOMAIN it.page) \in DOMAIN it.page
  BY <1>9, PageIs
<1>11. settled \in SUBSET Listed /\ held \in SUBSET Listed /\ cursor \in Nat /\ wrote \in BOOLEAN
  <2>1. settled \in SUBSET Listed
    BY <1>4, <1>10 DEF SettledOf
  <2>2. held \in SUBSET Listed
    BY <1>5, <1>10
  <2>3. cursor \in Nat
    <3>1. PICK last \in Listed : last = Max(DOMAIN it.page)
      BY <1>10
    <3>2. last \in Nat /\ Step \in Nat
      BY <3>1, SyncAssumption
    <3>3. cursor = last + Step
      BY <1>6, <3>1 DEF NextPage
    <3> QED BY <3>2, <3>3
  <2> QED BY <1>7, <1>9, <2>1, <2>2, <2>3
<1>12. /\ now.cfg = it.cfg /\ now.refreshed = it.refreshed /\ now.next = it.next
       /\ now.end = it.end /\ now.wrote = wrote
  BY <1>3, <1>8 DEF Answers
<1>13. PICK on : on = IF held # {} THEN Fetched(now, Min(held))
                      ELSE IF cursor <= now.end THEN Asking(now, now.end, cursor, now.wrote, Host(s))
                      ELSE Fetched(now, Never)
  OBVIOUS
<1>14. /\ store' = [c \in DOMAIN store \cup settled |->
                   IF c \in settled THEN now.page[c] ELSE store[c]]
       /\ dirty' = (dirty \/ settled # {})
       /\ sync' = [sync EXCEPT ![s] = on]
  BY <1>1, <1>4, <1>5, <1>6, <1>7, <1>8, <1>13 DEF StorePage
<1>15. now.page = it.page /\ store' = [c \in DOMAIN store \cup settled |->
                   IF c \in settled THEN it.page[c] ELSE store[c]]
  BY <1>3, <1>8, <1>14 DEF Answers
<1>16. Asking(now, now.end, cursor, now.wrote, Host(s)) = Asking(it, it.end, cursor, wrote, Host(s))
  BY <1>12 DEF Asking
<1>17. Asking(it, it.end, cursor, wrote, Host(s)) \in Asks
  BY <1>9, <1>11, HostNat, AskingTyped
<1>18. ASSUME held # {} PROVE Min(held) \in Places
  BY <1>11, <1>18, SyncAssumption, MinOf DEF Places
<1>19. \A h \in Places : Fetched(now, h) \in Fetches
  <2> SUFFICES ASSUME NEW h \in Places PROVE Fetched(now, h) \in Fetches
    OBVIOUS
  <2> QED BY <1>9, <1>11, <1>12, FetchedTyped
<1>20. on \in Doing
  BY <1>13, <1>16, <1>17, <1>18, <1>19 DEF Doing, Places
<1>21. held # {} => on.held = Min(held) /\ on \in Fetches /\ on.step = "fetched"
  BY <1>13, <1>18, <1>19 DEF Fetched
<1>22. held = {} /\ ~(cursor <= it.end) => on.held = Never /\ on \in Fetches /\ on.step = "fetched"
  BY <1>12, <1>13, <1>19 DEF Fetched, Places
<1>23. held = {} /\ cursor <= it.end => on = Asking(it, it.end, cursor, wrote, Host(s))
  BY <1>12, <1>13, <1>16
<1>24. /\ on.cfg = it.cfg /\ on.refreshed = it.refreshed /\ on.next = it.next
       /\ on.end = it.end /\ on.wrote = wrote
  BY <1>12, <1>13 DEF Asking, Fetched
<1> QED
  <2>1. it \in Answers /\ on \in Doing /\ settled \in SUBSET Listed /\ held \in SUBSET Listed
    BY <1>3, <1>11, <1>20
  <2>2. Stores(s, it, on, settled, held)
    BY <1>1, <1>4, <1>5, <1>6, <1>7, <1>11, <1>14, <1>15, <1>21, <1>22, <1>23, <1>24 DEF Stores
  <2> QED BY <2>1, <2>2

\* The next pass starts after the newest candle (run).
LEMMA ReadNewestIs ==
  ASSUME TypeOK, NEW s \in Syncs, ReadNewest(s)
  PROVE  \E it \in Fetches, on \in Fetches :
           /\ it = sync[s] /\ it.step = "fetched"
           /\ on.step = "packing"
           /\ on.next = IF DOMAIN store = {} THEN it.next
                        ELSE Most(it.next, Max(DOMAIN store) + Step)
           /\ on.cfg = it.cfg /\ on.refreshed = it.refreshed /\ on.held = it.held
           /\ on.end = it.end /\ on.wrote = it.wrote
           /\ sync' = [sync EXCEPT ![s] = on]
           /\ DOMAIN store # {} =>
                /\ Max(DOMAIN store) \in DOMAIN store
                /\ \A b \in DOMAIN store : b <= Max(DOMAIN store)
<1>1. PICK it : it = sync[s]
  OBVIOUS
<1>2. it \in Doing /\ it.step = "fetched"
  BY <1>1 DEF TypeOK, ReadNewest, At
<1>3. it \in Fetches
  BY <1>2, ShapeOf
<1>4. PICK next : next = IF DOMAIN store = {} THEN it.next
                         ELSE Most(it.next, Max(DOMAIN store) + Step)
  OBVIOUS
<1>5. PICK on : on = [it EXCEPT !.step = "packing", !.next = next]
  OBVIOUS
<1>6. DOMAIN store \in SUBSET Nat /\ IsFiniteSet(DOMAIN store)
  BY SyncAssumption, FS_Subset DEF TypeOK
<1>7. DOMAIN store # {} => /\ Max(DOMAIN store) \in DOMAIN store
                           /\ \A b \in DOMAIN store : b <= Max(DOMAIN store)
  BY <1>6, MaxOf
<1>8. next \in Nat
  BY <1>3, <1>4, <1>6, <1>7, SyncAssumption DEF Fetches, Most
<1>9. on \in Fetches /\ on.step = "packing" /\ on.next = next
  BY <1>3, <1>5, <1>8 DEF Fetches
<1>10. /\ on.cfg = it.cfg /\ on.refreshed = it.refreshed /\ on.held = it.held
       /\ on.end = it.end /\ on.wrote = it.wrote
  BY <1>3, <1>5 DEF Fetches
<1>11. sync' = [sync EXCEPT ![s] = on]
  BY <1>1, <1>4, <1>5 DEF ReadNewest
<1> QED
  BY <1>1, <1>2, <1>3, <1>4, <1>7, <1>9, <1>10, <1>11

\* A pass ends with its refresh made, missed or not needed.
Packed(s, it, after, on, done) ==
    /\ it = sync[s] /\ it.step = "packing"
    /\ done => Packs(it)
    /\ dirty' = (dirty /\ ~done)
    /\ after.refreshed = IF Packs(it) THEN done ELSE TRUE
    /\ after.cfg = it.cfg /\ after.held = it.held /\ after.next = it.next
    /\ on \in AfterPass(after, it.end)
    /\ sync' = [sync EXCEPT ![s] = on]

\* What a refresh does, as Packed says (run).
LEMMA PackIs ==
  ASSUME TypeOK, NEW s \in Syncs, Pack(s)
  PROVE  \E it \in Fetches, after \in Fetches, on \in Doing, done \in BOOLEAN :
           Packed(s, it, after, on, done)
<1>1. PICK it : it = sync[s]
  OBVIOUS
<1>2. it \in Doing /\ it.step = "packing"
  BY <1>1 DEF TypeOK, Pack, At
<1>3. it \in Fetches
  BY <1>2, ShapeOf
<1>4. PICK done \in IF Packs(it) THEN BOOLEAN ELSE {FALSE} :
        LET refreshed == IF Packs(it) THEN RefreshedBy(done) ELSE TRUE
        IN /\ dirty' = (dirty /\ ~done)
           /\ \E on \in AfterPass([it EXCEPT !.refreshed = refreshed], it.end) :
                sync' = [sync EXCEPT ![s] = on]
  BY <1>1 DEF Pack
<1>5. done \in BOOLEAN /\ (done => Packs(it))
  BY <1>4
<1>6. PICK refreshed \in BOOLEAN : refreshed = IF Packs(it) THEN done ELSE TRUE
  BY <1>5
<1>7. PICK after : after = [it EXCEPT !.refreshed = refreshed]
  OBVIOUS
<1>8. /\ after \in Fetches /\ after.refreshed = refreshed
      /\ after.cfg = it.cfg /\ after.held = it.held /\ after.next = it.next
  BY <1>3, <1>6, <1>7 DEF Fetches
<1>9. PICK on \in AfterPass(after, it.end) : sync' = [sync EXCEPT ![s] = on]
  BY <1>4, <1>6, <1>7 DEF RefreshedBy
<1>10. on \in Doing
  <2>1. /\ after.cfg \in SetConfig /\ after.refreshed \in BOOLEAN /\ after.next \in Nat
        /\ after.held \in Places /\ it.end \in Nat
    BY <1>3, <1>8 DEF Fetches
  <2> QED BY <1>9, <2>1, AfterPassTyped
<1> QED
  BY <1>1, <1>2, <1>3, <1>4, <1>5, <1>6, <1>8, <1>9, <1>10 DEF Packed

\* The types hold at the start (run).
LEMMA TypeInit == Init => TypeOK
BY SyncAssumption DEF Init, TypeOK, Doing, Offs, Shapes

\* Every step keeps the types (run, sync_market_range).
LEMMA TypeStep ==
  ASSUME TypeOK, Next
  PROVE  TypeOK'
<1>1. CASE Tick
  BY <1>1, SyncAssumption DEF Tick, TypeOK
<1> DEFINE Steps(s) == Begin(s) \/ BeginPass(s) \/ Answer(s) \/ Fail(s) \/ ReadNewest(s) \/ Pack(s)
<1>2. ASSUME NEW s \in Syncs, NEW on \in Doing, sync' = [sync EXCEPT ![s] = on],
             UNCHANGED <<time, drift, store>>, dirty' \in BOOLEAN
      PROVE  TypeOK'
  BY <1>2 DEF TypeOK
<1>3. ASSUME NEW s \in Syncs, Begin(s) PROVE TypeOK'
  <2>1. PICK cfg \in SetConfig : sync' = [sync EXCEPT ![s] =
               [step |-> "pass", cfg |-> cfg, refreshed |-> FALSE, held |-> Never,
                next |-> cfg.start]]
    BY <1>3, BeginIs
  <2>2. [step |-> "pass", cfg |-> cfg, refreshed |-> FALSE, held |-> Never, next |-> cfg.start]
          \in Passes
    BY DEF Passes, SetConfig, Places
  <2> QED BY <1>2, <1>3, <2>1, <2>2 DEF Begin, Doing, TypeOK
<1>4. ASSUME NEW s \in Syncs, BeginPass(s) PROVE TypeOK'
  <2>1. PICK on \in Doing : sync' = [sync EXCEPT ![s] = on]
    BY <1>4, BeginPassIs
  <2> QED BY <1>2, <1>4, <2>1 DEF BeginPass, TypeOK
<1>5. ASSUME NEW s \in Syncs, Answer(s) PROVE TypeOK'
  <2>1. PICK on \in Doing : sync' = [sync EXCEPT ![s] = on]
    BY <1>5, AnswerIs DEF Doing
  <2> QED BY <1>2, <1>5, <2>1 DEF Answer, TypeOK
<1>6. ASSUME NEW s \in Syncs, Fail(s) PROVE TypeOK'
  <2>1. Failed \in Doing
    BY DEF Doing, Fails, Failed
  <2> QED BY <1>2, <1>6, <2>1 DEF Fail, TypeOK
<1>7. ASSUME NEW s \in Syncs, StorePage(s) PROVE TypeOK'
  <2>1. PICK it \in Answers, on \in Doing, settled \in SUBSET Listed, held \in SUBSET Listed :
          Stores(s, it, on, settled, held)
    BY <1>7, StorePageIs
  <2>2. /\ store' = [c \in DOMAIN store \cup settled |->
                   IF c \in settled THEN it.page[c] ELSE store[c]]
        /\ dirty' = (dirty \/ settled # {})
        /\ sync' = [sync EXCEPT ![s] = on]
        /\ settled \subseteq DOMAIN it.page
    BY <2>1 DEF Stores, SettledOf
  <2>3. it.page \in [DOMAIN it.page -> Shapes]
    BY PageIs DEF Answers
  <2>4. PICK seen : seen = it.page
    OBVIOUS
  <2>5. \A c \in settled : seen[c] \in Shapes
    BY <2>2, <2>3, <2>4
  <2>6. DOMAIN store' = settled \cup DOMAIN store /\ store' \in [DOMAIN store' -> Shapes]
    BY <2>2, <2>4, <2>5 DEF TypeOK
  <2>7. time' = time /\ drift' = drift
    BY <1>7 DEF StorePage
  <2> QED BY <2>2, <2>6, <2>7 DEF TypeOK
<1>8. ASSUME NEW s \in Syncs, ReadNewest(s) PROVE TypeOK'
  <2>1. PICK on \in Doing : sync' = [sync EXCEPT ![s] = on]
    BY <1>8, ReadNewestIs DEF Doing
  <2> QED BY <1>2, <1>8, <2>1 DEF ReadNewest, TypeOK
<1>9. ASSUME NEW s \in Syncs, Pack(s) PROVE TypeOK'
  <2>1. PICK it \in Fetches, after \in Fetches, on \in Doing, done \in BOOLEAN :
          Packed(s, it, after, on, done)
    BY <1>9, PackIs
  <2> QED BY <1>2, <1>9, <2>1 DEF Pack, Packed, TypeOK
<1> QED
  BY <1>1, <1>3, <1>4, <1>5, <1>6, <1>7, <1>8, <1>9 DEF Next

\* The clocks, the store and every sync keep their types, for any number of
\* syncs, ranges, page sizes and drifts (DataSyncEngine::run).
THEOREM TypeCorrect == Spec => []TypeOK
<1>1. ASSUME TypeOK, [Next]_vars PROVE TypeOK'
  <2>1. CASE UNCHANGED vars
    BY <1>1, <2>1 DEF vars, TypeOK
  <2> QED BY <1>1, <2>1, TypeStep
<1> QED
  BY <1>1, TypeInit, PTL DEF Spec

-----------------------------------------------------------------------------
(* What is stored is final.                                                 *)

\* No step lets a request's cutoff run ahead of its host's clock
\* (sync_market_range reads it before the request).
LEMMA AskStep ==
  ASSUME AskInv, Next
  PROVE  AskInv'
<1>1. TypeOK /\ TypeOK' /\ \A s \in Syncs : Asked(s)
  BY TypeStep DEF AskInv
<1>2. \A t \in Syncs : Host(t) \in Nat /\ drift[t] \in Int
  BY <1>1, HostNat
<1>3. \A t \in Syncs : /\ sync[t].step = "asked" => sync[t].cutoff \in Nat
                       /\ sync[t].step = "answered" => sync[t].cutoff \in Nat
  BY <1>1, ShapeOf DEF TypeOK, Asks, Answers
<1>4. CASE Tick
  <2>1. \A t \in Syncs : Host(t)' = Host(t) + 1
    BY <1>1, <1>2, <1>4 DEF Tick, Host, TypeOK
  <2>2. sync' = sync
    BY <1>4 DEF Tick
  <2>3. \A t \in Syncs : Asked(t)'
    BY <1>1, <1>2, <1>3, <2>1, <2>2 DEF Asked
  <2> QED BY <1>1, <2>3 DEF AskInv
<1>5. ASSUME NEW s \in Syncs, NEW on, sync' = [sync EXCEPT ![s] = on], UNCHANGED <<time, drift>>,
             on.step = "asked" => on.cutoff = Host(s),
             on.step = "answered" => on.cutoff = sync[s].cutoff /\ At(s, "asked")
      PROVE  AskInv'
  <2>1. \A t \in Syncs : sync'[t] = IF t = s THEN on ELSE sync[t]
    BY <1>1, <1>5 DEF TypeOK
  <2>2. \A t \in Syncs : Host(t)' = Host(t)
    BY <1>5 DEF Host
  <2>3. on.step \in {"asked", "answered"} => on.cutoff <= Host(s)
    BY <1>1, <1>2, <1>5 DEF Asked, At
  <2>4. \A t \in Syncs : Asked(t)'
    BY <1>1, <2>1, <2>2, <2>3 DEF Asked
  <2> QED BY <1>1, <2>4 DEF AskInv
<1>6. ASSUME NEW s \in Syncs, Begin(s) PROVE AskInv'
  <2>1. PICK cfg \in SetConfig : sync' = [sync EXCEPT ![s] =
               [step |-> "pass", cfg |-> cfg, refreshed |-> FALSE, held |-> Never,
                next |-> cfg.start]]
    BY <1>1, <1>6, BeginIs
  <2> QED BY <1>5, <1>6, <2>1 DEF Begin
<1>7. ASSUME NEW s \in Syncs, BeginPass(s) PROVE AskInv'
  <2>1. PICK it \in Passes, end \in Nat, on \in Doing :
           /\ it.next <= end => on = Asking(it, end, it.next, FALSE, Host(s))
           /\ ~(it.next <= end) => on \in AfterPass(it, end)
           /\ sync' = [sync EXCEPT ![s] = on]
    BY <1>1, <1>7, BeginPassIs
  <2>2. on.step \in {"asked", "pass", "ended"} /\ (on.step = "asked" => on.cutoff = Host(s))
    BY <2>1, AfterPassIs DEF Asking
  <2> QED BY <1>5, <1>7, <2>1, <2>2 DEF BeginPass
<1>8. ASSUME NEW s \in Syncs, Answer(s) PROVE AskInv'
  <2>1. PICK it \in Asks, page \in SUBSET Listed :
           /\ it = sync[s]
           /\ page = {} => sync' = [sync EXCEPT ![s] = Fetched(it, Never)]
           /\ page # {} =>
                LET seen == [c \in page |-> Shape(c)] IN
                sync' = [sync EXCEPT ![s] = Answered(it, seen)]
    BY <1>1, <1>8, AnswerIs
  <2>2. PICK seen : seen = [c \in page |-> Shape(c)]
    OBVIOUS
  <2>3. PICK on : on = IF page = {} THEN Fetched(it, Never) ELSE Answered(it, seen)
    OBVIOUS
  <2>4. sync' = [sync EXCEPT ![s] = on] /\ UNCHANGED <<time, drift>> /\ At(s, "asked")
    BY <1>8, <2>1, <2>2, <2>3 DEF Answer
  <2>5. on.step \in {"fetched", "answered"} /\ (on.step = "answered" => on.cutoff = it.cutoff)
    BY <2>3 DEF Fetched, Answered
  <2> QED BY <1>5, <2>1, <2>4, <2>5
<1>9. ASSUME NEW s \in Syncs, Fail(s) PROVE AskInv'
  BY <1>5, <1>9 DEF Fail, Failed
<1>10. ASSUME NEW s \in Syncs, StorePage(s) PROVE AskInv'
  <2>1. PICK it \in Answers, on \in Doing, settled \in SUBSET Listed, held \in SUBSET Listed :
          Stores(s, it, on, settled, held)
    BY <1>1, <1>10, StorePageIs
  <2>2. on.step \in {"asked", "fetched"} /\ (on.step = "asked" => on.cutoff = Host(s))
    BY <2>1 DEF Stores, Asking, Fetched
  <2>3. sync' = [sync EXCEPT ![s] = on] /\ UNCHANGED <<time, drift>>
    BY <1>10, <2>1 DEF Stores, StorePage
  <2> QED BY <1>5, <2>2, <2>3
<1>11. ASSUME NEW s \in Syncs, ReadNewest(s) PROVE AskInv'
  <2>1. PICK on : on.step = "packing" /\ sync' = [sync EXCEPT ![s] = on]
    BY <1>1, <1>11, ReadNewestIs
  <2> QED BY <1>5, <1>11, <2>1 DEF ReadNewest
<1>12. ASSUME NEW s \in Syncs, Pack(s) PROVE AskInv'
  <2>1. PICK it \in Fetches, after \in Fetches, on \in Doing, done \in BOOLEAN :
          Packed(s, it, after, on, done)
    BY <1>1, <1>12, PackIs
  <2>2. on.step \in {"pass", "ended"} /\ sync' = [sync EXCEPT ![s] = on]
    BY <2>1, AfterPassIs DEF Packed
  <2> QED BY <1>5, <1>12, <2>2 DEF Pack
<1> QED
  BY <1>4, <1>6, <1>7, <1>8, <1>9, <1>10, <1>11, <1>12 DEF Next

\* No step stores a candle that is not final: the cutoff was read before the
\* request, and clocks drift less than a candle is left to settle.
LEMMA FinalStep ==
  ASSUME FinalInv, Next, \A d \in Drifts : d <= Settle
  PROVE  FinalInv'
<1> USE DEF FinalInv
<1>1. TypeOK /\ AskInv /\ AskInv'
  BY AskStep DEF AskInv
<1>2. \A t \in Syncs : Host(t) \in Nat /\ drift[t] \in Int /\ drift[t] <= Settle
  BY <1>1, HostNat
<1>3. CASE Tick
  BY <1>1, <1>3 DEF Tick, Paged, At, StoredIsFinal
<1>4. ASSUME NEW s \in Syncs, NEW on, sync' = [sync EXCEPT ![s] = on],
             StoredIsFinal',
             on.step = "answered" => \A c \in DOMAIN on.page :
                                       SettledBy(c, on.cutoff) => on.page[c] = "final"
      PROVE  FinalInv'
  <2>1. \A t \in Syncs : sync'[t] = IF t = s THEN on ELSE sync[t]
    BY <1>1, <1>4 DEF TypeOK
  <2>2. \A t \in Syncs : Paged(t)'
    BY <1>4, <2>1 DEF Paged, At
  <2> QED BY <1>1, <1>4, <2>2
<1>5. ASSUME NEW s \in Syncs, Begin(s) PROVE FinalInv'
  <2>1. PICK cfg \in SetConfig : sync' = [sync EXCEPT ![s] =
               [step |-> "pass", cfg |-> cfg, refreshed |-> FALSE, held |-> Never,
                next |-> cfg.start]]
    BY <1>1, <1>5, BeginIs
  <2> QED BY <1>4, <1>5, <2>1 DEF Begin, StoredIsFinal
<1>6. ASSUME NEW s \in Syncs, BeginPass(s) PROVE FinalInv'
  <2>1. PICK it \in Passes, end \in Nat : \E on \in Doing :
           /\ it.next <= end => on = Asking(it, end, it.next, FALSE, Host(s))
           /\ ~(it.next <= end) => on \in AfterPass(it, end)
           /\ sync' = [sync EXCEPT ![s] = on]
    BY <1>1, <1>6, BeginPassIs
  <2>2. PICK on \in Doing :
           /\ it.next <= end => on = Asking(it, end, it.next, FALSE, Host(s))
           /\ ~(it.next <= end) => on \in AfterPass(it, end)
           /\ sync' = [sync EXCEPT ![s] = on]
    BY <2>1
  <2>3. on.step = "asked" => on.cutoff = Host(s)
    BY <2>2 DEF Asking, AfterPass, Ended
  <2>4. on.step \in {"asked", "pass", "ended"}
    BY <2>2 DEF Asking, AfterPass, Ended
  <2>5. Host(s) <= Host(s)
    BY <1>2
  <2>6. UNCHANGED <<time, drift>> /\ StoredIsFinal'
    BY <1>6 DEF BeginPass, StoredIsFinal
  <2> QED BY <1>4, <2>2, <2>3, <2>4, <2>5, <2>6
<1>7. ASSUME NEW s \in Syncs, Answer(s) PROVE FinalInv'
  <2>1. PICK it \in Asks, page \in SUBSET Listed :
           /\ it = sync[s] /\ page = Klines(it.cursor, it.end)
           /\ page = {} => sync' = [sync EXCEPT ![s] = Fetched(it, Never)]
           /\ page # {} =>
                LET seen == [c \in page |-> Shape(c)] IN
                sync' = [sync EXCEPT ![s] = Answered(it, seen)]
    BY <1>1, <1>7, AnswerIs
  <2>2. StoredIsFinal' /\ UNCHANGED <<time, drift>>
    BY <1>7 DEF StoredIsFinal, Answer
  <2>3. CASE page = {}
    <3>1. Fetched(it, Never).step = "fetched"
      BY DEF Fetched
    <3> QED BY <1>4, <2>1, <2>2, <2>3, <3>1
  <2>4. CASE page # {}
    <3>1. PICK seen : seen = [c \in page |-> Shape(c)]
      OBVIOUS
    <3>2. it.cutoff <= Host(s) /\ it.cutoff \in Nat
      BY <1>1, <1>7, <2>1 DEF AskInv, Asked, Answer, At, Asks
    <3>3. ASSUME NEW c \in page, SettledBy(c, it.cutoff) PROVE seen[c] = "final"
      <4>1. c \in Nat /\ Step \in Nat /\ time \in Nat
        BY <1>1, SyncAssumption DEF TypeOK
      <4>2. c + Step - 1 + Settle < time + drift[s]
        BY <1>2, <3>2, <3>3, <4>1 DEF SettledBy, CloseOf, Host, Settle
      <4>3. time > c + Step - 1
        BY <1>2, <4>1, <4>2 DEF Settle
      <4> QED BY <3>1, <4>3 DEF Shape, CloseOf
    <3>4. PICK on : on = Answered(it, seen)
      OBVIOUS
    <3>5. on.step = "answered" /\ on.cutoff = it.cutoff /\ on.page = seen
      BY <3>4 DEF Answered
    <3>6. DOMAIN on.page = page
      BY <3>1, <3>5
    <3>7. sync' = [sync EXCEPT ![s] = on]
      BY <2>1, <2>4, <3>1, <3>4
    <3> QED BY <1>4, <2>2, <3>2, <3>3, <3>5, <3>6, <3>7
  <2> QED BY <2>3, <2>4
<1>8. ASSUME NEW s \in Syncs, Fail(s) PROVE FinalInv'
  BY <1>4, <1>8 DEF Fail, Failed, StoredIsFinal
<1>9. ASSUME NEW s \in Syncs, StorePage(s) PROVE FinalInv'
  <2>1. PICK it \in Answers, on \in Doing, settled \in SUBSET Listed, held \in SUBSET Listed :
          Stores(s, it, on, settled, held)
    BY <1>1, <1>9, StorePageIs
  <2>2. /\ it = sync[s]
        /\ store' = [c \in DOMAIN store \cup settled |->
                   IF c \in settled THEN it.page[c] ELSE store[c]]
        /\ sync' = [sync EXCEPT ![s] = on]
    BY <2>1 DEF Stores
  <2>3. \A c \in settled : c \in DOMAIN it.page /\ SettledBy(c, it.cutoff)
    <3>1. settled = SettledOf(DOMAIN it.page, it.cutoff)
      BY <2>1 DEF Stores
    <3>2. \A c \in DOMAIN it.page : c \in Nat
      BY PageIs, SyncAssumption DEF Answers
    <3> QED BY <3>1, <3>2 DEF SettledOf
  <2>4. \A c \in settled : it.page[c] = "final"
    BY <1>9, <2>2, <2>3 DEF Paged, StorePage, At
  <2>5. PICK seen : seen = it.page
    OBVIOUS
  <2>6. DOMAIN store' = settled \cup DOMAIN store
        /\ \A c \in DOMAIN store' : store'[c] = IF c \in settled THEN seen[c] ELSE store[c]
    BY <2>2, <2>5
  <2>7. StoredIsFinal'
    BY <2>4, <2>5, <2>6 DEF StoredIsFinal
  <2>8. on.step \in {"asked", "fetched"} /\ (on.step = "asked" => on.cutoff = Host(s))
    BY <2>1 DEF Stores, Asking, Fetched
  <2>9. UNCHANGED <<time, drift>>
    BY <1>9 DEF StorePage
  <2>10. Host(s) <= Host(s)
    BY <1>2
  <2> QED BY <1>4, <2>2, <2>7, <2>8, <2>9, <2>10
<1>10. ASSUME NEW s \in Syncs, ReadNewest(s) PROVE FinalInv'
  <2>1. PICK on : on.step = "packing" /\ sync' = [sync EXCEPT ![s] = on]
    BY <1>1, <1>10, ReadNewestIs
  <2> QED BY <1>4, <1>10, <2>1 DEF ReadNewest, StoredIsFinal
<1>11. ASSUME NEW s \in Syncs, Pack(s) PROVE FinalInv'
  <2>1. PICK it \in Fetches, after \in Fetches, on \in Doing, done \in BOOLEAN :
          Packed(s, it, after, on, done)
    BY <1>1, <1>11, PackIs
  <2>2. on.step \in {"pass", "ended"} /\ sync' = [sync EXCEPT ![s] = on]
    BY <2>1, AfterPassIs DEF Packed
  <2> QED BY <1>4, <1>11, <2>1, <2>2 DEF Pack, StoredIsFinal
<1> QED
  BY <1>3, <1>5, <1>6, <1>7, <1>8, <1>9, <1>10, <1>11 DEF Next

\* Whatever is stored is final, as long as no host's clock is ahead of the
\* exchange by more than a candle is left to settle (range.rs:11-14).
THEOREM StoredIsFinalAlways ==
  ASSUME \A d \in Drifts : d <= Settle
  PROVE  Spec => []StoredIsFinal
<1>1. Init => FinalInv
  BY TypeInit DEF FinalInv, AskInv, Init, Asked, Paged, At, StoredIsFinal
<1>2. ASSUME FinalInv, [Next]_vars PROVE FinalInv'
  <2>1. CASE UNCHANGED vars
    BY <1>2, <2>1 DEF vars, FinalInv, AskInv, TypeOK, Asked, Paged, At, Host, StoredIsFinal
  <2> QED BY <1>2, <2>1, FinalStep
<1>3. FinalInv => StoredIsFinal
  BY DEF FinalInv
<1> QED
  BY <1>1, <1>2, <1>3, PTL DEF Spec

-----------------------------------------------------------------------------
(* Nothing is left unpacked.                                                *)

\* No step leaves candles unpacked that no sync still owes (run's refreshed).
LEMMA PackStep ==
  ASSUME PackInv, Next
  PROVE  PackInv'
<1>1. TypeOK /\ TypeOK' /\ Owed
  BY TypeStep DEF PackInv
<1>2. CASE Tick
  BY <1>1, <1>2 DEF Tick, PackInv, Owed, Owes, At
\* A step of one sync: it still owes what it owed, or packed, and owes what it adds.
<1>3. ASSUME NEW s \in Syncs, NEW on, sync' = [sync EXCEPT ![s] = on],
             dirty' => dirty \/ Owes(s)', on.step # "off",
             At(s, "off") \/ (dirty' /\ Owes(s)) => Owes(s)'
      PROVE  PackInv'
  <2>1. \A t \in Syncs : sync'[t] = IF t = s THEN on ELSE sync[t]
    BY <1>1, <1>3 DEF TypeOK
  <2>2. ASSUME dirty' PROVE \E t \in Syncs : Owes(t)'
    <3>1. CASE Owes(s)'
      BY <3>1
    <3>2. CASE ~Owes(s)'
      <4>1. dirty /\ ~At(s, "off") /\ ~Owes(s)
        BY <1>3, <2>2, <3>2
      <4>2. PICK t \in Syncs : Owes(t)
        BY <1>1, <4>1 DEF Owed
      <4>3. t # s /\ sync'[t] = sync[t]
        BY <2>1, <4>1, <4>2
      <4>4. Owes(t)'
        BY <4>2, <4>3 DEF Owes, At, Packs
      <4> QED BY <4>4
    <3> QED BY <3>1, <3>2
  <2> QED BY <1>1, <2>2 DEF PackInv, Owed
<1>4. ASSUME NEW s \in Syncs, Begin(s) PROVE PackInv'
  <2>1. PICK cfg \in SetConfig : sync' = [sync EXCEPT ![s] =
               [step |-> "pass", cfg |-> cfg, refreshed |-> FALSE, held |-> Never,
                next |-> cfg.start]]
    BY <1>1, <1>4, BeginIs
  <2>2. PICK on : on = [step |-> "pass", cfg |-> cfg, refreshed |-> FALSE, held |-> Never,
                        next |-> cfg.start]
    OBVIOUS
  <2>3. sync'[s] = on /\ sync' = [sync EXCEPT ![s] = on]
    BY <1>1, <2>1, <2>2 DEF TypeOK
  <2>4. Owes(s)'
    BY <2>2, <2>3 DEF Owes, At
  <2>5. on.step # "off"
    BY <2>2
  <2> QED BY <1>3, <1>4, <2>3, <2>4, <2>5 DEF Begin
<1>5. ASSUME NEW s \in Syncs, BeginPass(s) PROVE PackInv'
  <2>1. PICK it \in Passes, end \in Nat, on \in Doing :
           /\ it = sync[s]
           /\ it.next <= end => on = Asking(it, end, it.next, FALSE, Host(s))
           /\ ~(it.next <= end) => on \in AfterPass(it, end)
           /\ sync' = [sync EXCEPT ![s] = on]
    BY <1>1, <1>5, BeginPassIs
  <2>2. sync'[s] = on /\ dirty' = dirty /\ it.step = "pass"
    BY <1>1, <1>5, <2>1 DEF TypeOK, BeginPass, At
  <2>3. on.step \in {"asked", "pass", "ended"} /\ on.refreshed = it.refreshed
    BY <2>1 DEF Asking, AfterPass, Ended
  <2>4. Owes(s) => ~it.refreshed
    BY <2>1, <2>2 DEF Owes, At
  <2>5. ~it.refreshed => Owes(s)'
    BY <2>2, <2>3 DEF Owes, Packs, At
  <2>6. ~At(s, "off")
    BY <2>1, <2>2 DEF At
  <2> QED BY <1>3, <2>1, <2>2, <2>3, <2>4, <2>5, <2>6
<1>6. ASSUME NEW s \in Syncs, Answer(s) PROVE PackInv'
  <2>1. PICK it \in Asks, page \in SUBSET Listed :
           /\ it = sync[s]
           /\ page = {} => sync' = [sync EXCEPT ![s] = Fetched(it, Never)]
           /\ page # {} =>
                LET seen == [c \in page |-> Shape(c)] IN
                sync' = [sync EXCEPT ![s] = Answered(it, seen)]
    BY <1>1, <1>6, AnswerIs
  <2>2. PICK seen : seen = [c \in page |-> Shape(c)]
    OBVIOUS
  <2>3. PICK on : on = IF page = {} THEN Fetched(it, Never) ELSE Answered(it, seen)
    OBVIOUS
  <2>4. sync' = [sync EXCEPT ![s] = on] /\ sync'[s] = on /\ dirty' = dirty /\ it.step = "asked"
    BY <1>1, <1>6, <2>1, <2>2, <2>3 DEF TypeOK, Answer, At
  <2>5. /\ on.step \in {"fetched", "answered"} /\ on.refreshed = it.refreshed
        /\ on.wrote = it.wrote
    BY <2>3 DEF Fetched, Answered
  <2>6. Owes(s) => Owes(s)'
    BY <2>1, <2>4, <2>5 DEF Owes, Packs, At
  <2>7. ~At(s, "off")
    BY <2>1, <2>4 DEF At
  <2> QED BY <1>3, <2>4, <2>5, <2>6, <2>7
<1>7. ASSUME NEW s \in Syncs, Fail(s) PROVE PackInv'
  <2>1. sync' = [sync EXCEPT ![s] = Failed] /\ sync'[s] = Failed /\ dirty' = dirty
    BY <1>1, <1>7 DEF Fail, TypeOK
  <2>2. Owes(s)' /\ Failed.step # "off"
    BY <2>1 DEF Owes, At, Failed
  <2> QED BY <1>3, <2>1, <2>2
<1>8. ASSUME NEW s \in Syncs, StorePage(s) PROVE PackInv'
  <2>1. PICK it \in Answers, on \in Doing, settled \in SUBSET Listed, held \in SUBSET Listed :
          Stores(s, it, on, settled, held)
    BY <1>1, <1>8, StorePageIs
  <2>2. /\ it = sync[s] /\ sync' = [sync EXCEPT ![s] = on] /\ dirty' = (dirty \/ settled # {})
        /\ on.refreshed = it.refreshed /\ on.wrote = (it.wrote \/ settled # {})
    BY <2>1 DEF Stores
  <2>3. on.step \in {"asked", "fetched"}
    BY <2>1 DEF Stores, Asking, Fetched
  <2>4. sync'[s] = on /\ it.step = "answered"
    BY <1>1, <2>2 DEF TypeOK, Answers
  <2>5. Owes(s) \/ settled # {} => Owes(s)'
    BY <2>2, <2>3, <2>4 DEF Owes, Packs, At
  <2>6. ~At(s, "off")
    BY <2>2, <2>4 DEF At
  <2> QED BY <1>3, <2>2, <2>3, <2>5, <2>6
<1>9. ASSUME NEW s \in Syncs, ReadNewest(s) PROVE PackInv'
  <2>1. PICK it \in Fetches, on \in Fetches :
           /\ it = sync[s] /\ it.step = "fetched"
           /\ on.step = "packing"
           /\ on.refreshed = it.refreshed /\ on.wrote = it.wrote
           /\ sync' = [sync EXCEPT ![s] = on]
    BY <1>1, <1>9, ReadNewestIs
  <2>2. sync'[s] = on /\ dirty' = dirty
    BY <1>1, <1>9, <2>1 DEF TypeOK, ReadNewest
  <2>3. Owes(s) => Owes(s)'
    BY <2>1, <2>2 DEF Owes, Packs, At
  <2>4. ~At(s, "off")
    BY <2>1 DEF At
  <2> QED BY <1>3, <2>1, <2>2, <2>3, <2>4
<1>10. ASSUME NEW s \in Syncs, Pack(s) PROVE PackInv'
  <2>1. PICK it \in Fetches, after \in Fetches, on \in Doing, done \in BOOLEAN :
          Packed(s, it, after, on, done)
    BY <1>1, <1>10, PackIs
  <2>2. sync' = [sync EXCEPT ![s] = on] /\ sync'[s] = on /\ (dirty' => dirty)
    BY <1>1, <2>1 DEF TypeOK, Packed
  <2>3. on.step \in {"pass", "ended"} /\ on.refreshed = after.refreshed
    BY <2>1, AfterPassIs DEF Packed
  <2>4. dirty' /\ Owes(s) => ~after.refreshed
    BY <2>1 DEF Owes, At, Packed
  <2>5. ~after.refreshed => Owes(s)'
    BY <2>2, <2>3 DEF Owes, At
  <2>6. ~At(s, "off")
    BY <2>1 DEF At, Packed
  <2> QED BY <1>3, <2>2, <2>3, <2>4, <2>5, <2>6
<1> QED
  BY <1>1, <1>2, <1>4, <1>5, <1>6, <1>7, <1>8, <1>9, <1>10 DEF Next

\* Once every sync is over and refreshed last, nothing is left to pack, however
\* many syncs there are and whichever refreshes failed (run).
THEOREM PackedWhenDoneAlways == Spec => []PackedWhenDone
<1>1. Init => PackInv
  BY TypeInit DEF PackInv, Init, Owed, At
<1>2. ASSUME PackInv, [Next]_vars PROVE PackInv'
  <2>1. CASE UNCHANGED vars
    BY <1>2, <2>1 DEF vars, PackInv, TypeOK, Owed, Owes, Packs, At
  <2> QED BY <1>2, <2>1, PackStep
<1>3. PackInv => PackedWhenDone
  BY DEF PackInv, PackedWhenDone, Owed, Owes, At
<1> QED
  BY <1>1, <1>2, <1>3, PTL DEF Spec

-----------------------------------------------------------------------------
(* A sync alone covers its range.                                           *)

\* Candles and times are numbers, and open times a step apart.
LEMMA StoreNat ==
  ASSUME TypeOK
  PROVE  /\ \A b \in DOMAIN store : b \in Listed /\ b \in Nat
         /\ \A c \in Listed : c \in Nat
         /\ \A b, c \in Listed : b < c => b + Step <= c
         /\ Step \in Nat /\ Step >= 1 /\ time \in Nat
BY SyncAssumption DEF TypeOK

\* A sync starts with nothing of its range behind it (initial_start_time_ms).
LEMMA BeginCovers ==
  ASSUME TypeOK, NEW s \in Syncs, Begin(s)
  PROVE  Covers(sync[s])'
<1>1. PICK cfg \in SetConfig : sync' = [sync EXCEPT ![s] =
             [step |-> "pass", cfg |-> cfg, refreshed |-> FALSE, held |-> Never,
              next |-> cfg.start]]
  BY BeginIs
<1>2. PICK on : on = [step |-> "pass", cfg |-> cfg, refreshed |-> FALSE, held |-> Never,
                      next |-> cfg.start]
  OBVIOUS
<1>3. sync'[s] = on
  BY <1>1, <1>2 DEF TypeOK
<1>4. on.step = "pass" /\ on.cfg = cfg /\ on.next = cfg.start /\ cfg.start \in Nat
  BY <1>2 DEF SetConfig
<1>5. Reached(on)'
  BY <1>4, StoreNat DEF Reached, Held
<1> QED
  BY <1>3, <1>4, <1>5 DEF Covers

\* A pass that goes on holds what it held; one that ends says what it lacks.
LEMMA AfterCovers ==
  ASSUME TypeOK, NEW it, NEW end \in Nat, NEW on \in AfterPass(it, end),
         it.cfg \in SetConfig, it.next \in Nat,
         it.cfg.end # Never => Reached(it) /\ end <= it.cfg.end
  PROVE  Covers(on)
<1>1. CASE on.step = "pass"
  BY <1>1, AfterPassIs DEF Covers, Reached, Held
<1>2. CASE on.step = "ended" /\ it.cfg.end # Never
  <2>1. on = [step |-> "ended", refreshed |-> it.refreshed, start |-> it.cfg.start, end |-> end,
              next |-> it.next, held |-> it.held, warned |-> Uncovered(it, end)]
    BY <1>2, AfterPassIs DEF Ended
  <2>2. /\ on.start = it.cfg.start /\ on.end = end /\ on.next = it.next /\ on.held = it.held
        /\ on.warned = Uncovered(it, end)
    BY <2>1
  <2>3. ASSUME ~on.warned PROVE Covered(on)
    <3>1. ~(it.next <= end) \/ it.held = it.next
      BY <1>2, <2>2, <2>3 DEF Uncovered
    <3>2. SUFFICES ASSUME NEW c \in Listed, it.cfg.start <= c, c <= end
                   PROVE  c \in DOMAIN store \/ (it.held = it.next /\ it.held <= c)
      BY <2>2 DEF Covered
    <3>3. it.cfg.end \in Nat /\ c \in Nat /\ end <= it.cfg.end /\ Held(it, it.next)
      BY <1>2, StoreNat DEF SetConfig, Reached
    <3>4. c < it.next => c \in DOMAIN store
      BY <3>2, <3>3 DEF Held
    <3> QED BY <3>1, <3>2, <3>3, <3>4
  <2> QED BY <1>2, <2>3 DEF Covers
<1>3. CASE on.step = "ended" /\ it.cfg.end = Never
  <2>1. on = [step |-> "ended", refreshed |-> it.refreshed]
    BY <1>3, AfterPassIs DEF Ended
  <2>2. "warned" \notin DOMAIN on
    BY <2>1
  <2> QED BY <1>3, <2>2 DEF Covers
<1> QED
  BY <1>1, <1>2, <1>3, AfterPassIs

\* A pass starts where its range is covered up to (run).
LEMMA BeginPassCovers ==
  ASSUME TypeOK, NEW s \in Syncs, BeginPass(s), Opened(s), Covers(sync[s])
  PROVE  Covers(sync[s])'
<1>1. PICK it \in Passes, end \in Nat, on \in Doing :
         /\ it = sync[s] /\ end = EffectiveEnd(it.cfg, Host(s))
         /\ it.next <= end => on = Asking(it, end, it.next, FALSE, Host(s))
         /\ ~(it.next <= end) => on \in AfterPass(it, end)
         /\ sync' = [sync EXCEPT ![s] = on]
  BY BeginPassIs
<1>2. sync'[s] = on
  BY <1>1 DEF TypeOK
<1>3. it.cfg \in SetConfig /\ it.next \in Nat /\ it.step = "pass"
  BY DEF Passes
<1>4. it.cfg.end # Never => Reached(it)
  BY <1>1, <1>3 DEF Covers
<1>5. Host(s) \in Nat
  BY HostNat
<1>6. /\ it.cfg.end # Never => end <= it.cfg.end
      /\ end = Host(s) \/ end = it.cfg.end
  BY <1>1, <1>3, <1>5, EndIs
<1>7. Covers(on)
  <2>1. CASE it.next <= end
    <3>1. on = Asking(it, end, it.next, FALSE, Host(s))
      BY <1>1, <2>1
    <3>2. /\ on.step = "asked" /\ on.cfg = it.cfg /\ on.next = it.next /\ on.end = end
          /\ on.cursor = it.next /\ on.cutoff = Host(s)
      BY <3>1 DEF Asking
    <3>3. ASSUME it.cfg.end # Never PROVE Fetching(on)
      <4>1. Reached(it) /\ end <= it.cfg.end
        BY <1>4, <1>6, <3>3
      <4>2. Held(on, on.cursor) /\ on.cfg.start <= on.next
        BY <3>2, <4>1 DEF Reached, Held
      <4>3. \A b \in DOMAIN store : b < Host(s) /\ b \in Nat
        BY StoreNat DEF Opened
      <4>4. \A b \in DOMAIN store : b < on.cutoff /\ (b <= on.end \/ on.end = on.cfg.end)
        BY <1>5, <1>6, <3>2, <4>3
      <4> QED BY <1>3, <2>1, <3>2, <4>1, <4>2, <4>4 DEF Fetching
    <3> QED BY <3>2, <3>3 DEF Covers
  <2>2. CASE ~(it.next <= end)
    BY <1>1, <1>3, <1>4, <1>6, <2>2, AfterCovers
  <2> QED BY <2>1, <2>2
<1>8. UNCHANGED <<store, time>>
  BY DEF BeginPass
<1> QED
  BY <1>2, <1>7, <1>8 DEF Covers, Fetching, Page, Reached, Held, Gapless, Covered

\* A page follows on from its cursor; an empty one means the rest of the pass
\* has nothing the exchange lists (sync_market_range).
LEMMA AnswerCovers ==
  ASSUME TypeOK, NEW s \in Syncs, Answer(s), Opened(s), Covers(sync[s])
  PROVE  Covers(sync[s])'
<1>1. PICK it \in Asks, page \in SUBSET Listed :
         /\ it = sync[s] /\ page = Klines(it.cursor, it.end)
         /\ page = {} => sync' = [sync EXCEPT ![s] = Fetched(it, Never)]
         /\ page # {} =>
              LET seen == [c \in page |-> Shape(c)] IN
              sync' = [sync EXCEPT ![s] = Answered(it, seen)]
  BY AnswerIs
<1>2. PICK seen : seen = [c \in page |-> Shape(c)]
  OBVIOUS
<1>3. PICK on : on = IF page = {} THEN Fetched(it, Never) ELSE Answered(it, seen)
  OBVIOUS
<1>4. sync' = [sync EXCEPT ![s] = on]
  BY <1>1, <1>2, <1>3
<1>5. sync'[s] = on
  BY <1>4 DEF TypeOK
<1>6. /\ it.step = "asked" /\ it.cfg \in SetConfig /\ it.next \in Nat /\ it.end \in Nat
      /\ it.cursor \in Nat /\ it.cutoff \in Nat
  BY DEF Asks
<1>7. it.cfg.end # Never => Fetching(it)
  BY <1>1, <1>6 DEF Covers
<1>8. /\ \A c \in page : it.cursor <= c /\ c <= it.end /\ c <= time
      /\ \A c \in page, b \in Listed : it.cursor <= b /\ b <= c => b \in page
      /\ page = {} => \A c \in Listed : ~(it.cursor <= c /\ c <= it.end /\ c <= time)
  BY <1>1, <1>6, KlinesPage DEF TypeOK
<1>9. CASE page = {}
  <2>1. /\ on.step = "fetched" /\ on.cfg = it.cfg /\ on.next = it.next /\ on.end = it.end
    BY <1>3, <1>9 DEF Fetched
  <2>2. ASSUME it.cfg.end # Never PROVE Reached(on) /\ on.end <= on.cfg.end /\ Gapless(on)
    <3>1. Fetching(it) /\ it.cfg.end \in Nat /\ it.cfg.start \in Nat
      BY <1>6, <1>7, <2>2 DEF SetConfig
    <3>2. Reached(on)
      BY <1>6, <2>1, <3>1, StoreNat DEF Fetching, Reached, Held
    <3>3. ASSUME NEW c \in Listed, NEW b \in DOMAIN store,
                 it.cfg.start <= c, c <= it.cfg.end, c <= b
          PROVE  c \in DOMAIN store
      <4>1. b \in Nat /\ c \in Nat /\ b <= time /\ time \in Nat
        BY StoreNat DEF Opened
      <4>2. b <= it.end \/ it.end = it.cfg.end
        BY <3>1 DEF Fetching
      <4>3. c <= time /\ c <= it.end
        BY <1>6, <3>1, <3>3, <4>1, <4>2
      <4>4. c < it.cursor
        BY <1>6, <1>8, <1>9, <4>1, <4>3
      <4> QED BY <3>1, <3>3, <4>4 DEF Fetching, Held
    <3>4. Gapless(on)
      BY <2>1, <3>3 DEF Gapless
    <3> QED BY <2>1, <3>1, <3>2, <3>4 DEF Fetching
  <2> QED BY <1>5, <2>1, <2>2 DEF Answer, Covers, Reached, Held, Gapless
<1>10. CASE page # {}
  <2>1. /\ on.step = "answered" /\ on.cfg = it.cfg /\ on.next = it.next /\ on.end = it.end
        /\ on.cursor = it.cursor /\ on.cutoff = it.cutoff /\ on.page = seen
    BY <1>3, <1>10 DEF Answered
  <2>2. DOMAIN on.page = page
    BY <1>2, <2>1
  <2>3. Page(on)
    BY <1>8, <2>1, <2>2 DEF Page
  <2>4. it.cfg.end # Never => Fetching(on)
    BY <1>7, <2>1 DEF Fetching, Held
  <2> QED BY <1>5, <2>1, <2>3, <2>4 DEF Answer, Covers, Page, Fetching, Held
<1> QED
  BY <1>9, <1>10

\* A page leaves no gap below its cursor, nor below a candle held back; and
\* nothing stored is newer than a candle held back.
LEMMA StorePageCovers ==
  ASSUME TypeOK, NEW s \in Syncs, StorePage(s), Asked(s), Opened(s), Covers(sync[s])
  PROVE  Covers(sync[s])' /\ Opened(s)'
<1>1. PICK it \in Answers, on \in Doing, settled \in SUBSET Listed, held \in SUBSET Listed :
        Stores(s, it, on, settled, held)
  BY StorePageIs
<1>2. PICK last : last = Max(DOMAIN it.page)
  OBVIOUS
<1>3. PICK cursor : cursor = NextPage(last)
  OBVIOUS
<1>4. /\ it = sync[s] /\ settled = SettledOf(DOMAIN it.page, it.cutoff)
      /\ held = DOMAIN it.page \ settled
      /\ sync' = [sync EXCEPT ![s] = on]
      /\ DOMAIN store' = DOMAIN store \cup settled
      /\ on.cfg = it.cfg /\ on.next = it.next /\ on.end = it.end
      /\ UNCHANGED <<time, drift>>
  BY <1>1 DEF Stores, StorePage
<1>5. /\ held # {} => on.held = Min(held) /\ on.step = "fetched"
      /\ held = {} /\ ~(cursor <= it.end) => on.step = "fetched"
      /\ held = {} /\ cursor <= it.end =>
           on = Asking(it, it.end, cursor, it.wrote \/ settled # {}, Host(s))
  BY <1>1, <1>2, <1>3 DEF Stores
<1>6. /\ it.step = "answered" /\ it.cfg \in SetConfig /\ it.next \in Nat /\ it.end \in Nat
      /\ it.cursor \in Nat /\ it.cutoff \in Nat /\ it.page \in Pages
  BY DEF Answers
<1>7. /\ DOMAIN it.page \in SUBSET Listed /\ last \in DOMAIN it.page
      /\ \A c \in DOMAIN it.page : c <= last
  BY <1>2, <1>6, PageIs
<1>8. /\ \A c \in DOMAIN it.page : it.cursor <= c /\ c <= it.end /\ c <= time
      /\ \A c \in DOMAIN it.page, b \in Listed :
           it.cursor <= b /\ b <= c => b \in DOMAIN it.page
  BY <1>4, <1>6 DEF Covers, Page
<1>9. last \in Nat /\ cursor = last + Step /\ it.cursor <= last /\ last <= it.end
  BY <1>3, <1>7, <1>8, StoreNat DEF NextPage
<1>10. Host(s) \in Nat /\ it.cutoff <= Host(s)
  BY <1>4, <1>6, HostNat DEF Asked
<1>11. ASSUME NEW c \in DOMAIN it.page
       PROVE  /\ c \in settled => c + Step < it.cutoff /\ \A b \in DOMAIN it.page : b <= c => b \in settled
              /\ c \in held => \E b \in held : b <= c /\ ~(b + Step < it.cutoff)
  <2>1. \A b \in DOMAIN it.page : b \in Nat /\ (SettledBy(b, it.cutoff) <=> b + Step < it.cutoff)
    BY <1>6, <1>7, StoreNat DEF SettledBy, CloseOf, Settle
  <2>2. settled = {x \in DOMAIN it.page :
                     \A b \in DOMAIN it.page : b <= x => SettledBy(b, it.cutoff)}
    BY <1>4 DEF SettledOf
  <2>3. ASSUME c \in settled
        PROVE  c + Step < it.cutoff /\ \A b \in DOMAIN it.page : b <= c => b \in settled
    <3>1. \A b \in DOMAIN it.page : b <= c => SettledBy(b, it.cutoff)
      BY <2>2, <2>3
    <3>2. c + Step < it.cutoff
      BY <2>1, <3>1
    <3>3. ASSUME NEW b \in DOMAIN it.page, b <= c PROVE b \in settled
      <4>1. \A x \in DOMAIN it.page : x <= b => x <= c
        BY <2>1, <3>3
      <4> QED BY <2>2, <3>1, <4>1
    <3> QED BY <3>2, <3>3
  <2>4. ASSUME c \in held PROVE \E b \in held : b <= c /\ ~(b + Step < it.cutoff)
    <3>1. PICK b \in DOMAIN it.page : b <= c /\ ~SettledBy(b, it.cutoff)
      BY <1>4, <2>2, <2>4
    <3>2. b \notin settled
      BY <2>1, <2>2, <3>1
    <3> QED BY <1>4, <2>1, <3>1, <3>2
  <2> QED BY <2>3, <2>4
<1>12. Opened(s)'
  <2>1. Host(s)' = Host(s)
    BY <1>4 DEF Host
  <2>2. ASSUME NEW b \in settled PROVE b <= time /\ b < Host(s)
    <3>1. b \in DOMAIN it.page /\ b \in Nat
      BY <1>4, StoreNat DEF SettledOf
    <3>2. b + Step < it.cutoff /\ b <= time
      BY <1>8, <1>11, <3>1
    <3> QED BY <1>6, <1>10, <3>1, <3>2, StoreNat
  <2> QED BY <1>4, <2>1, <2>2 DEF Opened
<1>13. CASE it.cfg.end = Never
  <2>1. on.step \in {"asked", "fetched"}
    <3>1. Asking(it, it.end, cursor, it.wrote \/ settled # {}, Host(s)).step = "asked"
      BY DEF Asking
    <3> QED BY <1>5, <3>1
  <2>2. sync'[s] = on /\ on.cfg.end = Never
    BY <1>4, <1>13 DEF TypeOK
  <2>3. Covers(sync[s])'
    BY <2>1, <2>2 DEF Covers
  <2> QED BY <1>12, <2>3
<1>14. CASE it.cfg.end # Never
  <2>1. Fetching(it) /\ it.cfg.end \in Nat /\ it.cfg.start \in Nat
    BY <1>4, <1>6, <1>14 DEF Covers, SetConfig
  <2>2. it.cfg.start <= it.next /\ it.next <= it.cursor /\ it.end <= it.cfg.end
    BY <2>1 DEF Fetching
  \* What is below a fetched candle that is not held back is stored.
  <2>3. ASSUME NEW c \in Listed, it.cfg.start <= c, c <= it.cfg.end,
               c \in Nat /\ (c < it.cursor \/ \E x \in settled : c <= x)
        PROVE  c \in DOMAIN store'
    <3>1. CASE c < it.cursor
      BY <1>4, <2>1, <2>3, <3>1 DEF Fetching, Held
    <3>2. CASE ~(c < it.cursor)
      <4>1. PICK x \in settled : c <= x
        BY <2>3, <3>2
      <4>2. x \in DOMAIN it.page /\ it.cursor <= c
        BY <1>4, <1>6, <2>3, <3>2 DEF SettledOf
      <4>3. c \in DOMAIN it.page
        BY <1>8, <4>1, <4>2
      <4>4. c \in settled
        BY <1>11, <4>1, <4>2, <4>3
      <4> QED BY <1>4, <4>4
    <3> QED BY <3>1, <3>2
  <2>4. CASE held = {}
    <3>1. settled = DOMAIN it.page
      BY <1>4, <2>4 DEF SettledOf
    <3>2. ASSUME NEW c \in Listed, it.cfg.start <= c, c <= it.cfg.end, c < cursor
          PROVE  c \in DOMAIN store'
      <4>1. c \in Nat /\ c <= last
        BY <1>7, <1>9, <3>2, StoreNat
      <4> QED BY <1>7, <2>3, <3>1, <3>2, <4>1
    <3>3. Held(on, cursor)'
      BY <1>4, <3>2 DEF Held
    <3>4. CASE cursor <= it.end
      <4>1. on.step = "asked" /\ on.cursor = cursor /\ on.cutoff = Host(s)
        BY <1>5, <2>4, <3>4 DEF Asking
      <4>2. ASSUME NEW b \in DOMAIN store'
            PROVE  b < Host(s) /\ (b <= it.end \/ it.end = it.cfg.end)
        <5>1. b < Host(s)
          BY <1>4, <1>12, <4>2 DEF Opened, Host
        <5> QED BY <1>4, <1>8, <2>1, <3>1, <4>2, <5>1 DEF Fetching
      <4>3. on.cfg.start <= on.next /\ on.next <= on.cursor
        BY <1>4, <1>6, <1>9, <2>2, <4>1, StoreNat
      <4>4. Fetching(on)'
        BY <1>4, <2>2, <3>3, <3>4, <4>1, <4>2, <4>3 DEF Fetching
      <4>5. sync'[s] = on
        BY <1>4 DEF TypeOK
      <4>6. Covers(sync[s])'
        BY <4>1, <4>4, <4>5 DEF Covers
      <4> QED BY <1>12, <4>6
    <3>5. CASE ~(cursor <= it.end)
      <4>1. on.step = "fetched" /\ sync'[s] = on
        BY <1>4, <1>5, <2>4, <3>5 DEF TypeOK
      <4>2. ASSUME NEW c \in Listed, NEW b \in DOMAIN store',
                   it.cfg.start <= c, c <= it.cfg.end, c <= b
            PROVE  c \in DOMAIN store'
        <5>1. c \in Nat /\ b \in Nat
          BY <1>4, <4>2, StoreNat
        <5>2. b <= it.end \/ it.end = it.cfg.end
          BY <1>4, <1>8, <2>1, <3>1, <4>2 DEF Fetching
        <5>3. c < cursor
          BY <1>6, <1>9, <3>5, <4>2, <5>1, <5>2, StoreNat
        <5> QED BY <3>2, <4>2, <5>3
      <4>3. Gapless(on)'
        BY <1>4, <4>2 DEF Gapless
      <4>4. Reached(on)'
        <5>1. ASSUME NEW c \in Listed, it.cfg.start <= c, c <= it.cfg.end, c < it.next
              PROVE  c \in DOMAIN store'
          BY <1>6, <2>2, <2>3, <5>1, StoreNat
        <5> QED BY <1>4, <2>2, <5>1 DEF Reached, Held
      <4>5. on.end <= on.cfg.end
        BY <1>4, <2>2
      <4>6. Covers(sync[s])'
        BY <4>1, <4>3, <4>4, <4>5 DEF Covers
      <4> QED BY <1>12, <4>6
    <3> QED BY <3>4, <3>5
  <2>5. CASE held # {}
    <3>1. on.step = "fetched" /\ sync'[s] = on
      BY <1>4, <1>5, <2>5 DEF TypeOK
    <3>2. PICK least \in held : \A x \in held : least <= x
      BY <2>5, StoreNat, MinOf
    <3>3. least \in DOMAIN it.page /\ least \in Nat /\ ~(least + Step < it.cutoff)
      <4>1. least \in DOMAIN it.page /\ least \in Nat
        BY <1>4, StoreNat
      <4>2. PICK b \in held : b <= least /\ ~(b + Step < it.cutoff)
        BY <1>11, <4>1
      <4>3. b \in Nat /\ least <= b
        BY <3>2, <4>2, StoreNat
      <4>4. b = least
        BY <4>1, <4>2, <4>3
      <4> QED BY <4>1, <4>2, <4>4
    <3>4. ASSUME NEW b \in DOMAIN store' PROVE b <= least
      <4>1. b \in Listed /\ b \in Nat
        BY <1>4, StoreNat
      <4>2. b < it.cutoff
        <5>1. CASE b \in DOMAIN store
          BY <2>1, <5>1 DEF Fetching
        <5>2. CASE b \in settled
          <6>1. b + Step < it.cutoff
            BY <1>4, <1>11, <5>2 DEF SettledOf
          <6> QED BY <1>6, <4>1, <6>1, StoreNat
        <5> QED BY <1>4, <5>1, <5>2
      <4>3. ~(least + Step <= b)
        BY <1>6, <3>3, <4>1, <4>2, StoreNat
      <4>4. ~(least < b)
        BY <3>2, <4>1, <4>3, StoreNat
      <4> QED BY <3>3, <4>1, <4>4
    <3>5. ASSUME NEW c \in Listed, it.cfg.start <= c, c <= it.cfg.end, c < least
          PROVE  c \in DOMAIN store'
      <4>1. c \in Nat
        BY StoreNat
      <4>2. CASE c < it.cursor
        BY <2>3, <3>5, <4>1, <4>2
      <4>3. CASE ~(c < it.cursor)
        <5>1. c \in DOMAIN it.page
          BY <1>6, <1>8, <3>3, <3>5, <4>1, <4>3
        <5>2. c \notin held
          BY <3>2, <3>3, <3>5, <4>1
        <5> QED BY <1>4, <5>1, <5>2
      <4> QED BY <4>2, <4>3
    <3>6. ASSUME NEW c \in Listed, NEW b \in DOMAIN store',
                 it.cfg.start <= c, c <= it.cfg.end, c <= b
          PROVE  c \in DOMAIN store'
      <4>1. c \in Nat /\ b \in Nat /\ b <= least
        BY <1>4, <3>4, StoreNat
      <4>2. CASE c < least
        BY <3>5, <3>6, <4>2
      <4>3. CASE ~(c < least)
        BY <3>3, <3>6, <4>1, <4>3
      <4> QED BY <4>2, <4>3
    <3>7. Gapless(on)'
      BY <1>4, <3>6 DEF Gapless
    <3>8. Reached(on)'
      <4>1. ASSUME NEW c \in Listed, it.cfg.start <= c, c <= it.cfg.end, c < it.next
            PROVE  c \in DOMAIN store'
        BY <1>6, <2>2, <2>3, <4>1, StoreNat
      <4> QED BY <1>4, <2>2, <4>1 DEF Reached, Held
    <3>9. on.end <= on.cfg.end
      BY <1>4, <2>2
    <3>10. Covers(sync[s])'
      BY <3>1, <3>7, <3>8, <3>9 DEF Covers
    <3> QED BY <1>12, <3>10
  <2> QED BY <2>4, <2>5
<1> QED
  BY <1>12, <1>13, <1>14

\* Below the newest stored candle there is no gap to skip (run).
LEMMA ReadNewestCovers ==
  ASSUME TypeOK, NEW s \in Syncs, ReadNewest(s), Covers(sync[s])
  PROVE  Covers(sync[s])'
<1>1. PICK it \in Fetches, on \in Fetches :
        /\ it = sync[s] /\ it.step = "fetched"
        /\ on.step = "packing"
        /\ on.next = IF DOMAIN store = {} THEN it.next
                     ELSE Most(it.next, Max(DOMAIN store) + Step)
        /\ on.cfg = it.cfg /\ on.end = it.end
        /\ sync' = [sync EXCEPT ![s] = on]
        /\ DOMAIN store # {} =>
             /\ Max(DOMAIN store) \in DOMAIN store
             /\ \A b \in DOMAIN store : b <= Max(DOMAIN store)
  BY ReadNewestIs
<1>2. sync'[s] = on
  BY <1>1 DEF TypeOK
<1>3. it.cfg \in SetConfig /\ it.next \in Nat
  BY DEF Fetches
<1>4. ASSUME it.cfg.end # Never PROVE Reached(on) /\ on.end <= on.cfg.end
  <2>1. Reached(it) /\ it.end <= it.cfg.end /\ Gapless(it) /\ it.cfg.start \in Nat
    BY <1>1, <1>3, <1>4 DEF Covers, SetConfig
  <2>2. CASE on.next = it.next
    BY <1>1, <2>1, <2>2 DEF Reached, Held
  <2>3. CASE on.next # it.next
    <3>1. DOMAIN store # {}
      BY <1>1, <2>3
    <3>2. PICK newest \in DOMAIN store : newest = Max(DOMAIN store)
      BY <1>1, <3>1
    <3>3. newest \in Nat /\ newest \in Listed
      BY StoreNat
    <3>4. on.next = newest + Step /\ it.next <= on.next
      BY <1>1, <1>3, <2>3, <3>1, <3>2, <3>3, StoreNat DEF Most
    <3>5. ASSUME NEW c \in Listed, it.cfg.start <= c, c <= it.cfg.end, c < on.next
          PROVE  c \in DOMAIN store
      <4>1. c \in Nat /\ c <= newest
        BY <3>3, <3>4, <3>5, StoreNat
      <4> QED BY <2>1, <3>5, <4>1 DEF Gapless
    <3>6. it.cfg.start <= on.next
      BY <1>3, <2>1, <3>3, <3>4, StoreNat DEF Reached
    <3> QED BY <1>1, <2>1, <3>5, <3>6 DEF Reached, Held
  <2> QED BY <2>2, <2>3
<1> QED
  BY <1>1, <1>2, <1>4 DEF ReadNewest, Covers, Reached, Held

\* A refresh changes nothing of what is covered (run).
LEMMA PackCovers ==
  ASSUME TypeOK, NEW s \in Syncs, Pack(s), Covers(sync[s])
  PROVE  Covers(sync[s])'
<1>1. PICK it \in Fetches, after \in Fetches, on \in Doing, done \in BOOLEAN :
        Packed(s, it, after, on, done)
  BY PackIs
<1>2. /\ it = sync[s] /\ it.step = "packing" /\ on \in AfterPass(after, it.end)
      /\ sync' = [sync EXCEPT ![s] = on] /\ after.cfg = it.cfg /\ after.next = it.next
  BY <1>1 DEF Packed
<1>3. sync'[s] = on
  BY <1>2 DEF TypeOK
<1>4. it.cfg.end # Never => Reached(it) /\ it.end <= it.cfg.end
  BY <1>2 DEF Covers
<1>5. after.cfg.end # Never => Reached(after) /\ it.end <= after.cfg.end
  BY <1>2, <1>4 DEF Reached, Held
<1>6. after.cfg \in SetConfig /\ after.next \in Nat /\ it.end \in Nat
  BY DEF Fetches
<1>7. Covers(on)
  BY <1>2, <1>5, <1>6, AfterCovers
<1> QED
  BY <1>2, <1>3, <1>7, AfterPassIs DEF Pack, Covers, Reached, Held, Covered

\* Whoever takes a step is not off after it.
LEMMA StepsOn ==
  ASSUME TypeOK, NEW t \in Syncs,
         Begin(t) \/ BeginPass(t) \/ Answer(t) \/ Fail(t) \/ StorePage(t) \/ ReadNewest(t) \/ Pack(t)
  PROVE  /\ ~At(t, "off")'
         /\ \A s \in Syncs \ {t} : sync'[s] = sync[s]
<1>1. ASSUME NEW on, sync' = [sync EXCEPT ![t] = on], on.step # "off"
      PROVE  ~At(t, "off")' /\ \A s \in Syncs \ {t} : sync'[s] = sync[s]
  BY <1>1 DEF TypeOK, At
<1>2. CASE Begin(t)
  <2>1. PICK cfg \in SetConfig : sync' = [sync EXCEPT ![t] =
               [step |-> "pass", cfg |-> cfg, refreshed |-> FALSE, held |-> Never,
                next |-> cfg.start]]
    BY <1>2, BeginIs
  <2>2. PICK on : on = [step |-> "pass", cfg |-> cfg, refreshed |-> FALSE, held |-> Never,
                        next |-> cfg.start]
    OBVIOUS
  <2>3. sync' = [sync EXCEPT ![t] = on] /\ on.step # "off"
    BY <2>1, <2>2
  <2> QED BY <1>1, <2>3
<1>3. CASE BeginPass(t)
  <2>1. PICK it \in Passes, end \in Nat, on \in Doing :
           /\ it.next <= end => on = Asking(it, end, it.next, FALSE, Host(t))
           /\ ~(it.next <= end) => on \in AfterPass(it, end)
           /\ sync' = [sync EXCEPT ![t] = on]
    BY <1>3, BeginPassIs
  <2>2. on.step # "off"
    BY <2>1, AfterPassIs DEF Asking
  <2> QED BY <1>1, <2>1, <2>2
<1>4. CASE Answer(t)
  <2>1. PICK it \in Asks, page \in SUBSET Listed :
           /\ page = {} => sync' = [sync EXCEPT ![t] = Fetched(it, Never)]
           /\ page # {} =>
                LET seen == [c \in page |-> Shape(c)] IN
                sync' = [sync EXCEPT ![t] = Answered(it, seen)]
    BY <1>4, AnswerIs
  <2>2. PICK seen : seen = [c \in page |-> Shape(c)]
    OBVIOUS
  <2>3. PICK on : on = IF page = {} THEN Fetched(it, Never) ELSE Answered(it, seen)
    OBVIOUS
  <2>4. sync' = [sync EXCEPT ![t] = on]
    BY <2>1, <2>2, <2>3
  <2>5. on.step # "off"
    BY <2>3 DEF Fetched, Answered
  <2> QED BY <1>1, <2>4, <2>5
<1>5. CASE Fail(t)
  <2>1. sync' = [sync EXCEPT ![t] = Failed] /\ Failed.step # "off"
    BY <1>5 DEF Fail, Failed
  <2> QED BY <1>1, <2>1
<1>6. CASE StorePage(t)
  <2>1. PICK it \in Answers, on \in Doing, settled \in SUBSET Listed, held \in SUBSET Listed :
          Stores(t, it, on, settled, held)
    BY <1>6, StorePageIs
  <2>2. sync' = [sync EXCEPT ![t] = on] /\ on.step # "off"
    BY <2>1 DEF Stores, Asking, Fetched
  <2> QED BY <1>1, <2>2
<1>7. CASE ReadNewest(t)
  <2>1. PICK on : on.step = "packing" /\ sync' = [sync EXCEPT ![t] = on]
    BY <1>7, ReadNewestIs
  <2> QED BY <1>1, <2>1
<1>8. CASE Pack(t)
  <2>1. PICK it \in Fetches, after \in Fetches, on \in Doing, done \in BOOLEAN :
          Packed(t, it, after, on, done)
    BY <1>8, PackIs
  <2>2. on.step # "off" /\ sync' = [sync EXCEPT ![t] = on]
    BY <2>1, AfterPassIs DEF Packed
  <2> QED BY <1>1, <2>2
<1> QED
  BY <1>2, <1>3, <1>4, <1>5, <1>6, <1>7, <1>8

\* Every step of a sync alone keeps what it covers (run).
LEMMA CoverStep ==
  ASSUME CoverInv, Next
  PROVE  CoverInv'
<1>1. TypeOK /\ AskInv' /\ (\A s \in Syncs : Asked(s)) /\ AloneInv
  BY AskStep DEF CoverInv, AskInv
<1>2. SUFFICES ASSUME NEW s \in Syncs, Alone(s)'
               PROVE  Opened(s)' /\ Covers(sync[s])'
  BY <1>1 DEF CoverInv, AloneInv
<1>3. CASE Tick
  <2>1. time' = time + 1 /\ store' = store /\ sync' = sync /\ drift' = drift
    BY <1>3 DEF Tick
  <2>2. Opened(s) /\ Covers(sync[s])
    BY <1>1, <1>2, <2>1 DEF AloneInv, Alone, At
  <2>3. Host(s)' = Host(s) + 1 /\ Host(s) \in Nat
    BY <1>1, <2>1, HostNat, StoreNat DEF Host
  <2>4. Opened(s)'
    BY <1>1, <2>1, <2>2, <2>3, StoreNat DEF Opened
  <2>5. \A c : c \in Nat /\ c <= time => c <= time + 1
    BY <1>1, StoreNat
  <2>6. ASSUME sync[s].step = "answered" PROVE Page(sync[s])'
    <3>1. PICK it : it = sync[s]
      OBVIOUS
    <3>2. it.page \in Pages
      BY <1>1, <2>6, <3>1, ShapeOf DEF TypeOK, Answers
    <3>3. \A c \in DOMAIN it.page : c \in Nat
      BY <1>1, <3>2, PageIs, StoreNat
    <3>4. Page(it)
      BY <2>2, <2>6, <3>1 DEF Covers
    <3>5. Page(it)'
      BY <2>1, <2>5, <3>3, <3>4 DEF Page
    <3> QED BY <2>1, <3>1, <3>5 DEF Page
  <2> QED BY <2>1, <2>2, <2>4, <2>6 DEF Covers, Fetching, Reached, Held, Gapless, Covered
<1>4. ASSUME NEW t \in Syncs,
             Begin(t) \/ BeginPass(t) \/ Answer(t) \/ Fail(t) \/ StorePage(t) \/ ReadNewest(t) \/ Pack(t)
      PROVE  Opened(s)' /\ Covers(sync[s])'
  <2>1. ~At(t, "off")' /\ \A r \in Syncs \ {t} : sync'[r] = sync[r]
    BY <1>1, <1>4, StepsOn
  <2>2. t = s
    BY <1>2, <2>1 DEF Alone
  <2>3. Alone(s)
    BY <1>2, <2>1, <2>2 DEF Alone, At
  <2>4. Opened(s) /\ Covers(sync[s])
    BY <1>1, <2>3 DEF AloneInv
  <2>5. CASE StorePage(s)
    BY <1>1, <2>4, <2>5, StorePageCovers
  <2>6. CASE ~StorePage(s)
    <3>1. UNCHANGED <<time, drift, store>>
      BY <1>4, <2>2, <2>6 DEF Begin, BeginPass, Answer, Fail, ReadNewest, Pack
    <3>2. Opened(s)'
      BY <2>4, <3>1 DEF Opened, Host
    <3>3. CASE Fail(s)
      <4>1. sync'[s] = Failed
        BY <1>1, <3>3 DEF Fail, TypeOK
      <4> QED BY <3>2, <4>1 DEF Covers, Failed
    <3>4. CASE ~Fail(s)
      BY <1>1, <1>4, <2>2, <2>4, <2>6, <3>2, <3>4, BeginCovers, BeginPassCovers, AnswerCovers,
         ReadNewestCovers, PackCovers
    <3> QED BY <3>3, <3>4
  <2> QED BY <2>5, <2>6
<1> QED
  BY <1>3, <1>4 DEF Next

\* A bounded sync that runs alone covers its range, or warns, for any range,
\* page size, interval and drift (run, is_uncovered).
THEOREM CoversAloneAlways == Spec => []CoversAlone
<1>1. Init => CoverInv
  <2> SUFFICES ASSUME Init PROVE CoverInv
    OBVIOUS
  <2>1. \A s \in Syncs : sync[s] = [step |-> "off"]
    BY DEF Init
  <2>2. \A s \in Syncs : Opened(s)
    BY SyncAssumption DEF Init, Opened, Host
  <2>3. \A s \in Syncs : Asked(s) /\ Covers(sync[s])
    BY <2>1 DEF Asked, Covers
  <2> QED BY <2>2, <2>3, TypeInit DEF CoverInv, AskInv, AloneInv
<1>2. ASSUME CoverInv, [Next]_vars PROVE CoverInv'
  <2>1. CASE UNCHANGED vars
    BY <1>2, <2>1 DEF vars, CoverInv, AskInv, TypeOK, Asked, Host, AloneInv, Alone, At, Opened,
       Covers, Fetching, Page, Reached, Held, Gapless, Covered
  <2> QED BY <1>2, <2>1, CoverStep
<1>3. CoverInv => CoversAlone
  <2> SUFFICES ASSUME CoverInv, NEW s \in Syncs, \A t \in Syncs \ {s} : At(t, "off"),
                      NEW r \in Syncs, EndedBounded(r), ~sync[r].warned
               PROVE  Covered(sync[r])
    BY DEF CoversAlone, NoSilentGap
  <2>1. r = s
    BY DEF EndedBounded, At
  <2>2. Covers(sync[s])
    BY DEF CoverInv, AloneInv, Alone
  <2> QED BY <2>1, <2>2 DEF Covers, EndedBounded, At
<1> QED
  BY <1>1, <1>2, <1>3, PTL DEF Spec

-----------------------------------------------------------------------------
(* Backtests.  Each trade is tied to the bars that it was entered and left  *)
(* at (Taken, LeftAt, LeftAtEnd), which never change once they are over.    *)

Running == test.step \in {"bar", "done"}

TestShapes ==
    /\ test = [step |-> test.step, bars |-> test.bars, done |-> test.done, fee |-> test.fee,
               strategy |-> test.strategy, closeOut |-> test.closeOut, pending |-> test.pending]
    /\ account = [cash |-> account.cash, qty |-> account.qty, open |-> account.open,
                  trades |-> account.trades]
    /\ test.bars \in Seq(Range(test.bars)) /\ account.trades \in Seq(Range(account.trades))
    /\ asked \in Seq(Decisions)

\* The bars are the history's candles, oldest first.
BarsInOrder ==
    /\ Len(test.bars) > 0
    /\ \A i \in 1..Len(test.bars) : test.bars[i].time \in Nat
    /\ \A i, j \in 1..Len(test.bars) : i < j => test.bars[i].time < test.bars[j].time

\* The loop has asked for a decision at each bar that is over; the last is what
\* waits for the next bar.
OneAnswerABar ==
    /\ test.done \in 0..Len(test.bars)
    /\ Len(asked) = test.done
    /\ test.pending = IF test.done = 0 THEN "none" ELSE asked[test.done]
    /\ test.step = "done" => test.done = Len(test.bars)

\* An entry at bar k, at its open, as the bar before asked.
Taken(when, price, k) ==
    /\ k \in 2..test.done
    /\ when = test.bars[k].time /\ price = test.bars[k].open
    /\ asked[k - 1] = "long"

\* No decision to sell reached bar m, for a position from bar k.
KeptFrom(k, m) == \A i \in k..(m - 2) : asked[i] # "flat"

LeftAt(trade, k, m) ==
    /\ m \in (k + 1)..test.done
    /\ trade.exited = test.bars[m].time /\ trade.exit = test.bars[m].open
    /\ asked[m - 1] = "flat" /\ KeptFrom(k, m)

LeftAtEnd(trade, k) ==
    /\ test.step = "done"
    /\ trade.exited = test.bars[test.done].time + 1 /\ trade.exit = test.bars[test.done].close
    /\ KeptFrom(k, test.done + 1)

Followed(trade) ==
    \E k \in 2..test.done :
        /\ Taken(trade.entered, trade.entry, k)
        /\ LeftAtEnd(trade, k) \/ \E m \in (k + 1)..test.done : LeftAt(trade, k, m)

\* What is held was entered, and nothing has asked to sell it since.
OpenFollows ==
    /\ account.open # NoTrade =>
         \E k \in 2..test.done :
                        /\ Taken(account.open.entered, account.open.price, k)
                        /\ account.qty > 0 => KeptFrom(k, test.done + 1)
    /\ account.qty > 0 => account.open # NoTrade

TradesFollow == \A trade \in Range(account.trades) : Followed(trade)

Fresh == account = Account0 /\ asked = << >>

TestInv ==
    /\ test.step \in {"idle", "refused", "bar", "done"}
    /\ ~Running => Fresh
    /\ Running => TestShapes /\ BarsInOrder /\ OneAnswerABar /\ OpenFollows /\ TradesFollow

-----------------------------------------------------------------------------
(* Sequences.                                                               *)

\* A sequence is one of what is in it.
LEMMA OwnRange ==
    ASSUME NEW T, NEW s \in Seq(T)
    PROVE  s \in Seq(Range(s))
<1>1. Len(s) \in Nat /\ DOMAIN s = 1..Len(s) /\ s \in [1..Len(s) -> T]
  OBVIOUS
<1>2. s \in [1..Len(s) -> Range(s)]
  BY <1>1 DEF Range
<1> QED BY <1>1, <1>2

\* What is appended comes last, and the rest stays where it is.
LEMMA Appended ==
    ASSUME NEW s, s \in Seq(Range(s)), NEW x
    PROVE  /\ Append(s, x) \in Seq(Range(Append(s, x)))
           /\ Len(s) \in Nat /\ Len(Append(s, x)) = Len(s) + 1
           /\ \A i \in 1..Len(s) : Append(s, x)[i] = s[i]
           /\ Append(s, x)[Len(s) + 1] = x
           /\ Range(Append(s, x)) \subseteq Range(s) \cup {x}
<1> DEFINE T == Range(s) \cup {x}
<1>1. s \in Seq(T) /\ x \in T
  <2>1. s \in [1..Len(s) -> Range(s)] /\ Len(s) \in Nat
    OBVIOUS
  <2>2. s \in [1..Len(s) -> T]
    BY <2>1
  <2> QED BY <2>1, <2>2
<1> HIDE DEF T
<1>2. Append(s, x) \in Seq(T)
  BY <1>1
<1>3. Append(s, x) \in Seq(Range(Append(s, x)))
  BY <1>2, OwnRange
<1>4. Range(Append(s, x)) \subseteq T
  BY <1>2 DEF Range
<1> QED BY <1>1, <1>3, <1>4 DEF T

-----------------------------------------------------------------------------
(* Bars.                                                                    *)

\* A bar is found by its time.
LEMMA BarIsAt ==
    ASSUME TestShapes, BarsInOrder, NEW k \in 1..Len(test.bars)
    PROVE  BarAt(test.bars[k].time) = k
<1>1. Len(test.bars) \in Nat /\ DOMAIN test.bars = 1..Len(test.bars)
  BY DEF TestShapes
<1>2. ASSUME NEW i \in 1..Len(test.bars), test.bars[i].time = test.bars[k].time
      PROVE  i = k
  <2>1. test.bars[i].time \in Nat /\ test.bars[k].time \in Nat
    BY DEF BarsInOrder
  <2>2. ~(i < k) /\ ~(k < i)
    BY <1>2, <2>1 DEF BarsInOrder
  <2> QED BY <1>1, <2>2
<1> QED BY <1>1, <1>2 DEF BarAt

\* The invariant says of trades what the property says.
LEMMA FollowedIs == TestInv => TradesFollowDecisions
<1> SUFFICES ASSUME TestInv PROVE TradesFollowDecisions
  OBVIOUS
<1>1. CASE ~Running
  <2>1. account.trades = << >> /\ account.open = NoTrade
    BY <1>1 DEF TestInv, Fresh, Account0
  <2> QED BY <2>1 DEF TradesFollowDecisions
<1>2. CASE Running
  <2>0. TestShapes /\ BarsInOrder /\ OneAnswerABar /\ OpenFollows /\ TradesFollow
    BY <1>2 DEF TestInv
  <2>1. /\ Len(test.bars) \in Nat /\ Len(test.bars) > 0 /\ test.done \in 0..Len(test.bars)
        /\ Last(test.bars) = test.bars[Len(test.bars)]
        /\ DOMAIN account.trades = 1..Len(account.trades)
    BY <2>0 DEF TestShapes, BarsInOrder, OneAnswerABar, Last
  <2>2. ASSUME NEW when, NEW price, NEW k \in 2..test.done, Taken(when, price, k)
        PROVE  BarAt(when) = k /\ k > 1 /\ asked[k - 1] = "long" /\ price = test.bars[k].open
    <3>1. k \in 1..Len(test.bars)
      BY <2>1
    <3> QED BY <2>0, <2>2, <3>1, BarIsAt DEF Taken
  <2>3. ASSUME NEW i \in 1..Len(account.trades)
        PROVE  LET trade == account.trades[i]
                   k == BarAt(trade.entered)
                   atEnd == trade.exited > Last(test.bars).time
                   m == IF atEnd THEN Len(test.bars) + 1 ELSE BarAt(trade.exited)
               IN /\ k > 1 /\ asked[k - 1] = "long" /\ trade.entry = test.bars[k].open
                  /\ k < m /\ \A j \in k..(m - 2) : asked[j] # "flat"
                  /\ IF atEnd THEN trade.exit = Last(test.bars).close
                     ELSE asked[m - 1] = "flat" /\ trade.exit = test.bars[m].open
    <3> DEFINE trade == account.trades[i]
    <3>1. PICK k \in 2..test.done :
            /\ Taken(trade.entered, trade.entry, k)
            /\ LeftAtEnd(trade, k) \/ \E m \in (k + 1)..test.done : LeftAt(trade, k, m)
      BY <2>0, <2>1 DEF TradesFollow, Followed, Range
    <3>2. BarAt(trade.entered) = k /\ k > 1 /\ asked[k - 1] = "long"
          /\ trade.entry = test.bars[k].open
      BY <2>2, <3>1
    <3>3. CASE LeftAtEnd(trade, k)
      <4>1. test.done = Len(test.bars) /\ test.bars[test.done].time \in Nat
        BY <2>0, <2>1, <3>3 DEF LeftAtEnd, OneAnswerABar, BarsInOrder
      <4>2. trade.exited > Last(test.bars).time
        BY <2>1, <3>3, <4>1 DEF LeftAtEnd
      <4> QED BY <2>1, <3>2, <3>3, <4>1, <4>2 DEF LeftAtEnd, KeptFrom
    <3>4. CASE \E m \in (k + 1)..test.done : LeftAt(trade, k, m)
      <4>1. PICK m \in (k + 1)..test.done : LeftAt(trade, k, m)
        BY <3>4
      <4>2. m \in 1..Len(test.bars)
        BY <2>1
      <4>3. BarAt(trade.exited) = m
        BY <2>0, <4>1, <4>2, BarIsAt DEF LeftAt
      <4>4. ~(trade.exited > Last(test.bars).time)
        <5>1. test.bars[m].time \in Nat /\ test.bars[Len(test.bars)].time \in Nat
          BY <2>0, <2>1, <4>2 DEF BarsInOrder
        <5>2. m = Len(test.bars) \/ test.bars[m].time < test.bars[Len(test.bars)].time
          BY <2>0, <2>1, <4>2 DEF BarsInOrder
        <5> QED BY <2>1, <4>1, <5>1, <5>2 DEF LeftAt
      <4> QED BY <3>2, <4>1, <4>3, <4>4 DEF LeftAt, KeptFrom
    <3> QED BY <3>1, <3>3, <3>4
  <2>4. account.open # NoTrade =>
          LET k == BarAt(account.open.entered)
          IN k > 1 /\ asked[k - 1] = "long" /\ account.open.price = test.bars[k].open
    BY <2>0, <2>2 DEF OpenFollows
  <2> QED BY <2>1, <2>3, <2>4 DEF TradesFollowDecisions
<1> QED BY <1>1, <1>2

-----------------------------------------------------------------------------
(* The steps.                                                               *)

\* A history that has candles becomes bars, and nothing is decided yet.
LEMMA LoadKeeps ==
    ASSUME TestInv, LoadBars
    PROVE  TestInv'
<1>1. test.step = "idle" /\ Fresh /\ UNCHANGED <<account, asked>>
  BY DEF LoadBars, TestInv, Running
<1>2. PICK candles \in Histories, market \in Markets, fee \in Fees :
        \E strategy \in {"any", "sma"}, closeOut \in BOOLEAN :
        \E times \in OldestFirst(candles) :
          LET bars == [i \in DOMAIN times |->
                        [time |-> times[i], open |-> market[times[i]].open,
                         close |-> market[times[i]].close]]
          IN test' = IF candles = {} THEN [step |-> "refused"]
                     ELSE [step |-> "bar", bars |-> bars, done |-> 0, fee |-> fee,
                           strategy |-> strategy, closeOut |-> closeOut, pending |-> "none"]
  BY DEF LoadBars
<1>3. PICK strategy \in {"any", "sma"}, closeOut \in BOOLEAN, times \in OldestFirst(candles) :
          test' = IF candles = {} THEN [step |-> "refused"]
                  ELSE [step |-> "bar",
                        bars |-> [i \in DOMAIN times |->
                          [time |-> times[i], open |-> market[times[i]].open,
                           close |-> market[times[i]].close]],
                        done |-> 0, fee |-> fee, strategy |-> strategy, closeOut |-> closeOut,
                        pending |-> "none"]
  BY <1>2
<1>4. CASE candles = {}
  <2>1. test'.step = "refused"
    BY <1>3, <1>4
  <2> QED BY <1>1, <2>1 DEF TestInv, Running, Fresh
<1>5. CASE candles # {}
  <2>1. PICK n \in Nat : n = Cardinality(candles) /\ n > 0
    BY <1>5, BacktestAssumption, FS_CardinalityType, FS_EmptySet
  <2>2. /\ times \in [1..n -> candles] /\ candles \subseteq Nat
        /\ \A i, j \in 1..n : i < j => times[i] < times[j]
    BY <2>1, BacktestAssumption DEF OldestFirst
  <2>3. PICK bars : bars = [i \in 1..n |-> [time |-> times[i], open |-> market[times[i]].open,
                                            close |-> market[times[i]].close]]
    OBVIOUS
  <2>4. test' = [step |-> "bar", bars |-> bars, done |-> 0, fee |-> fee, strategy |-> strategy,
                 closeOut |-> closeOut, pending |-> "none"]
    BY <1>3, <1>5, <2>2, <2>3
  <2>5. bars \in Seq(Range(bars)) /\ Len(bars) = n
    <3>1. bars \in [1..n -> Range(bars)]
      BY <2>3 DEF Range
    <3> QED BY <3>1, <2>1
  <2>6. \A i \in 1..n : bars[i].time = times[i]
    BY <2>3
  <2>7. BarsInOrder'
    <3>1. test'.bars = bars
      BY <2>4
    <3>2. Len(bars) > 0 /\ \A i \in 1..n : bars[i].time \in Nat
      BY <2>1, <2>2, <2>5, <2>6
    <3>3. \A i, j \in 1..n : i < j => bars[i].time < bars[j].time
      BY <2>2, <2>6
    <3> QED BY <3>1, <3>2, <3>3, <2>5 DEF BarsInOrder
  <2>8. account' = Account0 /\ asked' = << >> /\ test'.step = "bar"
    BY <1>1, <2>4 DEF Fresh
  <2>9. TestShapes'
    <3>1. << >> \in Seq(Range(<< >>)) /\ << >> \in Seq(Decisions)
      OBVIOUS
    <3> QED BY <2>4, <2>5, <2>8, <3>1 DEF TestShapes, Account0
  <2>10. OneAnswerABar'
    <3>1. 0 \in 0..Len(bars)
      BY <2>1, <2>5
    <3> QED BY <2>4, <2>8, <3>1 DEF OneAnswerABar
  <2>11. OpenFollows' /\ TradesFollow'
    BY <2>8 DEF OpenFollows, TradesFollow, Account0, NoTrade, Range
  <2> QED BY <2>7, <2>8, <2>9, <2>10, <2>11 DEF TestInv, Running
<1> QED BY <1>4, <1>5

\* What a bar is over with stays as it was: later decisions come after it.
LEMMA TradesKeep ==
    ASSUME TestInv, Running, NEW trade, Followed(trade),
           UNCHANGED <<test.bars, test.step>>, test'.done \in Nat, test.done <= test'.done,
           \A i \in 1..test.done : asked'[i] = asked[i]
    PROVE  test.step # "done" => Followed(trade)'
<1> SUFFICES ASSUME test.step # "done" PROVE Followed(trade)'
  OBVIOUS
<1>0. test.done \in Nat
  BY DEF TestInv, OneAnswerABar
<1>1. PICK k \in 2..test.done :
        /\ Taken(trade.entered, trade.entry, k)
        /\ LeftAtEnd(trade, k) \/ \E m \in (k + 1)..test.done : LeftAt(trade, k, m)
  BY DEF Followed
<1>2. PICK m \in (k + 1)..test.done : LeftAt(trade, k, m)
  BY <1>1 DEF LeftAtEnd
<1>3. k \in 2..test'.done /\ m \in (k + 1)..test'.done
  BY <1>0
<1>4. Taken(trade.entered, trade.entry, k)'
  BY <1>0, <1>1, <1>3 DEF Taken
<1>5. LeftAt(trade, k, m)'
  BY <1>0, <1>2, <1>3 DEF LeftAt, KeptFrom
<1> QED BY <1>3, <1>4, <1>5 DEF Followed

\* A callback's error leaves nothing behind.
LEMMA FailKeeps == TestInv /\ StrategyFails => TestInv'
BY DEF TestInv, StrategyFails, Running, Fresh

\* The start has decided nothing.
LEMMA InitEstablishesTest == TestInit => TestInv
BY DEF TestInit, TestInv, Running, Fresh

\* A decision sells what is held, enters, or does nothing.
LEMMA ExecutedIs ==
    ASSUME NEW target, NEW price, NEW fee, NEW when
    PROVE  \/ /\ target = "flat" /\ account.qty > 0
              /\ Executed(account, target, price, fee, when) = Exited(account, price, fee, when)
           \/ /\ target = "long"
              /\ Executed(account, target, price, fee, when) = Entered(account, price, fee, when)
           \/ /\ ~(target = "flat" /\ account.qty > 0)
              /\ Executed(account, target, price, fee, when) = account
BY DEF Executed

\* A bar executes what the one before asked, then asks.
LEMMA BarKeeps ==
    ASSUME TestInv, OnBar
    PROVE  TestInv'
<1>0. /\ test.step = "bar" /\ TestShapes /\ BarsInOrder /\ OneAnswerABar /\ OpenFollows /\ TradesFollow
      /\ test.done < Len(test.bars) /\ Running
  BY DEF OnBar, TestInv, Running
<1>1. PICK n \in Nat : n = test.done
  BY <1>0 DEF OneAnswerABar
<1>2. PICK bar : bar = test.bars[n + 1]
  OBVIOUS
<1>3. PICK decision \in Decisions :
        /\ account' = Executed(account, test.pending, bar.open, test.fee, bar.time)
        /\ test' = [test EXCEPT !.done = @ + 1, !.pending = decision]
        /\ asked' = Append(asked, decision)
  <2>1. Crossing(BothUpdated(average, bar.close)) \in Decisions
    BY DEF Crossing, Decisions
  <2> QED BY <1>1, <1>2, <2>1 DEF OnBar, FillPrice
<1>4. /\ test' = [step |-> "bar", bars |-> test.bars, done |-> n + 1, fee |-> test.fee,
                  strategy |-> test.strategy, closeOut |-> test.closeOut, pending |-> decision]
      /\ test'.step = "bar" /\ test'.bars = test.bars /\ test'.done = n + 1
      /\ test'.pending = decision
  BY <1>0, <1>1, <1>3 DEF TestShapes
<1>5. /\ asked' \in Seq(Decisions) /\ Len(asked) = n /\ Len(asked') = n + 1
      /\ \A i \in 1..n : asked'[i] = asked[i]
      /\ asked'[n + 1] = decision
  BY <1>0, <1>1, <1>3 DEF TestShapes, OneAnswerABar
<1>6. BarsInOrder' /\ OneAnswerABar'
  <2>1. BarsInOrder'
    BY <1>0, <1>4 DEF BarsInOrder
  <2>2. Len(test.bars) \in Nat /\ n + 1 \in 0..Len(test.bars)
    BY <1>0, <1>1 DEF TestShapes
  <2>3. n + 1 # 0
    OBVIOUS
  <2> QED BY <1>4, <1>5, <2>1, <2>2, <2>3 DEF OneAnswerABar
<1>7. ASSUME NEW trade, Followed(trade)
      PROVE  Followed(trade)'
  <2>1. test'.done \in Nat /\ test.done <= test'.done
    BY <1>1, <1>4
  <2>2. UNCHANGED <<test.bars, test.step>> /\ \A i \in 1..test.done : asked'[i] = asked[i]
    BY <1>0, <1>1, <1>4, <1>5
  <2> QED BY <1>0, <1>7, <2>1, <2>2, TradesKeep
<1>8. n > 0 => test.pending = asked[n]
  BY <1>0, <1>1 DEF OneAnswerABar
<1>8a. n = 0 => test.pending = "none"
  BY <1>0, <1>1 DEF OneAnswerABar
<1>9. ASSUME NEW when, NEW price, NEW k \in 2..n, Taken(when, price, k)
      PROVE  k \in 2..test'.done /\ Taken(when, price, k)'
  BY <1>1, <1>4, <1>5, <1>9 DEF Taken
<1>10. /\ account = [cash |-> account.cash, qty |-> account.qty, open |-> account.open,
                     trades |-> account.trades]
       /\ account.trades \in Seq(Range(account.trades))
  BY <1>0 DEF TestShapes
<1>11. ASSUME account'.trades \in Seq(Range(account'.trades)),
              account' = [cash |-> account'.cash, qty |-> account'.qty, open |-> account'.open,
                          trades |-> account'.trades],
              OpenFollows', TradesFollow'
       PROVE  TestInv'
  <2>1. TestShapes'
    <3>1. test.bars \in Seq(Range(test.bars))
      BY <1>0 DEF TestShapes
    <3> QED BY <1>4, <1>5, <1>11, <3>1 DEF TestShapes
  <2> QED BY <1>4, <1>6, <1>11, <2>1 DEF TestInv, Running
<1>12. CASE /\ test.pending = "flat" /\ account.qty > 0
            /\ account' = Exited(account, bar.open, test.fee, bar.time)
  <2>1. PICK trade : trade = [entered |-> account.open.entered, exited |-> bar.time,
                              entry |-> account.open.price, exit |-> bar.open,
                              pnl |-> Pnl(account, account.cash
                                           + account.qty * bar.open * (Parts - test.fee))]
    OBVIOUS
  <2>2. /\ account' = [cash |-> account'.cash, qty |-> account'.qty, open |-> account'.open,
                       trades |-> account'.trades]
        /\ account'.qty = 0 /\ account'.open = NoTrade
        /\ account'.trades = Append(account.trades, trade)
    BY <1>12, <2>1 DEF Exited
  <2>3. PICK k \in 2..n : Taken(account.open.entered, account.open.price, k)
                          /\ KeptFrom(k, n + 1)
    BY <1>0, <1>1, <1>12 DEF OpenFollows
  <2>4. Followed(trade)'
    <3>1. k \in 2..test'.done /\ Taken(trade.entered, trade.entry, k)'
      BY <1>9, <2>1, <2>3
    <3>2. n + 1 \in (k + 1)..test'.done
      BY <1>4
    <3>3. asked'[n] = "flat"
      BY <1>5, <1>8, <1>12, <2>3
    <3>4. KeptFrom(k, n + 1)'
      BY <1>5, <2>3 DEF KeptFrom
    <3>5. LeftAt(trade, k, n + 1)'
      BY <1>2, <1>4, <2>1, <3>2, <3>3, <3>4 DEF LeftAt
    <3> QED BY <3>1, <3>2, <3>5 DEF Followed
  <2>5. account'.trades \in Seq(Range(account'.trades)) /\ TradesFollow'
    <3>1. /\ account'.trades \in Seq(Range(account'.trades))
          /\ Range(account'.trades) \subseteq Range(account.trades) \cup {trade}
      BY <1>10, <2>2, Appended
    <3>2. ASSUME NEW t \in Range(account'.trades)
          PROVE  Followed(t)'
      BY <1>0, <1>7, <2>4, <3>1 DEF TradesFollow
    <3> QED BY <3>1, <3>2 DEF TradesFollow
  <2>6. OpenFollows'
    BY <2>2 DEF OpenFollows
  <2> QED BY <1>11, <2>2, <2>5, <2>6
<1>13. ASSUME account'.trades = account.trades
       PROVE  account'.trades \in Seq(Range(account'.trades)) /\ TradesFollow'
  <2>1. ASSUME NEW t \in Range(account'.trades)
        PROVE  Followed(t)'
    BY <1>0, <1>7, <1>13, <2>1 DEF TradesFollow
  <2> QED BY <1>10, <1>13, <2>1 DEF TradesFollow
<1>14. CASE /\ test.pending = "long"
            /\ account' = Entered(account, bar.open, test.fee, bar.time)
  <2>1. /\ account' = [cash |-> account'.cash, qty |-> account'.qty, open |-> account'.open,
                       trades |-> account'.trades]
        /\ account'.trades = account.trades
        /\ account'.open.entered = bar.time /\ account'.open.price = bar.open
        /\ "entered" \in DOMAIN account'.open
    BY <1>10, <1>14 DEF Entered
  <2>2. n > 0 /\ asked[n] = "long"
    BY <1>8, <1>8a, <1>14
  <2>3. n + 1 \in 2..test'.done /\ Taken(bar.time, bar.open, n + 1)'
    BY <1>2, <1>4, <1>5, <2>2 DEF Taken
  <2>4. KeptFrom(n + 1, n + 2)'
    BY DEF KeptFrom
  <2>5. OpenFollows'
    <3>1. account'.open # NoTrade
      BY <2>1 DEF NoTrade
    <3> QED BY <1>4, <2>1, <2>3, <2>4, <3>1 DEF OpenFollows, Taken, KeptFrom
  <2> QED BY <1>11, <1>13, <2>1, <2>5
<1>15. CASE ~(test.pending = "flat" /\ account.qty > 0) /\ account' = account
  <2>1. account'.trades = account.trades
    BY <1>15
  <2>2. ASSUME account.open # NoTrade
        PROVE  \E k \in 2..test'.done :
                 /\ Taken(account.open.entered, account.open.price, k)'
                 /\ account.qty > 0 => KeptFrom(k, n + 2)'
    <3>1. PICK k \in 2..n : Taken(account.open.entered, account.open.price, k)
                            /\ (account.qty > 0 => KeptFrom(k, n + 1))
      BY <1>0, <1>1, <2>2 DEF OpenFollows
    <3>2. ASSUME account.qty > 0 PROVE KeptFrom(k, n + 2)'
      <4>1. asked[n] # "flat"
        BY <1>8, <1>15, <3>1, <3>2
      <4> QED BY <1>5, <3>1, <3>2, <4>1 DEF KeptFrom
    <3> QED BY <1>9, <1>15, <3>1, <3>2 DEF Taken
  <2>3. OpenFollows'
    BY <1>0, <1>4, <1>15, <2>2 DEF OpenFollows, Taken, KeptFrom
  <2> QED BY <1>10, <1>11, <1>13, <1>15, <2>1, <2>3
<1> QED BY <1>3, <1>12, <1>14, <1>15, ExecutedIs

\* The end may sell what is left, after the last bar.
LEMMA FinishKeeps ==
    ASSUME TestInv, Finish
    PROVE  TestInv'
<1>0. /\ test.step = "bar" /\ TestShapes /\ BarsInOrder /\ OneAnswerABar /\ OpenFollows /\ TradesFollow
      /\ test.done = Len(test.bars) /\ Running /\ asked' = asked
  BY DEF Finish, TestInv, Running
<1>1. PICK n \in Nat : n = test.done
  BY <1>0 DEF OneAnswerABar
<1>2. /\ Last(test.bars) = test.bars[n]
      /\ account' = account
           \/ account' = Executed(account, "flat", test.bars[n].close, test.fee,
                                  test.bars[n].time + 1)
      /\ test' = [test EXCEPT !.step = "done"]
  BY <1>0, <1>1 DEF Finish, Last
<1>3. /\ test' = [step |-> "done", bars |-> test.bars, done |-> n, fee |-> test.fee,
                  strategy |-> test.strategy, closeOut |-> test.closeOut,
                  pending |-> test.pending]
      /\ test'.step = "done" /\ test'.bars = test.bars /\ test'.done = n
      /\ test'.pending = test.pending
  BY <1>0, <1>1, <1>2 DEF TestShapes
<1>4. BarsInOrder' /\ OneAnswerABar'
  BY <1>0, <1>1, <1>3 DEF BarsInOrder, OneAnswerABar
<1>5. /\ account = [cash |-> account.cash, qty |-> account.qty, open |-> account.open,
                    trades |-> account.trades]
      /\ account.trades \in Seq(Range(account.trades))
  BY <1>0 DEF TestShapes
<1>6. ASSUME account'.trades \in Seq(Range(account'.trades)),
             account' = [cash |-> account'.cash, qty |-> account'.qty, open |-> account'.open,
                         trades |-> account'.trades],
             OpenFollows', TradesFollow'
      PROVE  TestInv'
  <2>1. TestShapes'
    <3>1. test.bars \in Seq(Range(test.bars)) /\ asked \in Seq(Decisions)
      BY <1>0 DEF TestShapes
    <3> QED BY <1>0, <1>3, <1>6, <3>1 DEF TestShapes
  <2> QED BY <1>3, <1>4, <1>6, <2>1 DEF TestInv, Running
<1>7. ASSUME NEW trade, Followed(trade)
      PROVE  Followed(trade)'
  <2>1. PICK k \in 2..n :
          /\ Taken(trade.entered, trade.entry, k)
          /\ \E m \in (k + 1)..n : LeftAt(trade, k, m)
    BY <1>0, <1>1, <1>7 DEF Followed, LeftAtEnd
  <2>2. Taken(trade.entered, trade.entry, k)'
    BY <1>0, <1>1, <1>3, <2>1 DEF Taken
  <2>3. \E m \in (k + 1)..n : LeftAt(trade, k, m)'
    BY <1>0, <1>1, <1>3, <2>1 DEF LeftAt, KeptFrom
  <2> QED BY <1>3, <2>1, <2>2, <2>3 DEF Followed
<1>8. CASE account' = account
  <2>1. OpenFollows'
    BY <1>0, <1>1, <1>3, <1>8 DEF OpenFollows, Taken, KeptFrom
  <2>2. TradesFollow'
    BY <1>0, <1>7, <1>8 DEF TradesFollow
  <2> QED BY <1>5, <1>6, <1>8, <2>1, <2>2
<1>9. CASE /\ account.qty > 0
           /\ account' = Exited(account, test.bars[n].close, test.fee, test.bars[n].time + 1)
  <2>1. PICK trade : trade = [entered |-> account.open.entered, exited |-> test.bars[n].time + 1,
                              entry |-> account.open.price, exit |-> test.bars[n].close,
                              pnl |-> Pnl(account, account.cash
                                       + account.qty * test.bars[n].close * (Parts - test.fee))]
    OBVIOUS
  <2>2. /\ account' = [cash |-> account'.cash, qty |-> account'.qty, open |-> account'.open,
                       trades |-> account'.trades]
        /\ account'.qty = 0 /\ account'.open = NoTrade
        /\ account'.trades = Append(account.trades, trade)
    BY <1>9, <2>1 DEF Exited
  <2>3. PICK k \in 2..n : Taken(account.open.entered, account.open.price, k)
                          /\ KeptFrom(k, n + 1)
    BY <1>0, <1>1, <1>9 DEF OpenFollows
  <2>4. Followed(trade)'
    <3>1. Taken(trade.entered, trade.entry, k)'
      BY <1>0, <1>1, <1>3, <2>1, <2>3 DEF Taken
    <3>2. LeftAtEnd(trade, k)'
      BY <1>0, <1>3, <2>1, <2>3 DEF LeftAtEnd, KeptFrom
    <3> QED BY <1>3, <3>1, <3>2 DEF Followed
  <2>5. account'.trades \in Seq(Range(account'.trades)) /\ TradesFollow'
    <3>1. /\ account'.trades \in Seq(Range(account'.trades))
          /\ Range(account'.trades) \subseteq Range(account.trades) \cup {trade}
      BY <1>5, <2>2, Appended
    <3>2. ASSUME NEW t \in Range(account'.trades)
          PROVE  Followed(t)'
      BY <1>0, <1>7, <2>4, <3>1 DEF TradesFollow
    <3> QED BY <3>1, <3>2 DEF TradesFollow
  <2>6. OpenFollows'
    BY <2>2 DEF OpenFollows
  <2> QED BY <1>6, <2>2, <2>5, <2>6
<1> QED BY <1>2, <1>8, <1>9, ExecutedIs

\* A step outside the backtest's actions changes nothing.
LEMMA RestKeeps == TestInv /\ UNCHANGED testVars => TestInv'
<1> SUFFICES ASSUME TestInv, UNCHANGED testVars PROVE TestInv'
  OBVIOUS
<1>1. test' = test /\ account' = account /\ asked' = asked
  BY DEF testVars
<1> QED BY <1>1 DEF TestInv, Running, Fresh, Account0, TestShapes, BarsInOrder, OneAnswerABar,
                    OpenFollows, TradesFollow, Followed, Taken, LeftAt, LeftAtEnd, KeptFrom

-----------------------------------------------------------------------------
(* Theorems.                                                                *)

\* What every reachable state has.
THEOREM TestInductive == TestSpec => []TestInv
<1>1. TestInv /\ [TestNext]_testVars => TestInv'
  BY LoadKeeps, FailKeeps, BarKeeps, FinishKeeps, RestKeeps DEF TestNext
<1> QED BY <1>1, InitEstablishesTest, PTL DEF TestSpec

\* Each trade fills decisions made on the bar before, at an open the strategy
\* had not seen, whatever the strategy decides and however many bars there are
\* (engine/backtest.rs:242-286).
THEOREM TradesFollowAlways == TestSpec => []TradesFollowDecisions
BY TestInductive, FollowedIs, PTL

-----------------------------------------------------------------------------
(* Folds over sequences.  A fold's function is defined over all sets of     *)
(* places; that there is one is shown a place at a time.                    *)

\* Counting up reaches every number.
LEMMA CountsUp ==
    ASSUME NEW P \in SUBSET Nat, 0 \in P, \A n \in P : n + 1 \in P
    PROVE  P = Nat
<1> SUFFICES ASSUME Nat \ P # {} PROVE FALSE
  OBVIOUS
<1> DEFINE n == Min(Nat \ P)
<1>1. n \in Nat \ P /\ \A x \in Nat \ P : n <= x
  BY MinOf
<1> HIDE DEF n
<1>2. n # 0 /\ n - 1 \in Nat
  BY <1>1
<1>3. n - 1 \in P
  BY <1>1, <1>2
<1> QED BY <1>1, <1>2, <1>3

\* The last of the places up to k.
LEMMA LastPlace ==
    ASSUME NEW k \in Nat, NEW S \in SUBSET (1..k), S # {}
    PROVE  Max(S) \in S /\ S \ {Max(S)} \in SUBSET (1..(k - 1))
<1>1. IsFiniteSet(1..k)
  BY FS_Interval
<1>2. S \in SUBSET Nat
  OBVIOUS
<1>2a. IsFiniteSet(S)
  BY <1>1, FS_Subset
<1>3. Max(S) \in S /\ \A x \in S : x <= Max(S)
  BY <1>2, <1>2a, MaxOf
<1>4. ASSUME NEW x \in S, x # Max(S)
      PROVE  x \in 1..(k - 1)
  <2>1. x \in 1..k /\ Max(S) \in 1..k /\ x <= Max(S)
    BY <1>3
  <2> QED BY <1>4, <2>1
<1> QED BY <1>3, <1>4

LEMMA LastUpTo ==
    ASSUME NEW k \in Nat \ {0}
    PROVE  Max(1..k) = k /\ (1..k) \ {k} = 1..(k - 1) /\ 1..k # {}
<1>1. 1..k \in SUBSET Nat /\ IsFiniteSet(1..k) /\ k \in 1..k
  BY FS_Interval
<1>2. Max(1..k) \in 1..k /\ \A x \in 1..k : x <= Max(1..k)
  BY <1>1, MaxOf
<1> QED BY <1>1, <1>2

IsFold(h, k, base, step) ==
    \A S \in SUBSET (1..k) :
        h[S] = IF S = {} THEN base ELSE step[<<h[S \ {Max(S)}], Max(S)>>]

LEMMA FoldExists ==
    ASSUME NEW n \in Nat, NEW V, NEW base \in V, NEW step \in [V \X (1..n) -> V]
    PROVE  \E h \in [SUBSET (1..n) -> V] : IsFold(h, n, base, step)
<1> DEFINE Equals(h, k) == IsFold(h, k, base, step)
           Good(k) == \E h \in [SUBSET (1..k) -> V] : Equals(h, k)
           P == {k \in Nat : k <= n => Good(k)}
<1>1. 0 \in P
  <2> DEFINE h == [S \in SUBSET (1..0) |-> base]
  <2>1. \A S \in SUBSET (1..0) : S = {}
    OBVIOUS
  <2>2. h \in [SUBSET (1..0) -> V] /\ Equals(h, 0)
    BY <2>1 DEF IsFold
  <2> QED BY <2>2
<1>2. ASSUME NEW k \in Nat, k + 1 <= n, Good(k)
      PROVE  Good(k + 1)
  <2>1. PICK g \in [SUBSET (1..k) -> V] : Equals(g, k)
    BY <1>2
  <2> DEFINE h == [S \in SUBSET (1..(k + 1)) |->
                     IF S = {} THEN base ELSE step[<<g[S \ {Max(S)}], Max(S)>>]]
  <2>2. ASSUME NEW S \in SUBSET (1..(k + 1)), S # {}
        PROVE  Max(S) \in 1..n /\ S \ {Max(S)} \in SUBSET (1..k)
    <3>1. PICK m \in Nat : m = k + 1 /\ m - 1 = k /\ 1..m \subseteq 1..n
      BY <1>2
    <3>2. Max(S) \in S /\ S \ {Max(S)} \in SUBSET (1..(m - 1))
      BY <2>2, <3>1, LastPlace
    <3> QED BY <3>1, <3>2
  <2>3. h \in [SUBSET (1..(k + 1)) -> V]
    <3> SUFFICES ASSUME NEW S \in SUBSET (1..(k + 1)), S # {}
                 PROVE  step[<<g[S \ {Max(S)}], Max(S)>>] \in V
      OBVIOUS
    <3>1. g[S \ {Max(S)}] \in V /\ Max(S) \in 1..n
      BY <2>1, <2>2
    <3> QED BY <3>1
  <2>4. ASSUME NEW S \in SUBSET (1..k)
        PROVE  h[S] = g[S]
    <3>1. S \in SUBSET (1..(k + 1))
      OBVIOUS
    <3> QED BY <2>1, <3>1 DEF IsFold
  <2>5. Equals(h, k + 1)
    <3> SUFFICES ASSUME NEW S \in SUBSET (1..(k + 1)), S # {}
                 PROVE  h[S] = step[<<h[S \ {Max(S)}], Max(S)>>]
      BY DEF IsFold
    <3>1. h[S \ {Max(S)}] = g[S \ {Max(S)}]
      BY <2>2, <2>4
    <3>2. h[S] = step[<<g[S \ {Max(S)}], Max(S)>>]
      OBVIOUS
    <3> QED BY <3>1, <3>2
  <2> HIDE DEF h
  <2> QED BY <2>3, <2>5
<1>3. Good(n)
  <2> HIDE DEF Good
  <2>1. 0 \in P /\ P \subseteq Nat /\ \A k \in P : k + 1 \in P
    BY <1>1, <1>2
  <2>2. P = Nat
    <3> HIDE DEF P
    <3> QED BY <2>1, CountsUp
  <2>3. n \in P
    BY <2>2
  <2> QED BY <2>3
<1> QED BY <1>3

\* What a fold comes to after each place.
IsRun(g, n, base, step) == g[0] = base /\ \A i \in 1..n : g[i] = step[<<g[i - 1], i>>]

LEMMA FoldRuns ==
    ASSUME NEW n \in Nat, NEW V, NEW base \in V, NEW step \in [V \X (1..n) -> V]
    PROVE  \E g \in [0..n -> V] : IsRun(g, n, base, step)
<1>1. PICK h \in [SUBSET (1..n) -> V] : IsFold(h, n, base, step)
  BY FoldExists
<1> DEFINE g == [i \in 0..n |-> h[1..i]]
<1>2. \A i \in 0..n : 1..i \in SUBSET (1..n)
  OBVIOUS
<1>3. g \in [0..n -> V]
  BY <1>1, <1>2
<1>4. g[0] = base
  <2>1. 1..0 = {} /\ 0 \in 0..n
    OBVIOUS
  <2> QED BY <1>1, <1>2, <2>1 DEF IsFold
<1>5. ASSUME NEW i \in 1..n
      PROVE  g[i] = step[<<g[i - 1], i>>]
  <2>1. i \in Nat \ {0} /\ i \in 0..n /\ i - 1 \in 0..n
    OBVIOUS
  <2>2. Max(1..i) = i /\ (1..i) \ {i} = 1..(i - 1) /\ 1..i # {}
    BY <2>1, LastUpTo
  <2>3. h[1..i] = step[<<h[1..(i - 1)], i>>]
    BY <1>1, <1>2, <2>1, <2>2 DEF IsFold
  <2> QED BY <2>1, <2>3
<1> HIDE DEF g
<1> QED BY <1>3, <1>4, <1>5 DEF IsRun

-----------------------------------------------------------------------------
(* What trades made.                                                        *)

\* What is booked after each trade.
Books(g, s, n) ==
    g[0] = Cash0 /\ \A i \in 1..n : s[i].pnl \in Int /\ g[i] = g[i - 1] + s[i].pnl

LEMMA BookedIs ==
    ASSUME NEW n \in Nat, NEW s, DOMAIN s = 1..n, NEW g, Books(g, s, n)
    PROVE  Booked(s) = g[n]
<1>0. /\ Cash0 \in Int /\ g[0] = Cash0
      /\ \A i \in 1..n : s[i].pnl \in Int /\ g[i] = g[i - 1] + s[i].pnl
  BY BacktestAssumption DEF Books
<1> DEFINE Is(it) == it = [S \in SUBSET DOMAIN s |->
                             IF S = {} THEN Cash0 ELSE it[S \ {Max(S)}] + s[Max(S)].pnl]
           it == CHOOSE it : Is(it)
<1>1. Booked(s) = it[DOMAIN s]
  BY DEF Booked, FoldLeft, MapThenFoldSet
<1>2. \E h : Is(h)
  <2> DEFINE step == [p \in Int \X (1..n) |-> p[1] + s[p[2]].pnl]
  <2>1. step \in [Int \X (1..n) -> Int]
    BY <1>0
  <2> HIDE DEF step
  <2>2. PICK h \in [SUBSET (1..n) -> Int] : IsFold(h, n, Cash0, step)
    BY <1>0, <2>1, FoldExists
  <2>3. ASSUME NEW S \in SUBSET (1..n), S # {}
        PROVE  h[S] = h[S \ {Max(S)}] + s[Max(S)].pnl
    <3>1. Max(S) \in 1..n /\ h[S \ {Max(S)}] \in Int
      BY <2>2, <2>3, LastPlace
    <3>2. step[<<h[S \ {Max(S)}], Max(S)>>] = h[S \ {Max(S)}] + s[Max(S)].pnl
      BY <1>0, <3>1 DEF step
    <3> QED BY <2>2, <2>3, <3>2 DEF IsFold
  <2>4. Is(h)
    BY <2>2, <2>3 DEF IsFold
  <2> QED BY <2>4
<1>3. Is(it)
  BY <1>2
<1> HIDE DEF it
<1>4. \A S \in SUBSET (1..n) : it[S] = IF S = {} THEN Cash0 ELSE it[S \ {Max(S)}] + s[Max(S)].pnl
  BY <1>3
<1> HIDE DEF Is
<1> DEFINE P == {i \in Nat : i <= n => it[1..i] = g[i]}
<1>5. 0 \in P
  <2>1. 1..0 = {} /\ {} \in SUBSET (1..n)
    OBVIOUS
  <2> QED BY <1>0, <1>4, <2>1
<1>6. ASSUME NEW i \in Nat, i + 1 <= n, it[1..i] = g[i]
      PROVE  it[1..(i + 1)] = g[i + 1]
  <2>1. PICK k \in Nat \ {0} : k = i + 1 /\ k - 1 = i /\ k \in 1..n /\ 1..k \in SUBSET (1..n)
    BY <1>6
  <2>2. Max(1..k) = k /\ (1..k) \ {k} = 1..(k - 1) /\ 1..k # {}
    BY LastUpTo
  <2>3. it[1..k] = it[1..(k - 1)] + s[k].pnl
    BY <1>4, <2>1, <2>2
  <2> QED BY <1>0, <1>6, <2>1, <2>3
<1>7. n \in P
  <2>1. P \subseteq Nat /\ \A i \in P : i + 1 \in P
    BY <1>6
  <2> HIDE DEF P
  <2>2. P = Nat
    BY <1>5, <2>1, CountsUp
  <2> QED BY <2>2
<1> QED BY <1>1, <1>7

LEMMA ScaledUp ==
    ASSUME NEW x \in Int, NEW y \in Int, NEW k \in Int, k > 0
    PROVE  x <= y <=> x * k <= y * k
<1>1. (y - x) * k = y * k - x * k /\ y - x \in Int
  OBVIOUS
<1>2. ASSUME NEW d \in Int PROVE d >= 0 <=> d * k >= 0
  BY <1>2
<1>3. (y - x) >= 0 <=> (y - x) * k >= 0
  BY <1>1, <1>2
<1>4. x * k \in Int /\ y * k \in Int
  OBVIOUS
<1> QED BY <1>1, <1>3, <1>4
LEMMA Cross ==
    ASSUME NEW a \in Int, NEW m \in Int, NEW f \in Int, NEW o \in Int, NEW F \in Int, NEW P \in Int,
           m > 0, o > 0, P > 0, a * o <= f * m, f * P <= F * o
    PROVE  a * P <= F * m
<1>0. a * o \in Int /\ f * m \in Int /\ f * P \in Int /\ F * o \in Int /\ a * P \in Int /\ F * m \in Int
  OBVIOUS
<1>1. (a * o) * P <= (f * m) * P
  BY <1>0, ScaledUp
<1>2. (f * P) * m <= (F * o) * m
  BY <1>0, ScaledUp
<1>3. /\ (a * o) * P = (a * P) * o /\ (f * m) * P = (f * P) * m /\ (F * o) * m = (F * m) * o
      /\ (a * o) * P \in Int /\ (f * m) * P \in Int /\ (F * o) * m \in Int
  OBVIOUS
<1>4. (a * P) * o <= (F * m) * o
  BY <1>1, <1>2, <1>3
<1> QED BY <1>0, <1>4, ScaledUp

-----------------------------------------------------------------------------
(* What a backtest reports.                                                 *)

Open(acc) ==
    /\ acc.open = [entered |-> acc.open.entered, price |-> acc.open.price, qty |-> acc.open.qty,
                   before |-> acc.open.before]
    /\ acc.open.price \in Int /\ acc.open.before \in Int
    /\ acc.open.qty = acc.qty

\* The money of an account: what it began with, what its trades made, and what
\* is in the open one.
Money(acc, fee) ==
    /\ acc = [cash |-> acc.cash, qty |-> acc.qty, open |-> acc.open, trades |-> acc.trades]
    /\ acc.cash \in Int /\ acc.qty \in Nat
    /\ acc.trades \in Seq(Range(acc.trades))
    /\ \A i \in 1..Len(acc.trades) : acc.trades[i].pnl \in Int
    /\ acc.open = NoTrade => acc.qty = 0 /\ acc.cash = Booked(acc.trades)
    /\ acc.open # NoTrade =>
         /\ Open(acc)
         /\ acc.open.before = Booked(acc.trades)
         /\ acc.cash + acc.open.qty * acc.open.price * (Parts + fee) = Booked(acc.trades)

LEMMA BookedNone == Booked(<< >>) = Cash0
<1> DEFINE g == [i \in 0..0 |-> Cash0]
<1>1. Books(g, << >>, 0) /\ g[0] = Cash0
  BY DEF Books
<1>2. DOMAIN << >> = 1..0 /\ 0 \in Nat
  OBVIOUS
<1> HIDE DEF g
<1> QED BY <1>1, <1>2, BookedIs

LEMMA BookedGrows ==
    ASSUME NEW s, s \in Seq(Range(s)), \A i \in 1..Len(s) : s[i].pnl \in Int,
           NEW x, x.pnl \in Int
    PROVE  Booked(s) \in Int /\ Booked(Append(s, x)) = Booked(s) + x.pnl
<1> DEFINE t == Append(s, x)
           n == Len(s) + 1
           step == [p \in Int \X (1..n) |-> p[1] + t[p[2]].pnl]
<1>1. /\ n \in Nat /\ Len(s) \in Nat /\ DOMAIN s = 1..Len(s) /\ DOMAIN t = 1..n
      /\ \A i \in 1..Len(s) : t[i] = s[i]
      /\ t[n] = x
  BY Appended
<1>2. \A i \in 1..n : t[i].pnl \in Int
  <2> SUFFICES ASSUME NEW i \in 1..n PROVE t[i].pnl \in Int
    OBVIOUS
  <2>1. i \in 1..Len(s) \/ i = n
    BY <1>1
  <2> QED BY <1>1, <2>1
<1> HIDE DEF t
<1>3. step \in [Int \X (1..n) -> Int]
  BY <1>2
<1>4. \A i \in 1..n, v \in Int : step[<<v, i>>] = v + t[i].pnl
  OBVIOUS
<1>5. Cash0 \in Int
  BY BacktestAssumption
<1> HIDE DEF step, n
<1>6. PICK g \in [0..n -> Int] : IsRun(g, n, Cash0, step)
  BY <1>1, <1>3, <1>5, FoldRuns
<1>7. \A i \in 1..n : g[i] = g[i - 1] + t[i].pnl
  <2> SUFFICES ASSUME NEW i \in 1..n PROVE g[i] = g[i - 1] + t[i].pnl
    OBVIOUS
  <2>1. i - 1 \in 0..n
    BY <1>1
  <2> QED BY <1>4, <1>6, <2>1 DEF IsRun
<1>8. Booked(t) = g[n]
  <2>1. Books(g, t, n)
    BY <1>2, <1>6, <1>7 DEF Books, IsRun
  <2> QED BY <1>1, <2>1, BookedIs
<1>9. \A i \in 1..Len(s) : i \in 1..n /\ g[i] = g[i - 1] + s[i].pnl
  BY <1>1, <1>7 DEF n
<1>10. Booked(s) = g[Len(s)]
  <2>1. Books(g, s, Len(s))
    BY <1>6, <1>9 DEF Books, IsRun
  <2> QED BY <1>1, <2>1, BookedIs
<1>11. n \in 1..n /\ n - 1 = Len(s) /\ Len(s) \in 0..n
  BY <1>1 DEF n
<1> QED BY <1>1, <1>6, <1>7, <1>8, <1>10, <1>11 DEF t

LEMMA RoundedIs ==
    ASSUME NEW n \in Nat, NEW d \in Nat \ {0}
    PROVE  Rounded(n, d) \in Nat
<1>1. 2 * n + d \in Nat /\ 2 * d \in Nat \ {0}
  OBVIOUS
<1>2. ASSUME NEW a \in Nat, NEW b \in Nat \ {0} PROVE a \div b \in Nat
  BY <1>2
<1> QED BY <1>1, <1>2 DEF Rounded

LEMMA ExitKeepsMoney ==
    ASSUME NEW acc, NEW fee \in Nat, Money(acc, fee), NEW price \in Int, NEW when, acc.qty > 0
    PROVE  Money(Exited(acc, price, fee, when), fee)
<1> DEFINE after == acc.cash + acc.qty * price * (Parts - fee)
           trade == [entered |-> acc.open.entered, exited |-> when, entry |-> acc.open.price,
                     exit |-> price, pnl |-> Pnl(acc, after)]
           left == Exited(acc, price, fee, when)
<1>1. acc.open # NoTrade /\ acc.open.before \in Int /\ acc.open.before = Booked(acc.trades)
  BY DEF Money, Open
<1>2. after \in Int
  <2>1. acc.cash \in Int /\ acc.qty \in Int /\ Parts - fee \in Int
    BY BacktestAssumption DEF Money
  <2> QED BY <2>1
<1> HIDE DEF after
<1>3. trade.pnl = after - acc.open.before /\ trade.pnl \in Int
  BY <1>1, <1>2 DEF Pnl
<1>4. left = [cash |-> after, qty |-> 0, open |-> NoTrade, trades |-> Append(acc.trades, trade)]
  BY DEF Exited, after
<1> HIDE DEF trade, left
<1>5. /\ Append(acc.trades, trade) \in Seq(Range(Append(acc.trades, trade)))
      /\ \A i \in 1..Len(Append(acc.trades, trade)) : Append(acc.trades, trade)[i].pnl \in Int
  <2>1. acc.trades \in Seq(Range(acc.trades)) /\ \A i \in 1..Len(acc.trades) : acc.trades[i].pnl \in Int
    BY DEF Money
  <2>2. /\ Append(acc.trades, trade) \in Seq(Range(Append(acc.trades, trade)))
        /\ Len(acc.trades) \in Nat /\ Len(Append(acc.trades, trade)) = Len(acc.trades) + 1
        /\ \A i \in 1..Len(acc.trades) : Append(acc.trades, trade)[i] = acc.trades[i]
        /\ Append(acc.trades, trade)[Len(acc.trades) + 1] = trade
    BY <2>1, Appended
  <2> SUFFICES ASSUME NEW i \in 1..Len(Append(acc.trades, trade))
               PROVE  Append(acc.trades, trade)[i].pnl \in Int
    BY <2>2
  <2>3. i \in 1..Len(acc.trades) \/ i = Len(acc.trades) + 1
    BY <2>2
  <2> QED BY <1>3, <2>1, <2>2, <2>3
<1>6. Booked(Append(acc.trades, trade)) = after
  <2>1. Booked(acc.trades) \in Int /\ Booked(Append(acc.trades, trade)) = Booked(acc.trades) + trade.pnl
    BY <1>3, BookedGrows DEF Money
  <2> QED BY <1>1, <1>2, <1>3, <2>1
<1>7. /\ left.cash = after /\ left.qty = 0 /\ left.open = NoTrade
      /\ left.trades = Append(acc.trades, trade)
      /\ left = [cash |-> left.cash, qty |-> left.qty, open |-> left.open, trades |-> left.trades]
  BY <1>4
<1>8. Money(left, fee)
  BY <1>2, <1>5, <1>6, <1>7 DEF Money
<1> QED BY <1>8 DEF left

LEMMA EntryKeepsMoney ==
    ASSUME NEW acc, NEW fee \in Nat, Money(acc, fee), NEW price \in Int, NEW when,
           acc.qty <= 0, acc.cash > 0, price > 0
    PROVE  Money(Entered(acc, price, fee, when), fee)
<1> DEFINE cost == price * (Parts + fee)
           qty == Rounded(acc.cash, cost)
           into == Entered(acc, price, fee, when)
<1>1. cost \in Nat \ {0}
  <2>1. Parts + fee \in Nat \ {0}
    BY BacktestAssumption
  <2>2. ASSUME NEW a \in Nat \ {0}, NEW b \in Nat \ {0} PROVE a * b \in Nat \ {0}
    BY <2>2
  <2> QED BY <2>1, <2>2
<1>2. acc.cash \in Nat /\ acc.cash \in Int
  BY DEF Money
<1>3. qty \in Nat
  <2> HIDE DEF cost
  <2> QED BY <1>1, <1>2, RoundedIs
<1>4. acc.cash = Booked(acc.trades)
  <2>1. acc.qty = 0
    BY DEF Money
  <2>2. CASE acc.open = NoTrade
    BY <2>2 DEF Money
  <2>3. CASE acc.open # NoTrade
    <3>1. acc.open.qty = 0 /\ acc.open.price \in Int /\ Parts + fee \in Int
      BY <2>1, <2>3, BacktestAssumption DEF Money, Open
    <3>2. acc.cash + acc.open.qty * acc.open.price * (Parts + fee) = Booked(acc.trades)
      BY <2>3 DEF Money
    <3>3. acc.open.qty * acc.open.price * (Parts + fee) = 0
      BY <3>1
    <3> QED BY <1>2, <3>2, <3>3
  <2> QED BY <2>2, <2>3
<1>5. into = [cash |-> acc.cash - qty * cost, qty |-> qty,
              open |-> [entered |-> when, price |-> price, qty |-> qty, before |-> acc.cash],
              trades |-> acc.trades]
  <2> HIDE DEF qty, cost
  <2>1. acc = [cash |-> acc.cash, qty |-> acc.qty, open |-> acc.open, trades |-> acc.trades]
    BY DEF Money
  <2>2. into = [acc EXCEPT !.cash = acc.cash - qty * cost, !.qty = qty,
                  !.open = [entered |-> when, price |-> price, qty |-> qty, before |-> acc.cash]]
    BY DEF Entered, qty, cost
  <2>3. PICK o : o = [entered |-> when, price |-> price, qty |-> qty, before |-> acc.cash]
    OBVIOUS
  <2>4. PICK c : c = acc.cash - qty * cost
    OBVIOUS
  <2> HIDE DEF into
  <2>5. into = [acc EXCEPT !.cash = c, !.qty = qty, !.open = o]
    BY <2>2, <2>3, <2>4
  <2> QED BY <2>1, <2>3, <2>4, <2>5
<1> HIDE DEF into, qty
<1>6. qty * price * (Parts + fee) = qty * cost /\ qty * cost \in Int
  <2>1. Parts + fee \in Int /\ qty \in Int
    BY <1>3, BacktestAssumption
  <2> QED BY <2>1
<1> HIDE DEF cost
<1>7. into.open # NoTrade
  <2>1. "price" \in DOMAIN into.open
    BY <1>5
  <2> QED BY <2>1 DEF NoTrade
<1>8. (acc.cash - qty * cost) + qty * price * (Parts + fee) = acc.cash
  BY <1>2, <1>6
<1>9. Open(into)
  BY <1>2, <1>3, <1>5 DEF Open
<1>10. /\ into.cash = acc.cash - qty * cost /\ into.qty = qty /\ into.trades = acc.trades
       /\ into.open.before = acc.cash /\ into.open.qty = qty /\ into.open.price = price
       /\ into = [cash |-> into.cash, qty |-> into.qty, open |-> into.open, trades |-> into.trades]
  BY <1>5
<1>11. into.cash \in Int
  BY <1>2, <1>6, <1>10
<1>12. Money(into, fee)
  BY <1>3, <1>4, <1>7, <1>8, <1>9, <1>10, <1>11 DEF Money
<1> QED BY <1>12 DEF into

LEMMA ExecutedKeepsMoney ==
    ASSUME NEW acc, NEW fee \in Nat, Money(acc, fee), NEW price \in Int, NEW target, NEW when
    PROVE  Money(Executed(acc, target, price, fee, when), fee)
<1>1. CASE target = "flat" /\ acc.qty > 0
  <2>1. Executed(acc, target, price, fee, when) = Exited(acc, price, fee, when)
    BY <1>1 DEF Executed
  <2> QED BY <1>1, <2>1, ExitKeepsMoney
<1>2. CASE target = "long" /\ acc.qty <= 0 /\ acc.cash > 0 /\ price > 0
  <2>1. Executed(acc, target, price, fee, when) = Entered(acc, price, fee, when)
    BY <1>2 DEF Executed
  <2> QED BY <1>2, <2>1, EntryKeepsMoney
<1>3. CASE ~(target = "flat" /\ acc.qty > 0) /\ ~(target = "long" /\ acc.qty <= 0 /\ acc.cash > 0 /\ price > 0)
  BY <1>3 DEF Executed
<1> QED BY <1>1, <1>2, <1>3

-----------------------------------------------------------------------------
(* The marks and the worst fall.                                            *)

\* A mark and the highest until then, as places.
Falls(marks) ==
    {p \in (DOMAIN marks) \X (DOMAIN marks) :
        p[1] <= p[2] /\ \A i \in 1..p[2] : marks[i] <= marks[p[1]]}

Fell(eq, p) == eq.marks[p[1]] - eq.marks[p[2]]

Drawn(eq) ==
    /\ eq = [marks |-> eq.marks, peak |-> eq.peak, worst |-> eq.worst]
    /\ eq.worst = [fall |-> eq.worst.fall, of |-> eq.worst.of]
    /\ eq.worst.fall \in Nat /\ eq.worst.of \in Nat \ {0}
    /\ eq.marks \in Seq(Int) /\ eq.peak \in Int
    /\ Len(eq.marks) = 0 => eq.peak = 0
    /\ Len(eq.marks) > 0 =>
         /\ eq.marks[1] = Cash0
         /\ \E i \in 1..Len(eq.marks) : eq.marks[i] = eq.peak
         /\ \A i \in 1..Len(eq.marks) : eq.marks[i] <= eq.peak
    /\ \A p \in Falls(eq.marks) : Fell(eq, p) * eq.worst.of <= eq.worst.fall * eq.marks[p[1]]
    /\ eq.worst.fall = 0 \/
         \E p \in Falls(eq.marks) : Fell(eq, p) * eq.worst.of = eq.worst.fall * eq.marks[p[1]]

LEMMA DrawnIs == Drawn(equity) => DrawdownIsWorstFall
BY DEF Drawn, DrawdownIsWorstFall, Falls, Fell

\* One more mark, the first being the cash to begin with.
LEMMA MarkKeepsDrawn ==
    ASSUME NEW eq, Drawn(eq), NEW mark \in Int, Len(eq.marks) = 0 => mark = Cash0
    PROVE  Drawn(Marks(eq, mark)) /\ Len(Marks(eq, mark).marks) = Len(eq.marks) + 1
<1> DEFINE peak == PeakOf(eq.peak, mark)
           fall == peak - mark
           worse == fall * eq.worst.of > eq.worst.fall * peak
           worst == IF worse THEN [fall |-> fall, of |-> peak] ELSE eq.worst
           n == Len(eq.marks)
           marks == Append(eq.marks, mark)
           more == Marks(eq, mark)
<1>1. /\ Cash0 \in Int /\ Cash0 > 0 /\ eq.peak \in Int /\ eq.worst.fall \in Nat /\ eq.worst.of \in Nat \ {0}
      /\ eq.marks \in Seq(Int)
  BY BacktestAssumption DEF Drawn
<1>2. /\ n \in Nat /\ marks \in Seq(Int) /\ Len(marks) = n + 1 /\ DOMAIN marks = 1..(n + 1)
      /\ DOMAIN eq.marks = 1..n
      /\ \A i \in 1..n : marks[i] = eq.marks[i] /\ marks[i] \in Int
      /\ marks[n + 1] = mark
  BY <1>1
<1>3. more = [marks |-> marks, peak |-> peak, worst |-> worst]
  BY DEF Marks
<1> HIDE DEF marks, more, n
<1>4. peak \in Int /\ peak >= mark /\ peak >= eq.peak /\ (peak = mark \/ (peak = eq.peak /\ n > 0))
  <2>1. CASE n = 0
    BY <1>1, <2>1 DEF PeakOf, Drawn, n
  <2>2. CASE n > 0
    BY <1>1, <2>2 DEF PeakOf
  <2> QED BY <1>2, <2>1, <2>2
<1> HIDE DEF peak
<1>5. \E i \in 1..(n + 1) : marks[i] = peak
  <2>1. CASE peak = mark
    <3>1. n + 1 \in 1..(n + 1)
      BY <1>2
    <3> QED BY <1>2, <2>1, <3>1
  <2>2. CASE peak = eq.peak /\ n > 0
    <3>1. PICK i \in 1..n : eq.marks[i] = eq.peak
      BY <2>2 DEF Drawn, n
    <3>2. i \in 1..(n + 1)
      BY <1>2
    <3> QED BY <1>2, <2>2, <3>1, <3>2
  <2> QED BY <1>4, <2>1, <2>2
<1>6. \A i \in 1..(n + 1) : marks[i] <= peak
  <2> SUFFICES ASSUME NEW i \in 1..(n + 1) PROVE marks[i] <= peak
    OBVIOUS
  <2>1. CASE i = n + 1
    BY <1>2, <1>4, <2>1
  <2>2. CASE i \in 1..n
    <3>1. eq.marks[i] <= eq.peak /\ marks[i] = eq.marks[i] /\ marks[i] \in Int
      BY <1>2, <2>2 DEF Drawn, n
    <3> QED BY <1>1, <1>4, <3>1
  <2> QED BY <1>2, <2>1, <2>2
<1>7. marks[1] = Cash0
  <2>1. CASE n = 0
    BY <1>2, <2>1 DEF n
  <2>2. CASE n > 0
    <3>1. eq.marks[1] = Cash0 /\ 1 \in 1..n
      BY <1>2, <2>2 DEF Drawn, n
    <3> QED BY <1>2, <3>1
  <2> QED BY <1>2, <2>1, <2>2
<1>8. peak > 0
  <2>1. 1 \in 1..(n + 1)
    BY <1>2
  <2>2. Cash0 <= peak
    BY <1>6, <1>7, <2>1
  <2> QED BY <1>1, <1>4, <2>2
<1>9. /\ fall \in Nat /\ worst.fall \in Nat /\ worst.of \in Nat \ {0}
      /\ worst = [fall |-> worst.fall, of |-> worst.of]
  <2>1. fall \in Nat
    BY <1>4
  <2>2. CASE worse
    BY <1>4, <1>8, <2>1, <2>2
  <2>3. CASE ~worse
    BY <1>1, <2>1, <2>3 DEF Drawn
  <2> QED BY <2>2, <2>3
<1>10. \A p \in Falls(marks) : p \in (1..(n + 1)) \X (1..(n + 1)) /\ p[1] <= p[2]
                               /\ \A i \in 1..p[2] : marks[i] <= marks[p[1]]
  BY <1>2 DEF Falls
<1>11. ASSUME NEW p \in Falls(marks)
       PROVE  Fell(more, p) * worst.of <= worst.fall * marks[p[1]]
  <2>1. /\ p[1] \in 1..(n + 1) /\ p[2] \in 1..(n + 1) /\ p[1] <= p[2]
        /\ \A i \in 1..p[2] : marks[i] <= marks[p[1]]
    BY <1>10
  <2>2. \A i \in 1..(n + 1) : marks[i] \in Int
    BY <1>2
  <2>3. Fell(more, p) = marks[p[1]] - marks[p[2]] /\ Fell(more, p) \in Int /\ marks[p[1]] \in Int
    BY <1>3, <2>1, <2>2 DEF Fell
  <2>4. CASE p[2] = n + 1
    <3>1. marks[p[1]] = peak
      <4>1. PICK i \in 1..(n + 1) : marks[i] = peak
        BY <1>5
      <4>2. marks[i] <= marks[p[1]] /\ marks[p[1]] <= peak
        BY <1>6, <2>1, <2>4
      <4> QED BY <1>4, <2>3, <4>1, <4>2
    <3>2. Fell(more, p) = fall
      BY <1>2, <2>3, <2>4, <3>1
    <3>3. CASE worse
      <4>1. worst.of = peak /\ worst.fall = fall
        BY <3>3
      <4> QED BY <1>4, <1>9, <3>1, <3>2, <4>1
    <3>4. CASE ~worse
      <4>1. worst.of = eq.worst.of /\ worst.fall = eq.worst.fall
        BY <3>4
      <4>2. fall * eq.worst.of \in Int /\ eq.worst.fall * peak \in Int
        BY <1>1, <1>4
      <4>3. fall * eq.worst.of <= eq.worst.fall * peak
        BY <3>4, <4>2
      <4> QED BY <3>1, <3>2, <4>1, <4>3
    <3> QED BY <3>3, <3>4
  <2>5. CASE p[2] \in 1..n
    <3>1. p[1] \in 1..n /\ p = <<p[1], p[2]>>
      BY <1>2, <1>10, <2>1, <2>5
    <3>2. p \in Falls(eq.marks)
      <4>1. \A i \in 1..p[2] : i \in 1..n /\ eq.marks[i] <= eq.marks[p[1]]
        BY <1>2, <2>1, <2>5, <3>1
      <4> QED BY <1>2, <2>1, <2>5, <3>1, <4>1 DEF Falls
    <3>3. Fell(eq, p) = Fell(more, p) /\ eq.marks[p[1]] = marks[p[1]]
      BY <1>2, <2>3, <2>5, <3>1 DEF Fell
    <3>4. Fell(more, p) * eq.worst.of <= eq.worst.fall * marks[p[1]]
      BY <3>2, <3>3 DEF Drawn
    <3>5. CASE ~worse
      <4>1. worst.of = eq.worst.of /\ worst.fall = eq.worst.fall
        BY <3>5
      <4> QED BY <3>4, <4>1
    <3>6. CASE worse
      <4>1. worst.of = peak /\ worst.fall = fall /\ fall \in Int
        BY <1>9, <3>6
      <4>2. marks[p[1]] > 0
        <5>1. 1 \in 1..p[2]
          BY <1>2, <2>5
        <5>2. marks[1] <= marks[p[1]]
          BY <2>1, <5>1
        <5> QED BY <1>1, <1>7, <2>3, <5>2
      <4>3. eq.worst.fall * peak <= fall * eq.worst.of
        BY <1>1, <1>4, <1>9, <3>6
      <4>4. Fell(more, p) * peak <= fall * marks[p[1]]
        <5> HIDE DEF fall
        <5>1. eq.worst.fall \in Int /\ eq.worst.of \in Int /\ eq.worst.of > 0
          BY <1>1
        <5>2. PICK a \in Int, m \in Int, f \in Int, o \in Int :
                 a = Fell(more, p) /\ m = marks[p[1]] /\ f = eq.worst.fall /\ o = eq.worst.of
          BY <2>3, <5>1
        <5>3. a * o <= f * m /\ m > 0 /\ o > 0
          BY <3>4, <4>2, <5>1, <5>2
        <5>4. f * peak <= fall * o
          BY <4>3, <5>2
        <5>5. a * peak <= fall * m
          BY <1>4, <1>8, <4>1, <5>3, <5>4, Cross
        <5> QED BY <5>2, <5>5
      <4> QED BY <4>1, <4>4
    <3> QED BY <3>5, <3>6
  <2> QED BY <1>2, <2>1, <2>4, <2>5
<1>12. worst.fall = 0 \/ \E p \in Falls(marks) : Fell(more, p) * worst.of = worst.fall * marks[p[1]]
  <2>1. CASE worse
    <3>1. PICK i \in 1..(n + 1) : marks[i] = peak
      BY <1>5
    <3>2. n + 1 \in 1..(n + 1) /\ i <= n + 1
      BY <1>2
    <3>3. \A j \in 1..(n + 1) : marks[j] <= marks[i]
      BY <1>6, <3>1
    <3>4. <<i, n + 1>> \in Falls(marks)
      BY <1>2, <3>1, <3>2, <3>3 DEF Falls
    <3>5. Fell(more, <<i, n + 1>>) = fall
      BY <1>2, <1>3, <3>1 DEF Fell
    <3>6. worst.of = peak /\ worst.fall = fall /\ marks[<<i, n + 1>>[1]] = peak
      BY <2>1, <3>1
    <3> QED BY <3>4, <3>5, <3>6
  <2>2. CASE ~worse
    <3>1. worst.of = eq.worst.of /\ worst.fall = eq.worst.fall
      BY <2>2
    <3>2. CASE eq.worst.fall = 0
      BY <3>1, <3>2
    <3>3. CASE eq.worst.fall # 0
      <4>1. PICK p \in Falls(eq.marks) : Fell(eq, p) * eq.worst.of = eq.worst.fall * eq.marks[p[1]]
        BY <3>3 DEF Drawn
      <4>2. /\ p \in (1..n) \X (1..n) /\ p[1] <= p[2]
            /\ \A i \in 1..p[2] : eq.marks[i] <= eq.marks[p[1]]
        BY <1>2 DEF Falls
      <4>3. marks[p[1]] = eq.marks[p[1]] /\ marks[p[2]] = eq.marks[p[2]]
        BY <1>2, <4>2
      <4>4. \A i \in 1..p[2] : marks[i] <= marks[p[1]]
        BY <1>2, <4>2, <4>3
      <4>5. p \in (1..(n + 1)) \X (1..(n + 1))
        BY <1>2, <4>2
      <4>6. p \in Falls(marks)
        BY <1>2, <4>2, <4>4, <4>5 DEF Falls
      <4>7. Fell(more, p) = Fell(eq, p)
        BY <1>3, <4>3 DEF Fell
      <4> QED BY <3>1, <4>1, <4>3, <4>6, <4>7
    <3> QED BY <3>2, <3>3
  <2> QED BY <2>1, <2>2
<1> HIDE DEF worst, fall
<1>13. more.marks = marks /\ more.peak = peak /\ more.worst = worst
       /\ more = [marks |-> more.marks, peak |-> more.peak, worst |-> more.worst]
  BY <1>3
<1>14. Drawn(more)
  <2>1. \A p \in Falls(more.marks) : Fell(more, p) * more.worst.of <= more.worst.fall * more.marks[p[1]]
    BY <1>11, <1>13
  <2>2. more.worst.fall = 0 \/ \E p \in Falls(more.marks) :
            Fell(more, p) * more.worst.of = more.worst.fall * more.marks[p[1]]
    BY <1>12, <1>13
  <2>3. /\ Len(more.marks) > 0 /\ more.marks[1] = Cash0
        /\ \E i \in 1..Len(more.marks) : more.marks[i] = more.peak
        /\ \A i \in 1..Len(more.marks) : more.marks[i] <= more.peak
    BY <1>2, <1>5, <1>6, <1>7, <1>13
  <2> QED BY <1>2, <1>4, <1>9, <1>13, <2>1, <2>2, <2>3 DEF Drawn
<1>15. Len(more.marks) = Len(eq.marks) + 1
  BY <1>2, <1>13 DEF n
<1> QED BY <1>14, <1>15 DEF more

-----------------------------------------------------------------------------
(* The moving averages.                                                     *)

\* P gives the sum of the first closes.
SumsOf(P, s, n) ==
    /\ \A i \in 0..n : P[i] \in Int
    /\ \A i \in 1..n : s[i] \in Int /\ P[i] = P[i - 1] + s[i]

From(n, window) == IF n > window THEN n - window ELSE 0

\* The window over the first n closes.
Over(s, P, n, window) ==
    [sum |-> P[n] - P[From(n, window)],
     values |-> [i \in 1..(n - From(n, window)) |-> s[From(n, window) + i]]]

BothOver(s, P, n) == [fast |-> Over(s, P, n, Fast), slow |-> Over(s, P, n, Slow)]

LEMMA IntsAppended ==
    ASSUME NEW v \in Seq(Int), NEW x \in Int
    PROVE  /\ Append(v, x) \in Seq(Int) /\ Len(v) \in Nat /\ Len(Append(v, x)) = Len(v) + 1
           /\ \A i \in 1..Len(v) : Append(v, x)[i] = v[i]
           /\ Append(v, x)[Len(v) + 1] = x
OBVIOUS

LEMMA WindowMoves ==
    ASSUME NEW n \in Nat, NEW m \in Nat, m = n + 1, NEW window \in Nat \ {0}, NEW s, NEW P, SumsOf(P, s, m)
    PROVE  Updated(Over(s, P, n, window), window, s[m]) = Over(s, P, m, window)
<1> DEFINE a == From(n, window)
           b == From(m, window)
           old == Over(s, P, n, window)
           values == Append(old.values, s[m])
<1>1. a \in 0..n /\ b \in 0..(m) /\ n - a <= window /\ (n - a < window => b = a /\ a = 0)
      /\ (n - a = window => b = a + 1)
  BY DEF From
<1>2. old = [sum |-> P[n] - P[a], values |-> [i \in 1..(n - a) |-> s[a + i]]]
  BY DEF Over
<1>7. Over(s, P, m, window) =
        [sum |-> P[m] - P[b], values |-> [i \in 1..(m - b) |-> s[b + i]]]
  <2>1. \A k : Over(s, P, k, window) =
                 [sum |-> P[k] - P[From(k, window)],
                  values |-> [i \in 1..(k - From(k, window)) |-> s[From(k, window) + i]]]
    BY DEF Over
  <2> QED BY <2>1
<1> HIDE DEF a, b
<1>3. \A i \in 1..(m) : s[i] \in Int /\ P[i] \in Int /\ P[i - 1] \in Int /\ P[i] = P[i - 1] + s[i]
  <2>1. \A i \in 1..(m) : i \in 0..(m) /\ i - 1 \in 0..(m)
    OBVIOUS
  <2> QED BY <2>1 DEF SumsOf
<1>3a. P[n] \in Int /\ P[m] \in Int /\ P[m] = P[n] + s[m] /\ s[m] \in Int /\ P[a] \in Int
  <2>1. m \in 1..(m) /\ m - 1 = n /\ a \in 0..(m)
    BY <1>1
  <2> QED BY <1>3, <2>1 DEF SumsOf
<1>4. old.values \in Seq(Int) /\ Len(old.values) = n - a
      /\ \A i \in 1..(n - a) : old.values[i] = s[a + i]
  <2>1. \A i \in 1..(n - a) : s[a + i] \in Int
    BY <1>1, <1>3
  <2>2. n - a \in Nat
    BY <1>1
  <2> QED BY <1>2, <2>1, <2>2
<1> HIDE DEF old
<1>5. /\ values \in Seq(Int) /\ Len(values) = m - a
      /\ \A i \in 1..(m - a) : values[i] = s[a + i]
  <2>1. /\ values \in Seq(Int) /\ Len(values) = n - a + 1
        /\ \A i \in 1..(n - a) : values[i] = old.values[i]
        /\ values[n - a + 1] = s[m]
    BY <1>3a, <1>4, IntsAppended
  <2> HIDE DEF values
  <2>0. Len(values) = m - a
    BY <1>1, <2>1
  <2> SUFFICES ASSUME NEW i \in 1..(m - a) PROVE values[i] = s[a + i]
    BY <2>0, <2>1
  <2>2. CASE i = n - a + 1
    <3>1. a + i = m
      BY <1>1, <2>2
    <3>2. values[i] = s[m]
      BY <2>1, <2>2
    <3> QED BY <3>1, <3>2
  <2>3. CASE i \in 1..(n - a)
    BY <1>4, <2>1, <2>3
  <2> QED BY <1>1, <2>2, <2>3
<1> HIDE DEF values
<1>6. Updated(old, window, s[m]) =
        IF Len(values) > window
          THEN [sum |-> old.sum + s[m] - Head(values), values |-> Tail(values)]
          ELSE [sum |-> old.sum + s[m], values |-> values]
  BY DEF Updated, values
<1>8. old.sum = P[n] - P[a]
  BY <1>2
<1>9. CASE n - a < window
  <2>1. ~(Len(values) > window)
    BY <1>1, <1>5, <1>9
  <2>2. values = [i \in 1..(m - b) |-> s[b + i]]
    BY <1>1, <1>5, <1>9
  <2>3. old.sum + s[m] = P[m] - P[b]
    BY <1>1, <1>3a, <1>8, <1>9
  <2> QED BY <1>6, <1>7, <2>1, <2>2, <2>3 DEF old
<1>10. CASE n - a = window
  <2>1. Len(values) > window /\ Len(values) > 0
    BY <1>1, <1>5, <1>10
  <2>2. Tail(values) = [i \in 1..(m - b) |-> s[b + i]]
    <3>1. /\ Tail(values) \in Seq(Int) /\ Len(Tail(values)) = m - b
          /\ \A i \in 1..(m - b) : Tail(values)[i] = values[i + 1]
      BY <1>1, <1>5, <1>10, <2>1
    <3>2. ASSUME NEW i \in 1..(m - b) PROVE Tail(values)[i] = s[b + i]
      <4>1. i + 1 \in 1..(m - a) /\ a + (i + 1) = b + i
        BY <1>1, <1>10
      <4>2. values[i + 1] = s[a + (i + 1)]
        BY <1>5, <4>1
      <4> QED BY <3>1, <4>1, <4>2
    <3>3. Tail(values) = [i \in 1..(m - b) |-> Tail(values)[i]]
      <4>1. \A t \in Seq(Int) : t = [i \in 1..Len(t) |-> t[i]]
        OBVIOUS
      <4>2. Tail(values) = [i \in 1..Len(Tail(values)) |-> Tail(values)[i]]
        BY <3>1, <4>1
      <4> QED BY <3>1, <4>2
    <3> QED BY <3>2, <3>3
  <2>3. Head(values) = s[a + 1] /\ a + 1 \in 1..(m)
    <3>1. Head(values) = values[1] /\ 1 \in 1..(m - a)
      BY <1>1, <1>5, <2>1
    <3>2. values[1] = s[a + 1]
      BY <1>5, <3>1
    <3> QED BY <1>1, <1>10, <3>1, <3>2
  <2>4. P[a + 1] = P[a] + s[a + 1] /\ s[a + 1] \in Int
    <3>1. PICK k : k = a + 1 /\ k - 1 = a
      BY <1>1
    <3>2. s[k] \in Int /\ P[k] = P[k - 1] + s[k]
      BY <1>3, <2>3, <3>1
    <3> QED BY <3>1, <3>2
  <2>5. old.sum + s[m] - Head(values) = P[m] - P[b]
    <3>1. b = a + 1
      BY <1>1, <1>10
    <3> QED BY <1>3a, <1>8, <2>3, <2>4, <3>1
  <2> QED BY <1>6, <1>7, <2>1, <2>2, <2>5 DEF old
<1> QED BY <1>1, <1>9, <1>10

Averaging == [sum : Int, values : Seq(Int)]
Averages == [fast : Averaging, slow : Averaging]

LEMMA UpdatedIs ==
    ASSUME NEW sma \in Averaging, NEW window, NEW input \in Int
    PROVE  Updated(sma, window, input) \in Averaging
<1> DEFINE values == Append(sma.values, input)
<1>1. sma.values \in Seq(Int) /\ sma.sum \in Int
  BY DEF Averaging
<1>2. values \in Seq(Int) /\ Len(values) = Len(sma.values) + 1 /\ Len(sma.values) \in Nat
  BY <1>1
<1> HIDE DEF values
<1>3. Head(values) \in Int /\ Tail(values) \in Seq(Int)
  BY <1>2
<1>4. Updated(sma, window, input) =
        IF Len(values) > window
          THEN [sum |-> sma.sum + input - Head(values), values |-> Tail(values)]
          ELSE [sum |-> sma.sum + input, values |-> values]
  BY DEF Updated, values
<1> QED BY <1>1, <1>2, <1>3, <1>4 DEF Averaging

\* A strategy that was fed some closes has the windows over them.
LEMMA FedIs ==
    ASSUME NEW n \in Nat, NEW s, DOMAIN s = 1..n, NEW P, SumsOf(P, s, n)
    PROVE  Fed(s) = BothOver(s, P, n)
<1> DEFINE none == [fast |-> NoValues, slow |-> NoValues]
           Is(it) == it = [S \in SUBSET DOMAIN s |->
                             IF S = {} THEN none ELSE BothUpdated(it[S \ {Max(S)}], s[Max(S)])]
           it == CHOOSE it : Is(it)
<1>0. \A i \in 1..n : s[i] \in Int
  BY DEF SumsOf
<1>1. Fed(s) = it[DOMAIN s]
  BY DEF Fed, FoldLeft, MapThenFoldSet
<1>2. none \in Averages
  BY DEF Averages, Averaging, NoValues
<1> HIDE DEF none
<1>3. \E h : Is(h)
  <2> DEFINE step == [p \in Averages \X (1..n) |-> BothUpdated(p[1], s[p[2]])]
  <2>1. step \in [Averages \X (1..n) -> Averages]
    <3> SUFFICES ASSUME NEW p \in Averages \X (1..n) PROVE BothUpdated(p[1], s[p[2]]) \in Averages
      OBVIOUS
    <3>1. p[1].fast \in Averaging /\ p[1].slow \in Averaging /\ s[p[2]] \in Int
      BY <1>0 DEF Averages
    <3>2. Updated(p[1].fast, Fast, s[p[2]]) \in Averaging /\ Updated(p[1].slow, Slow, s[p[2]]) \in Averaging
      BY <3>1, UpdatedIs
    <3> QED BY <3>2 DEF BothUpdated, Averages
  <2>2. \A v \in Averages, i \in 1..n : step[<<v, i>>] = BothUpdated(v, s[i])
    OBVIOUS
  <2> HIDE DEF step
  <2>3. PICK h \in [SUBSET (1..n) -> Averages] : IsFold(h, n, none, step)
    BY <1>2, <2>1, FoldExists
  <2>4. ASSUME NEW S \in SUBSET (1..n), S # {}
        PROVE  h[S] = BothUpdated(h[S \ {Max(S)}], s[Max(S)])
    <3>1. Max(S) \in 1..n /\ h[S \ {Max(S)}] \in Averages
      BY <2>3, <2>4, LastPlace
    <3>2. h[S] = step[<<h[S \ {Max(S)}], Max(S)>>]
      BY <2>3, <2>4 DEF IsFold
    <3> QED BY <2>2, <3>1, <3>2
  <2>5. Is(h)
    BY <2>3, <2>4 DEF IsFold
  <2> QED BY <2>5
<1>4. Is(it)
  BY <1>3
<1> HIDE DEF it
<1>5. \A S \in SUBSET (1..n) : it[S] = IF S = {} THEN none ELSE BothUpdated(it[S \ {Max(S)}], s[Max(S)])
  BY <1>4
<1> HIDE DEF Is
<1> DEFINE Q == {i \in Nat : i <= n => it[1..i] = BothOver(s, P, i)}
<1>6. 0 \in Q
  <2>1. 1..0 = {} /\ {} \in SUBSET (1..n)
    OBVIOUS
  <2>2. From(0, Fast) = 0 /\ From(0, Slow) = 0
    BY BacktestAssumption DEF From
  <2>3. P[0] \in Int
    <3>1. 0 \in 0..n
      OBVIOUS
    <3> QED BY <3>1 DEF SumsOf
  <2>4. \A f : [i \in 1..(0 - 0) |-> f[0 + i]] = << >>
    OBVIOUS
  <2>5. BothOver(s, P, 0) = none
    BY <2>2, <2>3, <2>4 DEF BothOver, Over, none, NoValues
  <2> QED BY <1>5, <2>1, <2>5
<1>7. ASSUME NEW i \in Nat, i + 1 <= n, it[1..i] = BothOver(s, P, i)
      PROVE  it[1..(i + 1)] = BothOver(s, P, i + 1)
  <2>1. PICK k \in Nat \ {0} : k = i + 1 /\ k - 1 = i /\ k \in 1..n /\ 1..k \in SUBSET (1..n)
    BY <1>7
  <2>2. Max(1..k) = k /\ (1..k) \ {k} = 1..(k - 1) /\ 1..k # {}
    BY LastUpTo
  <2>3. it[1..k] = BothUpdated(it[1..(k - 1)], s[k])
    BY <1>5, <2>1, <2>2
  <2>4. SumsOf(P, s, i + 1)
    <3>1. 0..(i + 1) \subseteq 0..n /\ 1..(i + 1) \subseteq 1..n
      BY <1>7
    <3> QED BY <3>1 DEF SumsOf
  <2>5. /\ Updated(Over(s, P, i, Fast), Fast, s[i + 1]) = Over(s, P, i + 1, Fast)
        /\ Updated(Over(s, P, i, Slow), Slow, s[i + 1]) = Over(s, P, i + 1, Slow)
    <3>1. Fast \in Nat \ {0} /\ Slow \in Nat \ {0}
      BY BacktestAssumption
    <3>2. PICK m \in Nat : m = i + 1
      OBVIOUS
    <3> QED BY <2>4, <3>1, <3>2, WindowMoves
  <2>6. it[1..k] = BothUpdated(BothOver(s, P, i), s[i + 1])
    BY <1>7, <2>1, <2>3
  <2> QED BY <2>1, <2>5, <2>6 DEF BothUpdated, BothOver
<1>8. n \in Q
  <2>1. Q \subseteq Nat /\ \A i \in Q : i + 1 \in Q
    BY <1>7
  <2> HIDE DEF Q
  <2>2. Q = Nat
    BY <1>6, <2>1, CountsUp
  <2> QED BY <2>2
<1> QED BY <1>1, <1>8

\* There are such sums.
LEMMA SumsExist ==
    ASSUME NEW n \in Nat, NEW s, \A i \in 1..n : s[i] \in Int
    PROVE  \E P : SumsOf(P, s, n)
<1> DEFINE step == [p \in Int \X (1..n) |-> p[1] + s[p[2]]]
<1>1. step \in [Int \X (1..n) -> Int] /\ 0 \in Int
  OBVIOUS
<1>2. \A v \in Int, i \in 1..n : step[<<v, i>>] = v + s[i]
  OBVIOUS
<1> HIDE DEF step
<1>3. PICK P \in [0..n -> Int] : IsRun(P, n, 0, step)
  BY <1>1, FoldRuns
<1>4. ASSUME NEW i \in 1..n PROVE P[i] = P[i - 1] + s[i]
  <2>1. i - 1 \in 0..n
    OBVIOUS
  <2> QED BY <1>2, <1>3, <2>1 DEF IsRun
<1>5. SumsOf(P, s, n)
  BY <1>3, <1>4 DEF SumsOf
<1> QED BY <1>5

-----------------------------------------------------------------------------
(* What a run reports, at every step.                                       *)

\* The first closes of a run.
Closes(bars, n) == [i \in 1..n |-> bars[i].close]

FiguresInv ==
    /\ Running =>
         /\ test.fee \in Nat
         /\ \A i \in 1..Len(test.bars) : test.bars[i].open \in Int /\ test.bars[i].close \in Int
         /\ Len(equity.marks) = test.done
         /\ test.done = 0 => account = Account0
         /\ Money(account, test.fee)
    /\ ~Running => equity = Equity0
    /\ Drawn(equity)

\* The averages are those of a strategy that saw every bar.
Warm ==
    /\ Running => average = Fed(Closes(test.bars, test.done))
    /\ ~Running => average = Fed(<< >>)

ReportInv == TestInv /\ FiguresInv /\ Warm

LEMMA DrawnAtFirst == Drawn(Equity0)
<1>1. Falls(<< >>) = {}
  BY DEF Falls
<1> QED BY <1>1 DEF Drawn, Equity0

LEMMA MoneyAtFirst == ASSUME NEW fee PROVE Money(Account0, fee)
<1>1. << >> \in Seq(Range(<< >>)) /\ Len(<< >>) = 0
  OBVIOUS
<1> QED BY <1>1, BookedNone, BacktestAssumption DEF Money, Account0, NoTrade

LEMMA InitReports == TestInit => ReportInv
<1> SUFFICES ASSUME TestInit PROVE ReportInv
  OBVIOUS
<1>1. TestInv
  BY InitEstablishesTest
<1>2. ~Running /\ equity = Equity0 /\ average = Fed(<< >>)
  BY DEF TestInit, Running
<1> QED BY <1>1, <1>2, DrawnAtFirst DEF ReportInv, FiguresInv, Warm

\* The bars hold the market's prices, and nothing is reported yet.
LEMMA LoadReports ==
    ASSUME ReportInv, LoadBars
    PROVE  ReportInv'
<1>0. TestInv'
  BY LoadKeeps DEF ReportInv
<1>1. /\ test.step = "idle" /\ ~Running /\ Fresh /\ equity = Equity0 /\ average = Fed(<< >>)
      /\ UNCHANGED <<account, equity, average>>
  BY DEF LoadBars, ReportInv, TestInv, FiguresInv, Warm, Running
<1>2. PICK candles \in Histories, market \in Markets, fee \in Fees :
        \E strategy \in {"any", "sma"}, closeOut \in BOOLEAN :
        \E times \in OldestFirst(candles) :
          LET bars == [i \in DOMAIN times |->
                        [time |-> times[i], open |-> market[times[i]].open,
                         close |-> market[times[i]].close]]
          IN test' = IF candles = {} THEN [step |-> "refused"]
                     ELSE [step |-> "bar", bars |-> bars, done |-> 0, fee |-> fee,
                           strategy |-> strategy, closeOut |-> closeOut, pending |-> "none"]
  BY DEF LoadBars
<1>3. PICK strategy \in {"any", "sma"}, closeOut \in BOOLEAN, times \in OldestFirst(candles) :
          test' = IF candles = {} THEN [step |-> "refused"]
                  ELSE [step |-> "bar",
                        bars |-> [i \in DOMAIN times |->
                          [time |-> times[i], open |-> market[times[i]].open,
                           close |-> market[times[i]].close]],
                        done |-> 0, fee |-> fee, strategy |-> strategy, closeOut |-> closeOut,
                        pending |-> "none"]
  BY <1>2
<1>4. CASE candles = {}
  <2>1. ~Running'
    BY <1>3, <1>4 DEF Running
  <2> QED BY <1>0, <1>1, <2>1, DrawnAtFirst DEF ReportInv, FiguresInv, Warm
<1>5. CASE candles # {}
  <2>1. PICK n \in Nat : n = Cardinality(candles)
    BY BacktestAssumption, FS_CardinalityType
  <2>2. times \in [1..n -> candles]
    BY <2>1 DEF OldestFirst
  <2>3. PICK bars : bars = [i \in 1..n |-> [time |-> times[i], open |-> market[times[i]].open,
                                            close |-> market[times[i]].close]]
    OBVIOUS
  <2>4. test' = [step |-> "bar", bars |-> bars, done |-> 0, fee |-> fee, strategy |-> strategy,
                 closeOut |-> closeOut, pending |-> "none"]
    BY <1>3, <1>5, <2>2, <2>3
  <2>5. test'.step = "bar" /\ test'.bars = bars /\ test'.done = 0 /\ test'.fee = fee /\ Running'
    BY <2>4 DEF Running
  <2>6. Len(bars) = n /\ fee \in Nat
    BY <2>3, BacktestAssumption
  <2>7. \A i \in 1..n : bars[i].open \in Int /\ bars[i].close \in Int
    BY <2>2, <2>3, BacktestAssumption
  <2>8. account' = Account0 /\ equity' = Equity0 /\ average' = Fed(<< >>)
    BY <1>1 DEF Fresh
  <2>9. Len(equity'.marks) = 0
    BY <2>8 DEF Equity0
  <2>10. FiguresInv'
    BY <2>5, <2>6, <2>7, <2>8, <2>9, DrawnAtFirst, MoneyAtFirst DEF FiguresInv
  <2>11. Closes(bars, 0) = << >>
    BY DEF Closes
  <2> QED BY <1>0, <2>5, <2>8, <2>10, <2>11 DEF ReportInv, Warm
<1> QED BY <1>4, <1>5

\* An error leaves nothing to report.
LEMMA FailReports ==
    ASSUME ReportInv, StrategyFails
    PROVE  ReportInv'
<1>1. TestInv'
  BY FailKeeps DEF ReportInv
<1>2. ~Running' /\ equity' = Equity0 /\ average' = Fed(<< >>)
  BY DEF StrategyFails, Running
<1> QED BY <1>1, <1>2, DrawnAtFirst DEF ReportInv, FiguresInv, Warm

\* One more close moves both windows.
LEMMA FedMore ==
    ASSUME NEW n \in Nat, NEW m \in Nat, m = n + 1, NEW bars, \A i \in 1..m : bars[i].close \in Int
    PROVE  BothUpdated(Fed(Closes(bars, n)), bars[m].close) = Fed(Closes(bars, m))
<1> DEFINE s == Closes(bars, n)
           t == Closes(bars, m)
<1>1. /\ DOMAIN s = 1..n /\ DOMAIN t = 1..m
      /\ \A i \in 1..m : t[i] = bars[i].close /\ t[i] \in Int
      /\ \A i \in 1..n : s[i] = bars[i].close
  BY DEF Closes
<1> HIDE DEF s, t
<1>2. PICK P : SumsOf(P, t, m)
  BY <1>1, SumsExist
<1>3. \A i \in 1..n : i \in 1..m /\ s[i] = t[i]
  BY <1>1
<1>3a. SumsOf(P, s, n)
  <2>1. \A i \in 0..n : i \in 0..m
    OBVIOUS
  <2> QED BY <1>2, <1>3, <2>1 DEF SumsOf
<1>4. Fed(s) = BothOver(s, P, n) /\ Fed(t) = BothOver(t, P, m)
  BY <1>1, <1>2, <1>3a, FedIs
<1>5. ASSUME NEW window \in Nat \ {0}
      PROVE  Over(s, P, n, window) = Over(t, P, n, window)
  <2>1. PICK a \in 0..n : a = From(n, window)
    BY DEF From
  <2>2. \A i \in 1..(n - a) : a + i \in 1..n
    BY <2>1
  <2>3. \A i \in 1..(n - a) : s[a + i] = t[a + i]
    BY <1>3, <2>2
  <2>4. [i \in 1..(n - a) |-> s[a + i]] = [i \in 1..(n - a) |-> t[a + i]]
    BY <2>3
  <2> QED BY <2>1, <2>4 DEF Over
<1>6. Fast \in Nat \ {0} /\ Slow \in Nat \ {0}
  BY BacktestAssumption
<1>7. Fed(s) = BothOver(t, P, n)
  BY <1>4, <1>5, <1>6 DEF BothOver
<1>8. /\ Updated(Over(t, P, n, Fast), Fast, t[m]) = Over(t, P, m, Fast)
      /\ Updated(Over(t, P, n, Slow), Slow, t[m]) = Over(t, P, m, Slow)
  BY <1>2, <1>6, WindowMoves
<1>9. t[m] = bars[m].close
  BY <1>1
<1>10. BothUpdated(Fed(s), t[m]) = Fed(t)
  BY <1>4, <1>7, <1>8 DEF BothUpdated, BothOver
<1> QED BY <1>9, <1>10 DEF s, t

\* A bar that is over has one more mark.
LEMMA BarReports ==
    ASSUME ReportInv, OnBar
    PROVE  ReportInv'
<1>0. TestInv'
  BY BarKeeps DEF ReportInv
<1>1. /\ test.step = "bar" /\ Running /\ TestShapes /\ OneAnswerABar
      /\ test.done < Len(test.bars)
      /\ FiguresInv /\ Warm
  BY DEF OnBar, ReportInv, TestInv, Running
<1>2. PICK n \in Nat, m \in Nat : n = test.done /\ m = n + 1 /\ m \in 1..Len(test.bars)
  <2>1. test.done \in Nat /\ Len(test.bars) \in Nat
    BY <1>1 DEF OneAnswerABar, TestShapes
  <2> QED BY <1>1, <2>1
<1>3. PICK bar, fee : bar = test.bars[m] /\ fee = test.fee
  OBVIOUS
<1>4. /\ bar.open \in Int /\ bar.close \in Int /\ fee \in Nat
      /\ Money(account, fee) /\ Drawn(equity) /\ Len(equity.marks) = n
      /\ n = 0 => account = Account0
  BY <1>1, <1>2, <1>3 DEF FiguresInv
<1>5. /\ account' = Executed(account, test.pending, bar.open, fee, bar.time)
      /\ equity' = Marks(equity, Marked(account', bar.close))
      /\ average' = BothUpdated(average, bar.close)
      /\ \E decision : test' = [test EXCEPT !.done = @ + 1, !.pending = decision]
  BY <1>2, <1>3 DEF OnBar, FillPrice
<1>6. /\ test'.step = "bar" /\ test'.bars = test.bars /\ test'.done = m /\ test'.fee = fee
      /\ Running'
  <2>1. PICK decision :
          test' = [step |-> "bar", bars |-> test.bars, done |-> n + 1, fee |-> test.fee,
                   strategy |-> test.strategy, closeOut |-> test.closeOut, pending |-> decision]
    BY <1>1, <1>2, <1>5 DEF TestShapes
  <2> QED BY <1>2, <1>3, <2>1 DEF Running
<1>7. Money(account', fee)
  BY <1>4, <1>5, ExecutedKeepsMoney
<1>8. Marked(account', bar.close) \in Int
  <2>1. account'.cash \in Int /\ account'.qty \in Nat
    BY <1>7 DEF Money
  <2> QED BY <1>4, <2>1, BacktestAssumption DEF Marked
<1>9. n = 0 => Marked(account', bar.close) = Cash0
  <2> SUFFICES ASSUME n = 0 PROVE Marked(account', bar.close) = Cash0
    OBVIOUS
  <2>1. test.pending = "none"
    BY <1>1, <1>2 DEF OneAnswerABar
  <2>2. account' = Account0
    BY <1>4, <1>5, <2>1 DEF Executed
  <2>3. account'.cash = Cash0 /\ account'.qty = 0
    BY <2>2 DEF Account0
  <2>4. 0 * bar.close * Parts = 0 /\ Cash0 \in Int
    BY <1>4, BacktestAssumption
  <2> QED BY <2>3, <2>4 DEF Marked
<1>10. Drawn(equity') /\ Len(equity'.marks) = m
  BY <1>2, <1>4, <1>5, <1>8, <1>9, MarkKeepsDrawn
<1>11. \A i \in 1..Len(test.bars) : test.bars[i].open \in Int /\ test.bars[i].close \in Int
  BY <1>1 DEF FiguresInv
<1>12. FiguresInv'
  BY <1>2, <1>4, <1>6, <1>7, <1>10, <1>11 DEF FiguresInv
<1>13. average' = Fed(Closes(test.bars, m))
  <2>1. \A i \in 1..m : test.bars[i].close \in Int
    BY <1>2, <1>11
  <2>2. average = Fed(Closes(test.bars, n))
    BY <1>1, <1>2 DEF Warm
  <2> QED BY <1>2, <1>3, <1>5, <2>1, <2>2, FedMore
<1> QED BY <1>0, <1>6, <1>12, <1>13 DEF ReportInv, Warm

\* The end may sell, and leaves the marks alone.
LEMMA FinishReports ==
    ASSUME ReportInv, Finish
    PROVE  ReportInv'
<1>0. TestInv'
  BY FinishKeeps DEF ReportInv
<1>1. /\ test.step = "bar" /\ Running /\ TestShapes /\ BarsInOrder
      /\ test.done = Len(test.bars)
      /\ FiguresInv /\ Warm
      /\ UNCHANGED <<equity, average>>
  BY DEF Finish, ReportInv, TestInv, Running
<1>2. PICK n, last, fee :
        n = test.done /\ n \in Nat /\ n > 0 /\ last = test.bars[n] /\ fee = test.fee
  BY <1>1 DEF TestShapes, BarsInOrder
<1>3. \/ account' = account
      \/ account' = Executed(account, "flat", last.close, fee, last.time + 1)
  BY <1>1, <1>2 DEF Finish, Last
<1>4. /\ test' = [step |-> "done", bars |-> test.bars, done |-> n, fee |-> fee,
                  strategy |-> test.strategy, closeOut |-> test.closeOut,
                  pending |-> test.pending]
      /\ test'.step = "done" /\ test'.bars = test.bars /\ test'.done = n /\ test'.fee = fee
      /\ Running'
  BY <1>1, <1>2 DEF Finish, TestShapes, Running
<1>5. last.close \in Int /\ fee \in Nat /\ Money(account, fee) /\ Len(equity.marks) = n
  BY <1>1, <1>2 DEF FiguresInv
<1>6. Money(account', fee)
  BY <1>3, <1>5, ExecutedKeepsMoney
<1>7. FiguresInv'
  BY <1>1, <1>2, <1>4, <1>5, <1>6 DEF FiguresInv
<1>8. average' = Fed(Closes(test.bars, n))
  BY <1>1, <1>2 DEF Warm
<1> QED BY <1>0, <1>4, <1>7, <1>8 DEF ReportInv, Warm

\* A step outside the backtest's actions changes nothing.
LEMMA RestReports ==
    ASSUME ReportInv, UNCHANGED testVars
    PROVE  ReportInv'
<1>1. TestInv'
  BY RestKeeps DEF ReportInv
<1>2. test' = test /\ account' = account /\ equity' = equity /\ average' = average
  BY DEF testVars
<1> QED BY <1>1, <1>2 DEF ReportInv, FiguresInv, Warm, Running

\* What the invariant says of money and marks is what the report says.
LEMMA FiguresFollow == ReportInv => FiguresAreTrue
<1> SUFFICES ASSUME ReportInv PROVE FiguresAreTrue
  OBVIOUS
<1>1. DrawdownIsWorstFall
  BY DrawnIs DEF ReportInv, FiguresInv
<1>2. Money(account, test.fee)
  BY MoneyAtFirst DEF ReportInv, FiguresInv, TestInv, Fresh
<1>3. Accounted
  BY <1>2 DEF Money, Accounted
<1> QED BY <1>1, <1>3 DEF FiguresAreTrue

\* What is left of more than a window's closes is the last of them: the rest
\* may as well not have been seen.
LEMMA LastWindow ==
    ASSUME NEW n \in Nat, NEW s \in Seq(Int), Len(s) = n, n > Slow
    PROVE  Fed(SubSeq(s, n - Slow + 1, n)) = Fed(s)
<1> DEFINE recent == SubSeq(s, n - Slow + 1, n)
<1>1. Fast \in Nat \ {0} /\ Slow \in Nat \ {0} /\ Fast < Slow
  BY BacktestAssumption
<1>2. PICK o \in Nat : o = n - Slow
  BY <1>1
<1>3. DOMAIN s = 1..n /\ \A i \in 1..n : s[i] \in Int
  OBVIOUS
<1>4. DOMAIN recent = 1..Slow /\ \A i \in 1..Slow : o + i \in 1..n /\ recent[i] = s[o + i]
  <2>1. recent = [i \in 1..Slow |-> s[i + (n - Slow + 1) - 1]]
    BY <1>1
  <2> QED BY <1>1, <1>2, <2>1
<1> HIDE DEF recent
<1>5. PICK P : SumsOf(P, s, n)
  BY <1>3, SumsExist
<1>6. PICK Q : Q = [i \in 0..Slow |-> P[o + i]]
  OBVIOUS
<1>7. SumsOf(Q, recent, Slow)
  <2>1. ASSUME NEW i \in 0..Slow
        PROVE  Q[i] \in Int
    <3>1. o + i \in 0..n
      BY <1>1, <1>2
    <3> QED BY <1>5, <1>6, <3>1 DEF SumsOf
  <2>2. ASSUME NEW i \in 1..Slow
        PROVE  recent[i] \in Int /\ Q[i] = Q[i - 1] + recent[i]
    <3>1. PICK k \in 1..n : k = o + i
      BY <1>4
    <3>2. s[k] \in Int /\ P[k] = P[k - 1] + s[k]
      BY <1>5 DEF SumsOf
    <3>3. k - 1 = o + (i - 1) /\ i - 1 \in 0..Slow /\ i \in 0..Slow
      BY <1>1, <1>2, <3>1
    <3>4. Q[i] = P[k] /\ Q[i - 1] = P[k - 1]
      BY <1>6, <3>1, <3>3
    <3> QED BY <1>4, <3>1, <3>2, <3>4
  <2> QED BY <2>1, <2>2 DEF SumsOf
<1>8. ASSUME NEW window \in Nat \ {0}, window <= Slow
      PROVE  Over(recent, Q, Slow, window) = Over(s, P, n, window)
  <2>1. PICK a \in Nat, b \in Nat :
          a = From(Slow, window) /\ b = From(n, window) /\ b = o + a /\ a = Slow - window
    BY <1>1, <1>2, <1>8 DEF From
  <2>2. Q[Slow] = P[n] /\ Q[a] = P[b]
    BY <1>1, <1>2, <1>6, <1>8, <2>1
  <2>3. Slow - a = window /\ n - b = window
    BY <1>1, <1>2, <2>1
  <2>4. ASSUME NEW i \in 1..window
        PROVE  recent[a + i] = s[b + i]
    <3>1. PICK k \in 1..Slow : k = a + i
      BY <1>1, <2>1
    <3>2. recent[k] = s[o + k]
      BY <1>4
    <3>3. o + k = b + i
      BY <2>1, <3>1
    <3> QED BY <3>1, <3>2, <3>3
  <2>5. [i \in 1..window |-> recent[a + i]] = [i \in 1..window |-> s[b + i]]
    BY <2>4
  <2>6. /\ Over(recent, Q, Slow, window)
             = [sum |-> Q[Slow] - Q[a], values |-> [i \in 1..window |-> recent[a + i]]]
        /\ Over(s, P, n, window)
             = [sum |-> P[n] - P[b], values |-> [i \in 1..window |-> s[b + i]]]
    BY <2>1, <2>3 DEF Over
  <2> QED BY <2>2, <2>5, <2>6
<1>9. Fed(s) = BothOver(s, P, n) /\ Fed(recent) = BothOver(recent, Q, Slow)
  BY <1>1, <1>3, <1>4, <1>5, <1>7, FedIs
<1>10. BothOver(recent, Q, Slow) = BothOver(s, P, n)
  BY <1>1, <1>8 DEF BothOver
<1> QED BY <1>9, <1>10 DEF recent

LEMMA RewarmsFollow == ReportInv => Rewarms
<1> SUFFICES ASSUME ReportInv, test.step = "bar" PROVE
        LET closes == [i \in 1..test.done |-> test.bars[i].close]
            recent == SubSeq(closes, IF Len(closes) > Slow THEN Len(closes) - Slow + 1 ELSE 1,
                             Len(closes))
        IN average = Fed(recent)
  BY DEF Rewarms
<1> DEFINE closes == [i \in 1..test.done |-> test.bars[i].close]
<1>1. PICK n \in Nat : n = test.done /\ n <= Len(test.bars) /\ Len(test.bars) \in Nat
  BY DEF ReportInv, TestInv, Running, OneAnswerABar, TestShapes
<1>2. average = Fed(closes)
  BY DEF ReportInv, Warm, Running, Closes
<1>3. \A i \in 1..n : test.bars[i].close \in Int
  BY <1>1 DEF ReportInv, FiguresInv, Running
<1>4. closes \in Seq(Int) /\ Len(closes) = n
  BY <1>1, <1>3
<1> HIDE DEF closes
<1>5. CASE n > Slow
  <2>1. Fed(SubSeq(closes, n - Slow + 1, n)) = Fed(closes)
    BY <1>4, <1>5, LastWindow
  <2> QED BY <1>2, <1>4, <1>5, <2>1 DEF closes
<1>6. CASE ~(n > Slow)
  <2>1. SubSeq(closes, 1, n) = closes
    BY <1>4
  <2> QED BY <1>2, <1>4, <1>6, <2>1 DEF closes
<1> QED BY <1>5, <1>6

-----------------------------------------------------------------------------
(* Theorems.                                                                *)

\* What every reachable state reports.
LEMMA ReportInductive == TestSpec => []ReportInv
<1>1. ReportInv /\ [TestNext]_testVars => ReportInv'
  BY LoadReports, FailReports, BarReports, FinishReports, RestReports DEF TestNext
<1> QED BY <1>1, InitReports, PTL DEF TestSpec

\* What a report says of the money and of the worst fall is what happened: no
\* part of a fee or of a rounding is lost or counted twice, whatever the prices,
\* the fee and the decisions (engine/backtest.rs:384-439, 267-282).
THEOREM FiguresAreTrueAlways == TestSpec => []FiguresAreTrue
BY ReportInductive, FiguresFollow, PTL

\* A strategy that restarts and replays the slow window's bars stands where it
\* would have stood, for any windows and any closes (sdk/builtin/sma_cross.rs).
THEOREM RewarmsAlways == TestSpec => []Rewarms
BY ReportInductive, RewarmsFollow, PTL
=============================================================================
