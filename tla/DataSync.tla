------------------------------ MODULE DataSync ------------------------------
(* Syncing one market's candles (engine/data_sync): syncs page through the  *)
(* exchange's klines beside each other, store the settled ones, pack the    *)
(* market's segments, and follow the tail.  A unit of time is as long as a  *)
(* candle takes to settle; a candle is named by its open time.              *)
EXTENDS Integers, FiniteSetsExt

CONSTANTS Syncs, Configs,  \* each sync's configurations: start, end, follow
          Listed,          \* the candles the exchange has, or will have
          Step, Limit,     \* the interval, and the candles in a page
          Drifts,          \* how far a host's clock is from the exchange's
          Stored,          \* the candles already stored
          Time0, MaxTime   \* when it starts, and the bound: when it stops

Never == -1
Settle == 1

ConfigSpace == [start : Nat \cup {Never}, end : Nat \cup {Never}, follow : BOOLEAN]

\* Open times lie on the interval's grid.  What is stored has opened, by the
\* exchange's clock and by every host's.
ASSUME SyncAssumption ==
    /\ Step \in Nat \ {0} /\ Limit \in Nat \ {0} /\ Time0 \in Nat /\ MaxTime \in Nat
    /\ Configs \in [Syncs -> SUBSET ConfigSpace]
    /\ Listed \subseteq Nat /\ IsFiniteSet(Listed) /\ Stored \subseteq Listed
    /\ \A b, c \in Listed : b < c => b + Step <= c
    /\ Drifts \subseteq Int /\ \A d \in Drifts : Time0 + d >= 0
    /\ \A c \in Stored : c <= Time0 /\ \A d \in Drifts : c < Time0 + d

VARIABLES time, drift,    \* the exchange's clock, and each host's distance from it
          store,          \* the stored candles: final, or as they stood
          dirty,          \* whether stored candles wait to be packed
          sync            \* what each sync is doing

vars == <<time, drift, store, dirty, sync>>

Host(s) == time + drift[s]
CloseOf(c) == c + Step - 1

At(s, step) == sync[s].step = step
Least(a, b) == IF a <= b THEN a ELSE b
Most(a, b) == IF a >= b THEN a ELSE b

-----------------------------------------------------------------------------
(* The exchange.                                                            *)

\* The candle's trades are in once the exchange's clock is past its close.
Shape(c) == IF time > CloseOf(c) THEN "final" ELSE "forming"

\* Open times from start to end, oldest first, a page of them.
Klines(start, end) ==
    LET open == {c \in Listed : start <= c /\ c <= end /\ c <= time}
    IN {c \in open : Cardinality({b \in open : b < c}) < Limit}

-----------------------------------------------------------------------------
(* One sync.                                                                *)

\* Mutant: a candle is stored once it closed by this host's clock.
ClosedBy(c, cutoff) == CloseOf(c) < cutoff

SettledBy(c, cutoff) == CloseOf(c) + Settle < cutoff

\* The leading candles that had settled.
SettledOf(page, cutoff) ==
    {c \in page : \A b \in page : b <= c => SettledBy(b, cutoff)}

EffectiveEnd(cfg, now) == IF cfg.end = Never THEN now ELSE Least(cfg.end, now)

Begin(s) ==
    /\ At(s, "off")
    /\ \E cfg \in Configs[s] :
         LET start == IF cfg.start = Never THEN Host(s) ELSE cfg.start
         IN sync' = [sync EXCEPT ![s] =
              [step |-> "pass", cfg |-> [cfg EXCEPT !.start = start], refreshed |-> FALSE,
               held |-> Never, next |-> start]]
    /\ UNCHANGED <<time, drift, store, dirty>>

Continues(it) == it.cfg.end = Never \/ (it.cfg.follow /\ it.next <= it.cfg.end)

Uncovered(it, end) == it.cfg.end # Never /\ it.next <= end /\ it.held # it.next

Ended(it, end) ==
    IF it.cfg.end = Never THEN [step |-> "ended", refreshed |-> it.refreshed]
    ELSE [step |-> "ended", refreshed |-> it.refreshed, start |-> it.cfg.start, end |-> end,
          next |-> it.next, held |-> it.held, warned |-> Uncovered(it, end)]

\* The loop's end: a pause before the next pass, in which the operator may stop
\* the sync.
AfterPass(it, end) ==
    LET pause == [step |-> "pass", cfg |-> it.cfg, refreshed |-> it.refreshed,
                  held |-> it.held, next |-> it.next]
    IN {Ended(it, end)} \cup IF Continues(it) THEN {pause} ELSE {}

\* The clock is read before each request.
Asking(it, end, cursor, wrote, now) ==
    [step |-> "asked", cfg |-> it.cfg, refreshed |-> it.refreshed, held |-> Never,
     next |-> it.next, end |-> end, cursor |-> cursor, wrote |-> wrote, cutoff |-> now]

BeginPass(s) ==
    /\ At(s, "pass")
    /\ LET it == sync[s]
           end == EffectiveEnd(it.cfg, Host(s))
           fetch == Asking(it, end, it.next, FALSE, Host(s))
       IN \E on \in IF it.next <= end THEN {fetch} ELSE AfterPass(it, end) :
            sync' = [sync EXCEPT ![s] = on]
    /\ UNCHANGED <<time, drift, store, dirty>>

\* What the pass keeps once its pages are in.
Fetched(it, held) ==
    [step |-> "fetched", cfg |-> it.cfg, refreshed |-> it.refreshed, held |-> held,
     next |-> it.next, end |-> it.end, wrote |-> it.wrote]

Answered(it, page) ==
    [step |-> "answered", cfg |-> it.cfg, refreshed |-> it.refreshed, held |-> it.held,
     next |-> it.next, end |-> it.end, cursor |-> it.cursor, wrote |-> it.wrote,
     cutoff |-> it.cutoff, page |-> page]

\* The exchange reads its klines while the request is in flight.
Answer(s) ==
    /\ At(s, "asked")
    /\ LET page == Klines(sync[s].cursor, sync[s].end)
       IN sync' = [sync EXCEPT ![s] =
            IF page = {} THEN Fetched(@, Never) ELSE Answered(@, [c \in page |-> Shape(c)])]
    /\ UNCHANGED <<time, drift, store, dirty>>

Failed == [step |-> "failed"]

\* The request, or a store call, fails: so does the sync.
Fail(s) ==
    /\ sync[s].step \in {"asked", "answered", "fetched"}
    /\ sync' = [sync EXCEPT ![s] = Failed]
    /\ UNCHANGED <<time, drift, store, dirty>>

\* Mutant: on from one bar further than the last one fetched.
NextPageShort(last) == last + 2 * Step

NextPage(last) == last + Step

StorePage(s) ==
    /\ At(s, "answered")
    /\ LET page == DOMAIN sync[s].page
           settled == SettledOf(page, sync[s].cutoff)
           held == page \ settled
           cursor == NextPage(Max(page))
           it == [sync[s] EXCEPT !.wrote = @ \/ settled # {}]
       IN /\ store' = [c \in DOMAIN store \cup settled |->
                        IF c \in settled THEN it.page[c] ELSE store[c]]
          /\ dirty' = (dirty \/ settled # {})
          /\ sync' = [sync EXCEPT ![s] =
               IF held # {} THEN Fetched(it, Min(held))
               ELSE IF cursor <= it.end THEN Asking(it, it.end, cursor, it.wrote, Host(s))
               ELSE Fetched(it, Never)]
    /\ UNCHANGED <<time, drift>>

\* The next pass starts after the newest candle of the whole store.
ReadNewest(s) ==
    /\ At(s, "fetched")
    /\ LET it == sync[s]
           next == IF DOMAIN store = {} THEN it.next
                   ELSE Most(it.next, Max(DOMAIN store) + Step)
       IN sync' = [sync EXCEPT ![s] = [it EXCEPT !.step = "packing", !.next = next]]
    /\ UNCHANGED <<time, drift, store, dirty>>

\* After the first pass, after every pass that wrote, and after one that failed.
Packs(it) == it.wrote \/ ~it.refreshed

\* Mutant: a failed refresh is as good as any.
RefreshedAnyhow(done) == TRUE

RefreshedBy(done) == done

\* The marks of a failed refresh remain.
Pack(s) ==
    /\ At(s, "packing")
    /\ LET it == sync[s]
       IN \E done \in IF Packs(it) THEN BOOLEAN ELSE {FALSE} :
            LET refreshed == IF Packs(it) THEN RefreshedBy(done) ELSE TRUE
            IN /\ dirty' = (dirty /\ ~done)
               /\ \E on \in AfterPass([it EXCEPT !.refreshed = refreshed], it.end) :
                    sync' = [sync EXCEPT ![s] = on]
    /\ UNCHANGED <<time, drift, store>>

\* The exchange's clock, and the hosts' with it.
Tick ==
    /\ time < MaxTime
    /\ time' = time + 1
    /\ UNCHANGED <<drift, store, dirty, sync>>

-----------------------------------------------------------------------------
Init ==
    /\ time = Time0
    /\ drift \in [Syncs -> Drifts]
    /\ store = [c \in Stored |-> "final"]
    /\ dirty = (Stored # {})
    /\ sync = [s \in Syncs |-> [step |-> "off"]]

Next ==
    \/ Tick
    \/ \E s \in Syncs :
         \/ Begin(s) \/ BeginPass(s) \/ Answer(s) \/ Fail(s)
         \/ StorePage(s) \/ ReadNewest(s) \/ Pack(s)

Spec == Init /\ [][Next]_vars

-----------------------------------------------------------------------------
(* Properties.                                                              *)

\* What is stored is what the exchange ends up with, whichever clock runs ahead
\* and whenever the exchange reads a candle: a segment packs it for good.
StoredIsFinal == \A c \in DOMAIN store : store[c] = "final"

\* Every candle of the range is stored, up to where what is left over starts
\* at a candle held back.
Covered(it) ==
    \A c \in Listed : it.start <= c /\ c <= it.end =>
        c \in DOMAIN store \/ (it.held = it.next /\ it.held <= c)

EndedBounded(s) == At(s, "ended") /\ "warned" \in DOMAIN sync[s]

\* A bounded sync that ended covered its range or warned of the gap (run's last
\* lines, and the comment over them).
NoSilentGap == \A s \in Syncs : EndedBounded(s) /\ ~sync[s].warned => Covered(sync[s])

\* That holds of a sync no other sync runs beside: pages, held candles, failures
\* and the operator's stop leave no gap of their own.
CoversAlone == (\E s \in Syncs : \A t \in Syncs \ {s} : At(t, "off")) => NoSilentGap

\* Once every sync is over and its last refresh worked, nothing is left to
\* pack, though a refresh failed before and later passes wrote nothing.
PackedWhenDone ==
    LET ran == {s \in Syncs : ~At(s, "off")}
    IN ran # {} /\ (\A s \in ran : At(s, "ended") /\ sync[s].refreshed) => ~dirty
=============================================================================
