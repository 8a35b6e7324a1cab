---------------------------- MODULE SegmentStore ----------------------------
(* The segments of one market: its candles packed window by window into     *)
(* immutable segments, the index that says which segment packs which        *)
(* window, and the marks writers leave on windows whose candles changed     *)
(* (storage/refresh.rs over storage/sqlite/segments and sqlite/candles.rs). *)
(*                                                                          *)
(* Writers, refreshes and plans share one database.  An action is one       *)
(* transaction or one statement of the SQLite backend, so a refresh takes   *)
(* one action per window it reads and one per window it writes back, and    *)
(* writers commit in between.  SegmentStorePg opens those transactions up   *)
(* for PostgreSQL.  Two markets share nothing but segments, which are named *)
(* by their content and never change, so one market is modelled.            *)
EXTENDS Naturals, FiniteSets

CONSTANTS
    Times,         \* the candles' open times, on the interval's grid
    Span,          \* how many open times a window spans
    Values,        \* what a stored candle says
    Unpackable,    \* the values no segment can hold (SegmentError)
    NoCandle,      \* no candle is stored at an open time
    Ids,           \* the ids of dirty marks
    NoMark,        \* a window that is not dirty
    NoEntry,       \* a window that is not indexed
    Refreshers,    \* the calls of refresh_segments that may run at once
    Readers,       \* the jobs that read a range of history by a plan
    Ranges,        \* the first and last open times plans are asked for
    Batches,       \* what upsert_candles is called with
    Emptied,       \* the windows an operator may empty by hand
    StartStores    \* the candles a store may hold when the segment tables appear

ASSUME GridAssumption == /\ Times \subseteq Nat
                         /\ Span \in Nat \ {0}
                         /\ \A t \in Times : t >= Span

ASSUME ValuesAssumption == /\ NoCandle \notin Values
                           /\ Unpackable \subseteq Values

ASSUME RefreshersAssumption == IsFiniteSet(Refreshers)

(* A mark's id is an AUTOINCREMENT key, never used twice.  Ids are only     *)
(* compared for equality, with the id a refresh read earlier, so it is      *)
(* enough that a new mark's id differs from every id a refresh still holds. *)
ASSUME IdsAssumption ==
    /\ NoMark \notin Ids
    /\ IsFiniteSet(Ids) => Cardinality(Ids) > Cardinality(Refreshers)

ASSUME RangesAssumption == Ranges \subseteq Times \X Times

(* A batch has a value a writer may write for each of its open times; the   *)
(* candles of a store an earlier release wrote may not be packable.         *)
ASSUME BatchesAssumption ==
    \A b \in Batches : DOMAIN b \subseteq Times
                       /\ \A t \in DOMAIN b : b[t] \in Values \ Unpackable

ASSUME EmptiedAssumption == Emptied \subseteq {t \div Span : t \in Times}

ASSUME StartStoresAssumption ==
    StartStores \subseteq [Times -> Values \cup {NoCandle}]

-----------------------------------------------------------------------------
(* Windows, counted from the epoch (segments::window).                      *)

WindowOf(t) == t \div Span

Windows == {WindowOf(t) : t \in Times}

\* No window: windows are numbered from 1, as every open time is at least Span.
NoWindow == 0

TimesOf(w) == {t \in Times : WindowOf(t) = w}

WindowStart(w) == w * Span

\* The names an index entry may hold.  A name is the hash of the candles packed
\* under it, so the candles stand for it; its segment is inserted in the
\* transaction that indexes it and nothing deletes or changes it after that,
\* so the segment of a name always opens and the segments table is left out.
Contents(w) == [TimesOf(w) -> Values \cup {NoCandle}]

ASSUME NoEntryAssumption == \A w \in Windows : NoEntry \notin Contents(w)

VARIABLES
    candles,    \* the candles table: [Times -> Values \cup {NoCandle}]
    dirty,      \* segment_dirty: a window's mark, or NoMark
    index,      \* segment_index: the name a window is indexed under, or NoEntry
    phase,      \* where each refresh is
    task,       \* each refresh's tip window, last window, window and tries
    snapshot,   \* the window each refresh read
    plan        \* the plan each reader holds

store == <<candles, dirty, index>>
refresh == <<phase, task, snapshot>>
vars == <<candles, dirty, index, phase, task, snapshot, plan>>

-----------------------------------------------------------------------------
(* The candles of a window, and what they pack to.                          *)

Content(w) == [t \in TimesOf(w) |-> candles[t]]

Held(c) == {t \in DOMAIN c : c[t] # NoCandle}

\* SegmentError: a value no segment can hold.
Packable(c) == \A t \in DOMAIN c : c[t] \notin Unpackable

\* The index entry that is right for these candles: none without candles.
EntryFor(c) == IF Held(c) = {} THEN NoEntry ELSE c

Stored == {t \in Times : candles[t] # NoCandle}

\* The window holding the newest candle; a store without candles has no tip.
IsTip(w) == \E t \in Stored : w = WindowOf(t) /\ \A u \in Stored : u <= t

-----------------------------------------------------------------------------
(* Marks (segments::mark_dirty): INSERT OR REPLACE, so a mark already there *)
(* gets a new id.                                                           *)

\* The ids a refresh read from this window's mark and may still write back under.
InUse(w) == {snapshot[r].id : r \in {q \in Refreshers : task[q].window = w}}

FreshId(w) == CHOOSE id \in Ids : id \notin InUse(w)

\* Mutant: INSERT OR IGNORE, which leaves a mark already there as it is.
MarkDirtyIgnore(ws) ==
    dirty' = [w \in Windows |-> IF w \in ws /\ dirty[w] = NoMark THEN FreshId(w) ELSE dirty[w]]

MarkDirty(ws) ==
    dirty' = [w \in Windows |-> IF w \in ws THEN FreshId(w) ELSE dirty[w]]

-----------------------------------------------------------------------------
(* Writers.                                                                 *)

\* The candles after a batch: the batch's value wherever it has one.
Upserted(batch) ==
    [t \in Times |-> IF t \in DOMAIN batch THEN batch[t] ELSE candles[t]]

\* The windows a batch changes.  A batch that repeats an open time with a
\* value that differs changes the row on the way, whatever it ends as.
Changed(batch, repeated) ==
    {WindowOf(t) : t \in {u \in DOMAIN batch : batch[u] # candles[u]} \cup repeated}

(* upsert_candles: writes a batch and marks, in the same transaction, the   *)
(* windows whose rows it changed; an identical re-sync marks nothing.       *)
Upsert(batch, repeated) ==
    /\ candles' = Upserted(batch)
    /\ MarkDirty(Changed(batch, repeated))
    /\ UNCHANGED <<index, refresh, plan>>

(* An operator deletes a window's candles by hand and marks it, as the      *)
(* conformance case segments.emptied_window does: no code deletes candles.  *)
EmptyWindow(w) ==
    /\ Held(Content(w)) # {}
    /\ candles' = [t \in Times |-> IF t \in TimesOf(w) THEN NoCandle ELSE candles[t]]
    /\ MarkDirty({w})
    /\ UNCHANGED <<index, refresh, plan>>

-----------------------------------------------------------------------------
(* A refresh (storage::refresh::refresh).                                   *)

\* How often a window is read again when a writer keeps marking it.
ATTEMPTS == 3

NoTask == [tip |-> NoWindow, after |-> NoWindow, window |-> NoWindow, tries |-> 0]
NoSnapshot == [id |-> NoMark, candles |-> NoEntry, indexed |-> NoEntry]

\* The refresh returns or fails; either way it holds nothing any more.
Rest(r) ==
    /\ phase' = [phase EXCEPT ![r] = "idle"]
    /\ task' = [task EXCEPT ![r] = NoTask]
    /\ snapshot' = [snapshot EXCEPT ![r] = NoSnapshot]

\* Done with a window, whatever became of it: the search goes on after it.
GoOn(r) ==
    /\ phase' = [phase EXCEPT ![r] = "next"]
    /\ task' = [task EXCEPT ![r].after = task[r].window, ![r].window = NoWindow,
                            ![r].tries = 0]
    /\ snapshot' = [snapshot EXCEPT ![r] = NoSnapshot]

(* The tip window is read once; without candles there is nothing to do.     *)
BeginRefresh(r) ==
    /\ phase[r] = "idle"
    /\ phase' = [phase EXCEPT ![r] = "next"]
    /\ \E tip \in Windows : IsTip(tip) /\ task' = [task EXCEPT ![r].tip = tip]
    /\ UNCHANGED <<store, snapshot, plan>>

\* Mutant: the window just below the tip is left out.
DirtyBelowShort(tip, after) ==
    {w \in Windows : dirty[w] # NoMark /\ after < w /\ w + 1 < tip}

DirtyBelow(tip, after) == {w \in Windows : dirty[w] # NoMark /\ after < w /\ w < tip}

(* next_dirty: the lowest dirty window after the last one, below the tip.   *)
FindDirty(r) ==
    /\ phase[r] = "next"
    /\ \E w \in DirtyBelow(task[r].tip, task[r].after) :
         /\ \A v \in DirtyBelow(task[r].tip, task[r].after) : w <= v
         /\ phase' = [phase EXCEPT ![r] = "read"]
         /\ task' = [task EXCEPT ![r].window = w]
    /\ UNCHANGED <<store, snapshot, plan>>

FindNone(r) ==
    /\ phase[r] = "next"
    /\ DirtyBelow(task[r].tip, task[r].after) = {}
    /\ Rest(r)
    /\ UNCHANGED <<store, plan>>

(* read_window, then pack: the mark, the candles and the entry in one       *)
(* snapshot.  An unmarked window was packed elsewhere; one that cannot be   *)
(* packed is left dirty (Blocked).                                          *)
ReadWindow(r) ==
    LET w == task[r].window IN
    /\ phase[r] = "read"
    /\ dirty[w] # NoMark
    /\ Packable(Content(w))
    /\ phase' = [phase EXCEPT ![r] = "write"]
    /\ snapshot' = [snapshot EXCEPT
                      ![r] = [id |-> dirty[w], candles |-> Content(w), indexed |-> index[w]]]
    /\ UNCHANGED <<store, task, plan>>

SkipWindow(r) ==
    LET w == task[r].window IN
    /\ phase[r] = "read"
    /\ dirty[w] = NoMark \/ ~Packable(Content(w))
    /\ GoOn(r)
    /\ UNCHANGED <<store, plan>>

\* What pack decides and write_window does with it: Keep the entry, Write a
\* new one, or Clear it.
Publish(w, seen) ==
    LET entry == EntryFor(seen.candles) IN
    /\ IF seen.indexed # NoEntry /\ seen.indexed = entry
         THEN UNCHANGED index
         ELSE index' = [index EXCEPT ![w] = entry]
    /\ dirty' = [dirty EXCEPT ![w] = NoMark]
    /\ UNCHANGED candles

(* write_window, Done: the window still carries the mark that was read.     *)
WriteWindow(r) ==
    LET w == task[r].window IN
    /\ phase[r] = "write"
    /\ dirty[w] = snapshot[r].id
    /\ Publish(w, snapshot[r])
    /\ GoOn(r)
    /\ UNCHANGED plan

(* write_window, Elsewhere: another refresh unmarked the window first.      *)
WriteElsewhere(r) ==
    /\ phase[r] = "write"
    /\ dirty[task[r].window] = NoMark
    /\ GoOn(r)
    /\ UNCHANGED <<store, plan>>

\* Mutant: read again for as long as a writer keeps marking it.
WriteMarkedForever(r) ==
    /\ phase[r] = "write"
    /\ dirty[task[r].window] \notin {NoMark, snapshot[r].id}
    /\ phase' = [phase EXCEPT ![r] = "read"]
    /\ snapshot' = [snapshot EXCEPT ![r] = NoSnapshot]
    /\ UNCHANGED <<store, task, plan>>

(* write_window, Marked: a writer marked it again, so it is read again,     *)
(* ATTEMPTS times in all; after that it is Busy, and the search goes on.    *)
WriteMarked(r) ==
    /\ phase[r] = "write"
    /\ dirty[task[r].window] \notin {NoMark, snapshot[r].id}
    /\ IF task[r].tries + 1 < ATTEMPTS
         THEN /\ phase' = [phase EXCEPT ![r] = "read"]
              /\ task' = [task EXCEPT ![r].tries = task[r].tries + 1]
              /\ snapshot' = [snapshot EXCEPT ![r] = NoSnapshot]
         ELSE GoOn(r)
    /\ UNCHANGED <<store, plan>>

(* A call fails with a storage error, or the process dies.                  *)
FailRefresh(r) ==
    /\ phase[r] # "idle"
    /\ Rest(r)
    /\ UNCHANGED <<store, plan>>

(* The write-back's commit takes effect, but its answer is lost             *)
(* (OutcomeUnknown), or the process dies right after it.                    *)
WriteLost(r) ==
    LET w == task[r].window IN
    /\ phase[r] = "write"
    /\ dirty[w] = snapshot[r].id
    /\ Publish(w, snapshot[r])
    /\ Rest(r)
    /\ UNCHANGED plan

-----------------------------------------------------------------------------
(* Plans (resolve_segments), and the jobs that read by them.                *)

NoPlan == [phase |-> "none"]

\* Mutant: the index is trusted up to the tip, dirty windows and all.
DistrustedTip(tip) == {tip}

\* refresh::tip_start: the tip window, or the lowest dirty window below it, is
\* where a plan stops trusting the index.
Distrusted(tip) == {tip} \cup {w \in Windows : dirty[w] # NoMark}

IsTipStart(w) ==
    \E tip \in Windows :
      IsTip(tip) /\ w \in Distrusted(tip) /\ \A v \in Distrusted(tip) : w <= v

\* The entries below the tip start that overlap the range, by their first and
\* last open times.
Entries(start, first, last) ==
    {w \in Windows : /\ w < start
                     /\ index[w] # NoEntry
                     /\ \E t \in Held(index[w]) : t >= first
                     /\ \E t \in Held(index[w]) : t <= last}

\* A plan of a range: its segments by window, and the first open time it leaves
\* to the candle store, which is past last when there is no tip.
Planned(first, last, named, tipFirst) ==
    [phase |-> "planned", first |-> first, last |-> last, named |-> named,
     tipFirst |-> tipFirst]

(* One snapshot of the tip, the marks and the index (refresh::plan).        *)
Resolve(p, first, last) ==
    /\ plan[p] = NoPlan
    /\ first <= last
    /\ \E start \in Windows :
         /\ IsTipStart(start)
         /\ plan' = [plan EXCEPT ![p] =
              Planned(first, last,
                      [w \in Entries(start, first, last) |-> index[w]],
                      IF WindowStart(start) > first THEN WindowStart(start) ELSE first)]
    /\ UNCHANGED <<store, refresh>>

(* Without candles the whole range is tip (refresh::all_tip).               *)
ResolveEmpty(p, first, last) ==
    /\ plan[p] = NoPlan
    /\ first <= last
    /\ Stored = {}
    /\ plan' = [plan EXCEPT ![p] = Planned(first, last, [w \in {} |-> NoEntry], first)]
    /\ UNCHANGED <<store, refresh>>

(* The job reads the tip from the candle store, some time later.            *)
ReadTip(p) ==
    /\ plan[p].phase = "planned"
    /\ plan' = [plan EXCEPT ![p] =
         [phase |-> "read", first |-> plan[p].first, last |-> plan[p].last,
          named |-> plan[p].named, tipFirst |-> plan[p].tipFirst,
          tip |-> [t \in {u \in Times : plan[p].tipFirst <= u /\ u <= plan[p].last}
                     |-> candles[t]]]]
    /\ UNCHANGED <<store, refresh>>

Release(p) ==
    /\ plan[p].phase = "read"
    /\ plan' = [plan EXCEPT ![p] = NoPlan]
    /\ UNCHANGED <<store, refresh>>

-----------------------------------------------------------------------------
(* A store starts without segments: fresh, or an earlier release's, whose   *)
(* every window with candles the migration marks.                           *)
Init ==
    /\ candles \in StartStores
    /\ dirty = [w \in Windows |-> IF Held(Content(w)) = {} THEN NoMark
                                  ELSE CHOOSE id \in Ids : TRUE]
    /\ index = [w \in Windows |-> NoEntry]
    /\ phase = [r \in Refreshers |-> "idle"]
    /\ task = [r \in Refreshers |-> NoTask]
    /\ snapshot = [r \in Refreshers |-> NoSnapshot]
    /\ plan = [p \in Readers |-> NoPlan]

Write ==
    \/ \E b \in Batches : \E repeated \in SUBSET DOMAIN b : Upsert(b, repeated)
    \/ \E w \in Emptied : EmptyWindow(w)

RefreshStep(r) ==
    \/ BeginRefresh(r)
    \/ FindDirty(r)
    \/ FindNone(r)
    \/ ReadWindow(r)
    \/ SkipWindow(r)
    \/ WriteWindow(r)
    \/ WriteElsewhere(r)
    \/ WriteMarked(r)

Fault(r) == FailRefresh(r) \/ WriteLost(r)

Read(p) ==
    \/ \E range \in Ranges : \/ Resolve(p, range[1], range[2])
                            \/ ResolveEmpty(p, range[1], range[2])
    \/ ReadTip(p)
    \/ Release(p)

Next ==
    \/ Write
    \/ \E r \in Refreshers : RefreshStep(r) \/ Fault(r)
    \/ \E p \in Readers : Read(p)

Spec == Init /\ [][Next]_vars

(* A refresh that was called goes on: it is a plain loop that never waits   *)
(* for another.  Nothing makes anyone call it: data sync does after its     *)
(* first pass and after those that store candles (data_sync/mod.rs:106),    *)
(* and `trade run` never does.                                              *)
GoesOn(r) == phase[r] # "idle" /\ RefreshStep(r)

FairSpec == Spec /\ \A r \in Refreshers : WF_vars(GoesOn(r))

-----------------------------------------------------------------------------
(* Properties.                                                              *)

Phases == {"idle", "next", "read", "write"}

StoreTypeOK ==
    /\ candles \in [Times -> Values \cup {NoCandle}]
    /\ dirty \in [Windows -> Ids \cup {NoMark}]
    /\ index = [w \in Windows |-> index[w]]
    /\ \A w \in Windows : index[w] \in Contents(w) \cup {NoEntry}

Tasks == [tip : Windows \cup {NoWindow}, after : Windows \cup {NoWindow},
          window : Windows \cup {NoWindow}, tries : 0..(ATTEMPTS - 1)]

Snapshots(w) == [id : Ids, candles : Contents(w), indexed : Contents(w) \cup {NoEntry}]

RefreshTypeOK ==
    /\ phase \in [Refreshers -> Phases]
    /\ task \in [Refreshers -> Tasks]
    /\ snapshot = [r \in Refreshers |-> snapshot[r]]
    /\ \A r \in Refreshers :
         /\ phase[r] \in {"read", "write"} => task[r].window \in Windows
         /\ IF phase[r] = "write" THEN snapshot[r] \in Snapshots(task[r].window)
                                  ELSE snapshot[r] = NoSnapshot

(* Every variable keeps its shape: an entry names contents of its own       *)
(* window, and a refresh past "next" works on a window and, until it writes *)
(* back, holds a snapshot of that window and of no other.                   *)
TypeOK == StoreTypeOK /\ RefreshTypeOK /\ DOMAIN plan = Readers

(* sqlite/segments/mod.rs: every window below the tip is either marked      *)
(* dirty or indexed under the name of exactly its current candles.  It      *)
(* holds of the tip window as well, so a candle that moves the tip up needs *)
(* no mark on the window it leaves behind.                                  *)
IndexedOrDirty ==
    \A w \in Windows : dirty[w] # NoMark \/ index[w] = EntryFor(Content(w))

(* While a window carries the mark a refresh read, the refresh's snapshot   *)
(* is still the window: its candles, and the entry Keep would leave alone.  *)
SnapshotCurrent ==
    \A r \in Refreshers :
      LET w == task[r].window IN
      (phase[r] = "write" /\ dirty[w] = snapshot[r].id)
        => /\ snapshot[r].candles = Content(w)
           /\ snapshot[r].indexed = index[w]
           /\ Packable(Content(w))

(* A reader by plan reads what CandleReads lets it: for every open time the *)
(* plan leaves to segments or leaves out, the candle stored when it was     *)
(* planned; for the others, the one stored when the tip was read.           *)
AskedOf(p) == {t \in Times : plan[p].first <= t /\ t <= plan[p].last}

InTip(p, t) == plan[p].tipFirst <= t

\* What the plan says of an open time below its tip.
Packed(p, t) ==
    IF WindowOf(t) \in DOMAIN plan[p].named
    THEN plan[p].named[WindowOf(t)][t] ELSE NoCandle

ReadSoFar(p) ==
    IF plan[p] = NoPlan THEN [wants |-> {}, has |-> [t \in {} |-> NoCandle]]
    ELSE [wants |-> AskedOf(p),
          has |-> [t \in {u \in AskedOf(p) : InTip(p, u) => plan[p].phase = "read"} |->
                     IF InTip(p, t) THEN plan[p].tip[t] ELSE Packed(p, t)]]

Reads == INSTANCE CandleReads WITH job <- [p \in Readers |-> ReadSoFar(p)]

PlansReadTheStore == Reads!Spec

(* A refresh retries a window a writer keeps marking only ATTEMPTS times,   *)
(* so it ends even beside a writer that never does.                         *)
RefreshEnds == \A r \in Refreshers : phase[r] # "idle" ~> phase[r] = "idle"
=============================================================================
