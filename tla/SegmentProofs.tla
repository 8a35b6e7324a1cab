--------------------------- MODULE SegmentProofs ---------------------------
(* The segments of one market, for every grid, batch and number of writers, *)
(* refreshes and readers, first on SQLite (SegmentStore), then on           *)
(* PostgreSQL (SegmentStorePg).                                             *)
EXTENDS SegmentStorePg, SegmentPasses, FiniteSetTheorems, WellFoundedInduction, TLAPS

-----------------------------------------------------------------------------
(* SQLite.  The invariant is the types, IndexedOrDirty and SnapshotCurrent. *)
(* IndexedOrDirty alone is not inductive: a write-back publishes what it    *)
(* read earlier, so it also takes that the snapshot is still the window     *)
(* while the mark it read is in place.                                      *)

IInv == TypeOK /\ IndexedOrDirty /\ SnapshotCurrent

(* A new mark's id is an id, and none a refresh of the window still holds:  *)
(* there are more ids than refreshes.                                       *)
LEMMA FreshIdIsFresh ==
    \A w \in Windows : FreshId(w) \in Ids /\ FreshId(w) \notin InUse(w)
<1> SUFFICES ASSUME NEW w \in Windows
             PROVE  \E id \in Ids : id \notin InUse(w)
  BY DEF FreshId
<1> DEFINE Held0 == {snapshot[r].id : r \in Refreshers}
<1> DEFINE f == [r \in Refreshers |-> snapshot[r].id]
<1>0. f \in Surjection(Refreshers, Held0)
  BY DEF Surjection
<1>1. IsFiniteSet(Held0) /\ Cardinality(Held0) <= Cardinality(Refreshers)
  <2> HIDE DEF f, Held0
  <2> QED BY <1>0, FS_Surjection, RefreshersAssumption
<1>2. InUse(w) \subseteq Held0
  BY DEF InUse
<1>3. SUFFICES ASSUME Ids \subseteq Held0 PROVE FALSE
  BY <1>2
<1>4. IsFiniteSet(Ids) /\ Cardinality(Ids) <= Cardinality(Held0)
  BY <1>1, <1>3, FS_Subset
<1>5. /\ Cardinality(Ids) \in Nat
      /\ Cardinality(Held0) \in Nat
      /\ Cardinality(Refreshers) \in Nat
  BY <1>1, <1>4, FS_CardinalityType, RefreshersAssumption
<1> QED
  BY <1>1, <1>4, <1>5, IdsAssumption
-----------------------------------------------------------------------------

LEMMA SomeId == \E id \in Ids : TRUE
<1> SUFFICES ASSUME Ids = {} PROVE FALSE
  OBVIOUS
<1>1. IsFiniteSet(Ids) /\ Cardinality(Ids) = 0
  BY FS_EmptySet
<1>2. Cardinality(Refreshers) \in Nat
  BY FS_CardinalityType, RefreshersAssumption
<1> QED
  BY <1>1, <1>2, IdsAssumption

LEMMA InitEstablishes == Init => IInv
<1> SUFFICES ASSUME Init PROVE IInv
  OBVIOUS
<1>1. (CHOOSE id \in Ids : TRUE) \in Ids /\ (CHOOSE id \in Ids : TRUE) # NoMark
  BY SomeId, IdsAssumption
<1>2. StoreTypeOK
  <2>1. candles \in [Times -> Values \cup {NoCandle}]
    BY StartStoresAssumption DEF Init
  <2> QED BY <2>1, <1>1 DEF Init, StoreTypeOK
<1>3. RefreshTypeOK
  BY DEF Init, RefreshTypeOK, Phases, Tasks, NoTask, ATTEMPTS
<1>4. IndexedOrDirty
  BY <1>1 DEF Init, IndexedOrDirty, EntryFor
<1>5. SnapshotCurrent
  BY DEF Init, SnapshotCurrent
<1> QED
  BY <1>2, <1>3, <1>4, <1>5 DEF IInv, TypeOK, Init

(* What both writers do: they mark every window whose candles they change.  *)
LEMMA MarkingPreserves ==
  ASSUME IInv, NEW ws \in SUBSET Windows,
         candles' \in [Times -> Values \cup {NoCandle}],
         \A w \in Windows \ ws : Content(w)' = Content(w),
         MarkDirty(ws),
         UNCHANGED <<index, refresh, plan>>
  PROVE  IInv'
<1> USE DEF IInv, refresh
<1>1. \A w \in ws : dirty'[w] \in Ids /\ dirty'[w] # NoMark /\ dirty'[w] \notin InUse(w)
  BY FreshIdIsFresh, IdsAssumption DEF MarkDirty
<1>2. \A w \in Windows \ ws : dirty'[w] = dirty[w]
  BY DEF MarkDirty
<1>3. TypeOK'
  <2>1. StoreTypeOK'
    <3>1. dirty' \in [Windows -> Ids \cup {NoMark}]
      BY <1>1, <1>2 DEF MarkDirty, TypeOK, StoreTypeOK
    <3> QED BY <3>1 DEF TypeOK, StoreTypeOK, Contents
  <2>2. RefreshTypeOK'
    BY DEF TypeOK, RefreshTypeOK, Snapshots, Contents
  <2> QED BY <2>1, <2>2 DEF TypeOK
<1>4. IndexedOrDirty'
  <2> SUFFICES ASSUME NEW w \in Windows, dirty'[w] = NoMark
               PROVE  index'[w] = EntryFor(Content(w))'
    BY DEF IndexedOrDirty
  <2>1. w \notin ws
    BY <1>1
  <2> QED BY <2>1, <1>2 DEF IndexedOrDirty, EntryFor
<1>5. SnapshotCurrent'
  <2> SUFFICES ASSUME NEW r \in Refreshers, phase[r] = "write",
                      dirty'[task[r].window] = snapshot[r].id
               PROVE  /\ snapshot[r].candles = Content(task[r].window)'
                      /\ snapshot[r].indexed = index[task[r].window]
                      /\ Packable(Content(task[r].window))'
    BY DEF SnapshotCurrent
  <2>1. task[r].window \in Windows
    BY DEF TypeOK, RefreshTypeOK
  <2>2. snapshot[r].id \in InUse(task[r].window)
    BY DEF InUse
  <2>3. task[r].window \notin ws
    BY <1>1, <2>2
  <2> QED BY <2>1, <2>3, <1>2 DEF SnapshotCurrent, Packable
<1> QED BY <1>3, <1>4, <1>5

LEMMA UpsertPreserves ==
  ASSUME IInv, NEW b \in Batches, NEW repeated \in SUBSET DOMAIN b, Upsert(b, repeated)
  PROVE  IInv'
<1> DEFINE ws == Changed(b, repeated)
<1>1. ws \in SUBSET Windows
  BY BatchesAssumption DEF Changed, Windows
<1>2. candles' \in [Times -> Values \cup {NoCandle}]
  BY BatchesAssumption DEF Upsert, Upserted, IInv, TypeOK, StoreTypeOK
<1>3. ASSUME NEW w \in Windows \ ws PROVE Content(w)' = Content(w)
  <2>1. \A t \in TimesOf(w) : candles'[t] = candles[t]
    BY <1>3 DEF Upsert, Upserted, Changed, TimesOf
  <2> QED BY <2>1 DEF Content, TimesOf
<1> QED
  BY <1>1, <1>2, <1>3, MarkingPreserves DEF Upsert

LEMMA EmptyWindowPreserves ==
  ASSUME IInv, NEW v \in Windows, EmptyWindow(v)
  PROVE  IInv'
<1>1. candles' \in [Times -> Values \cup {NoCandle}]
  BY DEF EmptyWindow, IInv, TypeOK, StoreTypeOK
<1>2. ASSUME NEW w \in Windows \ {v} PROVE Content(w)' = Content(w)
  <2>1. \A t \in TimesOf(w) : candles'[t] = candles[t]
    BY <1>2 DEF EmptyWindow, TimesOf
  <2> QED BY <2>1 DEF Content, TimesOf
<1> QED
  BY <1>1, <1>2, MarkingPreserves DEF EmptyWindow

(* A step of one refresh that leaves the store alone and ends outside       *)
(* "write": it can only disturb the types of its own task.                  *)
LEMMA LettingGoPreserves ==
  ASSUME IInv, NEW r \in Refreshers, UNCHANGED <<store, plan>>,
         NEW to \in Phases \ {"write"}, NEW job \in Tasks,
         to = "read" => job.window \in Windows,
         phase' = [phase EXCEPT ![r] = to],
         task' = [task EXCEPT ![r] = job],
         snapshot' = [snapshot EXCEPT ![r] = NoSnapshot]
  PROVE  IInv'
<1> USE DEF IInv
<1>1. StoreTypeOK'
  BY DEF TypeOK, StoreTypeOK, store, Contents
<1>2. RefreshTypeOK'
  BY DEF TypeOK, RefreshTypeOK, Snapshots, Contents
<1>3. IndexedOrDirty'
  BY DEF IndexedOrDirty, store, EntryFor, Content
<1>4. SnapshotCurrent'
  BY DEF SnapshotCurrent, store, Content, Packable, TypeOK, RefreshTypeOK
<1> QED
  BY <1>1, <1>2, <1>3, <1>4 DEF TypeOK

LEMMA ReadWindowPreserves ==
  ASSUME IInv, NEW r \in Refreshers, ReadWindow(r)
  PROVE  IInv'
<1> USE DEF IInv, ReadWindow
<1> DEFINE w == task[r].window
<1>0. w \in Windows
  BY DEF TypeOK, RefreshTypeOK
<1>1. Content(w) \in Contents(w)
  BY DEF TypeOK, StoreTypeOK, Content, Contents, TimesOf
<1>2. StoreTypeOK'
  BY DEF TypeOK, StoreTypeOK, store, Contents
<1>3. RefreshTypeOK'
  <2>1. snapshot'[r] \in Snapshots(w)
    BY <1>0, <1>1 DEF TypeOK, StoreTypeOK, RefreshTypeOK, Snapshots
  <2> QED BY <1>0, <2>1 DEF TypeOK, RefreshTypeOK, Snapshots, Contents, Phases
<1>4. IndexedOrDirty'
  BY DEF IndexedOrDirty, store, EntryFor, Content
<1>5. SnapshotCurrent'
  BY DEF SnapshotCurrent, store, Content, Packable, TypeOK, RefreshTypeOK
<1> QED
  BY <1>2, <1>3, <1>4, <1>5 DEF TypeOK

(* A write-back that found the mark it read: the window gets the entry of   *)
(* the candles it read, which are its candles still, and loses the mark, so *)
(* no other refresh's snapshot of it counts any more.                       *)
LEMMA PublishPreserves ==
  ASSUME IInv, NEW r \in Refreshers, phase[r] = "write",
         dirty[task[r].window] = snapshot[r].id,
         Publish(task[r].window, snapshot[r]), UNCHANGED plan,
         NEW to \in {"idle", "next"}, NEW job \in Tasks,
         phase' = [phase EXCEPT ![r] = to],
         task' = [task EXCEPT ![r] = job],
         snapshot' = [snapshot EXCEPT ![r] = NoSnapshot]
  PROVE  IInv'
<1> USE DEF IInv
<1> DEFINE w == task[r].window
<1>1. w \in Windows /\ snapshot[r] \in Snapshots(w)
  BY DEF TypeOK, RefreshTypeOK
<1>2. snapshot[r].candles = Content(w) /\ snapshot[r].indexed = index[w]
  BY DEF SnapshotCurrent
<1>3. index' = [index EXCEPT ![w] = EntryFor(Content(w))]
  <2>1. index = [v \in Windows |-> index[v]]
    BY DEF TypeOK, StoreTypeOK
  <2>2. CASE index[w] = EntryFor(Content(w))
    BY <1>1, <1>2, <2>1, <2>2 DEF Publish
  <2>3. CASE index[w] # EntryFor(Content(w))
    BY <1>2, <2>3 DEF Publish
  <2> QED BY <2>2, <2>3
<1>4. dirty' = [dirty EXCEPT ![w] = NoMark] /\ candles' = candles
  BY DEF Publish
<1>5. StoreTypeOK'
  <2>1. EntryFor(Content(w)) \in Contents(w) \cup {NoEntry}
    BY <1>1, <1>2 DEF EntryFor, Snapshots
  <2> QED BY <1>3, <1>4, <2>1 DEF TypeOK, StoreTypeOK, Contents
<1>6. RefreshTypeOK'
  BY DEF TypeOK, RefreshTypeOK, Snapshots, Contents, Phases
<1>7. IndexedOrDirty'
  <2>1. \A v \in Windows : Content(v)' = Content(v)
    BY <1>4 DEF Content
  <2> SUFFICES ASSUME NEW v \in Windows, dirty'[v] = NoMark
               PROVE  index'[v] = EntryFor(Content(v))
    BY <2>1 DEF IndexedOrDirty, EntryFor
  <2>2. CASE v = w
    BY <2>2, <1>1, <1>3 DEF TypeOK, StoreTypeOK
  <2>3. CASE v # w
    BY <2>3, <1>3, <1>4 DEF IndexedOrDirty, TypeOK, StoreTypeOK
  <2> QED BY <2>2, <2>3
<1>8. SnapshotCurrent'
  <2> SUFFICES ASSUME NEW q \in Refreshers, phase'[q] = "write",
                      dirty'[task'[q].window] = snapshot'[q].id
               PROVE  /\ snapshot'[q].candles = Content(task[q].window)'
                      /\ snapshot'[q].indexed = index'[task'[q].window]
                      /\ Packable(Content(task[q].window))'
    BY DEF SnapshotCurrent
  <2>0. phase \in [Refreshers -> Phases] /\ task \in [Refreshers -> Tasks]
    BY DEF TypeOK, RefreshTypeOK
  <2>1. q # r
    BY <2>0
  <2>2. phase[q] = "write" /\ task'[q] = task[q] /\ snapshot'[q] = snapshot[q]
    BY <2>0, <2>1 DEF TypeOK, RefreshTypeOK
  <2>3. task[q].window \in Windows /\ snapshot[q].id \in Ids
    BY <2>2 DEF TypeOK, RefreshTypeOK, Snapshots
  <2>4. task[q].window # w
    BY <1>1, <1>4, <2>2, <2>3, IdsAssumption DEF TypeOK, StoreTypeOK
  <2> QED
    BY <1>3, <1>4, <2>2, <2>3, <2>4
       DEF SnapshotCurrent, Content, Packable, TypeOK, StoreTypeOK
<1> QED
  BY <1>5, <1>6, <1>7, <1>8, <1>4 DEF TypeOK

(* The task a refresh goes on with after a window, and none at rest, are    *)
(* tasks.                                                                   *)
LEMMA TaskAfter ==
  ASSUME RefreshTypeOK, NEW r \in Refreshers
  PROVE  /\ NoTask \in Tasks
         /\ task[r] \in Tasks
         /\ [task[r] EXCEPT !.after = task[r].window, !.window = NoWindow, !.tries = 0] \in Tasks
<1>1. 0 \in 0..(ATTEMPTS - 1)
  BY DEF ATTEMPTS
<1>2. task[r] \in Tasks
  BY DEF RefreshTypeOK
<1> QED
  BY <1>1, <1>2 DEF Tasks, NoTask

LEMMA RefreshStepPreserves ==
  ASSUME IInv, NEW r \in Refreshers, RefreshStep(r) \/ Fault(r)
  PROVE  IInv'
<1>0. RefreshTypeOK
  BY DEF IInv, TypeOK
<1>1. NoTask \in Tasks /\ task[r] \in Tasks
  BY <1>0, TaskAfter
<1>2. ASSUME GoOn(r), UNCHANGED <<store, plan>> PROVE IInv'
  <2> DEFINE job == [task[r] EXCEPT !.after = task[r].window, !.window = NoWindow, !.tries = 0]
  <2>1. job \in Tasks /\ task' = [task EXCEPT ![r] = job]
    BY <1>0, <1>2, TaskAfter DEF GoOn
  <2> HIDE DEF job
  <2> QED BY <1>2, <2>1, LettingGoPreserves DEF GoOn, Phases
<1>3. ASSUME Rest(r), UNCHANGED <<store, plan>> PROVE IInv'
  BY <1>1, <1>3, LettingGoPreserves DEF Rest, Phases
<1>4. CASE BeginRefresh(r)
  <2> PICK tip \in Windows : task' = [task EXCEPT ![r].tip = tip]
    BY <1>4 DEF BeginRefresh
  <2> DEFINE job == [task[r] EXCEPT !.tip = tip]
  <2>1. job \in Tasks /\ task' = [task EXCEPT ![r] = job]
    BY <1>1 DEF Tasks
  <2>2. snapshot' = [snapshot EXCEPT ![r] = NoSnapshot]
    BY <1>0, <1>4 DEF BeginRefresh, RefreshTypeOK
  <2> HIDE DEF job
  <2> QED BY <1>4, <2>1, <2>2, LettingGoPreserves DEF BeginRefresh, Phases
<1>5. CASE FindDirty(r)
  <2> PICK w \in Windows : /\ phase' = [phase EXCEPT ![r] = "read"]
                           /\ task' = [task EXCEPT ![r].window = w]
    BY <1>5 DEF FindDirty, DirtyBelow
  <2> DEFINE job == [task[r] EXCEPT !.window = w]
  <2>1. job \in Tasks /\ job.window \in Windows /\ task' = [task EXCEPT ![r] = job]
    BY <1>1 DEF Tasks
  <2>2. snapshot' = [snapshot EXCEPT ![r] = NoSnapshot]
    BY <1>0, <1>5 DEF FindDirty, RefreshTypeOK
  <2> HIDE DEF job
  <2> QED BY <1>5, <2>1, <2>2, LettingGoPreserves DEF FindDirty, Phases
<1>6. CASE FindNone(r)
  BY <1>3, <1>6 DEF FindNone
<1>7. CASE ReadWindow(r)
  BY <1>7, ReadWindowPreserves
<1>8. CASE SkipWindow(r)
  BY <1>2, <1>8 DEF SkipWindow
<1>9. CASE WriteWindow(r)
  <2> DEFINE job == [task[r] EXCEPT !.after = task[r].window, !.window = NoWindow, !.tries = 0]
  <2>1. job \in Tasks /\ task' = [task EXCEPT ![r] = job]
    BY <1>0, <1>9, TaskAfter DEF WriteWindow, GoOn
  <2> HIDE DEF job
  <2> QED BY <1>9, <2>1, PublishPreserves DEF WriteWindow, GoOn
<1>10. CASE WriteElsewhere(r)
  BY <1>2, <1>10 DEF WriteElsewhere
<1>11. CASE WriteMarked(r)
  <2>1. CASE task[r].tries + 1 < ATTEMPTS
    <3> DEFINE job == [task[r] EXCEPT !.tries = task[r].tries + 1]
    <3>1. job \in Tasks /\ task' = [task EXCEPT ![r] = job]
      BY <1>1, <1>11, <2>1 DEF WriteMarked, Tasks, ATTEMPTS
    <3>2. job.window \in Windows
      BY <1>0, <1>1, <1>11 DEF WriteMarked, RefreshTypeOK, Tasks
    <3> HIDE DEF job
    <3> QED BY <1>11, <2>1, <3>1, <3>2, LettingGoPreserves DEF WriteMarked, Phases
  <2>2. CASE ~(task[r].tries + 1 < ATTEMPTS)
    BY <1>2, <1>11, <2>2 DEF WriteMarked
  <2> QED BY <2>1, <2>2
<1>12. CASE FailRefresh(r)
  BY <1>3, <1>12 DEF FailRefresh
<1>13. CASE WriteLost(r)
  BY <1>1, <1>13, PublishPreserves DEF WriteLost, Rest
<1> QED
  BY <1>4, <1>5, <1>6, <1>7, <1>8, <1>9, <1>10, <1>11, <1>12, <1>13
     DEF RefreshStep, Fault

(* A reader changes nothing but its plan.                                   *)
LEMMA ReadPreserves ==
  ASSUME IInv, NEW p \in Readers, Read(p)
  PROVE  IInv'
<1>1. UNCHANGED <<store, refresh>> /\ DOMAIN plan' = DOMAIN plan
  BY DEF Read, Resolve, ResolveEmpty, ReadTip, Release
<1> QED
  BY <1>1 DEF IInv, TypeOK, StoreTypeOK, RefreshTypeOK, IndexedOrDirty, SnapshotCurrent, store,
              refresh, Content, Contents, EntryFor, Packable, Snapshots

LEMMA StutterPreserves ==
  ASSUME IInv, UNCHANGED vars
  PROVE  IInv'
BY DEF vars, IInv, TypeOK, StoreTypeOK, RefreshTypeOK, IndexedOrDirty, SnapshotCurrent,
       Content, Contents, EntryFor, Packable, Snapshots

LEMMA NextPreserves == IInv /\ [Next]_vars => IInv'
<1> SUFFICES ASSUME IInv, [Next]_vars PROVE IInv'
  OBVIOUS
<1>1. CASE Write
  BY <1>1, UpsertPreserves, EmptyWindowPreserves, EmptiedAssumption DEF Write, Windows, WindowOf
<1>2. CASE \E r \in Refreshers : RefreshStep(r) \/ Fault(r)
  BY <1>2, RefreshStepPreserves
<1>3. CASE \E p \in Readers : Read(p)
  BY <1>3, ReadPreserves
<1>4. CASE UNCHANGED vars
  BY <1>4, StutterPreserves
<1> QED
  BY <1>1, <1>2, <1>3, <1>4 DEF Next

-----------------------------------------------------------------------------

THEOREM Inductive == Spec => []IInv
BY InitEstablishes, NextPreserves, PTL DEF Spec

(* The store's variables and every refresh's keep their types.              *)
THEOREM TypeCorrect == Spec => []TypeOK
BY Inductive, PTL DEF IInv

(* Every window is dirty or indexed under exactly its current candles,      *)
(* however writers, refreshes, crashes and lost answers interleave.         *)
THEOREM IndexCorrect == Spec => []IndexedOrDirty
BY Inductive, PTL DEF IInv

(* While its mark is in place, what a refresh read is what is stored.       *)
THEOREM SnapshotCorrect == Spec => []SnapshotCurrent
BY Inductive, PTL DEF IInv

-----------------------------------------------------------------------------
(* What a pass leaves (SegmentPasses).  PassPacks is not inductive: a pass  *)
(* is right about what lies behind it because nothing it has gone by was    *)
(* dirty, unless it could not be packed or has changed since; and a mark it *)
(* finds replaced when it writes back has been replaced since it began.     *)

Clean(w) == dirty[w] = NoMark \/ ~Packable(Content(w))

\* The windows below the tip the pass has gone by.
Behind(r, w) ==
    /\ w < task[r].tip
    /\ phase[r] = "next" => w <= task[r].after
    /\ phase[r] # "next" => w < task[r].window

Passed(r) ==
    \A w \in Windows \ changed[r] :
      /\ Behind(r, w) => Clean(w)
      /\ phase[r] = "write" /\ w = task[r].window => dirty[w] \in {NoMark, snapshot[r].id}

PassInv ==
    /\ changed \in [Refreshers -> SUBSET Windows]
    /\ \A r \in Refreshers : IF phase[r] = "idle" THEN task[r] = NoTask ELSE Passed(r)

\* Windows are counted from the epoch.
LEMMA WindowNat == Windows \subseteq Nat
<1>1. \A t \in Nat, span \in Nat \ {0} : t \div span \in Nat
  OBVIOUS
<1> QED
  BY <1>1, GridAssumption DEF Windows, WindowOf

\* Windows are numbered from 1.
LEMMA WindowPositive == \A w \in Windows : w >= 1
<1>1. \A t \in Nat, span \in Nat \ {0} : t >= span => t \div span >= 1
  OBVIOUS
<1> QED BY <1>1, GridAssumption DEF Windows, WindowOf

\* A step of the store with its history is a step of the store.
LEMMA PassIsSpec == PassSpec => Spec
<1>1. PassInit => Init
  BY DEF PassInit
<1>2. [PassNext]_passVars => [Next]_vars
  BY DEF PassNext, passVars
<1> QED BY <1>1, <1>2, PTL DEF PassSpec, Spec

\* A window nobody touches stays clean and gets no new mark.
LEMMA Untouched ==
    ASSUME NEW w \in Windows, w \notin Touched
    PROVE  /\ Content(w)' = Content(w) /\ dirty'[w] \in {NoMark, dirty[w]}
           /\ Clean(w) => Clean(w)'
<1>1. Content(w)' = Content(w) /\ dirty'[w] \in {NoMark, dirty[w]}
  BY DEF Touched
<1>2. Clean(w)' = (dirty'[w] = NoMark \/ ~Packable(Content(w)'))
  BY DEF Clean, Packable
<1> QED BY <1>1, <1>2 DEF Clean

\* A refresh that has begun: what the others do leaves it where it is.
LEMMA OthersPass ==
    ASSUME NEW r \in Refreshers, phase[r] # "idle", Passed(r),
           phase'[r] = phase[r], task'[r] = task[r], snapshot'[r] = snapshot[r],
           changed'[r] = changed[r] \cup Touched
    PROVE  Passed(r)'
<1> SUFFICES ASSUME NEW w \in Windows, w \notin changed'[r]
             PROVE  /\ Behind(r, w)' => Clean(w)'
                    /\ phase'[r] = "write" /\ w = task'[r].window
                         => dirty'[w] \in {NoMark, snapshot'[r].id}
  BY DEF Passed
<1>1. w \notin changed[r] /\ w \notin Touched
  OBVIOUS
<1>2. Behind(r, w)' => Behind(r, w)
  BY DEF Behind
<1> QED BY <1>1, <1>2, Untouched DEF Passed

\* A pass that goes on past a window that is clean now, or that was changed.
LEMMA GoesPast ==
    ASSUME TypeOK, NEW r \in Refreshers, phase[r] \in {"read", "write"}, Passed(r), GoOn(r),
           changed'[r] = changed[r] \cup Touched,
           \A w \in Windows \ changed'[r] : w = task[r].window => Clean(w)'
    PROVE  Passed(r)'
<1>1. /\ phase'[r] = "next" /\ task'[r].tip = task[r].tip
      /\ task'[r].after = task[r].window
  BY DEF GoOn, TypeOK, RefreshTypeOK, Tasks
<1> SUFFICES ASSUME NEW w \in Windows, w \notin changed'[r], Behind(r, w)' PROVE Clean(w)'
  BY <1>1 DEF Passed
<1>2. w < task[r].tip /\ w <= task[r].window
  BY <1>1 DEF Behind
<1>3. CASE w = task[r].window
  BY <1>3
<1>4. CASE w # task[r].window
  <2>1. w \in Nat /\ task[r].window \in Nat
    BY WindowNat DEF TypeOK, RefreshTypeOK
  <2>2. w < task[r].window
    BY <1>2, <1>4, <2>1
  <2>3. Behind(r, w)
    BY <1>2, <2>2 DEF Behind
  <2>4. Clean(w) /\ w \notin Touched
    BY <2>3 DEF Passed
  <2> QED BY <2>4, Untouched
<1> QED BY <1>3, <1>4

\* Every step keeps what a pass leaves.
LEMMA PassStep ==
    ASSUME IInv, PassInv, PassNext PROVE PassInv'
<1>0. /\ TypeOK /\ Next
      /\ changed' = [r \in Refreshers |-> IF phase[r] = "idle" \/ phase'[r] = "idle"
                                          THEN {} ELSE changed[r] \cup Touched]
  BY DEF IInv, PassNext
<1>1. changed' \in [Refreshers -> SUBSET Windows]
  BY <1>0 DEF PassInv, Touched
<1> SUFFICES ASSUME NEW r \in Refreshers
             PROVE  IF phase'[r] = "idle" THEN task'[r] = NoTask ELSE Passed(r)'
  BY <1>1 DEF PassInv
<1>2. /\ phase \in [Refreshers -> Phases] /\ task \in [Refreshers -> Tasks]
      /\ DOMAIN snapshot = Refreshers
  BY <1>0 DEF TypeOK, RefreshTypeOK
<1>3. IF phase[r] = "idle" THEN task[r] = NoTask ELSE Passed(r)
  BY DEF PassInv
<1>4. CASE phase'[r] = phase[r] /\ task'[r] = task[r] /\ snapshot'[r] = snapshot[r]
  <2>1. CASE phase[r] = "idle"
    BY <1>3, <1>4, <2>1
  <2>2. CASE phase[r] # "idle"
    <3>1. changed'[r] = changed[r] \cup Touched
      BY <1>0, <1>4, <2>2
    <3> QED BY <1>3, <1>4, <2>2, <3>1, OthersPass
  <2> QED BY <2>1, <2>2
<1>5. CASE UNCHANGED refresh
  BY <1>4, <1>5 DEF refresh
<1>6. CASE Write \/ \E p \in Readers : Read(p)
  BY <1>5, <1>6 DEF Write, Upsert, EmptyWindow, Read, Resolve, ResolveEmpty, ReadTip, Release
<1>7. CASE \E q \in Refreshers : RefreshStep(q) \/ Fault(q)
  <2>1. PICK q \in Refreshers : RefreshStep(q) \/ Fault(q)
    BY <1>7
  <2>2. CASE q # r
    <3>1. phase'[r] = phase[r] /\ task'[r] = task[r] /\ snapshot'[r] = snapshot[r]
      BY <1>2, <2>1, <2>2
         DEF RefreshStep, Fault, BeginRefresh, FindDirty, FindNone, ReadWindow, SkipWindow,
             WriteWindow, WriteElsewhere, WriteMarked, FailRefresh, WriteLost, Rest, GoOn
    <3> QED BY <1>4, <3>1
  <2>3. CASE q = r
    <3>1. RefreshStep(r) \/ Fault(r)
      BY <2>1, <2>3
    <3>2. CASE FindNone(r) \/ Fault(r)
      <4>1. phase'[r] = "idle" /\ task'[r] = NoTask
        BY <1>2, <3>2 DEF FindNone, Fault, FailRefresh, WriteLost, Rest
      <4> QED BY <4>1
    <3>3. CASE BeginRefresh(r)
      <4>1. phase[r] = "idle" /\ phase'[r] = "next"
        BY <1>2, <3>3 DEF BeginRefresh
      <4>2. PICK tip \in Windows : task' = [task EXCEPT ![r].tip = tip]
        BY <3>3 DEF BeginRefresh
      <4>3. task'[r].after = 0
        BY <1>2, <1>3, <4>1, <4>2 DEF NoTask, NoWindow, Tasks
      <4>4. \A w \in Windows : ~(w <= 0)
        BY WindowNat, WindowPositive
      <4>5. \A w \in Windows : ~Behind(r, w)'
        BY <4>1, <4>3, <4>4 DEF Behind
      <4> QED BY <4>1, <4>5 DEF Passed
    <3>4. /\ ~(FindNone(r) \/ Fault(r) \/ BeginRefresh(r))
          => phase[r] # "idle" /\ phase'[r] # "idle" /\ changed'[r] = changed[r] \cup Touched
      <4> SUFFICES ASSUME ~(FindNone(r) \/ Fault(r) \/ BeginRefresh(r))
                   PROVE  /\ phase[r] # "idle" /\ phase'[r] # "idle"
                          /\ changed'[r] = changed[r] \cup Touched
        OBVIOUS
      <4>1. phase[r] # "idle" /\ phase'[r] # "idle"
        BY <1>2, <3>1 DEF RefreshStep, FindDirty, ReadWindow, SkipWindow, WriteWindow,
                          WriteElsewhere, WriteMarked, GoOn
      <4> QED BY <1>0, <4>1
    <3>5. CASE FindDirty(r)
      <4>1. PICK next \in DirtyBelow(task[r].tip, task[r].after) :
              /\ \A v \in DirtyBelow(task[r].tip, task[r].after) : next <= v
              /\ phase' = [phase EXCEPT ![r] = "read"]
              /\ task' = [task EXCEPT ![r].window = next]
        BY <3>5 DEF FindDirty
      <4>2. /\ phase[r] = "next" /\ phase'[r] = "read"
            /\ task'[r].window = next /\ task'[r].tip = task[r].tip
            /\ next \in Windows /\ next < task[r].tip
        BY <1>2, <3>5, <4>1 DEF FindDirty, DirtyBelow, Tasks
      <4>3. changed[r] \subseteq changed'[r] /\ UNCHANGED <<candles, dirty>>
        <5>1. ~(FindNone(r) \/ Fault(r) \/ BeginRefresh(r))
          BY <1>2, <4>2 DEF FindNone, Fault, FailRefresh, WriteLost, BeginRefresh, Rest
        <5> QED BY <3>4, <3>5, <5>1 DEF FindDirty, store
      <4>4. SUFFICES ASSUME NEW w \in Windows, w \notin changed[r], w < task[r].tip, w < next
                     PROVE  Clean(w)'
        BY <4>2, <4>3 DEF Passed, Behind
      <4>5. Clean(w)
        <5>1. CASE w <= task[r].after
          BY <1>3, <4>2, <4>4, <5>1 DEF Passed, Behind
        <5>2. CASE ~(w <= task[r].after)
          <6>1. w \in Nat /\ task[r].after \in Nat /\ next \in Nat
            <7>1. task[r].after \in Windows \cup {0}
              BY <1>2 DEF Tasks, NoWindow
            <7>2. \A v \in Windows \cup {0} : v \in Nat
              BY WindowNat
            <7> QED BY <4>2, <7>1, <7>2
          <6>2. w \notin DirtyBelow(task[r].tip, task[r].after)
            BY <4>1, <4>4, <6>1
          <6>3. task[r].after < w
            BY <5>2, <6>1
          <6> QED BY <4>4, <6>2, <6>3 DEF DirtyBelow, Clean
        <5> QED BY <5>1, <5>2
      <4> QED BY <4>3, <4>5 DEF Clean, Content
    <3>6. CASE ReadWindow(r)
      <4>1. /\ phase[r] = "read" /\ phase'[r] = "write" /\ task' = task /\ UNCHANGED store
            /\ snapshot'[r].id = dirty[task[r].window]
        BY <1>2, <3>6 DEF ReadWindow
      <4>2. changed[r] \subseteq changed'[r]
        <5>1. ~(FindNone(r) \/ Fault(r) \/ BeginRefresh(r))
          BY <1>2, <4>1 DEF FindNone, Fault, FailRefresh, WriteLost, BeginRefresh, Rest
        <5> QED BY <3>4, <5>1
      <4>3. Passed(r)
        BY <1>3, <4>1
      <4> QED BY <4>1, <4>2, <4>3 DEF Passed, Behind, Clean, Content, store
    <3>7. CASE SkipWindow(r) \/ WriteElsewhere(r) \/ WriteWindow(r)
      <4>1. /\ phase[r] \in {"read", "write"} /\ GoOn(r) /\ phase'[r] = "next"
        BY <1>2, <3>7 DEF SkipWindow, WriteElsewhere, WriteWindow, GoOn
      <4>2. changed'[r] = changed[r] \cup Touched
        <5>1. ~(FindNone(r) \/ Fault(r) \/ BeginRefresh(r))
          BY <1>2, <4>1 DEF FindNone, Fault, FailRefresh, WriteLost, BeginRefresh, Rest
        <5> QED BY <3>4, <5>1
      <4>3. \A w \in Windows : w = task[r].window => Clean(w)'
        <5>1. CASE SkipWindow(r) \/ WriteElsewhere(r)
          BY <5>1 DEF SkipWindow, WriteElsewhere, Clean, Content, Packable, store
        <5>2. CASE WriteWindow(r)
          <6>1. dirty' = [dirty EXCEPT ![task[r].window] = NoMark]
            BY <5>2 DEF WriteWindow, Publish
          <6>2. \A w \in Windows : w = task[r].window => dirty'[w] = NoMark
            BY <1>0, <6>1 DEF TypeOK, StoreTypeOK
          <6> QED BY <6>2 DEF Clean
        <5> QED BY <3>7, <5>1, <5>2
      <4> QED BY <1>0, <1>3, <4>1, <4>2, <4>3, GoesPast
    <3>8. CASE WriteMarked(r)
      <4>1. /\ phase[r] = "write" /\ UNCHANGED store
            /\ dirty[task[r].window] \notin {NoMark, snapshot[r].id}
            /\ phase'[r] \in {"read", "next"}
        BY <1>2, <3>8 DEF WriteMarked, GoOn
      <4>2. changed'[r] = changed[r] \cup Touched
        <5>1. ~(FindNone(r) \/ Fault(r) \/ BeginRefresh(r))
          BY <1>2, <4>1 DEF FindNone, Fault, FailRefresh, WriteLost, BeginRefresh, Rest
        <5> QED BY <3>4, <5>1
      <4>3. Passed(r) /\ task[r].window \in Windows
        BY <1>0, <1>3, <4>1 DEF TypeOK, RefreshTypeOK
      <4>4. task[r].window \in changed'[r]
        BY <4>1, <4>2, <4>3 DEF Passed
      <4>5. CASE task[r].tries + 1 < ATTEMPTS
        <5>1. phase'[r] = "read" /\ task'[r].window = task[r].window /\ task'[r].tip = task[r].tip
          BY <1>2, <3>8, <4>5 DEF WriteMarked, Tasks
        <5> QED BY <4>1, <4>2, <4>3, <5>1 DEF Passed, Behind, Clean, Content, store
      <4>6. CASE ~(task[r].tries + 1 < ATTEMPTS)
        <5>1. GoOn(r)
          BY <3>8, <4>6 DEF WriteMarked
        <5> QED BY <1>0, <4>1, <4>2, <4>3, <4>4, <5>1, GoesPast
      <4> QED BY <4>5, <4>6
    <3> QED BY <3>1, <3>2, <3>3, <3>5, <3>6, <3>7, <3>8 DEF RefreshStep
  <2> QED BY <2>2, <2>3
<1> QED BY <1>0, <1>6, <1>7 DEF Next

LEMMA PassInductive == PassSpec => [](IInv /\ PassInv)
<1>1. PassInit => PassInv
  BY DEF PassInit, Init, PassInv
<1>2. IInv /\ PassInv /\ [PassNext]_passVars => PassInv'
  <2>1. ASSUME PassInv, UNCHANGED passVars PROVE PassInv'
    BY <2>1 DEF passVars, vars, PassInv, Passed, Behind, Clean, Content
  <2> QED BY <2>1, PassStep
<1>3. PassSpec => []IInv
  BY PassIsSpec, Inductive, PTL
<1> QED BY <1>1, <1>2, <1>3, PTL DEF PassSpec

\* A pass leaves nothing it could have packed behind but what changed while it
\* ran, however many refreshes and writers meet on a window (next_dirty,
\* write_window, ATTEMPTS).
THEOREM PassPacksAlways == PassSpec => PassPacks
<1> DEFINE Left == \A r \in Refreshers : FindNone(r) => LeavesPacked(r)
<1>1. IInv /\ PassInv /\ [PassNext]_passVars => [Left]_passVars
  <2> SUFFICES ASSUME IInv, PassInv, NEW r \in Refreshers, FindNone(r),
                      NEW w \in Windows \ changed[r], w < task[r].tip
               PROVE  Clean(w)
    BY DEF LeavesPacked, Clean
  <2>1. phase[r] = "next" /\ DirtyBelow(task[r].tip, task[r].after) = {} /\ Passed(r)
    BY DEF FindNone, PassInv
  <2>2. CASE w <= task[r].after
    BY <2>1, <2>2 DEF Passed, Behind
  <2>3. CASE ~(w <= task[r].after)
    <3>1. w \in Nat /\ task[r].after \in Nat
      BY WindowNat DEF IInv, TypeOK, RefreshTypeOK, Tasks, NoWindow
    <3>2. task[r].after < w
      BY <2>3, <3>1
    <3> QED BY <2>1, <3>2 DEF DirtyBelow, Clean
  <2> QED BY <2>2, <2>3
<1> QED BY <1>1, PassInductive, PTL DEF PassSpec, PassPacks

-----------------------------------------------------------------------------
(* Reading by a plan implements CandleReads, for every grid, range, batch   *)
(* and number of readers and refreshes.  A plan is right about the windows  *)
(* below its tip start because none of them is dirty, so that, by           *)
(* IndexCorrect, each is indexed under its current candles; everything else *)
(* the job reads from the candle store itself.                              *)

(* A reader's plan is none, one just made, or one whose tip was read.       *)
PlanOK ==
    \A p \in Readers :
      \/ plan[p] = NoPlan
      \/ plan[p].phase = "planned"
      \/ /\ plan[p].phase = "read"
         /\ plan[p] # NoPlan
         /\ plan[p].tip = [t \in {u \in Times : plan[p].tipFirst <= u /\ u <= plan[p].last}
                             |-> plan[p].tip[t]]

PlanInv == IInv /\ plan = [p \in Readers |-> plan[p]] /\ PlanOK

LEMMA PlannedPhase ==
    \A first, last, named, tipFirst :
      /\ Planned(first, last, named, tipFirst).phase = "planned"
      /\ Planned(first, last, named, tipFirst) # NoPlan
BY DEF Planned, NoPlan

LEMMA InitPlan == Init => PlanInv
<1> SUFFICES ASSUME Init PROVE PlanInv
  OBVIOUS
<1> QED
  BY InitEstablishes DEF Init, PlanInv, PlanOK

LEMMA NextPlan == PlanInv /\ [Next]_vars => PlanInv'
<1> SUFFICES ASSUME PlanInv, [Next]_vars PROVE PlanInv'
  OBVIOUS
<1>1. IInv'
  BY NextPreserves DEF PlanInv
<1>2. CASE UNCHANGED plan
  BY <1>1, <1>2 DEF PlanInv, PlanOK
<1>3. CASE \E p \in Readers : Read(p)
  <2> PICK p \in Readers : Read(p)
    BY <1>3
  <2>1. CASE \E range \in Ranges : Resolve(p, range[1], range[2])
    <3> PICK first, last, named, tipFirst :
          plan' = [plan EXCEPT ![p] = Planned(first, last, named, tipFirst)]
      BY <2>1 DEF Resolve
    <3> QED BY <1>1, PlannedPhase DEF PlanInv, PlanOK
  <2>2. CASE \E range \in Ranges : ResolveEmpty(p, range[1], range[2])
    <3> PICK first, last, named, tipFirst :
          plan' = [plan EXCEPT ![p] = Planned(first, last, named, tipFirst)]
      BY <2>2 DEF ResolveEmpty
    <3> QED BY <1>1, PlannedPhase DEF PlanInv, PlanOK
  <2>3. CASE ReadTip(p)
    BY <1>1, <2>3 DEF ReadTip, PlanInv, PlanOK, NoPlan
  <2>4. CASE Release(p)
    BY <1>1, <2>4 DEF Release, PlanInv, PlanOK
  <2> QED BY <2>1, <2>2, <2>3, <2>4 DEF Read
<1>4. CASE Write \/ UNCHANGED vars
  BY <1>2, <1>4 DEF Write, Upsert, EmptyWindow, vars
<1>5. CASE \E r \in Refreshers : RefreshStep(r) \/ Fault(r)
  BY <1>2, <1>5 DEF RefreshStep, Fault, BeginRefresh, FindDirty, FindNone, ReadWindow, SkipWindow,
                    WriteWindow, WriteElsewhere, WriteMarked, FailRefresh, WriteLost
<1> QED
  BY <1>3, <1>4, <1>5 DEF Next

-----------------------------------------------------------------------------
(* What the plan says of a range's open times below its tip is what is      *)
(* stored there.                                                            *)

LEMMA WindowBelow ==
  ASSUME NEW t \in Nat, NEW w \in Nat
  PROVE  t < WindowStart(w) <=> WindowOf(t) < w
BY GridAssumption DEF WindowStart, WindowOf

LEMMA CleanBelowTipStart ==
  ASSUME IInv, NEW start \in Windows, IsTipStart(start),
         NEW first \in Times, NEW last \in Times,
         NEW t \in Times, first <= t, t <= last, WindowOf(t) < start
  PROVE  IF WindowOf(t) \in Entries(start, first, last)
         THEN index[WindowOf(t)][t] = candles[t]
         ELSE candles[t] = NoCandle
<1> DEFINE w == WindowOf(t)
<1>1. w \in Windows /\ t \in TimesOf(w)
  BY DEF Windows, TimesOf
<1>2. dirty[w] = NoMark
  BY <1>1, GridAssumption DEF IsTipStart, Distrusted, Windows, WindowOf
<1>3. index[w] = EntryFor(Content(w))
  BY <1>1, <1>2 DEF IInv, IndexedOrDirty
<1>4. DOMAIN Content(w) = TimesOf(w) /\ Content(w)[t] = candles[t]
  BY <1>1 DEF Content
<1>5. CASE Held(Content(w)) = {}
  BY <1>1, <1>3, <1>4, <1>5 DEF EntryFor, Held, Entries
<1>6. CASE Held(Content(w)) # {} /\ candles[t] # NoCandle
  <2>1. t \in Held(index[w])
    BY <1>1, <1>3, <1>4, <1>6 DEF EntryFor, Held
  <2>2. index[w] = Content(w) /\ index[w] # NoEntry
    <3>1. Content(w) \in Contents(w)
      BY DEF IInv, TypeOK, StoreTypeOK, Content, Contents, TimesOf
    <3> QED BY <1>1, <1>3, <1>6, <3>1, NoEntryAssumption DEF EntryFor
  <2>3. w \in Entries(start, first, last)
    BY <1>1, <2>1, <2>2 DEF Entries
  <2> QED BY <1>4, <2>2, <2>3
<1>7. CASE Held(Content(w)) # {} /\ candles[t] = NoCandle
  BY <1>3, <1>4, <1>7 DEF EntryFor
<1> QED
  BY <1>5, <1>6, <1>7

-----------------------------------------------------------------------------
(* The refinement: what each reader has read so far maps to its job.        *)

LEMMA PlanInitMaps == Init => Reads!Init
<1> SUFFICES ASSUME Init PROVE Reads!Init
  OBVIOUS
<1>1. candles \in [Times -> Values \cup {NoCandle}]
  BY StartStoresAssumption DEF Init
<1>2. [p \in Readers |-> ReadSoFar(p)] = [p \in Readers |-> Reads!Idle]
  BY DEF Init, ReadSoFar, Reads!Idle
<1> QED
  BY <1>1, <1>2 DEF Reads!Init

(* A step that changes no plan changes no job.                              *)
LEMMA SameJobs ==
  ASSUME UNCHANGED plan
  PROVE  [p \in Readers |-> ReadSoFar(p)]' = [p \in Readers |-> ReadSoFar(p)]
BY DEF ReadSoFar, AskedOf, InTip, Packed

(* A step of one reader changes only its own job.                           *)
LEMMA OneJob ==
  ASSUME NEW p \in Readers, NEW now, plan' = [plan EXCEPT ![p] = now],
         plan = [q \in Readers |-> plan[q]]
  PROVE  [q \in Readers |-> ReadSoFar(q)]'
           = [[q \in Readers |-> ReadSoFar(q)] EXCEPT ![p] = ReadSoFar(p)']
<1>1. ASSUME NEW q \in Readers, q # p PROVE ReadSoFar(q)' = ReadSoFar(q)
  <2>1. plan'[q] = plan[q]
    BY <1>1
  <2> QED BY <2>1 DEF ReadSoFar, AskedOf, InTip, Packed
<1> QED
  BY <1>1

(* Making a plan begins a job that has, at once, what the plan says of the  *)
(* open times below its tip, if the plan is right about them.               *)
LEMMA PlannedMaps ==
  ASSUME PlanInv, NEW p \in Readers, plan[p] = NoPlan, UNCHANGED candles,
         NEW first \in Times, NEW last \in Times, NEW named, NEW tipFirst,
         plan' = [plan EXCEPT ![p] = Planned(first, last, named, tipFirst)],
         \A t \in Times : (first <= t /\ t <= last /\ ~(tipFirst <= t)) =>
            (IF WindowOf(t) \in DOMAIN named THEN named[WindowOf(t)][t] ELSE NoCandle)
              = candles[t]
  PROVE  Reads!Begin(p)
<1> DEFINE job == [q \in Readers |-> ReadSoFar(q)]
           asked == Reads!Asked(first, last)
           now == {u \in asked : ~(tipFirst <= u)}
<1>1. plan'[p] = Planned(first, last, named, tipFirst)
  BY DEF PlanInv
<1>2. /\ plan'[p].phase = "planned" /\ plan'[p] # NoPlan
      /\ plan'[p].first = first /\ plan'[p].last = last
      /\ plan'[p].named = named /\ plan'[p].tipFirst = tipFirst
  BY <1>1, PlannedPhase DEF Planned
<1>3. AskedOf(p)' = asked
  BY <1>2 DEF AskedOf, Reads!Asked
<1>4. {u \in AskedOf(p)' : InTip(p, u)' => plan'[p].phase = "read"} = now
  BY <1>2, <1>3 DEF InTip
<1>5. ReadSoFar(p)' = [wants |-> asked, has |-> [t \in now |-> candles[t]]]
  <2>1. ReadSoFar(p)' = [wants |-> asked,
                         has |-> [t \in now |-> IF InTip(p, t)' THEN plan'[p].tip[t]
                                                ELSE Packed(p, t)']]
    BY <1>2, <1>3, <1>4 DEF ReadSoFar
  <2>2. \A t \in now : ~InTip(p, t)' /\ Packed(p, t)' = candles[t]
    BY <1>2 DEF InTip, Packed, Reads!Asked
  <2> QED BY <2>1, <2>2
<1>6. Reads!Taking(Reads!Idle.has, now) = [t \in now |-> candles[t]]
  BY DEF Reads!Taking, Reads!Idle
<1>7. job[p] = Reads!Idle
  BY DEF ReadSoFar, Reads!Idle
<1>8. job' = [job EXCEPT ![p] = [wants |-> asked, has |-> Reads!Taking(Reads!Idle.has, now)]]
  BY <1>5, <1>6, OneJob DEF PlanInv
<1>9. now \in SUBSET Reads!Asked(first, last) /\ asked = Reads!Asked(first, last)
  OBVIOUS
<1> HIDE DEF now, asked
<1> QED
  BY <1>7, <1>8, <1>9 DEF Reads!Begin

LEMMA ResolveMaps ==
  ASSUME PlanInv, NEW p \in Readers, NEW first \in Times, NEW last \in Times,
         Resolve(p, first, last) \/ ResolveEmpty(p, first, last)
  PROVE  Reads!Begin(p)
<1>1. CASE Resolve(p, first, last)
  <2> PICK start \in Windows :
        /\ IsTipStart(start)
        /\ plan' = [plan EXCEPT ![p] =
             Planned(first, last,
                     [w \in Entries(start, first, last) |-> index[w]],
                     IF WindowStart(start) > first THEN WindowStart(start) ELSE first)]
    BY <1>1 DEF Resolve
  <2> DEFINE named == [w \in Entries(start, first, last) |-> index[w]]
             tipFirst == IF WindowStart(start) > first THEN WindowStart(start) ELSE first
  <2>0. start \in Nat
    BY GridAssumption DEF Windows, WindowOf
  <2>1. ASSUME NEW t \in Times, first <= t, t <= last, ~(tipFirst <= t)
        PROVE  (IF WindowOf(t) \in DOMAIN named THEN named[WindowOf(t)][t] ELSE NoCandle)
                 = candles[t]
    <3>1. WindowStart(start) \in Nat /\ t \in Nat /\ first \in Nat
      BY <2>0, GridAssumption DEF WindowStart
    <3>2. t < WindowStart(start)
      BY <2>1, <3>1
    <3>3. WindowOf(t) < start
      BY <2>0, <3>1, <3>2, WindowBelow
    <3> QED BY <2>1, <3>3, CleanBelowTipStart DEF PlanInv
  <2>2. plan[p] = NoPlan /\ UNCHANGED candles
    BY <1>1 DEF Resolve, store
  <2> HIDE DEF named, tipFirst
  <2> QED BY <2>1, <2>2, PlannedMaps DEF named, tipFirst
<1>2. CASE ResolveEmpty(p, first, last)
  <2>1. plan[p] = NoPlan /\ UNCHANGED candles
    BY <1>2 DEF ResolveEmpty, store
  <2>2. plan' = [plan EXCEPT ![p] = Planned(first, last, [w \in {} |-> NoEntry], first)]
    BY <1>2 DEF ResolveEmpty
  <2> QED BY <2>1, <2>2, PlannedMaps
<1> QED
  BY <1>1, <1>2

(* Reading the tip completes the job with the candles stored at that moment.*)
LEMMA ReadTipMaps ==
  ASSUME PlanInv, NEW p \in Readers, ReadTip(p)
  PROVE  Reads!Complete(p)
<1> DEFINE job == [q \in Readers |-> ReadSoFar(q)]
           rest == {u \in Times : plan[p].tipFirst <= u /\ u <= plan[p].last}
           now == [phase |-> "read", first |-> plan[p].first, last |-> plan[p].last,
                   named |-> plan[p].named, tipFirst |-> plan[p].tipFirst,
                   tip |-> [t \in rest |-> candles[t]]]
           soon == {u \in AskedOf(p) : ~InTip(p, u)}
<1>1. plan'[p] = now /\ plan[p].phase = "planned" /\ plan[p] # NoPlan /\ UNCHANGED candles
  BY DEF ReadTip, PlanInv, NoPlan, store
<1>2. /\ plan'[p].phase = "read" /\ plan'[p] # NoPlan
      /\ plan'[p].first = plan[p].first /\ plan'[p].last = plan[p].last
      /\ plan'[p].named = plan[p].named /\ plan'[p].tipFirst = plan[p].tipFirst
      /\ plan'[p].tip = [t \in rest |-> candles[t]]
  BY <1>1 DEF NoPlan
<1> HIDE DEF now
<1>3. /\ AskedOf(p)' = AskedOf(p)
      /\ \A t : InTip(p, t)' = InTip(p, t) /\ Packed(p, t)' = Packed(p, t)
  BY <1>2 DEF AskedOf, InTip, Packed
<1>4. ReadSoFar(p) = [wants |-> AskedOf(p), has |-> [t \in soon |-> Packed(p, t)]]
  <2>1. {u \in AskedOf(p) : InTip(p, u) => plan[p].phase = "read"} = soon
    BY <1>1
  <2> QED BY <1>1, <2>1 DEF ReadSoFar
<1>5. ReadSoFar(p)' = [wants |-> AskedOf(p),
                       has |-> [t \in AskedOf(p) |-> IF InTip(p, t) THEN candles[t]
                                                     ELSE Packed(p, t)]]
  <2>1. {u \in AskedOf(p)' : InTip(p, u)' => plan'[p].phase = "read"} = AskedOf(p)
    BY <1>2, <1>3
  <2>2. \A t \in AskedOf(p) : InTip(p, t) => plan'[p].tip[t] = candles[t]
    BY <1>2 DEF AskedOf, InTip
  <2> QED BY <1>2, <1>3, <2>1, <2>2 DEF ReadSoFar
<1>6. Reads!Taking(job[p].has, job[p].wants)
        = [t \in AskedOf(p) |-> IF InTip(p, t) THEN candles[t] ELSE Packed(p, t)]
  <2>1. job[p].has = [t \in soon |-> Packed(p, t)] /\ job[p].wants = AskedOf(p)
    BY <1>4
  <2>2. soon \cup AskedOf(p) = AskedOf(p)
    OBVIOUS
  <2> QED BY <2>1, <2>2 DEF Reads!Taking
<1>7. job' = [job EXCEPT ![p].has = Reads!Taking(job[p].has, job[p].wants)]
  <2>1. job' = [job EXCEPT ![p] = ReadSoFar(p)']
    BY OneJob DEF ReadTip, PlanInv
  <2>2. ReadSoFar(p)' = [job[p] EXCEPT !.has = Reads!Taking(job[p].has, job[p].wants)]
    BY <1>4, <1>5, <1>6
  <2> QED BY <2>1, <2>2
<1> QED
  BY <1>1, <1>7 DEF Reads!Complete

LEMMA ReleaseMaps ==
  ASSUME PlanInv, NEW p \in Readers, Release(p)
  PROVE  Reads!End(p)
<1> DEFINE job == [q \in Readers |-> ReadSoFar(q)]
<1>1. plan[p].phase = "read" /\ plan[p] # NoPlan /\ UNCHANGED candles
  BY DEF Release, NoPlan, store
<1>2. DOMAIN job[p].has = job[p].wants
  BY <1>1 DEF ReadSoFar
<1>3. ReadSoFar(p)' = Reads!Idle
  BY DEF Release, PlanInv, ReadSoFar, Reads!Idle
<1>4. job' = [job EXCEPT ![p] = Reads!Idle]
  BY <1>3, OneJob DEF Release, PlanInv
<1> QED
  BY <1>1, <1>2, <1>4 DEF Reads!End

LEMMA NextMaps == PlanInv /\ [Next]_vars => [Reads!Next]_(Reads!vars)
<1> SUFFICES ASSUME PlanInv, [Next]_vars PROVE [Reads!Next]_(Reads!vars)
  OBVIOUS
<1>1. CASE Write
  <2>1. UNCHANGED plan
    BY <1>1 DEF Write, Upsert, EmptyWindow
  <2>2. candles' \in [Times -> Values \cup {NoCandle}]
    BY NextPreserves DEF PlanInv, IInv, TypeOK, StoreTypeOK
  <2> QED BY <2>1, <2>2, SameJobs DEF Reads!Next, Reads!Write
<1>2. CASE \E r \in Refreshers : RefreshStep(r) \/ Fault(r)
  <2>1. UNCHANGED <<candles, plan>>
    BY <1>2 DEF RefreshStep, Fault, BeginRefresh, FindDirty, FindNone, ReadWindow, SkipWindow,
                WriteWindow, WriteElsewhere, WriteMarked, FailRefresh, WriteLost, Publish, store
  <2> QED BY <2>1, SameJobs DEF Reads!vars
<1>3. CASE \E p \in Readers : Read(p)
  <2> PICK p \in Readers : Read(p)
    BY <1>3
  <2>1. CASE \E range \in Ranges : \/ Resolve(p, range[1], range[2])
                                   \/ ResolveEmpty(p, range[1], range[2])
    <3>1. \A range \in Ranges : range[1] \in Times /\ range[2] \in Times
      BY RangesAssumption
    <3> QED BY <2>1, <3>1, ResolveMaps DEF Reads!Next
  <2>2. CASE ReadTip(p) \/ Release(p)
    BY <2>2, ReadTipMaps, ReleaseMaps DEF Reads!Next
  <2> QED BY <2>1, <2>2 DEF Read
<1>4. CASE UNCHANGED vars
  BY <1>4, SameJobs DEF vars, Reads!vars
<1> QED
  BY <1>1, <1>2, <1>3, <1>4 DEF Next

-----------------------------------------------------------------------------

(* A job that reads by a plan reads, for every open time of its range, what *)
(* the store held at the plan's moment or at the moment it read the tip.    *)
THEOREM PlansRefine == Spec => PlansReadTheStore
<1>1. Spec => []PlanInv
  BY InitPlan, NextPlan, PTL DEF Spec
<1>2. Spec => Reads!Spec
  BY <1>1, PlanInitMaps, NextMaps, PTL DEF Spec, Reads!Spec
<1> QED
  BY <1>2 DEF PlansReadTheStore

-----------------------------------------------------------------------------
(* PostgreSQL.  What a transaction has read counts when it commits because  *)
(* of the locks it holds: a row a batch has locked is as it found it        *)
(* (TxMarks), and a mark a write-back holds is the one it read and no one   *)
(* else's (Exclusive), so its snapshot is still the window                  *)
(* (PgSnapshotCurrent).  From that invariant both backends are shown to     *)
(* implement SegmentIndex.  Rows before marks, and each in order            *)
(* (TxInOrder), is what keeps a set of transactions from waiting for        *)
(* itself: the latest of those that wait waits for none of them.            *)

-----------------------------------------------------------------------------
(* The invariant.                                                           *)

(* The shapes of what refreshes and writers hold.                           *)
PgPhases == {"idle", "next", "read", "write", "wait", "gone", "hold"}

WritingBack == {"write", "wait", "gone", "hold"}

PgRefreshTypes ==
    /\ phase \in [Refreshers -> PgPhases]
    /\ task \in [Refreshers -> Tasks]
    /\ snapshot = [r \in Refreshers |-> snapshot[r]]
    /\ \A r \in Refreshers :
         /\ phase[r] \in WritingBack \cup {"read"} => task[r].window \in Windows
         /\ phase[r] \in WritingBack => snapshot[r] \in Snapshots(task[r].window)

SomeBatches == Batches \cup {NoTx.batch}

TxShape(it) ==
    /\ it \in [batch : SomeBatches, rows : SUBSET Times, windows : SUBSET Windows, marks : SUBSET Windows]
    /\ it.rows \subseteq DOMAIN it.batch
    /\ it.marks \subseteq it.windows

(* A batch's rows are locked from the first on, and then its marks.         *)
TxInOrder(it) ==
    LET left == DOMAIN it.batch \ it.rows IN
    /\ \A t \in it.rows : \A u \in left : t < u
    /\ \A w \in it.marks : \A v \in it.windows \ it.marks : w < v
    /\ it.marks # {} => left = {}

(* A row a batch has locked is as it found it, so the windows it changes    *)
(* are those it is to mark.                                                 *)
TxMarks(it) ==
    \A t \in it.rows : it.batch[t] # candles[t] => WindowOf(t) \in it.windows

TxsFit ==
    /\ tx = [x \in Writers |-> tx[x]]
    /\ \A x \in Writers : TxShape(tx[x]) /\ TxInOrder(tx[x]) /\ TxMarks(tx[x])

(* A row and a mark have one holder, and a mark that is held stays as it is. *)
Exclusive ==
    /\ \A x, y \in Writers :
         x # y => tx[x].rows \cap tx[y].rows = {} /\ tx[x].marks \cap tx[y].marks = {}
    /\ \A r \in Refreshers : phase[r] = "hold" =>
         /\ dirty[task[r].window] = snapshot[r].id
         /\ \A x \in Writers : task[r].window \notin tx[x].marks
         /\ \A q \in Refreshers : phase[q] = "hold" /\ task[q].window = task[r].window => q = r

(* SnapshotCurrent, for a write-back that may have to wait.                 *)
PgSnapshotCurrent ==
    \A r \in Refreshers :
      LET w == task[r].window IN
      (phase[r] \in WritingBack /\ dirty[w] = snapshot[r].id)
        => /\ snapshot[r].candles = Content(w)
           /\ snapshot[r].indexed = index[w]

PgInv ==
    StoreTypeOK /\ PgRefreshTypes /\ TxsFit /\ Exclusive /\ PgSnapshotCurrent /\ IndexedOrDirty

\* What a writer may be called with, or nothing.
LEMMA SomeBatch ==
    \A b \in SomeBatches : DOMAIN b \subseteq Times /\ \A t \in DOMAIN b : b[t] \in Values
<1>1. DOMAIN NoTx.batch = {}
  BY DEF NoTx
<1> QED
  BY <1>1, BatchesAssumption DEF SomeBatches

(* A writer's transaction.                                                  *)

\* A transaction with one of its fields set.
LEMMA TxParts ==
  ASSUME NEW it, TxShape(it), NEW S
  PROVE  /\ [it EXCEPT !.rows = S] =
              [batch |-> it.batch, rows |-> S, windows |-> it.windows, marks |-> it.marks]
         /\ [it EXCEPT !.marks = S] =
              [batch |-> it.batch, rows |-> it.rows, windows |-> it.windows, marks |-> S]
BY DEF TxShape

\* A step of one writer that leaves the store alone: what it now holds is its
\* own, and in order.
LEMMA TxPreserves ==
  ASSUME PgInv, UNCHANGED vars, NEW x \in Writers, NEW it, tx' = [tx EXCEPT ![x] = it],
         TxShape(it), TxInOrder(it), TxMarks(it),
         \A y \in Writers \ {x} : it.rows \cap tx[y].rows = {} /\ it.marks \cap tx[y].marks = {},
         \A r \in Refreshers : phase[r] = "hold" => task[r].window \notin it.marks
  PROVE  PgInv'
<1> USE DEF PgInv, vars
<1>0. /\ \A y \in Writers \ {x} : tx'[y] = tx[y]
      /\ tx'[x] = it /\ tx' = [y \in Writers |-> tx'[y]]
  BY DEF TxsFit
<1>1. StoreTypeOK'
  BY DEF StoreTypeOK, Contents
<1>2. PgRefreshTypes'
  BY DEF PgRefreshTypes, Snapshots, Contents
<1>3. TxsFit'
  <2>1. \A y \in Writers : TxShape(tx'[y]) /\ TxInOrder(tx'[y]) /\ TxMarks(tx'[y])
    BY <1>0 DEF TxsFit
  <2>2. \A y \in Writers : TxShape(tx[y])' /\ TxInOrder(tx[y])' /\ TxMarks(tx[y])'
    BY <2>1 DEF TxShape, TxInOrder, TxMarks
  <2> QED BY <1>0, <2>2 DEF TxsFit
<1>4. Exclusive'
  BY <1>0 DEF Exclusive
<1>5. PgSnapshotCurrent'
  BY DEF PgSnapshotCurrent, Content
<1>6. IndexedOrDirty'
  BY DEF IndexedOrDirty, EntryFor, Content
<1> QED BY <1>1, <1>2, <1>3, <1>4, <1>5, <1>6

\* No transaction fits.
LEMMA NoTxFits == TxShape(NoTx) /\ TxInOrder(NoTx) /\ TxMarks(NoTx)
<1> PICK none : none = NoTx.batch
  OBVIOUS
<1>1. NoTx = [batch |-> none, rows |-> {}, windows |-> {}, marks |-> {}]
  BY DEF NoTx
<1> QED
  BY <1>1 DEF TxShape, TxInOrder, TxMarks, SomeBatches

\* A writer begins, with nothing locked.
LEMMA BeginBatchPreserves ==
  ASSUME PgInv, NEW x \in Writers, NEW b \in Batches, NEW repeated \in SUBSET DOMAIN b,
         BeginBatch(x, b, repeated)
  PROVE  PgInv'
<1> DEFINE it == [NoTx EXCEPT !.batch = b, !.windows = {WindowOf(t) : t \in repeated}]
<1>1. it = [batch |-> b, rows |-> {}, windows |-> {WindowOf(t) : t \in repeated}, marks |-> {}]
  <2> DEFINE none == [t \in {} |-> NoCandle]
  <2>1. NoTx = [batch |-> none, rows |-> {}, windows |-> {}, marks |-> {}]
    BY DEF NoTx
  <2> HIDE DEF none
  <2> PICK windows : windows = {WindowOf(t) : t \in repeated}
    OBVIOUS
  <2>2. PICK first : first = [NoTx EXCEPT !.batch = b]
    OBVIOUS
  <2>3. first = [batch |-> b, rows |-> {}, windows |-> {}, marks |-> {}]
    BY <2>1, <2>2
  <2>4. it = [first EXCEPT !.windows = windows]
    BY <2>2
  <2> HIDE DEF it
  <2> QED BY <2>3, <2>4
<1>2. {WindowOf(t) : t \in repeated} \subseteq Windows
  BY BatchesAssumption DEF Windows
<1>3. tx' = [tx EXCEPT ![x] = it] /\ UNCHANGED vars
  BY DEF BeginBatch
<1> HIDE DEF it
<1>4. TxShape(it) /\ TxInOrder(it) /\ TxMarks(it)
  BY <1>1, <1>2, BatchesAssumption DEF TxShape, TxInOrder, TxMarks, SomeBatches
<1> QED
  BY <1>1, <1>3, <1>4, TxPreserves

\* It locks its next row, and marks the window if the row changes.
LEMMA LockRowPreserves ==
  ASSUME PgInv, NEW x \in Writers, LockRow(x)
  PROVE  PgInv'
<1> PICK t \in NextRow(x) :
      /\ RowHolders(t) = {}
      /\ tx' = [tx EXCEPT ![x].rows = tx[x].rows \cup {t},
                          ![x].windows = IF tx[x].batch[t] # candles[t]
                                           THEN tx[x].windows \cup {WindowOf(t)}
                                           ELSE tx[x].windows]
      /\ UNCHANGED vars
  BY DEF LockRow
<1> DEFINE old == tx[x]
           windows == IF old.batch[t] # candles[t] THEN old.windows \cup {WindowOf(t)} ELSE old.windows
           it == [batch |-> old.batch, rows |-> old.rows \cup {t}, windows |-> windows, marks |-> old.marks]
<1>0. TxShape(old) /\ TxInOrder(old) /\ TxMarks(old) /\ tx = [y \in Writers |-> tx[y]]
  BY DEF PgInv, TxsFit
<1>1. t \in DOMAIN old.batch \ old.rows /\ \A u \in DOMAIN old.batch \ old.rows : t <= u
  BY DEF NextRow, RowsLeft
<1>2. /\ DOMAIN old.batch \subseteq Times /\ t \in Times /\ t \in Nat
      /\ WindowOf(t) \in Windows /\ windows \subseteq Windows
  <2>1. DOMAIN old.batch \subseteq Times
    BY <1>0, SomeBatch DEF TxShape
  <2> QED BY <1>0, <1>1, <2>1, GridAssumption DEF TxShape, Windows
<1>3. tx' = [tx EXCEPT ![x] = it]
  <2>0. PICK was : was = tx
    OBVIOUS
  <2>1. PICK rows : rows = old.rows \cup {t}
    OBVIOUS
  <2>2. PICK ws : ws = windows
    OBVIOUS
  <2>3. PICK first : first = [was EXCEPT ![x].rows = rows]
    OBVIOUS
  <2>4. tx' = [first EXCEPT ![x].windows = ws]
    BY <2>0, <2>1, <2>2, <2>3
  <2> HIDE DEF windows
  <2>5. PICK mid : mid = [batch |-> old.batch, rows |-> rows, windows |-> old.windows, marks |-> old.marks]
    OBVIOUS
  <2>6. first = [was EXCEPT ![x] = mid]
    BY <1>0, <2>0, <2>3, <2>5, TxParts
  <2>7. [mid EXCEPT !.windows = ws] = it
    <3>1. \A b, r, v, m, s : [[batch |-> b, rows |-> r, windows |-> v, marks |-> m] EXCEPT !.windows = s]
                             = [batch |-> b, rows |-> r, windows |-> s, marks |-> m]
      OBVIOUS
    <3>2. it = [batch |-> old.batch, rows |-> rows, windows |-> ws, marks |-> old.marks]
      BY <2>1, <2>2
    <3> HIDE DEF it, old
    <3> QED BY <2>5, <3>1, <3>2
  <2>8. was = [y \in Writers |-> was[y]]
    BY <1>0, <2>0
  <2>9. tx' = [was EXCEPT ![x] = [mid EXCEPT !.windows = ws]]
    BY <2>4, <2>6, <2>8
  <2> QED BY <2>0, <2>7, <2>9
<1>4. old.marks = {}
  BY <1>0, <1>1 DEF TxInOrder
<1>5. \A u \in (DOMAIN old.batch \ old.rows) \ {t} : t < u
  BY <1>0, <1>1, <1>2, GridAssumption DEF TxShape
<1>6. TxShape(it)
  BY <1>0, <1>1, <1>2, <1>4 DEF TxShape
<1>7. TxInOrder(it)
  <2> HIDE DEF windows
  <2> QED BY <1>0, <1>4, <1>5 DEF TxInOrder
<1>8. TxMarks(it)
  BY <1>0 DEF TxMarks
<1>9. \A y \in Writers : t \notin tx[y].rows
  BY DEF RowHolders
<1>10. /\ \A y \in Writers \ {x} : it.rows \cap tx[y].rows = {} /\ it.marks \cap tx[y].marks = {}
       /\ \A r \in Refreshers : phase[r] = "hold" => task[r].window \notin it.marks
  BY <1>4, <1>9 DEF PgInv, Exclusive
<1> HIDE DEF it
<1> QED
  BY <1>3, <1>6, <1>7, <1>8, <1>10, TxPreserves

\* It locks its next mark, once it has all its rows.
LEMMA LockMarkPreserves ==
  ASSUME PgInv, NEW x \in Writers, LockMark(x)
  PROVE  PgInv'
<1> PICK w \in NextMark(x) :
      /\ MarkHolders(w) = {}
      /\ tx' = [tx EXCEPT ![x].marks = tx[x].marks \cup {w}]
      /\ UNCHANGED vars
  BY DEF LockMark
<1> DEFINE old == tx[x]
           it == [batch |-> old.batch, rows |-> old.rows, windows |-> old.windows,
                  marks |-> old.marks \cup {w}]
<1>0. TxShape(old) /\ TxInOrder(old) /\ TxMarks(old) /\ tx = [y \in Writers |-> tx[y]]
  BY DEF PgInv, TxsFit
<1>1. /\ w \in old.windows \ old.marks /\ \A v \in old.windows \ old.marks : w <= v
      /\ DOMAIN old.batch \ old.rows = {}
  BY DEF NextMark, RowsLeft
<1>2. tx' = [tx EXCEPT ![x] = it]
  BY <1>0, TxParts
<1>3. \A v \in (old.windows \ old.marks) \ {w} : w < v
  BY <1>0, <1>1, WindowNat DEF TxShape
<1>4. TxShape(it) /\ TxInOrder(it) /\ TxMarks(it)
  BY <1>0, <1>1, <1>3 DEF TxShape, TxInOrder, TxMarks
<1>5. /\ \A y \in Writers \ {x} : it.rows \cap tx[y].rows = {} /\ it.marks \cap tx[y].marks = {}
      /\ \A r \in Refreshers : phase[r] = "hold" => task[r].window \notin it.marks
  BY DEF PgInv, Exclusive, MarkHolders
<1> HIDE DEF it
<1> QED
  BY <1>2, <1>4, <1>5, TxPreserves

\* It gives up.
LEMMA AbortBatchPreserves ==
  ASSUME PgInv, NEW x \in Writers, AbortBatch(x)
  PROVE  PgInv'
<1>1. NoTx.rows = {} /\ NoTx.marks = {}
  BY DEF NoTx
<1> QED
  BY <1>1, NoTxFits, TxPreserves DEF AbortBatch

\* Every row a batch changes is in a window it has marked, and no one else
\* holds the row or the mark: nothing that another transaction has read or
\* written for a mark it holds is disturbed.
LEMMA CommitBatchPreserves ==
  ASSUME PgInv, NEW x \in Writers, CommitBatch(x)
  PROVE  PgInv'
<1> USE DEF PgInv
<1> DEFINE old == tx[x]
           ws == old.windows
<1>0. /\ TxShape(old) /\ TxInOrder(old) /\ TxMarks(old)
      /\ DOMAIN old.batch \ old.rows = {} /\ old.marks = ws
      /\ candles' = Upserted(old.batch) /\ MarkDirty(ws)
      /\ tx' = [tx EXCEPT ![x] = NoTx] /\ UNCHANGED <<index, phase, task, snapshot>>
  BY DEF CommitBatch, RowsLeft, TxsFit, refresh
<1>1. /\ ws \subseteq Windows /\ DOMAIN old.batch = old.rows /\ DOMAIN old.batch \subseteq Times
      /\ \A t \in DOMAIN old.batch : old.batch[t] \in Values
  BY <1>0, SomeBatch DEF TxShape
<1>2. candles' \in [Times -> Values \cup {NoCandle}]
  BY <1>0, <1>1 DEF Upserted, StoreTypeOK
<1>3. \A t \in Times : WindowOf(t) \notin ws \/ t \notin old.rows => candles'[t] = candles[t]
  BY <1>0, <1>1 DEF Upserted, TxMarks
<1>4. \A w \in Windows \ ws : Content(w)' = Content(w)
  BY <1>3 DEF Content, TimesOf
<1>5. /\ \A w \in ws : dirty'[w] \in Ids /\ dirty'[w] # NoMark /\ dirty'[w] \notin InUse(w)
      /\ \A w \in Windows \ ws : dirty'[w] = dirty[w]
  BY <1>0, <1>1, FreshIdIsFresh, IdsAssumption DEF MarkDirty
<1>6. /\ \A y \in Writers \ {x} : tx'[y] = tx[y]
      /\ tx'[x] = NoTx /\ tx' = [y \in Writers |-> tx'[y]]
  BY <1>0 DEF TxsFit
<1>7. StoreTypeOK'
  <2>1. dirty' \in [Windows -> Ids \cup {NoMark}]
    BY <1>0, <1>5 DEF MarkDirty, StoreTypeOK
  <2> QED BY <1>0, <1>2, <2>1 DEF StoreTypeOK, Contents
<1>8. PgRefreshTypes'
  BY <1>0 DEF PgRefreshTypes, Snapshots, Contents
<1>9. TxsFit'
  <2>1. ASSUME NEW y \in Writers PROVE TxShape(tx[y])' /\ TxInOrder(tx[y])' /\ TxMarks(tx[y])'
    <3>1. CASE y = x
      BY <1>6, <3>1, NoTxFits DEF TxShape, TxInOrder, TxMarks, NoTx
    <3>2. CASE y # x
      <4>1. tx'[y] = tx[y] /\ TxShape(tx[y]) /\ TxInOrder(tx[y]) /\ TxMarks(tx[y])
        BY <1>6, <3>2 DEF TxsFit
      <4>2. \A t \in tx[y].rows : t \in Times /\ t \notin old.rows
        BY <3>2, <4>1 DEF Exclusive, TxShape
      <4> QED BY <1>3, <4>1, <4>2 DEF TxShape, TxInOrder, TxMarks
    <3> QED BY <3>1, <3>2
  <2> QED BY <1>6, <2>1 DEF TxsFit
<1>10. Exclusive'
  <2>1. NoTx.rows = {} /\ NoTx.marks = {}
    BY DEF NoTx
  <2>2. ASSUME NEW r \in Refreshers, phase[r] = "hold"
        PROVE  dirty'[task[r].window] = dirty[task[r].window]
    <3>1. task[r].window \in Windows /\ task[r].window \notin ws
      BY <1>0, <2>2 DEF Exclusive, PgRefreshTypes, WritingBack
    <3> QED BY <1>5, <3>1
  <2> QED BY <1>0, <1>6, <2>1, <2>2 DEF Exclusive
<1>11. PgSnapshotCurrent'
  <2> SUFFICES ASSUME NEW r \in Refreshers, phase[r] \in WritingBack,
                      dirty'[task[r].window] = snapshot[r].id
               PROVE  /\ snapshot[r].candles = Content(task[r].window)'
                      /\ snapshot[r].indexed = index[task[r].window]
    BY <1>0 DEF PgSnapshotCurrent
  <2>1. task[r].window \in Windows /\ snapshot[r].id \in InUse(task[r].window)
    BY DEF PgRefreshTypes, InUse
  <2>2. task[r].window \notin ws
    BY <1>5, <2>1
  <2>3. Content(task[r].window)' = Content(task[r].window)
    <3> PICK v : v = task[r].window
      OBVIOUS
    <3>1. Content(v)' = Content(v)
      BY <1>4, <2>1, <2>2
    <3>2. Content(task[r].window)' = Content(v)'
      BY <1>0 DEF Content
    <3> QED BY <3>1, <3>2
  <2> QED BY <1>5, <2>1, <2>2, <2>3 DEF PgSnapshotCurrent
<1>12. IndexedOrDirty'
  <2> SUFFICES ASSUME NEW w \in Windows, dirty'[w] = NoMark
               PROVE  index[w] = EntryFor(Content(w))'
    BY <1>0 DEF IndexedOrDirty
  <2>1. w \notin ws
    BY <1>5
  <2> QED BY <1>4, <1>5, <2>1 DEF IndexedOrDirty, EntryFor
<1> QED
  BY <1>7, <1>8, <1>9, <1>10, <1>11, <1>12

-----------------------------------------------------------------------------
(* A refresh.                                                               *)

\* A step of a refresh that leaves the store and the writers alone.
LEMMA RefreshPreserves ==
  ASSUME PgInv, NEW r \in Refreshers, UNCHANGED <<store, tx>>,
         NEW to \in PgPhases, NEW job \in Tasks, NEW seen,
         phase' = [phase EXCEPT ![r] = to],
         task' = [task EXCEPT ![r] = job],
         snapshot' = [snapshot EXCEPT ![r] = seen],
         to \in WritingBack \cup {"read"} => job.window \in Windows,
         to \in WritingBack => seen \in Snapshots(job.window),
         to \in WritingBack /\ dirty[job.window] = seen.id =>
           seen.candles = Content(job.window) /\ seen.indexed = index[job.window],
         to = "hold" => dirty[job.window] = seen.id /\ MarkHolders(job.window) = {}
  PROVE  PgInv'
<1> USE DEF PgInv, store
<1>0. /\ \A q \in Refreshers \ {r} : phase'[q] = phase[q] /\ task'[q] = task[q] /\ snapshot'[q] = snapshot[q]
      /\ phase'[r] = to /\ task'[r] = job /\ snapshot'[r] = seen
  BY DEF PgRefreshTypes
<1>1. StoreTypeOK'
  BY DEF StoreTypeOK, Contents
<1>2. PgRefreshTypes'
  <2>1. /\ phase' \in [Refreshers -> PgPhases] /\ task' \in [Refreshers -> Tasks]
        /\ snapshot' = [q \in Refreshers |-> snapshot'[q]]
    BY DEF PgRefreshTypes
  <2>2. \A q \in Refreshers :
          /\ phase'[q] \in WritingBack \cup {"read"} => task'[q].window \in Windows
          /\ phase'[q] \in WritingBack => snapshot'[q] \in Snapshots(task'[q].window)
    BY <1>0 DEF PgRefreshTypes
  <2> QED BY <2>1, <2>2 DEF PgRefreshTypes, Snapshots, Contents
<1>3. TxsFit'
  BY DEF TxsFit, TxShape, TxInOrder, TxMarks
<1>4. Exclusive'
  BY <1>0 DEF Exclusive, MarkHolders
<1>5. PgSnapshotCurrent'
  <2> SUFFICES ASSUME NEW q \in Refreshers, phase'[q] \in WritingBack,
                      dirty[task'[q].window] = snapshot'[q].id
               PROVE  /\ snapshot'[q].candles = Content(task[q].window)'
                      /\ snapshot'[q].indexed = index[task'[q].window]
    BY DEF PgSnapshotCurrent
  <2>1. Content(task[q].window)' = Content(task'[q].window)
    BY DEF Content
  <2> QED BY <1>0, <2>1 DEF PgSnapshotCurrent
<1>6. IndexedOrDirty'
  BY DEF IndexedOrDirty, EntryFor, Content
<1> QED BY <1>1, <1>2, <1>3, <1>4, <1>5, <1>6

\* A write-back that holds its mark publishes what the window holds, and its
\* mark goes: no other refresh's snapshot of the window counts any more.
LEMMA CommitPreserves ==
  ASSUME PgInv, NEW r \in Refreshers, phase[r] = "hold",
         Publish(task[r].window, snapshot[r]), UNCHANGED tx,
         NEW to \in {"idle", "next"}, NEW job \in Tasks,
         phase' = Unblocked(r, to),
         task' = [task EXCEPT ![r] = job],
         snapshot' = [snapshot EXCEPT ![r] = NoSnapshot]
  PROVE  /\ PgInv'
         /\ task[r].window \in Windows /\ dirty[task[r].window] # NoMark
         /\ candles' = candles /\ dirty' = [dirty EXCEPT ![task[r].window] = NoMark]
         /\ index' = [index EXCEPT ![task[r].window] = EntryFor(Content(task[r].window))]
<1> USE DEF PgInv
<1> PICK w : w = task[r].window
  OBVIOUS
<1>1. w \in Windows /\ snapshot[r] \in Snapshots(w) /\ dirty[w] = snapshot[r].id /\ dirty[w] # NoMark
  BY IdsAssumption DEF PgRefreshTypes, WritingBack, Exclusive, Snapshots
<1>2. snapshot[r].candles = Content(w) /\ snapshot[r].indexed = index[w]
  BY <1>1 DEF PgSnapshotCurrent, WritingBack
<1>3. index' = [index EXCEPT ![w] = EntryFor(Content(w))]
  <2>1. index = [v \in Windows |-> index[v]]
    BY DEF StoreTypeOK
  <2>2. CASE index[w] = EntryFor(Content(w))
    BY <1>1, <1>2, <2>1, <2>2 DEF Publish
  <2>3. CASE index[w] # EntryFor(Content(w))
    BY <1>2, <2>3 DEF Publish
  <2> QED BY <2>2, <2>3
<1>4. dirty' = [dirty EXCEPT ![w] = NoMark] /\ candles' = candles
  BY DEF Publish
<1>5. StoreTypeOK'
  <2>1. EntryFor(Content(w)) \in Contents(w) \cup {NoEntry}
    BY <1>1, <1>2 DEF EntryFor, Snapshots
  <2> QED BY <1>3, <1>4, <2>1 DEF StoreTypeOK, Contents
<1>6. /\ phase'[r] = to /\ to \notin WritingBack \cup {"read"} /\ to \in PgPhases
      /\ phase' \in [Refreshers -> PgPhases]
      /\ \A q \in Refreshers \ {r} :
           /\ task'[q] = task[q] /\ snapshot'[q] = snapshot[q]
           /\ phase'[q] = IF phase[q] = "wait" /\ task[q].window = w THEN "gone" ELSE phase[q]
  BY DEF Unblocked, PgRefreshTypes, PgPhases, WritingBack
<1>7. PgRefreshTypes'
  <2>1. /\ task' \in [Refreshers -> Tasks] /\ snapshot' = [q \in Refreshers |-> snapshot'[q]]
    BY DEF PgRefreshTypes
  <2>2. ASSUME NEW q \in Refreshers
        PROVE  /\ phase'[q] \in WritingBack \cup {"read"} => task'[q].window \in Windows
               /\ phase'[q] \in WritingBack => snapshot'[q] \in Snapshots(task'[q].window)
    <3>1. CASE q = r
      BY <1>6, <3>1
    <3>2. CASE q # r
      BY <1>6, <3>2 DEF PgRefreshTypes, WritingBack
    <3> QED BY <3>1, <3>2
  <2> QED BY <1>6, <2>1, <2>2 DEF PgRefreshTypes, Snapshots, Contents
<1>8. TxsFit'
  BY <1>4 DEF TxsFit, TxShape, TxInOrder, TxMarks
<1>9. Exclusive'
  <2>1. ASSUME NEW q \in Refreshers, phase'[q] = "hold"
        PROVE  q # r /\ phase[q] = "hold" /\ task[q].window # w
    BY <1>6, <2>1 DEF Exclusive, WritingBack
  <2>2. ASSUME NEW q \in Refreshers, phase'[q] = "hold"
        PROVE  dirty'[task'[q].window] = snapshot'[q].id
    <3>1. task[q].window \in Windows /\ dirty[task[q].window] = snapshot[q].id
      BY <2>1, <2>2 DEF Exclusive, PgRefreshTypes, WritingBack
    <3> QED BY <1>4, <1>6, <2>1, <2>2, <3>1 DEF StoreTypeOK
  <2> QED BY <1>6, <2>1, <2>2 DEF Exclusive
<1>10. PgSnapshotCurrent'
  <2> SUFFICES ASSUME NEW q \in Refreshers, phase'[q] \in WritingBack,
                      dirty'[task'[q].window] = snapshot'[q].id
               PROVE  /\ snapshot'[q].candles = Content(task[q].window)'
                      /\ snapshot'[q].indexed = index'[task'[q].window]
    BY DEF PgSnapshotCurrent
  <2>1. q # r /\ phase[q] \in WritingBack /\ task'[q] = task[q] /\ snapshot'[q] = snapshot[q]
    BY <1>6 DEF WritingBack
  <2>2. task[q].window \in Windows /\ snapshot[q].id \in Ids
    BY <2>1 DEF PgRefreshTypes, Snapshots
  <2>3. task[q].window # w
    BY <1>1, <1>4, <2>1, <2>2, IdsAssumption DEF StoreTypeOK
  <2>4. Content(task[q].window)' = Content(task[q].window)
    BY <1>4, <2>1 DEF Content
  <2>5. dirty'[task[q].window] = dirty[task[q].window] /\ index'[task[q].window] = index[task[q].window]
    BY <1>3, <1>4, <2>2, <2>3 DEF StoreTypeOK
  <2> QED BY <2>1, <2>4, <2>5 DEF PgSnapshotCurrent
<1>11. IndexedOrDirty'
  <2>1. \A v \in Windows : Content(v)' = Content(v)
    BY <1>4 DEF Content
  <2> SUFFICES ASSUME NEW v \in Windows, dirty'[v] = NoMark
               PROVE  index'[v] = EntryFor(Content(v))
    BY <2>1 DEF IndexedOrDirty, EntryFor
  <2>2. CASE v = w
    BY <1>1, <1>3, <2>2 DEF StoreTypeOK
  <2>3. CASE v # w
    BY <1>3, <1>4, <2>3 DEF IndexedOrDirty, StoreTypeOK
  <2> QED BY <2>2, <2>3
<1> QED
  BY <1>1, <1>3, <1>4, <1>5, <1>7, <1>8, <1>9, <1>10, <1>11

\* What a refresh may go on with is a task.
LEMMA PgTaskAfter ==
  ASSUME PgRefreshTypes, NEW r \in Refreshers
  PROVE  /\ NoTask \in Tasks /\ task[r] \in Tasks
         /\ [task[r] EXCEPT !.after = task[r].window, !.window = NoWindow, !.tries = 0] \in Tasks
         /\ \A w \in Windows : /\ [task[r] EXCEPT !.tip = w] \in Tasks
                               /\ [task[r] EXCEPT !.window = w] \in Tasks
                               /\ [task[r] EXCEPT !.window = w].window = w
         /\ task[r].tries + 1 < ATTEMPTS =>
              /\ [task[r] EXCEPT !.tries = task[r].tries + 1] \in Tasks
              /\ [task[r] EXCEPT !.tries = task[r].tries + 1].window = task[r].window
<1>1. 0 \in 0..(ATTEMPTS - 1)
  BY DEF ATTEMPTS
<1> PICK job : job = task[r] /\ job \in Tasks
  BY DEF PgRefreshTypes
<1>2. /\ NoTask \in Tasks
      /\ [job EXCEPT !.after = job.window, !.window = NoWindow, !.tries = 0] \in Tasks
  BY <1>1 DEF Tasks, NoTask
<1>3. ASSUME NEW w \in Windows
      PROVE  /\ [job EXCEPT !.tip = w] \in Tasks
             /\ [job EXCEPT !.window = w] \in Tasks
             /\ [job EXCEPT !.window = w].window = w
  BY DEF Tasks
<1>4. ASSUME job.tries + 1 < ATTEMPTS
      PROVE  /\ [job EXCEPT !.tries = job.tries + 1] \in Tasks
             /\ [job EXCEPT !.tries = job.tries + 1].window = job.window
  <2>1. job.tries + 1 \in 0..(ATTEMPTS - 1)
    BY <1>4 DEF Tasks, ATTEMPTS
  <2> QED BY <2>1 DEF Tasks
<1> QED
  BY <1>2, <1>3, <1>4

\* A refresh lets its window go, or ends.
LEMMA PgLettingGo ==
  ASSUME PgInv, NEW r \in Refreshers, UNCHANGED <<store, tx>>, GoOn(r) \/ Rest(r)
  PROVE  PgInv'
<1>0. PgRefreshTypes
  BY DEF PgInv
<1>1. CASE GoOn(r)
  <2> DEFINE job == [task[r] EXCEPT !.after = task[r].window, !.window = NoWindow, !.tries = 0]
  <2>1. job \in Tasks /\ task' = [task EXCEPT ![r] = job]
    BY <1>0, <1>1, PgTaskAfter DEF GoOn
  <2> HIDE DEF job
  <2> QED BY <1>1, <2>1, RefreshPreserves DEF GoOn, PgPhases, WritingBack
<1>2. CASE Rest(r)
  BY <1>0, <1>2, PgTaskAfter, RefreshPreserves DEF Rest, PgPhases, WritingBack
<1> QED
  BY <1>1, <1>2

\* The steps that are the same on both backends.
LEMMA SharedStepPreserves ==
  ASSUME PgInv, NEW r \in Refreshers, SharedStep(r), UNCHANGED tx
  PROVE  PgInv'
<1>0. PgRefreshTypes /\ snapshot = [q \in Refreshers |-> snapshot[q]]
  BY DEF PgInv, PgRefreshTypes
<1>1. CASE BeginRefresh(r)
  <2> PICK tip \in Windows : task' = [task EXCEPT ![r].tip = tip]
    BY <1>1 DEF BeginRefresh
  <2> DEFINE job == [task[r] EXCEPT !.tip = tip]
  <2>1. job \in Tasks /\ task' = [task EXCEPT ![r] = job]
    BY <1>0, PgTaskAfter
  <2>2. PICK seen : seen = snapshot[r]
    OBVIOUS
  <2>3. snapshot' = [snapshot EXCEPT ![r] = seen] /\ UNCHANGED store
    BY <1>0, <1>1, <2>2 DEF BeginRefresh
  <2> HIDE DEF job
  <2> QED BY <1>1, <2>1, <2>3, RefreshPreserves DEF BeginRefresh, PgPhases, WritingBack
<1>2. CASE FindDirty(r)
  <2> PICK w \in Windows : /\ phase' = [phase EXCEPT ![r] = "read"]
                           /\ task' = [task EXCEPT ![r].window = w]
    BY <1>2 DEF FindDirty, DirtyBelow
  <2> DEFINE job == [task[r] EXCEPT !.window = w]
  <2>1. job \in Tasks /\ job.window \in Windows /\ task' = [task EXCEPT ![r] = job]
    BY <1>0, PgTaskAfter
  <2>2. PICK seen : seen = snapshot[r]
    OBVIOUS
  <2>3. snapshot' = [snapshot EXCEPT ![r] = seen] /\ UNCHANGED store
    BY <1>0, <1>2, <2>2 DEF FindDirty
  <2> HIDE DEF job
  <2> QED BY <1>2, <2>1, <2>3, RefreshPreserves DEF FindDirty, PgPhases, WritingBack
<1>3. CASE FindNone(r) \/ SkipWindow(r) \/ FailRefresh(r)
  BY <1>3, PgLettingGo DEF FindNone, SkipWindow, FailRefresh
<1>4. CASE ReadWindow(r)
  <2> PICK w : w = task[r].window
    OBVIOUS
  <2> DEFINE seen == [id |-> dirty[w], candles |-> Content(w), indexed |-> index[w]]
  <2>1. /\ w \in Windows /\ dirty[w] # NoMark
        /\ phase' = [phase EXCEPT ![r] = "write"] /\ UNCHANGED <<store, task>>
        /\ snapshot' = [snapshot EXCEPT ![r] = seen]
    BY <1>0, <1>4 DEF ReadWindow, PgRefreshTypes
  <2>2. Content(w) \in Contents(w) /\ dirty[w] \in Ids /\ index[w] \in Contents(w) \cup {NoEntry}
    BY <2>1 DEF PgInv, StoreTypeOK, Content, Contents, TimesOf
  <2>3. seen \in Snapshots(w)
    BY <2>2 DEF Snapshots
  <2>4. /\ task' = [task EXCEPT ![r] = task[r]] /\ task[r] \in Tasks
        /\ seen.candles = Content(w) /\ seen.indexed = index[w]
    BY <1>0, <2>1 DEF PgRefreshTypes
  <2> HIDE DEF seen
  <2> QED BY <2>1, <2>3, <2>4, RefreshPreserves DEF PgPhases, WritingBack
<1> QED
  BY <1>1, <1>2, <1>3, <1>4 DEF SharedStep

\* A write-back meets its mark: locked, of another revision, gone, or as it
\* was read, and then it holds it.
LEMMA MeetsMarkPreserves ==
  ASSUME PgInv, NEW r \in Refreshers,
         LockRevision(r) \/ WaitForMark(r) \/ FindRemarked(r) \/ FindUnmarked(r)
  PROVE  PgInv'
<1>0. PgRefreshTypes /\ task = [q \in Refreshers |-> task[q]] /\ snapshot = [q \in Refreshers |-> snapshot[q]]
  BY DEF PgInv, PgRefreshTypes
<1> PICK seen : seen = snapshot[r]
  OBVIOUS
<1> PICK job \in Tasks : job = task[r]
  BY <1>0 DEF PgRefreshTypes
<1>1. CASE LockRevision(r) \/ WaitForMark(r)
  <2>1. PICK to \in {"hold", "wait"} :
          /\ phase' = [phase EXCEPT ![r] = to] /\ UNCHANGED <<store, task, snapshot, tx>>
          /\ phase[r] \in {"write", "wait"}
          /\ to = "hold" => dirty[job.window] = seen.id /\ MarkHolders(job.window) = {}
    BY <1>1 DEF LockRevision, WaitForMark
  <2>2. task' = [task EXCEPT ![r] = job] /\ snapshot' = [snapshot EXCEPT ![r] = seen]
    BY <1>0, <2>1
  <2>3. /\ job.window \in Windows /\ seen \in Snapshots(job.window)
        /\ dirty[job.window] = seen.id =>
             seen.candles = Content(job.window) /\ seen.indexed = index[job.window]
    BY <2>1 DEF PgInv, PgRefreshTypes, PgSnapshotCurrent, WritingBack
  <2>4. to \in PgPhases /\ UNCHANGED <<store, tx>>
    BY <2>1 DEF PgPhases
  <2>5. /\ phase' = [phase EXCEPT ![r] = to]
        /\ to = "hold" => dirty[job.window] = seen.id /\ MarkHolders(job.window) = {}
    BY <2>1
  <2> HIDE <2>1
  <2> QED BY <2>2, <2>3, <2>4, <2>5, RefreshPreserves
<1>2. CASE FindRemarked(r) /\ task[r].tries + 1 < ATTEMPTS
  <2> PICK next : next = [task[r] EXCEPT !.tries = task[r].tries + 1]
    OBVIOUS
  <2>1. /\ phase' = [phase EXCEPT ![r] = "read"] /\ UNCHANGED <<store, tx>>
        /\ task' = [task EXCEPT ![r] = next] /\ snapshot' = [snapshot EXCEPT ![r] = NoSnapshot]
        /\ phase[r] \in {"write", "wait"}
    BY <1>2 DEF FindRemarked
  <2>2. next \in Tasks /\ next.window \in Windows
    BY <1>0, <1>2, <2>1, PgTaskAfter DEF PgRefreshTypes, WritingBack
  <2> QED BY <2>1, <2>2, RefreshPreserves DEF PgPhases, WritingBack
<1>3. CASE (FindRemarked(r) /\ ~ (task[r].tries + 1 < ATTEMPTS)) \/ FindUnmarked(r)
  BY <1>3, PgLettingGo DEF FindRemarked, FindUnmarked
<1> QED
  BY <1>1, <1>2, <1>3

\* What both outcomes of a write-back's commit do.
LEMMA CommitWindowIs ==
  ASSUME PgInv, NEW r \in Refreshers, CommitWindow(r) \/ CommitWindowLost(r)
  PROVE  \E to \in {"idle", "next"}, job \in Tasks :
           /\ phase[r] = "hold" /\ Publish(task[r].window, snapshot[r]) /\ UNCHANGED tx
           /\ phase' = Unblocked(r, to)
           /\ task' = [task EXCEPT ![r] = job]
           /\ snapshot' = [snapshot EXCEPT ![r] = NoSnapshot]
<1>0. PgRefreshTypes
  BY DEF PgInv
<1>1. CASE CommitWindow(r)
  <2> PICK job : job = [task[r] EXCEPT !.after = task[r].window, !.window = NoWindow, !.tries = 0]
    OBVIOUS
  <2>1. job \in Tasks
    BY <1>0, PgTaskAfter
  <2>2. task' = [task EXCEPT ![r] = job]
    BY <1>1 DEF CommitWindow
  <2> QED BY <1>1, <2>1, <2>2 DEF CommitWindow
<1>2. CASE CommitWindowLost(r)
  BY <1>0, <1>2, PgTaskAfter DEF CommitWindowLost
<1> QED
  BY <1>1, <1>2

\* The steps of a write-back.
LEMMA WriteBackStepPreserves ==
  ASSUME PgInv, NEW r \in Refreshers, WriteBackStep(r)
  PROVE  PgInv'
<1>1. CASE LockRevision(r) \/ WaitForMark(r) \/ FindRemarked(r) \/ FindUnmarked(r)
  BY <1>1, MeetsMarkPreserves
<1>2. CASE CommitWindow(r) \/ CommitWindowLost(r)
  BY <1>2, CommitWindowIs, CommitPreserves
<1> QED
  BY <1>1, <1>2 DEF WriteBackStep

\* The store as it is found, and no one in a transaction.
LEMMA PgInitEstablishes == PgInit => PgInv
<1> SUFFICES ASSUME PgInit PROVE PgInv
  OBVIOUS
<1>1. IInv
  BY InitEstablishes DEF PgInit
<1>2. StoreTypeOK /\ IndexedOrDirty
  BY <1>1 DEF IInv, TypeOK
<1>3. \A r \in Refreshers : phase[r] = "idle"
  BY DEF PgInit, Init
<1>4. PgRefreshTypes
  BY <1>1, <1>3 DEF IInv, TypeOK, RefreshTypeOK, PgRefreshTypes, PgPhases, WritingBack, PgInit, Init
<1>5. TxsFit
  BY NoTxFits DEF PgInit, TxsFit
<1>6. Exclusive
  BY <1>3 DEF PgInit, Exclusive, NoTx
<1>7. PgSnapshotCurrent
  BY <1>3 DEF PgSnapshotCurrent, WritingBack
<1> QED
  BY <1>2, <1>4, <1>5, <1>6, <1>7 DEF PgInv

\* Every step keeps the invariant.
LEMMA PgNextPreserves == PgInv /\ [PgNext]_pgVars => PgInv'
<1> SUFFICES ASSUME PgInv, [PgNext]_pgVars PROVE PgInv'
  OBVIOUS
<1>1. ASSUME NEW x \in Writers, WriterStep(x) PROVE PgInv'
  <2>1. ASSUME NEW b \in Batches, NEW repeated \in SUBSET (Repeats \cap DOMAIN b), BeginBatch(x, b, repeated)
        PROVE  PgInv'
    <3>1. repeated \in SUBSET DOMAIN b
      OBVIOUS
    <3> QED BY <2>1, <3>1, BeginBatchPreserves
  <2> QED
    BY <1>1, <2>1, LockRowPreserves, LockMarkPreserves, CommitBatchPreserves, AbortBatchPreserves
       DEF WriterStep
<1>2. CASE \E r \in Refreshers : SharedStep(r) /\ UNCHANGED tx
  BY <1>2, SharedStepPreserves
<1>3. CASE \E r \in Refreshers : WriteBackStep(r)
  BY <1>3, WriteBackStepPreserves
<1>4. CASE UNCHANGED pgVars
  <2> USE <1>4 DEF pgVars, vars, PgInv
  <2>1. StoreTypeOK' /\ IndexedOrDirty'
    BY DEF StoreTypeOK, Contents, IndexedOrDirty, EntryFor, Content
  <2>2. PgRefreshTypes'
    BY DEF PgRefreshTypes, Snapshots, Contents
  <2>3. TxsFit'
    BY DEF TxsFit, TxShape, TxInOrder, TxMarks
  <2>4. Exclusive' /\ PgSnapshotCurrent'
    BY DEF Exclusive, PgSnapshotCurrent, Content
  <2> QED BY <2>1, <2>2, <2>3, <2>4
<1> QED
  BY <1>1, <1>2, <1>3, <1>4 DEF PgNext

\* The invariant holds always.
THEOREM PgInductive == PgSpec => []PgInv
BY PgInitEstablishes, PgNextPreserves, PTL DEF PgSpec

\* Every window is dirty or indexed under exactly its current candles on
\* PostgreSQL too, however transactions overlap (storage-schema.md).
THEOREM PgIndexCorrect == PgSpec => []IndexedOrDirty
BY PgInductive, PTL DEF PgInv

-----------------------------------------------------------------------------
(* What keeping segments promises.                                          *)

Marked == {w \in Windows : dirty[w] # NoMark}

\* SegmentIndex speaks of the same windows and contents.
LEMMA SameWindows ==
  /\ Published!Windows = Windows
  /\ \A w : Published!Content(candles, w) = Content(w)
  /\ \A c : Published!EntryFor(c) = EntryFor(c)
  /\ Published!vars = <<candles, Marked, index>>
BY DEF Published!Windows, Windows, Published!WindowOf, WindowOf, Published!Content, Content, TimesOf,
       Published!EntryFor, EntryFor, Held, Published!vars, Marked

\* A step that marks the windows whose candles it changes.
LEMMA WriteImplements ==
  ASSUME NEW ws \in SUBSET Windows, candles' \in [Times -> Values \cup {NoCandle}],
         \A w \in Windows \ ws : Content(w)' = Content(w),
         \A w \in ws : dirty'[w] # NoMark,
         \A w \in Windows \ ws : dirty'[w] = dirty[w],
         UNCHANGED index
  PROVE  Published!Write
<1>1. Marked \subseteq Marked' /\ Marked' \in SUBSET Windows
  BY DEF Marked
<1>2. ASSUME NEW w \in Windows \ Marked' PROVE Published!Content(candles', w) = Published!Content(candles, w)
  <2>1. w \in Windows \ ws
    BY <1>2 DEF Marked
  <2>2. Published!Content(candles', w) = Content(w)'
    BY DEF Published!Content, Content, TimesOf, Published!WindowOf, WindowOf
  <2> QED BY <2>1, <2>2, SameWindows
<1> QED
  BY <1>1, <1>2, SameWindows DEF Published!Write, Marked

\* A step that takes a window's mark and indexes it under what it holds.
LEMMA PublishImplements ==
  ASSUME NEW w \in Windows, StoreTypeOK, dirty[w] # NoMark, candles' = candles,
         dirty' = [dirty EXCEPT ![w] = NoMark],
         index' = [index EXCEPT ![w] = EntryFor(Content(w))]
  PROVE  Published!Next
<1>1. Marked' = Marked \ {w} /\ w \in Marked
  BY DEF Marked, StoreTypeOK
<1>2. Published!Publish(w)
  BY <1>1, SameWindows DEF Published!Publish, Marked
<1> QED
  BY <1>2, SameWindows DEF Published!Next

\* A store without segments is an index as it begins.
LEMMA InitPublishes == StoreTypeOK /\ Init => Published!Init
<1> SUFFICES ASSUME StoreTypeOK, Init PROVE Published!Init
  OBVIOUS
<1>1. (CHOOSE id \in Ids : TRUE) # NoMark
  BY SomeId, IdsAssumption
<1>2. \A w \in Windows : EntryFor(Content(w)) # NoEntry <=> Held(Content(w)) # {}
  <2> SUFFICES ASSUME NEW w \in Windows PROVE Content(w) # NoEntry
    BY DEF EntryFor
  <2>1. Content(w) \in Contents(w)
    BY DEF StoreTypeOK, Content, Contents, TimesOf
  <2> QED BY <2>1, NoEntryAssumption
<1>3. Marked = {w \in Windows : EntryFor(Content(w)) # NoEntry}
  BY <1>1, <1>2 DEF Marked, Init
<1> QED
  BY <1>3, SameWindows DEF Published!Init, Init, Marked, StoreTypeOK

\* PostgreSQL: the candles and the marks of a batch appear together, and a
\* window's entry with the end of its mark; the rest is not seen.
LEMMA PgNextPublishes == PgInv /\ [PgNext]_pgVars => [Published!Next]_(Published!vars)
<1> SUFFICES ASSUME PgInv, [PgNext]_pgVars PROVE [Published!Next]_(Published!vars)
  OBVIOUS
<1>1. ASSUME UNCHANGED store PROVE UNCHANGED Published!vars
  BY <1>1 DEF store, Published!vars
<1>2. ASSUME NEW x \in Writers, CommitBatch(x) PROVE Published!Next
  <2> PICK old : old = tx[x]
    OBVIOUS
  <2>0. /\ TxShape(old) /\ TxMarks(old)
        /\ DOMAIN old.batch \ old.rows = {}
        /\ candles' = Upserted(old.batch) /\ MarkDirty(old.windows) /\ UNCHANGED index
    BY <1>2 DEF CommitBatch, RowsLeft, PgInv, TxsFit
  <2>1. old.windows \in SUBSET Windows
    BY <2>0 DEF TxShape
  <2>2. /\ DOMAIN old.batch = old.rows
        /\ \A t \in DOMAIN old.batch : old.batch[t] \in Values
    BY <2>0, SomeBatch DEF TxShape
  <2>3. candles' \in [Times -> Values \cup {NoCandle}]
    BY <2>0, <2>2 DEF Upserted, PgInv, StoreTypeOK
  <2>4. \A t \in Times : WindowOf(t) \notin old.windows => candles'[t] = candles[t]
    BY <2>0, <2>2 DEF Upserted, TxMarks
  <2>5. \A w \in Windows \ old.windows : Content(w)' = Content(w)
    BY <2>4 DEF Content, TimesOf
  <2>6. /\ \A w \in old.windows : dirty'[w] # NoMark
        /\ \A w \in Windows \ old.windows : dirty'[w] = dirty[w]
    BY <2>0, <2>1, FreshIdIsFresh, IdsAssumption DEF MarkDirty
  <2>7. Published!Write
    BY <2>0, <2>1, <2>3, <2>5, <2>6, WriteImplements
  <2> QED BY <2>7 DEF Published!Next
<1>3. ASSUME NEW x \in Writers, WriterStep(x), ~ CommitBatch(x) PROVE UNCHANGED Published!vars
  BY <1>1, <1>3 DEF WriterStep, BeginBatch, LockRow, LockMark, AbortBatch, vars, store
<1>4. ASSUME NEW r \in Refreshers, SharedStep(r) PROVE UNCHANGED Published!vars
  BY <1>1, <1>4 DEF SharedStep, BeginRefresh, FindDirty, FindNone, ReadWindow, SkipWindow, FailRefresh
<1>5. ASSUME NEW r \in Refreshers, WriteBackStep(r), ~ (CommitWindow(r) \/ CommitWindowLost(r))
      PROVE  UNCHANGED Published!vars
  BY <1>1, <1>5 DEF WriteBackStep, LockRevision, WaitForMark, FindRemarked, FindUnmarked
<1>6. ASSUME NEW r \in Refreshers, CommitWindow(r) \/ CommitWindowLost(r) PROVE Published!Next
  <2> PICK w : w = task[r].window
    OBVIOUS
  <2>1. /\ w \in Windows /\ dirty[w] # NoMark
        /\ candles' = candles /\ dirty' = [dirty EXCEPT ![w] = NoMark]
        /\ index' = [index EXCEPT ![w] = EntryFor(Content(w))]
    BY <1>6, CommitWindowIs, CommitPreserves
  <2> QED BY <2>1, PublishImplements DEF PgInv
<1>7. CASE UNCHANGED pgVars
  BY <1>1, <1>7 DEF pgVars, vars, store
<1> QED
  BY <1>2, <1>3, <1>4, <1>5, <1>6, <1>7 DEF PgNext

\* PostgreSQL keeps what storage-schema.md promises of segments: candles never
\* change without a mark, and a window is indexed, and loses its mark, only under
\* the candles that are there at that moment (storage/postgres/segments).
THEOREM PgPublishes == PgSpec => PublishesTheStore
<1>1. PgInit => Published!Init
  BY PgInitEstablishes, InitPublishes DEF PgInit, PgInv
<1> QED
  BY <1>1, PgInductive, PgNextPublishes, PTL DEF PgSpec, PublishesTheStore, Published!Spec

\* SQLite: each transaction is one step.
LEMMA NextPublishes == IInv /\ [Next]_vars => [Published!Next]_(Published!vars)
<1> SUFFICES ASSUME IInv, [Next]_vars PROVE [Published!Next]_(Published!vars)
  OBVIOUS
<1>0. StoreTypeOK /\ RefreshTypeOK /\ SnapshotCurrent
  BY DEF IInv, TypeOK
<1>1. ASSUME UNCHANGED store PROVE UNCHANGED Published!vars
  BY <1>1 DEF store, Published!vars
<1>2. ASSUME NEW ws \in SUBSET Windows, candles' \in [Times -> Values \cup {NoCandle}],
             \A w \in Windows \ ws : Content(w)' = Content(w), MarkDirty(ws), UNCHANGED index
      PROVE  Published!Next
  <2>1. /\ \A w \in ws : dirty'[w] # NoMark
        /\ \A w \in Windows \ ws : dirty'[w] = dirty[w]
    BY <1>2, FreshIdIsFresh, IdsAssumption DEF MarkDirty
  <2>2. Published!Write
    BY <1>2, <2>1, WriteImplements
  <2> QED BY <2>2 DEF Published!Next
<1>3. ASSUME NEW b \in Batches, NEW repeated \in SUBSET DOMAIN b, Upsert(b, repeated) PROVE Published!Next
  <2>1. Changed(b, repeated) \in SUBSET Windows
    BY BatchesAssumption DEF Changed, Windows
  <2>2. candles' \in [Times -> Values \cup {NoCandle}]
    BY <1>0, <1>3, BatchesAssumption DEF Upsert, Upserted, StoreTypeOK
  <2>3. ASSUME NEW w \in Windows \ Changed(b, repeated) PROVE Content(w)' = Content(w)
    <3>1. \A t \in TimesOf(w) : candles'[t] = candles[t]
      BY <1>3, <2>3 DEF Upsert, Upserted, Changed, TimesOf
    <3> QED BY <3>1 DEF Content, TimesOf
  <2> QED BY <1>2, <1>3, <2>1, <2>2, <2>3 DEF Upsert
<1>4. ASSUME NEW v \in Windows, EmptyWindow(v) PROVE Published!Next
  <2>1. candles' \in [Times -> Values \cup {NoCandle}]
    BY <1>0, <1>4 DEF EmptyWindow, StoreTypeOK
  <2>2. ASSUME NEW w \in Windows \ {v} PROVE Content(w)' = Content(w)
    <3>1. \A t \in TimesOf(w) : candles'[t] = candles[t]
      BY <1>4, <2>2 DEF EmptyWindow, TimesOf
    <3> QED BY <3>1 DEF Content, TimesOf
  <2> QED BY <1>2, <1>4, <2>1, <2>2 DEF EmptyWindow
<1>5. ASSUME NEW r \in Refreshers, WriteWindow(r) \/ WriteLost(r) PROVE Published!Next
  <2> PICK w : w = task[r].window
    OBVIOUS
  <2>1. /\ w \in Windows /\ dirty[w] # NoMark /\ snapshot[r].candles = Content(w)
        /\ snapshot[r].indexed = index[w] /\ Publish(w, snapshot[r])
    BY <1>0, <1>5, IdsAssumption
       DEF WriteWindow, WriteLost, RefreshTypeOK, SnapshotCurrent, Snapshots
  <2>2. index' = [index EXCEPT ![w] = EntryFor(Content(w))]
    <3>1. index = [v \in Windows |-> index[v]]
      BY <1>0 DEF StoreTypeOK
    <3>2. CASE index[w] = EntryFor(Content(w))
      BY <2>1, <3>1, <3>2 DEF Publish
    <3>3. CASE index[w] # EntryFor(Content(w))
      BY <2>1, <3>3 DEF Publish
    <3> QED BY <3>2, <3>3
  <2> QED BY <1>0, <2>1, <2>2, PublishImplements DEF Publish
<1>6. ASSUME NEW r \in Refreshers, RefreshStep(r) \/ Fault(r), ~ (WriteWindow(r) \/ WriteLost(r))
      PROVE  UNCHANGED Published!vars
  BY <1>1, <1>6 DEF RefreshStep, Fault, BeginRefresh, FindDirty, FindNone, ReadWindow, SkipWindow,
                    WriteElsewhere, WriteMarked, FailRefresh
<1>7. ASSUME NEW p \in Readers, Read(p) PROVE UNCHANGED Published!vars
  BY <1>1, <1>7 DEF Read, Resolve, ResolveEmpty, ReadTip, Release
<1>8. CASE UNCHANGED vars
  BY <1>1, <1>8 DEF vars, store
<1> QED
  BY <1>3, <1>4, <1>5, <1>6, <1>7, <1>8, EmptiedAssumption DEF Next, Write, Windows, WindowOf

\* SQLite keeps the same promise (storage/sqlite/segments).
THEOREM Publishes == Spec => PublishesTheStore
<1>1. Init => Published!Init
  BY InitEstablishes, InitPublishes DEF IInv, TypeOK
<1> QED
  BY <1>1, Inductive, NextPublishes, PTL DEF Spec, PublishesTheStore, Published!Spec

-----------------------------------------------------------------------------
(* Who waits for whom.                                                      *)

\* A finite set has a member that is latest by a count.
LEMMA Latest ==
  ASSUME NEW X, IsFiniteSet(X), X # {}, NEW f \in [X -> Nat]
  PROVE  \E y \in X : \A z \in X : f[z] <= f[y]
<1> DEFINE After(y) == {z \in X : f[y] < f[z]}
           T == {After(y) : y \in X}
<1>1. IsWellFoundedOn(StrictSubsetOrdering(X), FiniteSubsetsOf(X))
  BY FS_StrictSubsetOrderingWellFounded
<1>2. T \subseteq FiniteSubsetsOf(X) /\ T # {}
  <2>1. \A y \in X : After(y) \in SUBSET X
    OBVIOUS
  <2> HIDE DEF After
  <2>2. \A y \in X : IsFiniteSet(After(y))
    BY <2>1, FS_Subset
  <2> QED BY <2>1, <2>2 DEF FiniteSubsetsOf
<1>3. PICK least \in T : \A other \in T : ~ (<<other, least>> \in StrictSubsetOrdering(X))
  <2> HIDE DEF T
  <2> QED BY <1>1, <1>2, WFMin
<1>4. PICK y \in X : least = After(y)
  OBVIOUS
<1>5. ASSUME NEW z \in X, f[y] < f[z] PROVE FALSE
  <2>1. After(z) \subseteq After(y) /\ z \in After(y) /\ z \notin After(z)
    BY <1>5
  <2>2. <<After(z), After(y)>> \in StrictSubsetOrdering(X)
    BY <2>1 DEF StrictSubsetOrdering
  <2> QED BY <1>3, <1>4, <2>2
<1> QED
  BY <1>5

\* A writer is about to lock one row or one mark, after every one it holds.
LEMMA NextInOrder ==
  ASSUME PgInv, NEW x \in Writers
  PROVE  /\ \A t \in NextRow(x) : /\ t \in Nat /\ RowsLeft(x) # {}
                                  /\ \A u \in NextRow(x) : u = t
                                  /\ \A u \in tx[x].rows : u < t
         /\ \A w \in NextMark(x) : /\ w \in Nat /\ RowsLeft(x) = {}
                                   /\ \A v \in NextMark(x) : v = w
                                   /\ \A v \in tx[x].marks : v < w
<1>1. TxShape(tx[x]) /\ TxInOrder(tx[x])
  BY DEF PgInv, TxsFit
<1>2. DOMAIN tx[x].batch \subseteq Nat /\ tx[x].windows \subseteq Nat
  BY <1>1, SomeBatch, WindowNat, GridAssumption DEF TxShape
<1> QED
  BY <1>1, <1>2 DEF NextRow, NextMark, RowsLeft, TxInOrder

\* Rows come before marks, and both in order, so the latest of those who wait
\* for a lock waits for no other of them.
LEMMA NoneWaitsAround == PgInv => NoCircularWait
<1> DEFINE Waiting == {x \in Writers \cup Refreshers : WaitsFor(x) # {}}
<1> SUFFICES ASSUME PgInv, NEW xs \in (SUBSET Waiting) \ {{}},
                    \A x \in xs : WaitsFor(x) \cap xs # {}
             PROVE  FALSE
  BY DEF NoCircularWait
<1>1. \A r \in xs \ Writers : r \in Refreshers /\ phase[r] = "wait"
  BY DEF WaitsFor
<1>2. \A x \in xs : \A y \in WaitsFor(x) \cap xs : y \in Writers
  <2>1. \A t : RowHolders(t) \subseteq Writers
    BY DEF RowHolders
  <2>2. \A w : MarkHolders(w) \subseteq Writers \cup {r \in Refreshers : phase[r] = "hold"}
    BY DEF MarkHolders
  <2> DEFINE Holding == Writers \cup {r \in Refreshers : phase[r] = "hold"}
  <2>3. ASSUME NEW x, NEW y \in WaitsFor(x) PROVE y \in Holding
    <3>1. CASE x \in Writers
      <4> DEFINE Rows == UNION {RowHolders(t) : t \in NextRow(x)}
                 Marks == UNION {MarkHolders(w) : w \in NextMark(x)}
      <4>0. WaitsFor(x) = Rows \cup Marks
        BY <3>1 DEF WaitsFor
      <4>1. y \in Rows \/ y \in Marks
        <5> HIDE DEF Rows, Marks
        <5> QED BY <2>3, <4>0
      <4>2. \/ \E t \in NextRow(x) : y \in RowHolders(t)
            \/ \E w \in NextMark(x) : y \in MarkHolders(w)
        BY <4>1
      <4> QED BY <2>1, <2>2, <4>2
    <3>2. CASE x \notin Writers
      <4>1. y \in MarkHolders(task[x].window)
        BY <2>3, <3>2 DEF WaitsFor
      <4> QED BY <2>2, <4>1
    <3> QED BY <3>1, <3>2
  <2> QED BY <1>1, <2>3
<1> DEFINE Marking == {x \in xs \cap Writers : RowsLeft(x) = {}}
           Locking == xs \cap Writers
<1>3. IsFiniteSet(Marking) /\ IsFiniteSet(Locking)
  <2>1. Marking \in SUBSET Writers /\ Locking \in SUBSET Writers /\ IsFiniteSet(Writers)
    BY WritersAssumption
  <2> HIDE DEF Marking, Locking
  <2> QED BY <2>1, FS_Subset
<1>4. ASSUME NEW x \in Marking PROVE NextMark(x) # {} /\ WaitsFor(x) = UNION {MarkHolders(w) : w \in NextMark(x)}
  <2>1. NextRow(x) = {} /\ WaitsFor(x) # {}
    BY <1>4 DEF NextRow
  <2> DEFINE Rows == UNION {RowHolders(t) : t \in NextRow(x)}
             Marks == UNION {MarkHolders(w) : w \in NextMark(x)}
  <2>2. WaitsFor(x) = Rows \cup Marks
    BY <1>4 DEF WaitsFor
  <2>3. Rows = {}
    BY <2>1
  <2>4. WaitsFor(x) = Marks
    <3> HIDE DEF Rows, Marks
    <3> QED BY <2>2, <2>3
  <2>5. \E w \in NextMark(x) : MarkHolders(w) # {}
    BY <2>1, <2>4
  <2> QED BY <2>4, <2>5
<1>5. CASE Marking # {}
  <2> DEFINE f == [x \in Marking |-> CHOOSE w : w \in NextMark(x)]
  <2>1. \A x \in Marking : f[x] \in NextMark(x) /\ f[x] \in Nat
    BY <1>4, NextInOrder
  <2>2. f \in [Marking -> Nat]
    BY <2>1
  <2> HIDE DEF f, Marking
  <2>3. PICK y \in Marking : \A z \in Marking : f[z] <= f[y]
    BY <1>3, <1>5, <2>2, Latest
  <2> USE DEF Marking
  <2>4. PICK z \in xs \cap Writers : z \in WaitsFor(y)
    BY <1>2
  <2>5. z \in MarkHolders(f[y])
    BY <1>4, <2>1, <2>4, NextInOrder
  <2>6. f[y] \in tx[z].marks
    BY <2>5, WritersAssumption DEF MarkHolders
  <2>7. z \in Marking
    BY <2>4, <2>6 DEF PgInv, TxsFit, TxInOrder, RowsLeft
  <2>8. f[y] < f[z]
    BY <2>1, <2>6, <2>7, NextInOrder
  <2> QED BY <2>1, <2>3, <2>7, <2>8
<1>6. CASE Marking = {}
  <2>1. ASSUME NEW x \in Locking
        PROVE  NextRow(x) # {} /\ WaitsFor(x) = UNION {RowHolders(t) : t \in NextRow(x)}
    <3>1. NextMark(x) = {} /\ WaitsFor(x) # {}
      BY <1>6, <2>1 DEF NextMark
    <3>2. WaitsFor(x) = UNION {RowHolders(t) : t \in NextRow(x)}
      BY <2>1, <3>1 DEF WaitsFor
    <3> QED BY <3>1, <3>2
  <2> DEFINE f == [x \in Locking |-> CHOOSE t : t \in NextRow(x)]
  <2>2. \A x \in Locking : f[x] \in NextRow(x) /\ f[x] \in Nat
    BY <2>1, NextInOrder
  <2>3. f \in [Locking -> Nat] /\ Locking # {}
    BY <1>2, <2>2
  <2> HIDE DEF f, Locking
  <2>4. PICK y \in Locking : \A z \in Locking : f[z] <= f[y]
    BY <1>3, <2>3, Latest
  <2> USE DEF Locking
  <2>5. PICK z \in xs \cap Writers : z \in WaitsFor(y)
    BY <1>2
  <2>6. f[y] \in tx[z].rows
    BY <2>1, <2>2, <2>5, NextInOrder DEF RowHolders
  <2>7. f[y] < f[z]
    BY <2>2, <2>5, <2>6, NextInOrder
  <2> QED BY <2>2, <2>4, <2>5, <2>7
<1> QED
  BY <1>5, <1>6

\* No set of transactions ever waits for itself: Batch::of sorts the rows, and
\* the windows come from a BTreeSet (storage/postgres/candles.rs).
THEOREM NeverWaitsAround == PgSpec => []NoCircularWait
BY PgInductive, NoneWaitsAround, PTL
=============================================================================
