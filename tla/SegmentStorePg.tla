--------------------------- MODULE SegmentStorePg ---------------------------
(* The segments of one market on PostgreSQL (storage/postgres/candles.rs    *)
(* and storage/postgres/segments).  The refresh loop is the one of          *)
(* SegmentStore (storage/refresh.rs), whose reads here are REPEATABLE READ  *)
(* snapshots.  Its writes are not single steps: a batch locks its rows one  *)
(* by one, then the marks of the windows it changed, and commits; a         *)
(* write-back locks its window's mark, and waits for it if a writer or      *)
(* another write-back holds it.  Both run in READ COMMITTED, so a statement *)
(* that waited goes on with what the other transaction left.                *)
EXTENDS SegmentStore

CONSTANTS
    Writers,    \* the calls of upsert_candles that may run at once
    Repeats     \* the open times a batch may hold twice, with a difference

ASSUME WritersAssumption == Writers \cap Refreshers = {} /\ IsFiniteSet(Writers)

VARIABLE tx         \* each writer's transaction

pgVars == <<vars, tx>>

-----------------------------------------------------------------------------
(* A writer's transaction: its batch, the rows it has locked, the windows   *)
(* it has to mark, and the marks it has locked.                             *)

NoTx == [batch |-> [t \in {} |-> NoCandle], rows |-> {}, windows |-> {}, marks |-> {}]

InTx(x) == tx[x] # NoTx

RowsLeft(x) == DOMAIN tx[x].batch \ tx[x].rows

\* Mutant: the rows of a batch in the order the caller gave them.
NextRowUnsorted(x) == RowsLeft(x)

\* Batch::of sorts by open time, so rows are locked in key order.
NextRow(x) == {t \in RowsLeft(x) : \A u \in RowsLeft(x) : t <= u}

\* The MARK statement follows the upsert, its windows in order too.
NextMark(x) ==
    {w \in tx[x].windows \ tx[x].marks :
       RowsLeft(x) = {} /\ \A v \in tx[x].windows \ tx[x].marks : w <= v}

RowHolders(t) == {x \in Writers : t \in tx[x].rows}

\* Mutant: the write-back reads the mark without FOR UPDATE.
MarkHoldersUnlocked(w) == {x \in Writers : w \in tx[x].marks}

MarkHolders(w) ==
    {x \in Writers : w \in tx[x].marks}
      \cup {r \in Refreshers : phase[r] = "hold" /\ task[r].window = w}

BeginBatch(x, batch, repeated) ==
    /\ ~InTx(x)
    /\ tx' = [tx EXCEPT ![x] = [NoTx EXCEPT !.batch = batch,
                                            !.windows = {WindowOf(t) : t \in repeated}]]
    /\ UNCHANGED vars

(* The upsert locks a row, there already or not, whether or not it changes  *)
(* it; it compares it with what the writers before it have committed.       *)
LockRow(x) ==
    \E t \in NextRow(x) :
      /\ RowHolders(t) = {}
      /\ tx' = [tx EXCEPT ![x].rows = tx[x].rows \cup {t},
                          ![x].windows = IF tx[x].batch[t] # candles[t]
                                           THEN tx[x].windows \cup {WindowOf(t)}
                                           ELSE tx[x].windows]
      /\ UNCHANGED vars

(* The MARK statement inserts a mark, or takes the one there over.          *)
LockMark(x) ==
    \E w \in NextMark(x) :
      /\ MarkHolders(w) = {}
      /\ tx' = [tx EXCEPT ![x].marks = tx[x].marks \cup {w}]
      /\ UNCHANGED vars

(* The candles and the fresh revisions of the marks appear together.  The   *)
(* answer may be lost: the batch is in the store all the same.              *)
CommitBatch(x) ==
    /\ InTx(x)
    /\ RowsLeft(x) = {}
    /\ tx[x].marks = tx[x].windows
    /\ candles' = Upserted(tx[x].batch)
    /\ MarkDirty(tx[x].windows)
    /\ tx' = [tx EXCEPT ![x] = NoTx]
    /\ UNCHANGED <<index, refresh, plan>>

(* A statement fails or times out, or the connection is lost.               *)
AbortBatch(x) ==
    /\ InTx(x)
    /\ tx' = [tx EXCEPT ![x] = NoTx]
    /\ UNCHANGED vars

-----------------------------------------------------------------------------
(* A write-back's transaction.  Before it holds the mark it is at "write",  *)
(* or at "wait" when it met a lock; it is at "gone" when the mark it waits  *)
(* for has been deleted.                                                    *)

(* LOCK_MARK finds the revision the refresh read.                           *)
LockRevision(r) ==
    LET w == task[r].window IN
    /\ phase[r] \in {"write", "wait"}
    /\ dirty[w] = snapshot[r].id
    /\ MarkHolders(w) = {}
    /\ phase' = [phase EXCEPT ![r] = "hold"]
    /\ UNCHANGED <<store, task, snapshot, plan, tx>>

WaitForMark(r) ==
    LET w == task[r].window IN
    /\ phase[r] = "write"
    /\ dirty[w] # NoMark
    /\ MarkHolders(w) # {}
    /\ phase' = [phase EXCEPT ![r] = "wait"]
    /\ UNCHANGED <<store, task, snapshot, plan, tx>>

(* Another revision: Marked, with the retries of SegmentStore.              *)
FindRemarked(r) ==
    LET w == task[r].window IN
    /\ phase[r] \in {"write", "wait"}
    /\ dirty[w] \notin {NoMark, snapshot[r].id}
    /\ MarkHolders(w) = {}
    /\ IF task[r].tries + 1 < ATTEMPTS
         THEN /\ phase' = [phase EXCEPT ![r] = "read"]
              /\ task' = [task EXCEPT ![r].tries = task[r].tries + 1]
              /\ snapshot' = [snapshot EXCEPT ![r] = NoSnapshot]
         ELSE GoOn(r)
    /\ UNCHANGED <<store, plan, tx>>

(* No mark, or the one it waited for is gone: Elsewhere.  A new mark a      *)
(* writer has inserted meanwhile is a row this statement does not see.      *)
FindUnmarked(r) ==
    /\ \/ phase[r] = "write" /\ dirty[task[r].window] = NoMark
       \/ phase[r] = "gone"
    /\ GoOn(r)
    /\ UNCHANGED <<store, plan, tx>>

\* The write-backs that wait for this one's mark find it deleted.
Unblocked(r, to) ==
    [q \in Refreshers |->
       CASE q = r -> to
         [] q # r /\ phase[q] = "wait" /\ task[q].window = task[r].window -> "gone"
         [] OTHER -> phase[q]]

(* Done: the segment, the entry and the end of the mark in one commit.      *)
CommitWindow(r) ==
    LET w == task[r].window IN
    /\ phase[r] = "hold"
    /\ Publish(w, snapshot[r])
    /\ phase' = Unblocked(r, "next")
    /\ task' = [task EXCEPT ![r].after = w, ![r].window = NoWindow, ![r].tries = 0]
    /\ snapshot' = [snapshot EXCEPT ![r] = NoSnapshot]
    /\ UNCHANGED <<plan, tx>>

(* The commit takes effect and its answer is lost (OutcomeUnknown).         *)
CommitWindowLost(r) ==
    /\ phase[r] = "hold"
    /\ Publish(task[r].window, snapshot[r])
    /\ phase' = Unblocked(r, "idle")
    /\ task' = [task EXCEPT ![r] = NoTask]
    /\ snapshot' = [snapshot EXCEPT ![r] = NoSnapshot]
    /\ UNCHANGED <<plan, tx>>

-----------------------------------------------------------------------------
PgInit == Init /\ tx = [x \in Writers |-> NoTx]

WriterStep(x) ==
    \/ \E b \in Batches : \E repeated \in SUBSET (Repeats \cap DOMAIN b) : BeginBatch(x, b, repeated)
    \/ LockRow(x)
    \/ LockMark(x)
    \/ CommitBatch(x)
    \/ AbortBatch(x)

\* The steps of the refresh loop that are the same on both backends.
SharedStep(r) ==
    \/ BeginRefresh(r)
    \/ FindDirty(r)
    \/ FindNone(r)
    \/ ReadWindow(r)
    \/ SkipWindow(r)
    \/ FailRefresh(r)

WriteBackStep(r) ==
    \/ LockRevision(r)
    \/ WaitForMark(r)
    \/ FindRemarked(r)
    \/ FindUnmarked(r)
    \/ CommitWindow(r)
    \/ CommitWindowLost(r)

PgNext ==
    \/ \E x \in Writers : WriterStep(x)
    \/ \E r \in Refreshers : SharedStep(r) /\ UNCHANGED tx
    \/ \E r \in Refreshers : WriteBackStep(r)

PgSpec == PgInit /\ [][PgNext]_pgVars

-----------------------------------------------------------------------------
(* Properties, besides SegmentStore's IndexedOrDirty.                       *)

(* The protocol of storage-schema.md, "Segments on PostgreSQL": however     *)
(* batches and write-backs overlap, wait, fail or lose their answers, a     *)
(* window is indexed only under the candles that are in the store when its  *)
(* mark goes, and candles never change without a mark.                      *)
Published ==
    INSTANCE SegmentIndex WITH marked <- {w \in Windows : dirty[w] # NoMark}

PublishesTheStore == Published!Spec

\* Whom a transaction waits for, with what it is about to lock.
WaitsFor(x) ==
    IF x \in Writers
      THEN (UNION {RowHolders(t) : t \in NextRow(x)})
             \cup (UNION {MarkHolders(w) : w \in NextMark(x)})
      ELSE IF phase[x] = "wait" THEN MarkHolders(task[x].window) ELSE {}

(* Batch::of sorts the rows and a BTreeSet the windows "so rows lock in key *)
(* order": no set of transactions waits for itself, so PostgreSQL never has *)
(* to break a deadlock among them.                                          *)
NoCircularWait ==
    LET Waiting == {x \in Writers \cup Refreshers : WaitsFor(x) # {}} IN
    \A xs \in (SUBSET Waiting) \ {{}} : \E x \in xs : WaitsFor(x) \cap xs = {}
=============================================================================
