------------------------- MODULE StoreJournalProofs -------------------------
(* A store's commands, however many and however they interleave.            *)
(* KeptAsRecorded speaks of rows and of who drives them; to be inductive it *)
(* needs what a command relies on between two of its transactions (Fits):   *)
(* once past its startup the schema has identities, the binding it read is  *)
(* the store's or was none, and the row it loaded keeps its mode and an     *)
(* identity that is not legacy; and that a legacy row has nothing traded    *)
(* under any identity yet (KeptRow), so that adopting it makes nothing      *)
(* false.  The last part proves that the store implements StoreRecord.      *)
EXTENDS StoreJournal, SequenceTheorems, TLAPS

(* The shapes of what the commands and the rows hold.                       *)
Tables == {"order_events", "closed_trades"}
AccountIds == Keys \cup {"none"}
Bounds == Environments \cup {"none"}

ProcType ==
    [step : {"off", "opening", "opened"}]
    \cup [step : {"waiting", "passing"}, snapshot : {Foreign} \cup 0..Newest]
    \cup [step : {"ready", "loaded", "creating", "driving"}, line : Invocations, bound : Bounds]
    \cup [step : {"listed"}, line : Invocations, bound : Bounds, listed : Modes \cup {"unrecorded"}]

Columns ==
    [source : {"legacy", "recorded", "adopted"}, environment : Bounds,
     kind : {"none", "key_fingerprint"}, id : AccountIds]

\* A row of a build before schema 5.
OldRowType ==
    [mode : {"unrecorded", "live"}, columns : {NoColumns}, original : {"none"}, ids : {"number"},
     saved : {NoSave}, journal : SUBSET {Entry(table, "unknown", "number") : table \in Tables}]

NewRowType ==
    [mode : Modes \cup {"unrecorded"}, columns : Columns,
     original : Modes \cup {"unrecorded", "none"}, ids : {"text"},
     saved : {NoSave} \cup [mode : Modes, endpoint : Endpoints, account : AccountIds],
     journal : SUBSET {Entry(table, account, "text") :
                         table \in Tables, account \in AccountIds \cup {"unknown"}}]

Types ==
    /\ version \in {Foreign} \cup 0..Newest
    /\ log \in Seq(Int \X Int)
    /\ lock \in Commands \cup {"none"}
    /\ environment \in Bounds
    /\ bot_runs \in [RunIds -> {NoRow} \cup OldRowType \cup NewRowType]
    /\ proc \in [Commands -> ProcType]

(* One command has the migration lock, and it is in its pass.               *)
Locked == \A p \in Commands : At(p, "passing") <=> lock = p

(* A row as its identity says. *)
KeptRow(row) ==
    /\ row.columns.kind = "none" <=> row.columns.id = "none"
    /\ row.saved # NoSave =>
         /\ row.saved.mode = row.mode
         /\ row.saved.account = row.columns.id
         /\ row.columns.environment # "none" =>
              row.saved.endpoint = Endpoint(row.columns.environment)
    /\ \A entry \in row.journal : entry.account \in {"unknown", row.columns.id}
    /\ row.columns.source = "legacy" =>
         /\ row.columns.environment = "none" /\ row.columns.id = "none"
         /\ row.saved = NoSave
         /\ \A entry \in row.journal : entry.account = "unknown"
    /\ row.mode = "unrecorded" => row.columns.source = "legacy"

(* Each row is one of its schema.                                           *)
Rows ==
    \A r \in RunIds :
        \/ bot_runs[r] = NoRow
        \/ version \in 0..SCHEMA_VERSION - 1 /\ bot_runs[r] \in OldRowType
        \/ version >= SCHEMA_VERSION /\ bot_runs[r] \in NewRowType /\ KeptRow(bot_runs[r])

RunOf(p) == bot_runs[proc[p].line.run]

(* What a command relies on of the store while others use it.               *)
Fits(p) ==
    /\ proc[p].step \notin {"off", "opening", "waiting", "passing"} => version >= SCHEMA_VERSION
    /\ proc[p].step \in {"ready", "listed", "loaded", "creating", "driving"} =>
         proc[p].bound \in {"none", environment}
    /\ At(p, "listed") =>
         /\ proc[p].line.command = "adopt" /\ proc[p].bound # "none"
         /\ RunOf(p) # NoRow
    /\ proc[p].step \in {"loaded", "creating", "driving"} =>
         proc[p].line.command \in {"drive", "close"} /\ VerifyEnvironment(p)
    /\ proc[p].step \in {"loaded", "driving"} => RunOf(p) # NoRow /\ RunOf(p).mode = proc[p].line.mode
    /\ At(p, "driving") =>
         /\ RunOf(p).columns.source # "legacy"
         /\ RunOf(p).columns.environment = proc[p].bound
         /\ RunOf(p).columns.id = Account(p, proc[p].line.mode)

Procs == \A p \in Commands : Fits(p)

IInv == Types /\ Locked /\ Rows /\ Procs /\ LogIsTheWay
-----------------------------------------------------------------------------
\* What a command at each of its steps holds.
LEMMA ProcShapes ==
    ASSUME NEW it \in ProcType
    PROVE  /\ it.step \in Steps
           /\ it.step \in {"ready", "loaded", "creating", "driving"} =>
                it \in [step : {"ready", "loaded", "creating", "driving"}, line : Invocations, bound : Bounds]
           /\ it.step = "listed" =>
                it \in [step : {"listed"}, line : Invocations, bound : Bounds, listed : Modes \cup {"unrecorded"}]
           /\ it.step = "waiting" => it \in [step : {"waiting", "passing"}, snapshot : {Foreign} \cup 0..Newest]
BY DEF ProcType, Steps

\* What each command line says.
LEMMA LineShapes ==
    ASSUME NEW line \in Invocations
    PROVE  /\ line.command \in {"bind", "adopt", "drive", "close"}
           /\ line.endpoint \in Endpoints /\ line.key \in AccountIds
           /\ line.command = "bind" => line.environment \in Environments
           /\ line.command # "bind" => line.run \in RunIds
           /\ line.command = "adopt" => line.mode \in Modes \cup {"none"}
           /\ line.command \in {"drive", "close"} => line.mode \in Modes
           /\ line.command = "close" => line.mode = "live"
<1>1. line \in CommandLines
  BY JournalAssumption
<1> QED
  BY <1>1 DEF CommandLines, AccountIds, Modes

\* The columns of a row that is kept as its identity says read back as that identity.
LEMMA IdentityIs ==
    ASSUME NEW row \in NewRowType, KeptRow(row)
    PROVE  IdentityOf(row) = {[source |-> row.columns.source, environment |-> row.columns.environment,
                               account |-> row.columns.id]}
<1>1. row.columns \in Columns /\ row.columns # NoColumns
  BY DEF NewRowType, Columns, NoColumns
<1>2. row.columns.kind = "none" <=> row.columns.id = "none"
  BY DEF KeptRow
<1> DEFINE columns == row.columns
<1>3. {c \in {columns} : /\ c.environment \in Environments \cup {"none"}
                         /\ c.kind = "none" <=> c.id = "none"
                         /\ c.source \in {"legacy", "recorded", "adopted"}} = {columns}
  BY <1>1, <1>2 DEF Columns, Bounds
<1> QED
  BY <1>1, <1>3 DEF IdentityOf, IdentityFromColumns

\* What another command does to the store leaves what this one relies on: the
\* schema goes forward, the binding stays, and a row keeps its mode and an
\* identity that is not legacy.
LEMMA ProcsKept ==
    ASSUME IInv, proc' \in [Commands -> ProcType],
           version >= SCHEMA_VERSION => version' >= SCHEMA_VERSION,
           environment' = environment \/ environment = "none",
           version >= SCHEMA_VERSION => \A r \in RunIds : bot_runs[r] # NoRow =>
               /\ bot_runs'[r] # NoRow
               /\ bot_runs[r].mode \in Modes => bot_runs'[r].mode = bot_runs[r].mode
               /\ bot_runs[r].columns.source # "legacy" => bot_runs'[r].columns = bot_runs[r].columns,
           NEW p \in Commands, \A q \in Commands \ {p} : proc'[q] = proc[q], Fits(p)'
    PROVE  Procs'
<1> SUFFICES ASSUME NEW q \in Commands, q # p PROVE Fits(q)'
  BY DEF Procs
<1>0. Fits(q) /\ proc'[q] = proc[q] /\ proc[q] \in ProcType
  BY DEF IInv, Procs, Types
<1>1. CASE proc[q].step \in {"off", "opening", "waiting", "passing"}
  BY <1>0, <1>1 DEF Fits, At
<1>2. CASE proc[q].step \in {"opened", "ready", "creating"}
  BY <1>0, <1>2 DEF Fits, At, VerifyEnvironment
<1>3. CASE proc[q].step \in {"listed", "loaded", "driving"}
  <2>1. version >= SCHEMA_VERSION /\ proc[q].line \in Invocations
    BY <1>0, <1>3, ProcShapes DEF Fits
  <2>2. proc[q].line.run \in RunIds /\ (~ At(q, "listed") => proc[q].line.mode \in Modes)
    BY <1>0, <1>3, <2>1, LineShapes DEF Fits, At
  <2> QED BY <1>0, <1>3, <2>1, <2>2 DEF Fits, At, VerifyEnvironment, RunOf, Account
<1> QED
  BY <1>0, <1>1, <1>2, <1>3, ProcShapes DEF Steps

\* A command that only takes a step of its own.
LEMMA StoreUntouched ==
    ASSUME IInv, UNCHANGED store, lock' \in Commands \cup {"none"}, Locked',
           NEW p \in Commands, NEW next \in ProcType, proc' = [proc EXCEPT ![p] = next], Fits(p)'
    PROVE  IInv'
<1>1. Types'
  BY DEF IInv, Types, store
<1>2. Rows'
  BY DEF IInv, Rows, store
<1>3. LogIsTheWay'
  BY DEF IInv, LogIsTheWay, store
<1>4. Procs'
  <2>1. \A q \in Commands \ {p} : proc'[q] = proc[q]
    BY DEF IInv, Types
  <2> QED BY <1>1, <2>1, ProcsKept DEF store, Types
<1> QED
  BY <1>1, <1>2, <1>3, <1>4 DEF IInv

-----------------------------------------------------------------------------
(* The start of a command.                                                  *)

\* A command starts.
LEMMA StartPreserves ==
    ASSUME IInv, NEW p \in Commands, Start(p)
    PROVE  IInv'
<1>1. proc' = [proc EXCEPT ![p] = Opening] /\ Opening \in ProcType /\ lock' = lock /\ UNCHANGED store
  BY DEF Start, Become, ProcType, Opening
<1>2. Locked'
  BY <1>1 DEF IInv, Types, Locked, Start, At, Opening
<1>3. Fits(p)'
  BY <1>1 DEF IInv, Types, Fits, Opening, At
<1> QED
  BY <1>1, <1>2, <1>3, StoreUntouched DEF IInv, Types

\* Its migration begins a transaction.
LEMMA BeginPassPreserves ==
    ASSUME IInv, NEW p \in Commands, BeginPass(p)
    PROVE  IInv'
<1> DEFINE next == [step |-> "waiting", snapshot |-> version]
<1>1. proc' = [proc EXCEPT ![p] = next] /\ next \in ProcType /\ lock' = lock /\ UNCHANGED store
  BY DEF BeginPass, Become, ProcType, IInv, Types
<1>2. Locked'
  BY <1>1 DEF IInv, Types, Locked, BeginPass, At
<1>3. Fits(p)'
  BY <1>1 DEF IInv, Types, Fits, At
<1> HIDE DEF next
<1> QED
  BY <1>1, <1>2, <1>3, StoreUntouched DEF IInv, Types

\* The lock passes to one of those who wait for it.
LEMMA TakeLockPreserves ==
    ASSUME IInv, NEW p \in Commands, TakeLock(p)
    PROVE  IInv'
<1> DEFINE next == [proc[p] EXCEPT !.step = "passing"]
<1>1. proc[p] \in [step : {"waiting", "passing"}, snapshot : {Foreign} \cup 0..Newest]
  BY ProcShapes DEF IInv, Types, TakeLock, At
<1>2. /\ proc' = [proc EXCEPT ![p] = next] /\ next \in ProcType /\ next.step = "passing"
      /\ lock = "none" /\ lock' = p /\ UNCHANGED store
  BY <1>1 DEF TakeLock, GoTo, Become, ProcType
<1> HIDE DEF next
<1>3. Locked'
  BY <1>2, JournalAssumption DEF IInv, Types, Locked, At
<1>4. Fits(p)'
  BY <1>2 DEF IInv, Types, Fits, At
<1> QED
  BY <1>2, <1>3, <1>4, StoreUntouched

\* The schema is current, and the command may rely on it from here.
LEMMA PassCurrentPreserves ==
    ASSUME IInv, NEW p \in Commands, PassCurrent(p)
    PROVE  IInv'
<1> DEFINE next == [step |-> "opened"]
<1>1. /\ proc' = [proc EXCEPT ![p] = next] /\ next \in ProcType
      /\ lock = p /\ lock' = "none" /\ UNCHANGED store /\ version = SCHEMA_VERSION
  BY DEF PassCurrent, Become, ProcType, IInv, Locked, Found
<1>2. Locked'
  BY <1>1, JournalAssumption DEF IInv, Types, Locked, At
<1>3. Fits(p)'
  BY <1>1 DEF IInv, Types, Fits, At, store, SCHEMA_VERSION
<1> HIDE DEF next
<1> QED
  BY <1>1, <1>2, <1>3, StoreUntouched

\* A newer or a foreign schema is refused, and the lock given back.
LEMMA PassRefusedPreserves ==
    ASSUME IInv, NEW p \in Commands, PassRefused(p)
    PROVE  IInv'
<1>1. /\ proc' = [proc EXCEPT ![p] = Off] /\ Off \in ProcType
      /\ lock = p /\ lock' = "none" /\ UNCHANGED store
  BY DEF PassRefused, Become, ProcType, IInv, Locked, Off
<1>2. Locked'
  BY <1>1, JournalAssumption DEF IInv, Types, Locked, At, Off
<1>3. Fits(p)'
  BY <1>1 DEF IInv, Types, Fits, At, Off
<1> QED
  BY <1>1, <1>2, <1>3, StoreUntouched

\* A command leaves at any point, and gives back the lock it held.
LEMMA LeavePreserves ==
    ASSUME IInv, NEW p \in Commands, Leave(p)
    PROVE  IInv'
<1>1. /\ proc' = [proc EXCEPT ![p] = Off] /\ Off \in ProcType
      /\ lock' = (IF lock = p THEN "none" ELSE lock) /\ UNCHANGED store
  BY DEF Leave, Become, ProcType, Off
<1>2. Locked' /\ lock' \in Commands \cup {"none"}
  BY <1>1, JournalAssumption DEF IInv, Types, Locked, At, Off
<1>3. Fits(p)'
  BY <1>1 DEF IInv, Types, Fits, At, Off
<1> QED
  BY <1>1, <1>2, <1>3, StoreUntouched

\* The binding a command reads is the store's, or none was there yet.
LEMMA ReadIdentityPreserves ==
    ASSUME IInv, NEW p \in Commands, ReadIdentity(p)
    PROVE  IInv'
<1> PICK line \in Invocations : Become(p, [step |-> "ready", line |-> line, bound |-> environment])
  BY DEF ReadIdentity
<1> DEFINE next == [step |-> "ready", line |-> line, bound |-> environment]
<1>1. /\ proc' = [proc EXCEPT ![p] = next] /\ next \in ProcType
      /\ proc[p].step = "opened" /\ lock' = lock /\ UNCHANGED store
  BY DEF ReadIdentity, Become, ProcType, IInv, Types, At
<1>2. Locked'
  BY <1>1 DEF IInv, Types, Locked, At
<1>3. Fits(p)'
  BY <1>1 DEF IInv, Types, Procs, Fits, At, store
<1> HIDE DEF next
<1> QED
  BY <1>1, <1>2, <1>3, StoreUntouched DEF IInv, Types

-----------------------------------------------------------------------------
(* What the commands check.                                                 *)

\* The row that is listed is there.
LEMMA ListLegacyPreserves ==
    ASSUME IInv, NEW p \in Commands, ListLegacy(p)
    PROVE  IInv'
<1> DEFINE line == proc[p].line
           next == [step |-> "listed", line |-> line, bound |-> proc[p].bound,
                    listed |-> bot_runs[line.run].mode]
<1>1. /\ proc[p].step = "ready" /\ proc[p].bound # "none" /\ line.command = "adopt"
      /\ bot_runs[line.run] # NoRow
      /\ proc' = [proc EXCEPT ![p] = next] /\ lock' = lock /\ UNCHANGED store
  BY DEF ListLegacy, Become, On, At, LegacyRuns
<1>2. proc[p] \in [step : {"ready", "loaded", "creating", "driving"}, line : Invocations, bound : Bounds]
  BY <1>1, ProcShapes DEF IInv, Types
<1>3. line.run \in RunIds
  BY <1>1, <1>2, LineShapes
<1>4. next \in ProcType
  <2>1. bot_runs[line.run].mode \in Modes \cup {"unrecorded"}
    BY <1>1, <1>3 DEF IInv, Types, OldRowType, NewRowType, Modes
  <2> QED BY <1>2, <2>1 DEF ProcType
<1>5. Locked'
  BY <1>1 DEF IInv, Types, Locked, At
<1>6. Fits(p)'
  <2>1. Fits(p) /\ proc'[p] = next
    BY <1>1 DEF IInv, Types, Procs
  <2> QED BY <1>1, <2>1 DEF Fits, At, store, RunOf
<1> HIDE DEF next
<1> QED
  BY <1>1, <1>4, <1>5, <1>6, StoreUntouched DEF IInv, Types

\* A command goes on, to a step that what it checked of the store bears out.
LEMMA GoesOn ==
    ASSUME IInv, NEW p \in Commands, NEW step \in {"loaded", "creating", "driving"},
           GoTo(p, step), proc[p].step \in {"ready", "loaded", "creating"},
           proc[p].line.command \in {"drive", "close"},
           VerifyEnvironment(p), lock' = lock, UNCHANGED store,
           step \in {"loaded", "driving"} => RunOf(p) # NoRow /\ RunOf(p).mode = proc[p].line.mode,
           step = "driving" =>
             /\ RunOf(p).columns.source # "legacy"
             /\ RunOf(p).columns.environment = proc[p].bound
             /\ RunOf(p).columns.id = Account(p, proc[p].line.mode)
    PROVE  IInv'
<1> DEFINE next == [proc[p] EXCEPT !.step = step]
<1>1. /\ proc[p] \in [step : {"ready", "loaded", "creating", "driving"}, line : Invocations, bound : Bounds]
      /\ proc' = [proc EXCEPT ![p] = next]
  BY ProcShapes DEF IInv, Types, GoTo, Become
<1>2. /\ next \in ProcType /\ next.step = step /\ next.line = proc[p].line /\ next.bound = proc[p].bound
      /\ proc'[p] = next
  BY <1>1 DEF ProcType, IInv, Types
<1> HIDE DEF next
<1>3. Locked'
  BY <1>1, <1>2 DEF IInv, Types, Locked, At
<1>4. Fits(p)'
  <2>1. Fits(p)
    BY DEF IInv, Procs
  <2>2. Account(p, proc[p].line.mode)' = Account(p, proc[p].line.mode)
    BY <1>2 DEF Account
  <2>3. VerifyEnvironment(p)'
    BY <1>2 DEF VerifyEnvironment
  <2>4. RunOf(p)' = RunOf(p)
    BY <1>2 DEF RunOf, store
  <2> QED BY <1>2, <2>1, <2>2, <2>3, <2>4 DEF Fits, At, store, Account
<1> QED
  BY <1>1, <1>2, <1>3, <1>4, StoreUntouched DEF IInv, Types

\* A run that is loaded has the mode it is driven in.
LEMMA LoadRunPreserves ==
    ASSUME IInv, NEW p \in Commands, LoadRun(p)
    PROVE  IInv'
<1> DEFINE row == bot_runs[proc[p].line.run]
<1>1. /\ proc[p].step = "ready" /\ proc[p].line.command = "drive" /\ VerifyEnvironment(p)
      /\ row # NoRow => row.mode = proc[p].line.mode
      /\ GoTo(p, IF row = NoRow THEN "creating" ELSE "loaded")
      /\ lock' = lock /\ UNCHANGED store
  BY DEF LoadRun, MayTrade, On, At
<1>2. CASE row = NoRow
  BY <1>1, <1>2, GoesOn
<1>3. CASE row # NoRow
  BY <1>1, <1>3, GoesOn DEF RunOf
<1> QED
  BY <1>2, <1>3

\* A run that is closed is a live one.
LEMMA LoadForClosePreserves ==
    ASSUME IInv, NEW p \in Commands, LoadForClose(p)
    PROVE  IInv'
<1>1. /\ proc[p].step = "ready" /\ proc[p].line.command = "close" /\ VerifyEnvironment(p)
      /\ RunOf(p).mode = "live" /\ GoTo(p, "loaded")
      /\ lock' = lock /\ UNCHANGED store
  BY DEF LoadForClose, MayTrade, On, At, RunOf
<1>2. proc[p].line.mode = "live"
  BY <1>1, ProcShapes, LineShapes DEF IInv, Types
<1>3. RunOf(p) # NoRow
  BY <1>1 DEF NoRow
<1> QED
  BY <1>1, <1>2, <1>3, GoesOn

\* A run is driven with the identity that was checked.
LEMMA CheckIdentityPreserves ==
    ASSUME IInv, NEW p \in Commands, CheckIdentity(p)
    PROVE  IInv'
<1>1. /\ proc[p].step = "loaded" /\ GoTo(p, "driving") /\ lock' = lock /\ UNCHANGED store
      /\ Fits(p)
      /\ proc[p].line.command \in {"drive", "close"} /\ VerifyEnvironment(p)
      /\ RunOf(p) # NoRow /\ RunOf(p).mode = proc[p].line.mode
      /\ version >= SCHEMA_VERSION
  BY DEF CheckIdentity, At, IInv, Procs, Fits
<1>2. proc[p].line.run \in RunIds
  BY <1>1, ProcShapes, LineShapes DEF IInv, Types
<1>3. RunOf(p) \in NewRowType /\ KeptRow(RunOf(p))
  BY <1>1, <1>2 DEF IInv, Rows, RunOf, Types, SCHEMA_VERSION, Foreign, Newest
<1>4. /\ RunOf(p).columns.source # "legacy"
      /\ RunOf(p).columns.environment = proc[p].bound
      /\ RunOf(p).columns.id = Account(p, proc[p].line.mode)
  <2>1. PICK recorded \in IdentityOf(RunOf(p)) : Matches(recorded, RunIdentity(p, proc[p].line.mode))
    BY DEF CheckIdentity, RunOf
  <2>2. recorded = [source |-> RunOf(p).columns.source, environment |-> RunOf(p).columns.environment,
                    account |-> RunOf(p).columns.id]
    BY <1>3, <2>1, IdentityIs
  <2> QED BY <2>1, <2>2 DEF Matches, RunIdentity
<1> QED
  BY <1>1, <1>4, GoesOn

-----------------------------------------------------------------------------
(* What the commands write.                                                 *)

\* A binding is written only where there was none.
LEMMA BindPreserves ==
    ASSUME IInv, NEW p \in Commands, Bind(p)
    PROVE  IInv'
<1>1. /\ proc[p].step = "ready" /\ proc[p].line.command = "bind"
      /\ proc' = [proc EXCEPT ![p] = Off] /\ Off \in ProcType
      /\ environment' = BoundTo(environment, proc[p].line.environment)
      /\ UNCHANGED <<version, log, bot_runs, lock>>
  BY DEF Bind, On, At, Become, Off, ProcType
<1>2. proc[p].line.environment \in Environments
  BY <1>1, ProcShapes, LineShapes DEF IInv, Types
<1>3. environment' \in Bounds /\ (environment' = environment \/ environment = "none")
  BY <1>1, <1>2 DEF IInv, Types, BoundTo, Bounds
<1>4. Types'
  BY <1>1, <1>3 DEF IInv, Types
<1>5. Locked'
  BY <1>1 DEF IInv, Types, Locked, At, Off
<1>6. Fits(p)'
  BY <1>1 DEF IInv, Types, Fits, At, Off
<1>7. Procs'
  BY <1>1, <1>3, <1>4, <1>6, ProcsKept DEF Types, IInv
<1>8. Rows' /\ LogIsTheWay'
  BY <1>1 DEF IInv, Rows, LogIsTheWay
<1> QED
  BY <1>4, <1>5, <1>7, <1>8 DEF IInv

\* A command writes one run's row, as its identity says: a row that is there
\* keeps its mode, and an identity that is not legacy.
LEMMA RowWritten ==
    ASSUME IInv, NEW p \in Commands, NEW r \in RunIds, NEW row \in NewRowType, KeptRow(row),
           bot_runs' = [bot_runs EXCEPT ![r] = row], version >= SCHEMA_VERSION,
           bot_runs[r] # NoRow =>
               /\ bot_runs[r].mode \in Modes => row.mode = bot_runs[r].mode
               /\ bot_runs[r].columns.source # "legacy" => row.columns = bot_runs[r].columns,
           UNCHANGED <<version, log, environment, lock>>,
           NEW next \in ProcType, proc' = [proc EXCEPT ![p] = next],
           ~ At(p, "passing"), next.step # "passing", Fits(p)'
    PROVE  IInv'
<1>0. row # NoRow
  BY DEF NewRowType, NoRow, Modes
<1>1. Types'
  BY DEF IInv, Types
<1>2. Locked'
  BY DEF IInv, Types, Locked, At
<1>3. \A q \in RunIds : bot_runs'[q] = IF q = r THEN row ELSE bot_runs[q]
  BY DEF IInv, Types
<1>4. Rows'
  BY <1>3 DEF IInv, Rows
<1>5. Procs'
  <2>1. \A q \in Commands \ {p} : proc'[q] = proc[q]
    BY DEF IInv, Types
  <2> QED BY <1>0, <1>1, <1>3, <2>1, ProcsKept DEF Types
<1>6. LogIsTheWay'
  BY DEF IInv, LogIsTheWay
<1> QED
  BY <1>1, <1>2, <1>4, <1>5, <1>6 DEF IInv

\* The row a command listed, loaded or drives is one of schema 5, kept as its
\* identity says.
LEMMA RowRead ==
    ASSUME IInv, NEW p \in Commands, proc[p].step \in {"listed", "loaded", "driving"}
    PROVE  /\ proc[p].line \in Invocations /\ proc[p].line.run \in RunIds
           /\ proc[p].bound \in Bounds
           /\ version >= SCHEMA_VERSION
           /\ RunOf(p) \in NewRowType /\ KeptRow(RunOf(p)) /\ RunOf(p) # NoRow
<1>1. proc[p].line \in Invocations /\ proc[p].bound \in Bounds
  BY ProcShapes DEF IInv, Types
<1>2. Fits(p) /\ version >= SCHEMA_VERSION /\ RunOf(p) # NoRow /\ proc[p].line.command # "bind"
  BY DEF IInv, Procs, Fits, At
<1>3. proc[p].line.run \in RunIds
  BY <1>1, <1>2, LineShapes
<1>4. RunOf(p) \in NewRowType /\ KeptRow(RunOf(p))
  BY <1>2, <1>3 DEF IInv, Rows, RunOf, Types, SCHEMA_VERSION, Foreign, Newest
<1> QED
  BY <1>1, <1>2, <1>3, <1>4

\* The row it writes is one that no one has driven yet.
LEMMA AdoptRunPreserves ==
    ASSUME IInv, NEW p \in Commands, AdoptRun(p)
    PROVE  IInv'
<1> DEFINE run == proc[p].line.run
           line == proc[p].line
           old == RunOf(p)
           stated == IF proc[p].listed = "unrecorded" THEN line.mode ELSE "none"
<1>0. /\ proc[p].step = "listed" /\ line.command = "adopt" /\ proc[p].bound # "none"
      /\ proc[p].bound = environment
      /\ line.mode \in Modes \cup {"none"} /\ line.key \in AccountIds
      /\ line \in Invocations /\ run \in RunIds /\ proc[p].bound \in Bounds
      /\ version >= SCHEMA_VERSION
      /\ old \in NewRowType /\ KeptRow(old) /\ old # NoRow
      /\ proc' = [proc EXCEPT ![p] = Off] /\ Off \in ProcType
      /\ UNCHANGED <<version, log, environment, lock>>
  BY RowRead, LineShapes DEF AdoptRun, On, At, Become, Off, ProcType, IInv, Procs, Fits
<1> PICK mode \in AdoptedStates(old, stated) :
      bot_runs' = [bot_runs EXCEPT ![run] = AdoptedRow(@, mode, proc[p].bound, Account(p, mode))]
  BY DEF AdoptRun, RunOf
<1>1. old.columns.source = "legacy"
  <2>1. IdentityOf(old) = {Legacy}
    BY DEF AdoptedStates
  <2> DEFINE read == [source |-> old.columns.source, environment |-> old.columns.environment,
                           account |-> old.columns.id]
  <2>2. {read} = {Legacy}
    BY <1>0, <2>1, IdentityIs
  <2>3. read = Legacy
    BY <2>2
  <2>4. read.source = old.columns.source /\ Legacy.source = "legacy"
    BY DEF Legacy
  <2> HIDE DEF read
  <2> QED BY <2>3, <2>4
<1>2. mode \in Modes /\ (old.mode \in Modes => mode = old.mode)
  BY <1>0 DEF AdoptedStates, ModeOf, StatedFor, Modes, NewRowType
<1> DEFINE account == Account(p, mode)
           identity == [source |-> "adopted", environment |-> proc[p].bound, account |-> account]
           row == AdoptedRow(old, mode, proc[p].bound, account)
<1>3. account \in AccountIds
  BY <1>0 DEF Account, AccountIds
<1>4. /\ row.columns = IdentityColumns(identity) /\ row.mode = mode
      /\ row.saved = old.saved /\ row.journal = old.journal
      /\ row \in NewRowType
  <2>1. IdentityColumns(identity) \in Columns
    BY <1>0, <1>3 DEF IdentityColumns, Columns
  <2> DEFINE named == [old EXCEPT !.mode = mode]
  <2>2. /\ named \in NewRowType /\ named.mode = mode
        /\ named.saved = old.saved /\ named.journal = old.journal
    BY <1>0, <1>2 DEF NewRowType
  <2>3. row = [named EXCEPT !.columns = IdentityColumns(identity)]
    BY DEF AdoptedRow
  <2> HIDE DEF named, identity, row
  <2> QED BY <2>1, <2>2, <2>3 DEF NewRowType
<1>5. KeptRow(row)
  <2>1. /\ row.columns.id = account /\ row.columns.source = "adopted"
        /\ row.columns.kind = "none" <=> account = "none"
    BY <1>4 DEF IdentityColumns
  <2>2. old.saved = NoSave /\ \A entry \in old.journal : entry.account = "unknown"
    BY <1>0, <1>1 DEF KeptRow
  <2> HIDE DEF row, account
  <2> QED BY <1>2, <1>4, <2>1, <2>2 DEF KeptRow, Modes
<1>6. bot_runs' = [bot_runs EXCEPT ![run] = row]
  BY <1>0 DEF RunOf, IInv, Types
<1>7. Fits(p)'
  BY <1>0 DEF IInv, Types, Fits, At, Off
<1> HIDE DEF row
<1>8. /\ old.mode \in Modes => row.mode = old.mode
      /\ old.columns.source # "legacy" => row.columns = old.columns
  BY <1>1, <1>2, <1>4
<1> QED
  BY <1>0, <1>4, <1>5, <1>6, <1>7, <1>8, RowWritten DEF RunOf, At, Off

\* What both outcomes of a write leave to its command: to drive on, or to stop.
LEMMA CreateRunPreserves ==
    ASSUME IInv, NEW p \in Commands, CreateRun(p)
    PROVE  IInv'
<1> DEFINE line == proc[p].line
           row == NewRow(p, line.mode)
           driving == [proc[p] EXCEPT !.step = "driving"]
<1>0. /\ proc[p].step = "creating" /\ Fits(p) /\ VerifyEnvironment(p)
      /\ line.command \in {"drive", "close"} /\ version >= SCHEMA_VERSION
      /\ proc[p] \in [step : {"ready", "loaded", "creating", "driving"}, line : Invocations, bound : Bounds]
      /\ bot_runs[line.run] = NoRow
      /\ bot_runs' = [bot_runs EXCEPT ![line.run] = row]
      /\ UNCHANGED <<version, log, environment, lock>>
  BY ProcShapes DEF CreateRun, IInv, Types, Procs, Fits, At
<1>1. line.run \in RunIds /\ line.mode \in Modes /\ line.key \in AccountIds
  BY <1>0, LineShapes
<1> DEFINE identity == RunIdentity(p, line.mode)
<1>2. /\ identity.source = "recorded" /\ identity.environment = proc[p].bound
      /\ identity.account = Account(p, line.mode) /\ identity.account \in AccountIds
  BY <1>1 DEF RunIdentity, Account, AccountIds
<1>3. /\ row.columns = IdentityColumns(identity) /\ row.mode = line.mode
      /\ row.saved = NoSave /\ row.journal = {}
      /\ row \in NewRowType
  <2>1. IdentityColumns(identity) \in Columns
    BY <1>0, <1>2 DEF IdentityColumns, Columns
  <2> HIDE DEF identity
  <2> QED BY <1>1, <2>1 DEF NewRow, NewRowType, identity
<1>4. /\ row.columns.source = "recorded" /\ row.columns.environment = proc[p].bound
      /\ row.columns.id = Account(p, line.mode)
      /\ row.columns.kind = "none" <=> row.columns.id = "none"
  BY <1>2, <1>3 DEF IdentityColumns
<1> HIDE DEF row, identity
<1>5. KeptRow(row)
  BY <1>1, <1>3, <1>4 DEF KeptRow, Modes
<1>6. PICK next \in {driving, Off} : proc' = [proc EXCEPT ![p] = next]
  BY DEF CreateRun, Answered
<1>7. next \in ProcType /\ next.step # "passing"
  BY <1>0, <1>6 DEF ProcType, Off
<1>8. bot_runs'[line.run] = row
  BY <1>0, <1>1 DEF IInv, Types
<1>9. Fits(p)'
  <2>1. CASE next = Off
    BY <1>0, <1>6, <2>1 DEF IInv, Types, Fits, At, Off
  <2>2. CASE next = driving
    <3>1. /\ proc'[p].step = "driving" /\ proc'[p].line = line /\ proc'[p].bound = proc[p].bound
      BY <1>0, <1>6, <2>2 DEF IInv, Types
    <3>2. RunOf(p)' = row
      BY <1>8, <3>1 DEF RunOf
    <3>3. row # NoRow
      BY <1>1, <1>3 DEF NoRow, Modes
    <3> QED BY <1>0, <1>3, <1>4, <3>1, <3>2, <3>3 DEF Fits, At, VerifyEnvironment, Account
  <2> QED BY <1>6, <2>1, <2>2
<1> QED
  BY <1>0, <1>1, <1>3, <1>5, <1>6, <1>7, <1>9, RowWritten DEF At

\* A command that drives a run writes to its row what it was started with.
LEMMA DrivenRowWritten ==
    ASSUME IInv, NEW p \in Commands, proc[p].step = "driving",
           NEW row \in NewRowType, KeptRow(row),
           row.mode = RunOf(p).mode, row.columns = RunOf(p).columns,
           bot_runs' = [bot_runs EXCEPT ![proc[p].line.run] = row],
           UNCHANGED <<version, log, environment, lock>>, Answered(p, proc[p])
    PROVE  IInv'
<1>0. /\ proc[p].line \in Invocations /\ proc[p].line.run \in RunIds
      /\ version >= SCHEMA_VERSION /\ RunOf(p) # NoRow /\ Fits(p) /\ proc[p] \in ProcType
  BY RowRead DEF IInv, Types, Procs
<1>1. PICK next \in {proc[p], Off} : proc' = [proc EXCEPT ![p] = next]
  BY DEF Answered
<1>2. next \in ProcType /\ next.step # "passing"
  BY <1>0, <1>1 DEF ProcType, Off
<1>3. bot_runs'[proc[p].line.run] = row
  BY <1>0 DEF IInv, Types
<1>4. Fits(p)'
  <2>1. CASE next = Off
    BY <1>1, <2>1 DEF IInv, Types, Fits, At, Off
  <2>2. CASE next = proc[p]
    <3>1. proc'[p] = proc[p]
      BY <1>1, <2>2 DEF IInv, Types
    <3>2. RunOf(p)' = row
      BY <1>3, <3>1 DEF RunOf
    <3>3. row # NoRow
      BY DEF NewRowType, NoRow, Modes
    <3> QED BY <1>0, <3>1, <3>2, <3>3 DEF Fits, At, VerifyEnvironment, Account
  <2> QED BY <1>1, <2>1, <2>2
<1> QED
  BY <1>0, <1>1, <1>2, <1>4, RowWritten DEF At, RunOf

\* The state is saved with what the run's identity names.
LEMMA SaveRunPreserves ==
    ASSUME IInv, NEW p \in Commands, SaveRun(p)
    PROVE  IInv'
<1> DEFINE line == proc[p].line
           old == RunOf(p)
           saved == [mode |-> line.mode, endpoint |-> line.endpoint, account |-> Account(p, line.mode)]
           row == [old EXCEPT !.saved = saved]
<1>0. /\ proc[p].step = "driving" /\ Fits(p) /\ line \in Invocations /\ line.run \in RunIds
      /\ old \in NewRowType /\ KeptRow(old)
      /\ line.command \in {"drive", "close"} /\ VerifyEnvironment(p)
      /\ old.mode = line.mode /\ old.columns.source # "legacy"
      /\ old.columns.environment = proc[p].bound /\ old.columns.id = Account(p, line.mode)
      /\ Answered(p, proc[p]) /\ UNCHANGED <<version, log, environment, lock>>
  BY RowRead DEF SaveRun, At, IInv, Procs, Fits
<1>1. line.mode \in Modes /\ line.endpoint \in Endpoints /\ Account(p, line.mode) \in AccountIds
  BY <1>0, LineShapes DEF Account, AccountIds
<1>2. bot_runs' = [bot_runs EXCEPT ![line.run] = row]
  BY <1>0 DEF SaveRun, SavedBy, RunOf, IInv, Types
<1>3. /\ row \in NewRowType /\ row.mode = old.mode /\ row.columns = old.columns
      /\ row.saved = saved /\ row.journal = old.journal
  BY <1>0, <1>1 DEF NewRowType
<1>4. saved.mode = line.mode /\ saved.endpoint = line.endpoint /\ saved.account = Account(p, line.mode)
  OBVIOUS
<1> HIDE DEF row, saved
<1>5. KeptRow(row)
  BY <1>0, <1>1, <1>3, <1>4 DEF KeptRow, VerifyEnvironment, Modes
<1> QED
  BY <1>0, <1>2, <1>3, <1>5, DrivenRowWritten

\* So is each row of its journals.
LEMMA AppendRowPreserves ==
    ASSUME IInv, NEW p \in Commands, NEW table \in Tables, AppendRow(p, table)
    PROVE  IInv'
<1> DEFINE line == proc[p].line
           old == RunOf(p)
           account == Account(p, line.mode)
           entry == Entry(table, account, "text")
           row == [old EXCEPT !.journal = @ \cup {entry}]
<1>0. /\ proc[p].step = "driving" /\ Fits(p) /\ line \in Invocations /\ line.run \in RunIds
      /\ old \in NewRowType /\ KeptRow(old)
      /\ old.columns.source # "legacy" /\ old.columns.id = account
      /\ Answered(p, proc[p]) /\ UNCHANGED <<version, log, environment, lock>>
  BY RowRead DEF AppendRow, At, IInv, Procs, Fits
<1>1. account \in AccountIds
  BY <1>0, LineShapes DEF Account, AccountIds
<1>2. bot_runs' = [bot_runs EXCEPT ![line.run] = row]
  BY <1>0 DEF AppendRow, RunOf, IInv, Types
<1>3. entry.account = account
  BY DEF Entry
<1>4. /\ row \in NewRowType /\ row.mode = old.mode /\ row.columns = old.columns
      /\ row.saved = old.saved /\ row.journal = old.journal \cup {entry}
  <2>1. entry \in {Entry(t, a, "text") : t \in Tables, a \in AccountIds \cup {"unknown"}}
    BY <1>1
  <2> HIDE DEF entry
  <2> QED BY <1>0, <2>1 DEF NewRowType
<1> HIDE DEF row, entry
<1>5. KeptRow(row)
  BY <1>0, <1>3, <1>4 DEF KeptRow
<1> QED
  BY <1>0, <1>2, <1>4, <1>5, DrivenRowWritten

-----------------------------------------------------------------------------
(* The schema.                                                              *)

\* A step is logged from where the store is to where it goes.
LEMMA LogGrows ==
    ASSUME IInv, version \in 0..Newest, NEW to \in 0..Newest, version' = to, 
           log' = Append(log, <<version, to>>)
    PROVE  LogIsTheWay' /\ log' \in Seq(Int \X Int)
<1>0. log \in Seq(Int \X Int) /\ <<version, to>> \in Int \X Int /\ Newest \in Nat
  BY DEF IInv, Types, Newest, SCHEMA_VERSION
<1>1. /\ log' \in Seq(Int \X Int) /\ Len(log') = Len(log) + 1 /\ Len(log) \in Nat
      /\ log'[Len(log) + 1] = <<version, to>>
      /\ \A i \in 1..Len(log) : log'[i] = log[i]
  BY <1>0
<1>2. \A i \in 1..Len(log') - 1 : log'[i][2] = log'[i + 1][1]
  <2>0. Len(log') - 1 = Len(log)
    BY <1>1
  <2> SUFFICES ASSUME NEW i \in 1..Len(log) PROVE log'[i][2] = log'[i + 1][1]
    BY <2>0
  <2>1. CASE i = Len(log)
    BY <1>1, <2>1 DEF IInv, LogIsTheWay
  <2>2. CASE i # Len(log)
    <3>1. i \in 1..Len(log) - 1 /\ i + 1 \in 1..Len(log) /\ i \in 1..Len(log)
      BY <1>1, <2>2
    <3> QED BY <1>1, <3>1 DEF IInv, LogIsTheWay
  <2> QED BY <2>1, <2>2
<1>3. log' # <<>> /\ log'[Len(log')][2] = version'
  BY <1>1
<1>4. log'[1][1] >= 0
  <2>1. CASE log = <<>>
    BY <1>0, <1>1, <2>1
  <2>2. CASE log # <<>>
    <3>1. 1 \in 1..Len(log)
      BY <1>0, <1>1, <2>2
    <3> QED BY <1>1, <2>2, <3>1 DEF IInv, LogIsTheWay
  <2> QED BY <2>1, <2>2
<1>5. version' # Foreign
  BY DEF Foreign
<1> QED
  BY <1>1, <1>2, <1>3, <1>4, <1>5 DEF LogIsTheWay

\* A newer build's process takes the schema on, and no command with it.
LEMMA NewerBuildPreserves ==
    ASSUME IInv, NewerBuild
    PROVE  IInv'
<1>1. /\ version = SCHEMA_VERSION /\ version' = Newest /\ version \in 0..Newest /\ Newest \in 0..Newest
      /\ log' = Append(log, <<version, Newest>>)
      /\ UNCHANGED <<environment, bot_runs, lock, proc>>
  BY DEF NewerBuild, Newest, SCHEMA_VERSION
<1>2. LogIsTheWay' /\ log' \in Seq(Int \X Int)
  BY <1>1, LogGrows
<1>3. Types'
  BY <1>1, <1>2 DEF IInv, Types
<1>4. Locked'
  BY <1>1 DEF IInv, Locked, At
<1>5. Rows'
  BY <1>1 DEF IInv, Rows, Newest, SCHEMA_VERSION
<1>6. Procs'
  BY <1>1 DEF IInv, Procs, Fits, At, RunOf, VerifyEnvironment, Account, Newest, SCHEMA_VERSION
<1> QED
  BY <1>2, <1>3, <1>4, <1>5, <1>6 DEF IInv

\* A row of an older build becomes a legacy one, and its journals readable.
LEMMA MigratedRow ==
    ASSUME NEW row \in OldRowType
    PROVE  /\ WithIdentity(row) \in NewRowType
           /\ KeptRow(WithIdentity(row))
           /\ WithIdentity(row).columns = IdentityColumns(Legacy)
           /\ row # NoRow
<1> DEFINE journal == Rebuilt(row.journal)
           named == [row EXCEPT !.columns = IdentityColumns(Legacy), !.original = row.mode,
                                !.journal = journal]
           texts == {IF entry.table = "order_events" THEN [entry EXCEPT !.json = "text"]
                     ELSE entry : entry \in journal}
           Old == {Entry(table, "unknown", "number") : table \in Tables}
           New == {Entry(table, "unknown", "text") : table \in Tables}
<1>1. row # NoRow
  BY DEF OldRowType, NoRow
<1>2. row.journal \subseteq Old
  BY DEF OldRowType
<1>3. \A entry \in journal : \E table \in Tables :
        entry = [table |-> table, account |-> "unknown", column |-> "text",
                 json |-> IF table = "order_events" THEN "number" ELSE "none"]
  BY <1>2 DEF Rebuilt, Entry
<1>4. texts \subseteq New
  <2> SUFFICES ASSUME NEW entry \in journal
               PROVE  (IF entry.table = "order_events" THEN [entry EXCEPT !.json = "text"] ELSE entry) \in New
    OBVIOUS
  <2> PICK table \in Tables :
        entry = [table |-> table, account |-> "unknown", column |-> "text",
                 json |-> IF table = "order_events" THEN "number" ELSE "none"]
    BY <1>3
  <2>1. CASE table = "order_events"
    <3>1. [entry EXCEPT !.json = "text"] = Entry(table, "unknown", "text")
      BY <2>1 DEF Entry
    <3> QED BY <2>1, <3>1
  <2>2. CASE table # "order_events"
    <3>1. entry = Entry(table, "unknown", "text")
      BY <2>2 DEF Entry
    <3> QED BY <2>2, <3>1
  <2> QED BY <2>1, <2>2
<1>5. WithIdentity(row) = [named EXCEPT !.ids = "text", !.journal = texts]
  BY <1>1 DEF WithIdentity, TextIds
<1> HIDE DEF journal, texts
<1>6. WithIdentity(row) = [mode |-> row.mode, columns |-> IdentityColumns(Legacy), original |-> row.mode,
                           ids |-> "text", saved |-> NoSave, journal |-> texts]
  <2>1. row = [mode |-> row.mode, columns |-> NoColumns, original |-> "none", ids |-> "number",
               saved |-> NoSave, journal |-> row.journal]
    BY DEF OldRowType
  <2>2. named = [mode |-> row.mode, columns |-> IdentityColumns(Legacy), original |-> row.mode,
                 ids |-> "number", saved |-> NoSave, journal |-> journal]
    <3> DEFINE first == [row EXCEPT !.columns = IdentityColumns(Legacy)]
               second == [first EXCEPT !.original = row.mode]
    <3>1. first = [mode |-> row.mode, columns |-> IdentityColumns(Legacy), original |-> "none",
                   ids |-> "number", saved |-> NoSave, journal |-> row.journal]
      BY <2>1
    <3>2. named = [second EXCEPT !.journal = journal]
      OBVIOUS
    <3> HIDE DEF first, named
    <3>3. second = [mode |-> row.mode, columns |-> IdentityColumns(Legacy), original |-> row.mode,
                    ids |-> "number", saved |-> NoSave, journal |-> row.journal]
      BY <3>1
    <3> HIDE DEF second
    <3> QED BY <3>2, <3>3
  <2> HIDE DEF named
  <2> QED BY <1>5, <2>2
<1>7. IdentityColumns(Legacy) = [source |-> "legacy", environment |-> "none", kind |-> "none", id |-> "none"]
  BY DEF IdentityColumns, Legacy
<1>8. row.mode \in Modes \cup {"unrecorded"}
  BY DEF OldRowType, Modes
<1>9. /\ \A entry \in texts : entry.account = "unknown"
      /\ texts \subseteq {Entry(table, account, "text") : table \in Tables, account \in AccountIds \cup {"unknown"}}
  BY <1>4 DEF Entry
<1>10. WithIdentity(row) \in NewRowType
  BY <1>6, <1>7, <1>8, <1>9 DEF NewRowType, Columns, Bounds, AccountIds
<1>11. KeptRow(WithIdentity(row))
  BY <1>6, <1>7, <1>9 DEF KeptRow
<1> QED
  BY <1>1, <1>6, <1>10, <1>11

\* A step of the schema; the one that gives the runs an identity makes legacy
\* runs of them all, and no command is past its startup to see it.
LEMMA PassStepPreserves ==
    ASSUME IInv, NEW p \in Commands, PassStep(p)
    PROVE  IInv'
<1> DEFINE to == Target(version)
<1>0. /\ proc[p].step = "passing" /\ lock = p /\ lock' = "none"
      /\ version \in 0..SCHEMA_VERSION - 1
      /\ version' = to /\ log' = Append(log, <<version, to>>)
      /\ bot_runs' = IF to = IdentityVersion THEN [r \in RunIds |-> WithIdentity(bot_runs[r])] ELSE bot_runs
      /\ environment' = environment
  BY DEF PassStep, Found, At, IInv, Locked
<1>1. version \in 0..Newest /\ to \in 1..SCHEMA_VERSION /\ to \in 0..Newest
  BY <1>0 DEF Target, Newest, SCHEMA_VERSION
<1>2. LogIsTheWay' /\ log' \in Seq(Int \X Int)
  BY <1>0, <1>1, LogGrows
<1>3. PICK next \in {Opening, Off} : proc' = [proc EXCEPT ![p] = next]
  BY DEF PassStep, Answered
<1>4. next \in ProcType /\ next.step \in {"opening", "off"}
  BY <1>3 DEF ProcType, Opening, Off
<1>5. \A r \in RunIds : bot_runs[r] = NoRow \/ bot_runs[r] \in OldRowType
  BY <1>0 DEF IInv, Rows, SCHEMA_VERSION
<1>6. \A r \in RunIds :
        bot_runs'[r] = IF to = SCHEMA_VERSION /\ bot_runs[r] # NoRow THEN WithIdentity(bot_runs[r])
                       ELSE bot_runs[r]
  BY <1>0 DEF WithIdentity, IdentityVersion, SCHEMA_VERSION
<1>7. Rows' /\ bot_runs' \in [RunIds -> {NoRow} \cup OldRowType \cup NewRowType]
  <2>1. \A r \in RunIds :
          \/ bot_runs'[r] = NoRow
          \/ to < SCHEMA_VERSION /\ bot_runs'[r] \in OldRowType
          \/ to = SCHEMA_VERSION /\ bot_runs'[r] \in NewRowType /\ KeptRow(bot_runs'[r])
    BY <1>1, <1>5, <1>6, MigratedRow DEF SCHEMA_VERSION
  <2>2. bot_runs' = [r \in RunIds |-> bot_runs'[r]]
    BY <1>0 DEF IInv, Types
  <2> QED BY <1>0, <1>1, <2>1, <2>2 DEF Rows, SCHEMA_VERSION
<1>8. Types'
  BY <1>0, <1>1, <1>2, <1>3, <1>4, <1>7 DEF IInv, Types
<1>9. Locked'
  BY <1>0, <1>3, <1>4, JournalAssumption DEF IInv, Types, Locked, At
<1>10. Procs'
  <2> SUFFICES ASSUME NEW q \in Commands PROVE Fits(q)'
    BY DEF Procs
  <2>1. proc[q].step \in {"off", "opening", "waiting", "passing"}
    BY <1>0 DEF IInv, Procs, Fits, SCHEMA_VERSION
  <2>2. proc'[q].step \in {"off", "opening", "waiting", "passing"}
    BY <1>3, <1>4, <2>1 DEF IInv, Types
  <2> QED BY <2>2 DEF Fits, At
<1> QED
  BY <1>2, <1>7, <1>8, <1>9, <1>10 DEF IInv

-----------------------------------------------------------------------------
\* What an older build left is of the invariant.
LEMMA InitEstablishes == Init => IInv
<1> SUFFICES ASSUME Init PROVE IInv
  OBVIOUS
<1>1. \A row \in RowsOf(version) : row = NoRow \/ (version \in {2, 4} /\ row \in OldRowType)
  BY DEF Init, RowsOf, OldRow, OldRowType, Tables, Foreign
<1>2. \A r \in RunIds : bot_runs[r] = NoRow \/ (version \in {2, 4} /\ bot_runs[r] \in OldRowType)
  BY <1>1 DEF Init
<1>3. bot_runs = [r \in RunIds |-> bot_runs[r]]
  BY DEF Init
<1>4. version \in {Foreign} \cup 0..Newest
  BY DEF Init, Newest, SCHEMA_VERSION
<1>5. Types
  BY <1>2, <1>3, <1>4 DEF Init, Types, Bounds, ProcType, Off
<1>6. Locked
  BY JournalAssumption DEF Init, Locked, At, Off
<1>7. Rows
  BY <1>2 DEF Rows, SCHEMA_VERSION
<1>8. Procs
  BY DEF Init, Procs, Fits, At, Off
<1>9. LogIsTheWay
  <2>1. Len(log) = 0
    BY DEF Init
  <2>2. 1..Len(log) - 1 = {}
    BY <2>1
  <2> QED BY <2>2 DEF Init, LogIsTheWay
<1> QED
  BY <1>5, <1>6, <1>7, <1>8, <1>9 DEF IInv

\* Every step keeps the invariant.
LEMMA NextPreserves ==
    ASSUME IInv, [Next]_vars
    PROVE  IInv'
<1>1. CASE NewerBuild
  BY <1>1, NewerBuildPreserves
<1>2. ASSUME NEW p \in Commands,
             \/ Start(p) \/ BeginPass(p) \/ TakeLock(p) \/ Pass(p) \/ ReadIdentity(p) \/ Leave(p)
             \/ Bind(p) \/ ListLegacy(p) \/ AdoptRun(p)
             \/ LoadRun(p) \/ LoadForClose(p) \/ CheckIdentity(p) \/ CreateRun(p) \/ SaveRun(p)
             \/ AppendOrderEvent(p) \/ AppendClosedTrade(p)
      PROVE  IInv'
  <2>1. CASE AppendOrderEvent(p) \/ AppendClosedTrade(p)
    BY <2>1, AppendRowPreserves DEF AppendOrderEvent, AppendClosedTrade, Tables
  <2> QED
    BY <1>2, <2>1, StartPreserves, BeginPassPreserves, TakeLockPreserves, PassCurrentPreserves,
       PassRefusedPreserves, PassStepPreserves, ReadIdentityPreserves, LeavePreserves,
       BindPreserves, ListLegacyPreserves, AdoptRunPreserves, LoadRunPreserves,
       LoadForClosePreserves, CheckIdentityPreserves, CreateRunPreserves, SaveRunPreserves DEF Pass
<1>3. CASE UNCHANGED vars
  <2> USE <1>3 DEF vars, store, IInv
  <2>1. Types' /\ Locked' /\ Rows' /\ LogIsTheWay'
    BY DEF Types, Locked, Rows, LogIsTheWay, At
  <2>2. Procs'
    BY DEF Procs, Fits, At, RunOf, VerifyEnvironment, Account
  <2> QED BY <2>1, <2>2
<1> QED
  BY <1>1, <1>2, <1>3 DEF Next

\* The invariant holds for as long as the store is used.
LEMMA Inductive == Spec => []IInv
<1>1. Init => IInv
  BY InitEstablishes
<1>2. IInv /\ [Next]_vars => IInv'
  BY NextPreserves
<1> QED
  BY <1>1, <1>2, PTL DEF Spec

\* Every value is of its type, and the lock is held by the command in its pass.
THEOREM TypeCorrect == Spec => []TypeOK
<1>1. IInv => TypeOK
  <2> SUFFICES ASSUME IInv PROVE TypeOK
    OBVIOUS
  <2>1. \A p \in Commands : proc[p].step \in Steps
    BY ProcShapes DEF IInv, Types
  <2>2. ASSUME NEW r \in RunIds, bot_runs[r] # NoRow
        PROVE  /\ bot_runs[r].mode \in Modes \cup {"unrecorded"}
               /\ bot_runs[r].mode = "unrecorded" => bot_runs[r].columns.source \in {"before", "legacy"}
    <3>1. CASE bot_runs[r] \in OldRowType
      BY <3>1 DEF OldRowType, NoColumns, Modes
    <3>2. CASE bot_runs[r] \in NewRowType /\ KeptRow(bot_runs[r])
      BY <3>2 DEF NewRowType, KeptRow
    <3> QED BY <2>2, <3>1, <3>2 DEF IInv, Rows
  <2> QED BY <2>1, <2>2 DEF IInv, Types, Locked, TypeOK, Bounds
<1> QED
  BY <1>1, Inductive, PTL

\* The log is the store's way here, each step where the last one ended.
THEOREM LogIsTheWayAlways == Spec => []LogIsTheWay
<1>1. IInv => LogIsTheWay
  BY DEF IInv
<1> QED
  BY <1>1, Inductive, PTL

\* No run inherits what another mode, key or kind of endpoint traded, whoever
\* drives a run drives it as it is recorded, and the journals can be read.
THEOREM KeptAsRecordedAlways == Spec => []KeptAsRecorded
<1>1. IInv => KeptAsRecorded
  <2> SUFFICES ASSUME IInv PROVE KeptAsRecorded
    OBVIOUS
  <2>1. ASSUME NEW r \in RunIds, bot_runs[r] # NoRow
        PROVE  LET row == bot_runs[r]
               IN /\ \A identity \in IdentityOf(row) :
                       /\ row.saved # NoSave =>
                            /\ row.saved.mode = row.mode
                            /\ row.saved.account = identity.account
                            /\ identity.environment # "none" =>
                                 row.saved.endpoint = Endpoint(identity.environment)
                       /\ \A entry \in row.journal : entry.account \in {"unknown", identity.account}
                  /\ version >= IdentityVersion =>
                       /\ IdentityOf(row) # {} /\ (row.mode \in Modes => Loads(row))
                       /\ ListOrderEvents(row) # {} /\ ListClosedTrades(row) # {}
    <3> DEFINE row == bot_runs[r]
    <3>1. CASE version \in 0..SCHEMA_VERSION - 1 /\ row \in OldRowType
      <4>1. IdentityOf(row) = {}
        BY <3>1 DEF IdentityOf, OldRowType
      <4> QED BY <3>1, <4>1 DEF IdentityVersion, SCHEMA_VERSION
    <3>2. CASE row \in NewRowType /\ KeptRow(row)
      <4>1. IdentityOf(row) = {[source |-> row.columns.source, environment |-> row.columns.environment,
                                account |-> row.columns.id]}
        BY <3>2, IdentityIs
      <4>2. row.ids = "text"
        BY <3>2 DEF NewRowType
      <4>3. \A entry \in row.journal : /\ entry.column = "text"
                                       /\ entry.table = "order_events" => entry.json = "text"
        BY <3>2 DEF NewRowType, Entry
      <4>4. ListOrderEvents(row) # {} /\ ListClosedTrades(row) # {}
        BY <4>3 DEF ListOrderEvents, ListClosedTrades
      <4> HIDE DEF row
      <4> QED BY <3>2, <4>1, <4>2, <4>4 DEF KeptRow, Loads, row
    <3> QED BY <2>1, <3>1, <3>2 DEF IInv, Rows
  <2>2. ASSUME NEW p \in Commands, At(p, "driving")
        PROVE  \E identity \in IdentityOf(RunOf(p)) :
                 /\ identity.source \in {"recorded", "adopted"}
                 /\ identity.environment = proc[p].bound
                 /\ identity.account = Account(p, proc[p].line.mode)
    <3>1. Fits(p) /\ RunOf(p) \in NewRowType /\ KeptRow(RunOf(p))
      BY <2>2, RowRead DEF IInv, Procs, At
    <3>2. RunOf(p).columns.source \in {"recorded", "adopted"}
      BY <2>2, <3>1 DEF Fits, NewRowType, Columns
    <3> DEFINE identity == [source |-> RunOf(p).columns.source, environment |-> RunOf(p).columns.environment,
                            account |-> RunOf(p).columns.id]
    <3>3. identity \in IdentityOf(RunOf(p))
      BY <3>1, IdentityIs
    <3>4. /\ identity.source \in {"recorded", "adopted"}
          /\ identity.environment = proc[p].bound
          /\ identity.account = Account(p, proc[p].line.mode)
      BY <2>2, <3>1, <3>2 DEF Fits
    <3> QED BY <3>3, <3>4
  <2> QED BY <2>1, <2>2 DEF KeptAsRecorded, RunOf
<1> QED
  BY <1>1, Inductive, PTL

-----------------------------------------------------------------------------
(* The store implements the record it promises.                             *)

(* What StoreRecord sees of the store, by name.                             *)
IdentityHeld(row) ==
    IF row = NoRow THEN [source |-> "none"]
    ELSE IF row.columns = NoColumns THEN NoColumns
    ELSE CHOOSE identity \in IdentityOf(row) : TRUE

RecordVersion == IF version = Foreign THEN 0 ELSE version
RecordRuns == [r \in RunIds |-> IdentityHeld(bot_runs[r])]

\* What a row of either kind shows of its run.
LEMMA HeldIs ==
    /\ IdentityHeld(NoRow) = [source |-> "none"]
    /\ \A row \in OldRowType : IdentityHeld(row) = NoColumns
    /\ \A row \in NewRowType : KeptRow(row) =>
         IdentityHeld(row) = [source |-> row.columns.source, environment |-> row.columns.environment,
                              account |-> row.columns.id]
<1>1. \A row \in OldRowType : IdentityHeld(row) = NoColumns
  BY DEF IdentityHeld, OldRowType, NoRow
<1>2. ASSUME NEW row \in NewRowType, KeptRow(row)
      PROVE  IdentityHeld(row) = [source |-> row.columns.source, environment |-> row.columns.environment,
                                  account |-> row.columns.id]
  <2>1. row # NoRow /\ row.columns # NoColumns
    BY DEF NewRowType, NoRow, Columns, NoColumns, Modes
  <2> QED BY <1>2, <2>1, IdentityIs DEF IdentityHeld
<1> QED
  BY <1>1, <1>2 DEF IdentityHeld

\* A row written with the columns it had shows the run it did.
LEMMA RunsKept ==
    ASSUME IInv, IInv', version >= SCHEMA_VERSION, version' = version, NEW r \in RunIds,
           bot_runs[r] # NoRow, bot_runs' = [bot_runs EXCEPT ![r] = bot_runs'[r]],
           bot_runs'[r] # NoRow, bot_runs'[r].columns = bot_runs[r].columns
    PROVE  RecordRuns' = RecordRuns
<1>1. /\ bot_runs[r] \in NewRowType /\ KeptRow(bot_runs[r])
      /\ bot_runs'[r] \in NewRowType /\ KeptRow(bot_runs'[r])
  BY DEF IInv, Rows, SCHEMA_VERSION
<1>2. IdentityHeld(bot_runs'[r]) = IdentityHeld(bot_runs[r])
  BY <1>1, HeldIs
<1>3. \A q \in RunIds : IdentityHeld(bot_runs'[q]) = IdentityHeld(bot_runs[q])
  BY <1>2 DEF IInv, Types
<1> QED
  BY <1>3 DEF RecordRuns

\* The steps of the record, over what the store shows of it.
LEMMA RecordSteps ==
    /\ Record!vars = <<RecordVersion, log, environment, RecordRuns>>
    /\ \A to \in 1..Newest :
         /\ RecordVersion < to /\ RecordVersion' = to
         /\ log' = Append(log, <<RecordVersion, to>>)
         /\ RecordRuns' = [r \in RunIds |-> IF RecordRuns[r] = NoColumns /\ to >= IdentityVersion
                                              THEN Legacy ELSE RecordRuns[r]]
         /\ environment' = environment
         => Record!Next
    /\ \A e \in Environments :
         environment = "none" /\ environment' = e /\ UNCHANGED <<RecordVersion, log, RecordRuns>>
         => Record!Next
    /\ \A r \in RunIds, identity \in [source : {"recorded"}, environment : Bounds, account : AccountIds] :
         /\ RecordRuns[r] = [source |-> "none"] /\ RecordRuns' = [RecordRuns EXCEPT ![r] = identity]
         /\ UNCHANGED <<RecordVersion, log, environment>>
         => Record!Next
    /\ \A r \in RunIds, identity \in [source : {"adopted"}, environment : {environment}, account : AccountIds] :
         /\ RecordRuns[r] = Legacy /\ environment # "none"
         /\ RecordRuns' = [RecordRuns EXCEPT ![r] = identity]
         /\ UNCHANGED <<RecordVersion, log, environment>>
         => Record!Next
<1> USE DEF RecordVersion, RecordRuns, IdentityHeld
<1>1. Record!vars = <<RecordVersion, log, environment, RecordRuns>>
  BY DEF Record!vars
<1>2. ASSUME NEW to \in 1..Newest,
             RecordVersion < to, RecordVersion' = to,
             log' = Append(log, <<RecordVersion, to>>),
             RecordRuns' = [r \in RunIds |-> IF RecordRuns[r] = NoColumns /\ to >= IdentityVersion
                                               THEN Legacy ELSE RecordRuns[r]],
             environment' = environment
      PROVE  Record!Next
  <2>1. Record!Migrate(to)
    BY <1>2 DEF Record!Migrate, Record!Before, Record!Legacy, NoColumns, Legacy
  <2> QED BY <2>1 DEF Record!Next
<1>3. ASSUME NEW e \in Environments, environment = "none", environment' = e,
             UNCHANGED <<RecordVersion, log, RecordRuns>>
      PROVE  Record!Next
  BY <1>3 DEF Record!Next, Record!Bind
<1>4. ASSUME NEW r \in RunIds, 
             NEW identity \in [source : {"recorded"}, environment : Bounds, account : AccountIds],
             RecordRuns[r] = [source |-> "none"], RecordRuns' = [RecordRuns EXCEPT ![r] = identity],
             UNCHANGED <<RecordVersion, log, environment>>
      PROVE  Record!Next
  <2>1. identity \in Record!Identities("recorded", Environments \cup {"none"})
    BY DEF Record!Identities, Bounds, AccountIds
  <2>2. Record!Create(r)
    BY <1>4, <2>1 DEF Record!Create, Record!NoRun
  <2> QED BY <2>2 DEF Record!Next
<1>5. ASSUME NEW r \in RunIds, 
             NEW identity \in [source : {"adopted"}, environment : {environment}, account : AccountIds],
             RecordRuns[r] = Legacy, environment # "none",
             RecordRuns' = [RecordRuns EXCEPT ![r] = identity],
             UNCHANGED <<RecordVersion, log, environment>>
      PROVE  Record!Next
  <2>1. identity \in Record!Identities("adopted", {environment})
    BY DEF Record!Identities, AccountIds
  <2>2. Record!Adopt(r)
    BY <1>5, <2>1 DEF Record!Adopt, Record!Legacy, Legacy
  <2> QED BY <2>2 DEF Record!Next
<1> QED
  BY <1>1, <1>2, <1>3, <1>4, <1>5

\* A store as it is found is a record as it may begin.
LEMMA InitImplements == Init => Record!Init
<1> SUFFICES ASSUME Init PROVE Record!Init
  OBVIOUS
<1>0. IInv
  BY InitEstablishes
<1>1. RecordVersion \in 0..Newest
  BY DEF Init, RecordVersion, Newest, SCHEMA_VERSION, Foreign
<1>2. \A r \in RunIds : RecordRuns[r] \in {[source |-> "none"], NoColumns}
  <2> SUFFICES ASSUME NEW r \in RunIds PROVE IdentityHeld(bot_runs[r]) \in {[source |-> "none"], NoColumns}
    BY DEF RecordRuns
  <2>1. bot_runs[r] = NoRow \/ bot_runs[r] \in OldRowType
    BY DEF Init, RowsOf, OldRow, OldRowType, Tables, Foreign
  <2> QED BY <2>1, HeldIs
<1>3. RecordRuns \in [RunIds -> {Record!NoRun, Record!Before, Record!Legacy}
                                  \cup Record!Identities("recorded", Environments \cup {"none"})]
  BY <1>2 DEF RecordRuns, Record!NoRun, Record!Before, NoColumns
<1> QED
  BY <1>1, <1>3 DEF Record!Init, RecordVersion, RecordRuns, IdentityHeld, Init

\* A step of the schema is one of the record's, and gives the runs of an older
\* build the identity of a legacy run.
LEMMA PassStepImplements ==
    ASSUME IInv, IInv', NEW p \in Commands, PassStep(p)
    PROVE  Record!Next
<1> DEFINE to == Target(version)
<1>0. /\ version \in 0..SCHEMA_VERSION - 1
      /\ version' = to /\ log' = Append(log, <<version, to>>)
      /\ bot_runs' = IF to = IdentityVersion THEN [r \in RunIds |-> WithIdentity(bot_runs[r])] ELSE bot_runs
      /\ environment' = environment
  BY DEF PassStep, Found
<1>1. /\ to \in 1..SCHEMA_VERSION /\ to \in 1..Newest /\ version < to
      /\ RecordVersion = version /\ RecordVersion' = to
  BY <1>0 DEF Target, Newest, SCHEMA_VERSION, RecordVersion, Foreign
<1>2. ASSUME NEW r \in RunIds
      PROVE  IdentityHeld(bot_runs'[r]) =
               IF RecordRuns[r] = NoColumns /\ to >= IdentityVersion THEN Legacy ELSE RecordRuns[r]
  <2>1. RecordRuns[r] = IdentityHeld(bot_runs[r])
    BY DEF RecordRuns
  <2>2. CASE bot_runs[r] = NoRow
    <3>1. bot_runs'[r] = NoRow
      BY <1>0, <2>2 DEF WithIdentity
    <3>2. [source |-> "none"] # NoColumns
      BY DEF NoColumns
    <3> QED BY <2>1, <2>2, <3>1, <3>2, HeldIs
  <2>3. CASE bot_runs[r] \in OldRowType /\ to = SCHEMA_VERSION
    <3>1. bot_runs'[r] = WithIdentity(bot_runs[r])
      BY <1>0, <2>3 DEF IdentityVersion, SCHEMA_VERSION
    <3>2. IdentityHeld(bot_runs'[r]) = Legacy
      BY <2>3, <3>1, MigratedRow, HeldIs DEF IdentityColumns, Legacy
    <3> QED BY <2>1, <2>3, <3>2, HeldIs DEF IdentityVersion, SCHEMA_VERSION
  <2>4. CASE bot_runs[r] \in OldRowType /\ to # SCHEMA_VERSION
    <3>1. bot_runs'[r] = bot_runs[r]
      BY <1>0, <2>4 DEF IdentityVersion, SCHEMA_VERSION
    <3>2. ~ (to >= IdentityVersion)
      BY <1>1, <2>4 DEF IdentityVersion, SCHEMA_VERSION
    <3> QED BY <2>1, <3>1, <3>2
  <2> QED BY <1>0, <2>2, <2>3, <2>4 DEF IInv, Rows, SCHEMA_VERSION
<1>3. RecordRuns' = [r \in RunIds |-> IF RecordRuns[r] = NoColumns /\ to >= IdentityVersion
                                        THEN Legacy ELSE RecordRuns[r]]
  BY <1>2 DEF RecordRuns
<1> QED
  BY <1>0, <1>1, <1>3, RecordSteps

\* So is the step of a newer build, which finds no run without an identity.
LEMMA NewerBuildImplements ==
    ASSUME IInv, IInv', NewerBuild
    PROVE  Record!Next
<1>1. /\ version = SCHEMA_VERSION /\ version' = Newest /\ Newest \in 1..Newest
      /\ log' = Append(log, <<version, Newest>>) /\ version < Newest
      /\ UNCHANGED <<environment, bot_runs>>
      /\ RecordVersion = version /\ RecordVersion' = Newest
  BY DEF NewerBuild, Newest, SCHEMA_VERSION, RecordVersion, Foreign
<1>2. \A r \in RunIds : RecordRuns[r] # NoColumns
  <2> SUFFICES ASSUME NEW r \in RunIds PROVE IdentityHeld(bot_runs[r]) # NoColumns
    BY DEF RecordRuns
  <2>1. CASE bot_runs[r] = NoRow
    BY <2>1, HeldIs DEF NoColumns
  <2>2. CASE bot_runs[r] \in NewRowType /\ KeptRow(bot_runs[r])
    <3>1. IdentityHeld(bot_runs[r]) =
            [source |-> bot_runs[r].columns.source, environment |-> bot_runs[r].columns.environment,
             account |-> bot_runs[r].columns.id]
      BY <2>2, HeldIs
    <3>2. bot_runs[r].columns.source # "before"
      BY <2>2 DEF NewRowType, Columns
    <3> QED BY <3>1, <3>2 DEF NoColumns
  <2> QED BY <1>1, <2>1, <2>2 DEF IInv, Rows, SCHEMA_VERSION
<1>3. RecordRuns' = RecordRuns
  BY <1>1 DEF RecordRuns
<1>4. RecordRuns' = [r \in RunIds |-> IF RecordRuns[r] = NoColumns /\ Newest >= IdentityVersion
                                        THEN Legacy ELSE RecordRuns[r]]
  <2>1. RecordRuns = [r \in RunIds |-> RecordRuns[r]]
    BY DEF RecordRuns
  <2> QED BY <1>2, <1>3, <2>1
<1> QED
  BY <1>1, <1>4, RecordSteps

\* A bound store stays bound as it was.
LEMMA BindImplements ==
    ASSUME IInv, NEW p \in Commands, Bind(p)
    PROVE  Record!Next \/ UNCHANGED Record!vars
<1>1. /\ environment' = BoundTo(environment, proc[p].line.environment)
      /\ proc[p].line.environment \in Environments
      /\ UNCHANGED <<version, log, bot_runs>>
  BY ProcShapes, LineShapes DEF Bind, On, At, IInv, Types
<1>2. UNCHANGED <<RecordVersion, log, RecordRuns>>
  BY <1>1 DEF RecordVersion, RecordRuns
<1>3. CASE environment = "none"
  BY <1>1, <1>2, <1>3, RecordSteps DEF BoundTo
<1>4. CASE environment # "none"
  <2>1. environment' = environment
    BY <1>1, <1>4 DEF BoundTo
  <2> QED BY <1>1, <1>2, <2>1 DEF Record!vars, RecordVersion, RecordRuns, IdentityHeld
<1> QED
  BY <1>3, <1>4

\* A legacy row gets an identity in the store's environment.
LEMMA AdoptRunImplements ==
    ASSUME IInv, IInv', NEW p \in Commands, AdoptRun(p)
    PROVE  Record!Next
<1> DEFINE line == proc[p].line
           old == RunOf(p)
           stated == IF proc[p].listed = "unrecorded" THEN line.mode ELSE "none"
<1> PICK run \in RunIds : run = line.run
  BY RowRead DEF AdoptRun, On, At
<1>0. /\ proc[p].step = "listed" /\ proc[p].bound # "none" /\ proc[p].bound = environment
      /\ line.key \in AccountIds
      /\ version >= SCHEMA_VERSION
      /\ old \in NewRowType /\ KeptRow(old) /\ old = bot_runs[run]
      /\ UNCHANGED <<version, log, environment>>
  BY RowRead, LineShapes DEF AdoptRun, On, At, IInv, Procs, Fits, RunOf
<1> PICK mode \in AdoptedStates(old, stated) :
      bot_runs' = [bot_runs EXCEPT ![run] = AdoptedRow(@, mode, proc[p].bound, Account(p, mode))]
  BY DEF AdoptRun, RunOf
<1> PICK identity : identity = [source |-> "adopted", environment |-> environment,
                                account |-> Account(p, mode)]
  OBVIOUS
<1>1. identity \in [source : {"adopted"}, environment : {environment}, account : AccountIds]
  BY <1>0 DEF Account, AccountIds
<1>2. IdentityHeld(old) = Legacy
  BY <1>0, HeldIs, IdentityIs DEF AdoptedStates
<1>3. /\ bot_runs'[run].columns = IdentityColumns(identity)
      /\ \A q \in RunIds \ {run} : bot_runs'[q] = bot_runs[q]
  BY <1>0 DEF IInv, Types, AdoptedRow, NewRowType
<1>4. bot_runs'[run] \in NewRowType /\ KeptRow(bot_runs'[run])
  <2>1. bot_runs'[run].mode = mode
    BY <1>0 DEF AdoptedRow, IInv, Types, NewRowType
  <2>2. line.mode \in Modes \cup {"none"}
    BY <1>0, LineShapes, RowRead DEF IInv, Procs, Fits, At
  <2>3. mode # "none"
    BY <1>0, <2>2 DEF AdoptedStates, ModeOf, StatedFor, Modes, NewRowType
  <2>4. bot_runs'[run] # NoRow
    BY <2>1, <2>3 DEF NoRow
  <2> QED BY <1>0, <2>4 DEF IInv, Rows, SCHEMA_VERSION
<1>5. IdentityHeld(bot_runs'[run]) = identity
  BY <1>3, <1>4, HeldIs DEF IdentityColumns
<1>6. RecordRuns' = [RecordRuns EXCEPT ![run] = identity] /\ RecordRuns[run] = Legacy
  BY <1>0, <1>2, <1>3, <1>5 DEF RecordRuns
<1>7. UNCHANGED <<RecordVersion, log, environment>> /\ environment # "none"
  BY <1>0 DEF RecordVersion
<1> QED
  BY <1>1, <1>6, <1>7, RecordSteps

\* A run that is not there yet is created with the identity it is driven with.
LEMMA CreateRunImplements ==
    ASSUME IInv, IInv', NEW p \in Commands, CreateRun(p)
    PROVE  Record!Next
<1> DEFINE line == proc[p].line
<1>0. /\ line \in Invocations /\ line.command \in {"drive", "close"} /\ proc[p].bound \in Bounds
      /\ version >= SCHEMA_VERSION
      /\ bot_runs[line.run] = NoRow
      /\ UNCHANGED <<version, log, environment>>
  <2>1. proc[p].step = "creating" /\ bot_runs[line.run] = NoRow /\ UNCHANGED <<version, log, environment>>
    BY DEF CreateRun, At
  <2>2. proc[p] \in [step : {"ready", "loaded", "creating", "driving"}, line : Invocations, bound : Bounds]
    BY <2>1, ProcShapes DEF IInv, Types
  <2> QED BY <2>1, <2>2 DEF IInv, Procs, Fits
<1>1. line.run \in RunIds /\ line.mode \in Modes /\ line.key \in AccountIds
  BY <1>0, LineShapes
<1> PICK run \in RunIds : run = line.run
  BY <1>1
<1> PICK identity : identity = RunIdentity(p, line.mode)
  OBVIOUS
<1>2. identity \in [source : {"recorded"}, environment : Bounds, account : AccountIds]
  BY <1>0, <1>1 DEF RunIdentity, Account, AccountIds
<1>3. bot_runs' = [bot_runs EXCEPT ![run] = NewRow(p, line.mode)]
  BY DEF CreateRun
<1>4. /\ bot_runs'[run].columns = IdentityColumns(identity)
      /\ bot_runs'[run].mode \in Modes
      /\ \A q \in RunIds \ {run} : bot_runs'[q] = bot_runs[q]
  BY <1>1, <1>3 DEF IInv, Types, NewRow
<1>5. bot_runs'[run] \in NewRowType /\ KeptRow(bot_runs'[run])
  <2>1. bot_runs'[run] # NoRow
    BY <1>4 DEF NoRow, Modes
  <2> QED BY <1>0, <2>1 DEF IInv, Rows, SCHEMA_VERSION
<1>6. IdentityHeld(bot_runs'[run]) = identity
  BY <1>2, <1>4, <1>5, HeldIs DEF IdentityColumns
<1>7. RecordRuns' = [RecordRuns EXCEPT ![run] = identity] /\ RecordRuns[run] = [source |-> "none"]
  BY <1>0, <1>4, <1>6, HeldIs DEF RecordRuns
<1>8. UNCHANGED <<RecordVersion, log, environment>>
  BY <1>0 DEF RecordVersion
<1> QED
  BY <1>2, <1>7, <1>8, RecordSteps

\* What a command that drives a run writes is not of the run's identity.
LEMMA WrittenStutters ==
    ASSUME IInv, IInv', NEW p \in Commands,
           SaveRun(p) \/ AppendOrderEvent(p) \/ AppendClosedTrade(p)
    PROVE  UNCHANGED Record!vars
<1>0. /\ proc[p].step = "driving" /\ UNCHANGED <<version, log, environment>>
  BY DEF SaveRun, AppendOrderEvent, AppendClosedTrade, AppendRow, At
<1> PICK run \in RunIds : run = proc[p].line.run
  BY <1>0, RowRead
<1>1. /\ version >= SCHEMA_VERSION
      /\ bot_runs[run] \in NewRowType /\ bot_runs[run] # NoRow /\ bot_runs[run].mode \in Modes \cup {"unrecorded"}
  BY <1>0, RowRead DEF RunOf, NewRowType
<1>2. /\ bot_runs' = [bot_runs EXCEPT ![run] = bot_runs'[run]]
      /\ bot_runs'[run].mode = bot_runs[run].mode
      /\ bot_runs'[run].columns = bot_runs[run].columns
  <2>0. bot_runs = [q \in RunIds |-> bot_runs[q]]
    BY DEF IInv, Types
  <2>1. CASE SaveRun(p)
    <3> DEFINE row == SavedBy(bot_runs[run], p)
    <3>1. row.mode = bot_runs[run].mode /\ row.columns = bot_runs[run].columns
      BY <1>1 DEF SavedBy, NewRowType
    <3>2. bot_runs' = [bot_runs EXCEPT ![run] = row]
      BY <2>1 DEF SaveRun
    <3> HIDE DEF row
    <3> QED BY <2>0, <3>1, <3>2
  <2>2. CASE AppendOrderEvent(p) \/ AppendClosedTrade(p)
    <3> PICK table \in Tables : AppendRow(p, table)
      BY <2>2 DEF AppendOrderEvent, AppendClosedTrade, Tables
    <3> DEFINE row == [bot_runs[run] EXCEPT !.journal =
                         @ \cup {Entry(table, Account(p, proc[p].line.mode), "text")}]
    <3>1. row.mode = bot_runs[run].mode /\ row.columns = bot_runs[run].columns
      BY <1>1 DEF NewRowType
    <3>2. bot_runs' = [bot_runs EXCEPT ![run] = row]
      BY DEF AppendRow
    <3> HIDE DEF row
    <3> QED BY <2>0, <3>1, <3>2
  <2> QED
    BY <2>1, <2>2
<1>3. bot_runs'[run] # NoRow
  BY <1>1, <1>2 DEF NoRow, Modes
<1>4. RecordRuns' = RecordRuns
  BY <1>0, <1>1, <1>2, <1>3, RunsKept
<1> QED
  BY <1>0, <1>4 DEF Record!vars, RecordVersion, RecordRuns, IdentityHeld

\* Every step of the store is a step of its record, or none.
LEMMA NextImplements ==
    ASSUME IInv, IInv', [Next]_vars
    PROVE  [Record!Next]_(Record!vars)
<1>1. ASSUME UNCHANGED store PROVE UNCHANGED Record!vars
  BY <1>1 DEF store, Record!vars
<1>2. CASE UNCHANGED vars
  BY <1>1, <1>2 DEF vars
<1>3. CASE NewerBuild
  BY <1>3, NewerBuildImplements
<1>4. ASSUME NEW p \in Commands,
             \/ Start(p) \/ BeginPass(p) \/ TakeLock(p) \/ PassCurrent(p) \/ PassRefused(p)
             \/ ReadIdentity(p) \/ Leave(p) \/ ListLegacy(p) \/ LoadRun(p) \/ LoadForClose(p)
             \/ CheckIdentity(p)
      PROVE  UNCHANGED Record!vars
  BY <1>1, <1>4 DEF Start, BeginPass, TakeLock, PassCurrent, PassRefused, ReadIdentity, Leave,
                    ListLegacy, LoadRun, LoadForClose, CheckIdentity
<1> QED
  BY <1>2, <1>3, <1>4, PassStepImplements, BindImplements, AdoptRunImplements, CreateRunImplements,
     WrittenStutters DEF Next, Pass

\* The store implements the record it promises: whatever interleaves, is lost
\* or killed, a schema step is taken once and forward, the environment is bound
\* once, and a run has one identity for life, or a legacy one that an operator
\* replaces once (storage/sqlite/migrate.rs, store_control, adopt_run).
THEOREM RecordImplemented == Spec => RecordSpec
<1>1. Init => Record!Init
  BY InitImplements
<1>2. IInv /\ IInv' /\ [Next]_vars => [Record!Next]_(Record!vars)
  BY NextImplements
<1> QED
  BY <1>1, <1>2, Inductive, PTL DEF Spec, RecordSpec, Record!Spec
=============================================================================
