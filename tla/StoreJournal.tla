---------------------------- MODULE StoreJournal ----------------------------
(* A store shared by several commands: each opens it and brings its schema  *)
(* up to date (storage/{sqlite,postgres}/migrate.rs), reads the store's     *)
(* identity once (cli/context.rs), and then binds the store, adopts a legacy *)
(* run, drives a run or closes one (cli/store, engine/live/state.rs,        *)
(* cli/trade/close.rs).  Every transaction of the store is one step, taken  *)
(* under the lock BEGIN IMMEDIATE or the advisory lock gives; between two of *)
(* them any other command may run, and a command may be refused or killed.  *)
(* A write whose answer is lost is made, and its command stops.             *)
EXTENDS Integers, Sequences

CONSTANTS Commands,            \* the processes
          RunIds,
          Keys,                \* API keys, each an account of its own
          Environments,
          Invocations,         \* the command lines used
          MaxStarts            \* bound: commands started

SCHEMA_VERSION == 5
IdentityVersion == 5
Foreign == -1                  \* tables of ours without a version
Newest == SCHEMA_VERSION + 1

VARIABLES backend,             \* constant: "sqlite" or "postgres"
          version, log,        \* the schema, and the steps logged since the start
          lock,                \* who holds the migration lock
          environment,         \* store_control.environment
          bot_runs,            \* the runs' rows
          proc,                \* the commands
          starts

store == <<version, log, environment, bot_runs>>
vars == <<backend, store, lock, proc, starts>>

Modes == {"dry_run", "live"}
Endpoints == {"production", "test"}

\* What can be said on the command line (cli/store, cli/trade).
CommandLines ==
    [command : {"bind"}, endpoint : Endpoints, key : {"none"}, environment : Environments]
    \cup [command : {"adopt"}, endpoint : Endpoints, key : Keys \cup {"none"}, run : RunIds,
          mode : Modes \cup {"none"}]
    \cup [command : {"drive"}, endpoint : Endpoints, key : Keys \cup {"none"}, run : RunIds, mode : Modes]
    \cup [command : {"close"}, endpoint : Endpoints, key : Keys \cup {"none"}, run : RunIds, mode : {"live"}]

ASSUME JournalAssumption ==
    /\ "none" \notin Commands \cup Keys \cup Environments
    /\ "unknown" \notin Keys
    /\ Invocations \subseteq CommandLines

NoRow == [mode |-> "none"]
NoSave == [mode |-> "none"]
NoColumns == [source |-> "before"]
Legacy == [source |-> "legacy", environment |-> "none", account |-> "none"]
Off == [step |-> "off"]
Opening == [step |-> "opening"]

At(p, step) == proc[p].step = step
On(p, command, step) == At(p, step) /\ proc[p].line.command = command
Become(p, next) == proc' = [proc EXCEPT ![p] = next]
GoTo(p, step) == Become(p, [proc[p] EXCEPT !.step = step])

\* The answer may be lost: OutcomeUnknown, and the command stops.
Answered(p, next) == proc' \in {[proc EXCEPT ![p] = next], [proc EXCEPT ![p] = Off]}

-----------------------------------------------------------------------------
(* Starting: settings, then init, then the store's identity.                *)

Start(p) ==
    /\ At(p, "off")
    /\ starts < MaxStarts
    /\ starts' = starts + 1
    /\ Become(p, Opening)
    /\ UNCHANGED <<backend, store, lock>>

\* The transaction begins, and waits for the lock.
BeginPass(p) ==
    /\ At(p, "opening")
    /\ Become(p, [step |-> "waiting", snapshot |-> version])
    /\ UNCHANGED <<backend, store, lock, starts>>

TakeLock(p) ==
    /\ At(p, "waiting")
    /\ lock = "none"
    /\ lock' = p
    /\ GoTo(p, "passing")
    /\ UNCHANGED <<backend, store, starts>>

\* Mutant: REPEATABLE READ, whose snapshot is as old as the wait.
FoundInSnapshot(p) == proc[p].snapshot

(* READ COMMITTED: what the lock's last holder left.                        *)
Found(p) == version

STEPS == IF backend = "sqlite" THEN 1..SCHEMA_VERSION ELSE {SCHEMA_VERSION}

\* A database without a schema takes the whole chain at once.
Target(found) == IF found = 0 THEN SCHEMA_VERSION ELSE found + 1

PassCurrent(p) ==
    /\ At(p, "passing")
    /\ Found(p) = SCHEMA_VERSION
    /\ lock' = "none"
    /\ Become(p, [step |-> "opened"])
    /\ UNCHANGED <<backend, store, starts>>

\* Mutant: a newer schema is met with nothing.
PassRefusedForeign(p) ==
    /\ At(p, "passing")
    /\ Found(p) = Foreign
    /\ lock' = "none"
    /\ Become(p, Off)
    /\ UNCHANGED <<backend, store, starts>>

\* A newer schema, or a database that is not ours: untouched.
PassRefused(p) ==
    /\ At(p, "passing")
    /\ Found(p) > SCHEMA_VERSION \/ Found(p) = Foreign
    /\ lock' = "none"
    /\ Become(p, Off)
    /\ UNCHANGED <<backend, store, starts>>

(* A run's identity as the columns of its row, and read back from them:     *)
(* nothing where they spell no identity.                                    *)
IdentityColumns(identity) ==
    [source |-> identity.source, environment |-> identity.environment,
     kind |-> IF identity.account = "none" THEN "none" ELSE "key_fingerprint",
     id |-> identity.account]

IdentityFromColumns(columns) ==
    {[source |-> columns.source, environment |-> columns.environment, account |-> columns.id] :
        c \in {c \in {columns} : /\ c.environment \in Environments \cup {"none"}
                               /\ c.kind = "none" <=> c.id = "none"
                               /\ c.source \in {"legacy", "recorded", "adopted"}}}

\* run_identity: a build before schema 5 had no such columns.
IdentityOf(row) == IF row.columns = NoColumns THEN {} ELSE IdentityFromColumns(row.columns)

\* Schema 5 rebuilds the journals with their venue IDs as text.
Rebuilt(journal) == {[entry EXCEPT !.column = "text"] : entry \in journal}

(* migrate_ids: the IDs inside the JSON of states and order events.         *)
TextIds(row) ==
    [row EXCEPT !.ids = "text",
                !.journal = {IF entry.table = "order_events" THEN [entry EXCEPT !.json = "text"]
                                                             ELSE entry : entry \in row.journal}]

\* Schema 5: every run becomes legacy, with its state kept beside.
WithIdentity(row) ==
    IF row = NoRow THEN row
    ELSE TextIds([row EXCEPT !.columns = IdentityColumns(Legacy), !.original = row.mode,
                             !.journal = Rebuilt(row.journal)])

PassStep(p) ==
    /\ At(p, "passing")
    /\ Found(p) \in 0..SCHEMA_VERSION - 1
    /\ Target(Found(p)) \in STEPS
    /\ version' = Target(Found(p))
    /\ log' = Append(log, <<Found(p), Target(Found(p))>>)
    /\ bot_runs' = IF Target(Found(p)) = IdentityVersion
                     THEN [r \in RunIds |-> WithIdentity(bot_runs[r])]
                     ELSE bot_runs
    /\ lock' = "none"
    /\ Answered(p, Opening)
    /\ UNCHANGED <<backend, environment, starts>>

\* What the command is for, the startup does not depend on.
ReadIdentity(p) ==
    /\ At(p, "opened")
    /\ \E line \in Invocations :
         Become(p, [step |-> "ready", line |-> line, bound |-> environment])
    /\ UNCHANGED <<backend, store, lock, starts>>

\* A newer build's process migrates the store.
NewerBuild ==
    /\ lock = "none"
    /\ version = SCHEMA_VERSION
    /\ version' = Newest
    /\ log' = Append(log, <<version, Newest>>)
    /\ UNCHANGED <<backend, environment, bot_runs, lock, proc, starts>>

\* Refused, stopped or killed; a transaction it had open is rolled back.
Leave(p) ==
    /\ ~At(p, "off")
    /\ Become(p, Off)
    /\ lock' = IF lock = p THEN "none" ELSE lock
    /\ UNCHANGED <<backend, store, starts>>

-----------------------------------------------------------------------------
(* What the commands check.                                                 *)

Endpoint(e) == IF e = "mainnet" THEN "production" ELSE "test"

\* verify_environment: by the binding this command read when it started.
VerifyEnvironment(p) ==
    proc[p].bound # "none" => Endpoint(proc[p].bound) = proc[p].line.endpoint

Account(p, mode) == IF mode = "live" THEN proc[p].line.key ELSE "none"

RunIdentity(p, mode) ==
    [source |-> "recorded", environment |-> proc[p].bound, account |-> Account(p, mode)]

\* Mutant: any key drives the run.
MatchesAnyKey(recorded, current) ==
    /\ recorded.source # "legacy"
    /\ recorded.environment = current.environment

(* RunIdentity::matches.                                                    *)
Matches(recorded, current) ==
    /\ recorded.source # "legacy"
    /\ recorded.environment = current.environment
    /\ recorded.account = current.account

-----------------------------------------------------------------------------
(* store bind and store adopt-run.                                          *)

\* Mutant: the binding is written whatever it was.
BoundAnew(bound, e) == e

(* bind_environment: within one transaction, and only an unbound store.     *)
BoundTo(bound, e) == IF bound = "none" THEN e ELSE bound

\* The declaration agrees with the endpoint, and was not bound at the start.
MayDeclare(p) ==
    /\ Endpoint(proc[p].line.environment) = proc[p].line.endpoint
    /\ proc[p].bound = "none"

Bind(p) ==
    /\ On(p, "bind", "ready")
    /\ MayDeclare(p)
    /\ environment' = BoundTo(environment, proc[p].line.environment)
    /\ Become(p, Off)
    /\ UNCHANGED <<backend, version, log, bot_runs, lock, starts>>

\* The mode comes from the row, or from the operator when it has none.
StatedFor(recorded, stated) ==
    IF recorded = "unrecorded" THEN stated # "none" ELSE stated = "none"

ModeOf(recorded, stated) == IF recorded = "unrecorded" THEN stated ELSE recorded

LegacyRuns == {r \in RunIds : bot_runs[r] # NoRow /\ IdentityOf(bot_runs[r]) = {Legacy}}

ListLegacy(p) ==
    /\ On(p, "adopt", "ready")
    /\ proc[p].bound # "none"
    /\ LET line == proc[p].line
           row == bot_runs[line.run]
       IN /\ line.run \in LegacyRuns
          /\ StatedFor(row.mode, line.mode)
          /\ ModeOf(row.mode, line.mode) = "live" =>
               VerifyEnvironment(p) /\ line.key # "none"
          /\ Become(p, [step |-> "listed", line |-> line, bound |-> proc[p].bound,
                        listed |-> row.mode])
    /\ UNCHANGED <<backend, store, lock, starts>>

\* adopted_state: what is written for a row that is still legacy.
AdoptedStates(row, stated) ==
    {mode \in {ModeOf(row.mode, stated)} :
        IdentityOf(row) = {Legacy} /\ StatedFor(row.mode, stated)}

AdoptedRow(row, mode, bound, account) ==
    [row EXCEPT !.mode = mode,
                !.columns = IdentityColumns([source |-> "adopted", environment |-> bound,
                                             account |-> account])]

\* The row is read again, and written, in one transaction.
AdoptRun(p) ==
    /\ On(p, "adopt", "listed")
    /\ LET run == proc[p].line.run
           stated == IF proc[p].listed = "unrecorded" THEN proc[p].line.mode ELSE "none"
       IN \E mode \in AdoptedStates(bot_runs[run], stated) :
            bot_runs' = [bot_runs EXCEPT ![run] =
                           AdoptedRow(@, mode, proc[p].bound, Account(p, mode))]
    /\ Become(p, Off)
    /\ UNCHANGED <<backend, version, log, environment, lock, starts>>

-----------------------------------------------------------------------------
(* trade run and trade close.                                               *)

\* A run recorded without a mode does not load, nor one with numbers for IDs.
Loads(row) == row.mode \in Modes /\ row.ids = "text"

MayTrade(p) ==
    /\ VerifyEnvironment(p)
    /\ proc[p].line.mode = "live" => proc[p].line.key # "none"

\* load_or_create_run_state: a run there already is resumed as it was started.
LoadRun(p) ==
    /\ On(p, "drive", "ready")
    /\ MayTrade(p)
    /\ LET row == bot_runs[proc[p].line.run]
       IN /\ row # NoRow => Loads(row) /\ row.mode = proc[p].line.mode
          /\ GoTo(p, IF row = NoRow THEN "creating" ELSE "loaded")
    /\ UNCHANGED <<backend, store, lock, starts>>

\* trade close takes only a live run that is there.
LoadForClose(p) ==
    /\ On(p, "close", "ready")
    /\ MayTrade(p)
    /\ bot_runs[proc[p].line.run].mode = "live"
    /\ GoTo(p, "loaded")
    /\ UNCHANGED <<backend, store, lock, starts>>

CheckIdentity(p) ==
    /\ At(p, "loaded")
    /\ \E recorded \in IdentityOf(bot_runs[proc[p].line.run]) :
         Matches(recorded, RunIdentity(p, proc[p].line.mode))
    /\ GoTo(p, "driving")
    /\ UNCHANGED <<backend, store, lock, starts>>

NewRow(p, mode) ==
    [mode |-> mode, columns |-> IdentityColumns(RunIdentity(p, mode)), original |-> "none",
     ids |-> "text", saved |-> NoSave, journal |-> {}]

CreateRun(p) ==
    /\ At(p, "creating")
    /\ bot_runs[proc[p].line.run] = NoRow
    /\ bot_runs' = [bot_runs EXCEPT ![proc[p].line.run] = NewRow(p, proc[p].line.mode)]
    /\ Answered(p, [proc[p] EXCEPT !.step = "driving"])
    /\ UNCHANGED <<backend, version, log, environment, lock, starts>>

\* The state, with what its position was traded with; never the identity.
SavedBy(row, p) ==
    LET line == proc[p].line
    IN [row EXCEPT !.saved = [mode |-> line.mode, endpoint |-> line.endpoint,
                              account |-> Account(p, line.mode)]]

SaveRun(p) ==
    /\ At(p, "driving")
    /\ bot_runs' = [bot_runs EXCEPT ![proc[p].line.run] = SavedBy(@, p)]
    /\ Answered(p, proc[p])
    /\ UNCHANGED <<backend, version, log, environment, lock, starts>>

(* The journals beside the state: a row of its own for each order and for   *)
(* each closed trade, whatever the run's row says by now.                   *)
Entry(table, account, ids) ==
    [table |-> table, account |-> account, column |-> ids,
     json |-> IF table = "order_events" THEN ids ELSE "none"]

AppendRow(p, table) ==
    /\ At(p, "driving")
    /\ bot_runs' = [bot_runs EXCEPT ![proc[p].line.run].journal =
                       @ \cup {Entry(table, Account(p, proc[p].line.mode), "text")}]
    /\ Answered(p, proc[p])
    /\ UNCHANGED <<backend, version, log, environment, lock, starts>>

AppendOrderEvent(p) == AppendRow(p, "order_events")
AppendClosedTrade(p) == AppendRow(p, "closed_trades")

\* A list is the journal's rows, or nothing where one of them cannot be read.
ListOrderEvents(row) ==
    {rows \in {{entry \in row.journal : entry.table = "order_events"}} :
        \A entry \in rows : entry.json = "text"}

ListClosedTrades(row) ==
    {rows \in {{entry \in row.journal : entry.table = "closed_trades"}} :
        \A entry \in rows : entry.column = "text"}

-----------------------------------------------------------------------------
OldRow(mode) ==
    [mode |-> mode, columns |-> NoColumns, original |-> "none", ids |-> "number", saved |-> NoSave,
     journal |-> {Entry(table, "unknown", "number") : table \in {"order_events", "closed_trades"}}]

\* What each build left: 0.2.0 recorded no mode, and PostgreSQL begins at 5.
RowsOf(v) ==
    IF v = 2 THEN {NoRow, OldRow("unrecorded")}
    ELSE IF v \in 3..4 THEN {NoRow} \cup {OldRow(mode) : mode \in {"unrecorded", "live"}}
    ELSE {NoRow}

Init ==
    /\ backend \in {"sqlite", "postgres"}
    /\ version \in IF backend = "sqlite" THEN {0, 2, 4, 5} ELSE {Foreign, 0, 5}
    /\ log = <<>>
    /\ lock = "none"
    /\ environment = "none"
    /\ bot_runs \in [RunIds -> RowsOf(version)]
    /\ proc = [p \in Commands |-> Off]
    /\ starts = 0

Pass(p) == PassCurrent(p) \/ PassRefused(p) \/ PassStep(p)

Next ==
    \/ NewerBuild
    \/ \E p \in Commands :
         \/ Start(p) \/ BeginPass(p) \/ TakeLock(p) \/ Pass(p) \/ ReadIdentity(p) \/ Leave(p)
         \/ Bind(p) \/ ListLegacy(p) \/ AdoptRun(p)
         \/ LoadRun(p) \/ LoadForClose(p) \/ CheckIdentity(p) \/ CreateRun(p) \/ SaveRun(p)
         \/ AppendOrderEvent(p) \/ AppendClosedTrade(p)

\* A command that was started goes on with its startup.
Fairness ==
    \A p \in Commands : WF_vars(BeginPass(p)) /\ WF_vars(TakeLock(p)) /\ WF_vars(Pass(p))

Spec == Init /\ [][Next]_vars /\ Fairness

-----------------------------------------------------------------------------
(* Properties.                                                              *)

Steps == {"off", "opening", "waiting", "passing", "opened", "ready", "listed",
          "loaded", "creating", "driving"}

\* Every value is of its type; the lock is held by a command in its pass.
TypeOK ==
    /\ version \in {Foreign} \cup 0..Newest
    /\ environment \in Environments \cup {"none"}
    /\ \A p \in Commands : proc[p].step \in Steps /\ (At(p, "passing") <=> lock = p)
    /\ \A r \in RunIds : bot_runs[r] # NoRow =>
         /\ bot_runs[r].mode \in Modes \cup {"unrecorded"}
         /\ bot_runs[r].mode = "unrecorded" =>
              bot_runs[r].columns.source \in {"before", "legacy"}

\* The promise of the store's record: one environment, one identity for a
\* run, and each schema step once, whatever interleaves (StoreControl).
Record ==
    INSTANCE StoreRecord WITH
        version <- IF version = Foreign THEN 0 ELSE version,
        runs <- [r \in RunIds |->
                   IF bot_runs[r] = NoRow THEN [source |-> "none"]
                   ELSE IF bot_runs[r].columns = NoColumns THEN NoColumns
                   ELSE CHOOSE identity \in IdentityOf(bot_runs[r]) : TRUE],
        Accounts <- Keys

RecordSpec == Record!Spec

\* The log is the store's way here, each step where the last one ended, and
\* a database that is not ours has none (stamp, current_version).
LogIsTheWay ==
    /\ \A i \in 1..Len(log) - 1 : log[i][2] = log[i + 1][1]
    /\ log # <<>> => log[Len(log)][2] = version /\ log[1][1] >= 0
    /\ version = Foreign => log = <<>>

\* What a run holds was traded in the mode, with the key and at the kind of
\* endpoint its identity names: no run inherits another's position, orders or
\* trades.  Whoever drives a run drives it as recorded, and no legacy run is
\* driven, whatever others have done to the row since it was loaded; and what
\* an older build left in the journals can be read once the store is migrated
\* (apply_resume_checks, RunIdentity::matches, migrate_ids).
KeptAsRecorded ==
    /\ \A r \in RunIds : bot_runs[r] # NoRow =>
         LET row == bot_runs[r]
         IN /\ \A identity \in IdentityOf(row) :
                 /\ row.saved # NoSave =>
                      /\ row.saved.mode = row.mode
                      /\ row.saved.account = identity.account
                      /\ identity.environment # "none" =>
                           row.saved.endpoint = Endpoint(identity.environment)
                 /\ \A entry \in row.journal : entry.account \in {"unknown", identity.account}
            /\ version >= IdentityVersion =>
                 /\ IdentityOf(row) # {} /\ (row.mode \in Modes => Loads(row))
                 /\ ListOrderEvents(row) # {} /\ ListClosedTrades(row) # {}
    /\ \A p \in Commands : At(p, "driving") =>
         \E identity \in IdentityOf(bot_runs[proc[p].line.run]) :
           /\ identity.source \in {"recorded", "adopted"}
           /\ identity.environment = proc[p].bound
           /\ identity.account = Account(p, proc[p].line.mode)

\* Every command gets through its startup, or is refused (ensure_current).
StartupEnds ==
    \A p \in Commands :
        At(p, "opening") ~> (proc[p].step \notin {"opening", "waiting", "passing"})
=============================================================================
