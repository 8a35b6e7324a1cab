------------------------------ MODULE MCEdges ------------------------------
(* What the program checks before it trusts what it did not make: one run  *)
(* is about either a strategy's bundle or an exchange's connector.         *)
EXTENDS StrategyBundle, Conformance

VARIABLE topic

File(size) == [size |-> size, text |-> "code"]
Toml(text) == [size |-> 1, text |-> text]
ALink == [size |-> 1, text |-> Link]

Good == [faults |-> {}, entry |-> <<"s.py">>, engine |-> {[op |-> ">=", bound |-> 3], [op |-> "<", bound |-> 5]},
         python |-> 12, deps |-> [numpy |-> 2]]

MCManifests ==
    "good" :> Good
      @@ "package" :> [Good EXCEPT !.entry = <<"a", "__init__.py">>, !.engine = {[op |-> "==", bound |-> 3]}]
      @@ "root" :> [Good EXCEPT !.entry = <<"__init__.py">>, !.engine = {[op |-> ">", bound |-> 3], [op |-> "<=", bound |-> 4]}]
      @@ "faulty" :> [Good EXCEPT !.faults = {"engine_invalid", "key_unknown"}]
      @@ "next" :> [Good EXCEPT !.faults = {"format_other"}]

MCRank == "A" :> 1 @@ "S.py" :> 2 @@ "__init__.py" :> 3 @@ "a" :> 4 @@ "b.py" :> 5 @@ "m.toml" :> 6 @@ "s.py" :> 7
            @@ ".git" :> 0 @@ "n.md" :> 8 @@ "aux.py" :> 9
MCFolded == [n \in DOMAIN MCRank |-> CASE n = "A" -> "a" [] n = "S.py" -> "s.py" [] OTHER -> n]

M(text) == <<"m.toml">> :> Toml(text)
S(size) == <<"s.py">> :> File(size)
B(size) == <<"b.py">> :> File(size)

MCTrees ==
    {M("good") @@ S(2),
     M("good") @@ S(1) @@ B(4),
     M("good") @@ S(2) @@ B(2) @@ (<<"a", "b.py">> :> File(0)),
     M("good") @@ S(1) @@ (<<"S.py">> :> File(1)),
     M("good") @@ (<<"S.py">> :> File(1)) @@ (<<"s.py", "b.py">> :> File(1)),
     M("package") @@ (<<"A", "b.py">> :> File(1)) @@ (<<"a", "__init__.py">> :> File(1)),
     M("package") @@ (<<"a", "__init__.py">> :> File(3)) @@ (<<".git", "b.py">> :> File(1)),
     M("root") @@ (<<"__init__.py">> :> File(1)),
     M("faulty") @@ (<<"a", "n.md">> :> File(5)) @@ (<<"aux.py">> :> File(0)),
     M("next") @@ S(1) @@ (<<"A">> :> ALink),
     S(1) @@ B(1),
     M("faulty") @@ B(4)}

Limit(file, total, files) == [file |-> file, total |-> total, files |-> files]
MCLimitSets == {Limit(2, 4, 2), Limit(4, 5, 3), Limit(5, 9, 4)}

Runs(engine, python, packages) == [engine |-> engine, python |-> python, packages |-> packages]
MCRuntimes == {Runs(3, 12, "numpy" :> {1, 2}), Runs(5, 11, "pandas" :> {2}), Runs(4, 12, "numpy" :> {1})}
MCRanges == {[min |-> 1, max |-> 2], [min |-> 2, max |-> 3], [min |-> 3, max |-> 3], [min |-> 2, max |-> 1]}

Testnet == <<"testnet", "binance", "vision">>
MCLowerCase == "API" :> "api" @@ "BINANCE" :> "binance" @@ "Localhost" :> "localhost"

Target(env, host, keys) ==
    [env |-> env, exchange |-> CHOOSE line \in Lookup("binance") : TRUE, host |-> host, short |-> TRUE, caps |-> Capabilities, keys |-> keys,
     drift |-> 0]

Replayed == Target("replay", <<"Localhost">>, {"issued"})
OnTestnet == Target("live", Testnet, {"issued"})

MCTargets ==
    {Replayed, OnTestnet,
     [Target("live", Testnet, {}) EXCEPT !.caps = {"time"}, !.drift = 2],
     [OnTestnet EXCEPT !.drift = 6],
     [Replayed EXCEPT !.caps = Capabilities \ {"client_ids"}],
     [Replayed EXCEPT !.host = Testnet],
     [OnTestnet EXCEPT !.host = <<"API", "BINANCE", "com", "">>],
     [OnTestnet EXCEPT !.host = <<"notbinance", "com">>],
     [OnTestnet EXCEPT !.exchange = [venue |-> "bybit", category |-> "linear"]],
     [OnTestnet EXCEPT !.short = FALSE]}

NoSuite ==
    /\ target = Replayed
    /\ lie = None
    /\ report = NoReport
    /\ life = NoLife
    /\ held = 0

NoBundle ==
    /\ tree = <<>>
    /\ limits = Limit(0, 0, 0)
    /\ peer = [client |-> Unseen, server |-> Unseen, seen |-> Unseen]
    /\ walk = Start(<<>>)
    /\ wire = NoArchive
    /\ told = [client |-> Untold, server |-> Untold, admitted |-> Untold]

EdgesInit ==
    \/ topic = "strategy" /\ BundleInit /\ NoSuite
    \/ topic = "exchange" /\ SuiteInit /\ NoBundle

EdgesNext ==
    \/ topic = "strategy" /\ BundleNext /\ UNCHANGED <<topic, suiteVars>>
    \/ topic = "exchange" /\ SuiteNext /\ UNCHANGED <<topic, bundleVars>>

EdgesSpec == EdgesInit /\ [][EdgesNext]_<<topic, bundleVars, suiteVars>>
=============================================================================
