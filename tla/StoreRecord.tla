---------------------------- MODULE StoreRecord -----------------------------
(* What a store promises of its own record, whatever backend keeps it and   *)
(* however many processes share it (docs/storage-schema.md): a schema that  *)
(* only moves forward by logged steps, an environment bound once and for    *)
(* life, runs that carry one identity from their creation, and legacy runs  *)
(* that get theirs from an operator, in the store's environment, once.      *)
EXTENDS Integers, Sequences

CONSTANTS RunIds, Environments, Accounts,
          IdentityVersion,     \* the schema that gave runs an identity
          Newest               \* the newest schema of any build

VARIABLES version,             \* the schema version, 0 for none
          log,                 \* the migration log
          environment,         \* what the store is bound to, or "none"
          runs                 \* each run's identity

vars == <<version, log, environment, runs>>

NoRun == [source |-> "none"]
Before == [source |-> "before"]          \* of a build without identities
Legacy == [source |-> "legacy", environment |-> "none", account |-> "none"]

Identities(source, environments) ==
    [source : {source}, environment : environments, account : Accounts \cup {"none"}]

Init ==
    /\ version \in 0..Newest
    /\ log = <<>>
    /\ environment \in IF version < IdentityVersion THEN {"none"}
                       ELSE Environments \cup {"none"}
    /\ runs \in [RunIds -> {NoRun, Before, Legacy}
                             \cup Identities("recorded", Environments \cup {"none"})]

Migrate(to) ==
    /\ version < to
    /\ version' = to
    /\ log' = Append(log, <<version, to>>)
    /\ runs' = [r \in RunIds |-> IF runs[r] = Before /\ to >= IdentityVersion
                                   THEN Legacy ELSE runs[r]]
    /\ UNCHANGED environment

Bind(e) ==
    /\ environment = "none"
    /\ environment' = e
    /\ UNCHANGED <<version, log, runs>>

Create(r) ==
    /\ runs[r] = NoRun
    /\ runs' \in {[runs EXCEPT ![r] = identity] :
                    identity \in Identities("recorded", Environments \cup {"none"})}
    /\ UNCHANGED <<version, log, environment>>

\* In the store's environment, which is bound.
Adopt(r) ==
    /\ runs[r] = Legacy
    /\ environment # "none"
    /\ runs' \in {[runs EXCEPT ![r] = identity] : identity \in Identities("adopted", {environment})}
    /\ UNCHANGED <<version, log, environment>>

Next ==
    \/ \E to \in 1..Newest : Migrate(to)
    \/ \E e \in Environments : Bind(e)
    \/ \E r \in RunIds : Create(r) \/ Adopt(r)

Spec == Init /\ [][Next]_vars
=============================================================================
