----------------------------- MODULE StoreCalls -----------------------------
(* Calls on a PostgreSQL store (storage/postgres/bridge.rs, runner.rs):     *)
(* callers block while a job of theirs runs on the bridge, over a session   *)
(* of a small pool, and the server may answer, refuse, break the connection *)
(* or say nothing and go on.  A caller may run its call again on a conflict, *)
(* within a budget (storage/retry.rs).  A time limit is an action that may  *)
(* be taken whenever what it limits goes on.                                *)
EXTENDS Integers, FiniteSets

CONSTANTS Callers, Sessions, PoolSize

ASSUME CallsAssumption == PoolSize \in Nat \ {0} /\ IsFiniteSet(Sessions)

VARIABLES caller,        \* who waits for what, and what they were told
          job,           \* each caller's job on the bridge
          session,       \* the sessions, and what the server does in them
          applied        \* how often each caller's write was made

callVars == <<caller, job, session, applied>>

Effects == {"read", "write"}
Replies == {"ok", "conflict", "lock", "resources", "canceled", "other", "broken"}
CallAnswers == {"done", "conflict", "contention", "unavailable", "unknown", "other"}

Idle == [step |-> "idle"]
NoJob == [step |-> "none"]
NoOp == [of |-> "none"]
Closed == [state |-> "closed"]
Fresh == [state |-> "held", limits |-> "own", op |-> NoOp, reply |-> "none"]

-----------------------------------------------------------------------------
(* What an answer means.                                                    *)

\* Mutant: a write without an answer is said not to have been made.
LostUnavailable(effect) == "unavailable"

(* lost: nothing changed for a read, anything may have for a write.         *)
Lost(effect) == IF effect = "read" THEN "unavailable" ELSE "unknown"

FromDriver(effect, reply) ==
    CASE reply = "ok" -> "done"
      [] reply = "conflict" -> "conflict"
      [] reply = "lock" -> "contention"
      [] reply = "resources" -> "unavailable"
      [] reply = "other" -> "other"
      [] reply \in {"canceled", "broken"} -> Lost(effect)

-----------------------------------------------------------------------------
(* The pool.                                                                *)

InPool == {s \in Sessions : session[s].state \in {"idle", "held"}}
IdleSessions == {s \in Sessions : session[s].state = "idle"}

\* Object::take: out of the pool; what the server does in it goes on.
Discarded(it) == IF it.op = NoOp THEN Closed ELSE [it EXCEPT !.state = "lost", !.reply = "none"]

\* A broken session fails the check before its next use.
GivenBack(it) == IF it.reply = "broken" THEN Discarded(it)
                 ELSE [it EXCEPT !.state = "idle", !.reply = "none"]

\* Mutant: the session goes back as it is.
NotReset(it) == GivenBack(it)

ResetFailed(it) == Discarded(it)

Restored(it) == GivenBack([it EXCEPT !.limits = "own"])

-----------------------------------------------------------------------------
(* The caller.                                                              *)

Attempt(effect, bounded) ==
    [step |-> "waiting", effect |-> effect, bounded |-> bounded]

\* A bounded call is one that retry_conflicts makes, which a budget is left for.
Call(c) ==
    /\ caller[c] = Idle
    /\ \E effect \in Effects, bounded \in BOOLEAN :
         /\ caller' = [caller EXCEPT ![c] = [step |-> "calling", effect |-> effect,
                                             bounded |-> bounded, left |-> bounded]]
         /\ job' = [job EXCEPT ![c] = Attempt(effect, bounded)]
    /\ UNCHANGED <<session, applied>>

\* Called from the bridge's own thread, or in a forked process.
CallRefused(c) ==
    /\ caller[c] = Idle
    /\ caller' = [caller EXCEPT ![c] = [step |-> "told", effect |-> "write", answer |-> "other"]]
    /\ UNCHANGED <<job, session, applied>>

Told(it, answer) == [step |-> "told", effect |-> it.effect, answer |-> answer]

\* Mutant: a write that may have been made is made again.
MayRetryUnknown(it, answer) == it.bounded /\ it.left /\ answer \in {"conflict", "unknown"}

\* Mutant: as often as it takes.
MayRetryForever(it, answer) == it.bounded /\ answer = "conflict"

(* retry_with: only a conflict, and only with some of the budget left.      *)
MayRetry(it, answer) == it.bounded /\ it.left /\ answer = "conflict"

\* The job ends with an answer; no one hears it when the watchdog gave up.
Settle(c, answer) ==
    /\ job' = [job EXCEPT ![c] = NoJob]
    /\ caller' = IF caller[c].step # "calling" THEN caller
                 ELSE [caller EXCEPT ![c] =
                         IF MayRetry(@, answer) THEN [@ EXCEPT !.step = "pausing"]
                         ELSE Told(@, answer)]

Resume(c) ==
    /\ caller[c].step = "pausing"
    /\ IF MayRetry(caller[c], "conflict")
         THEN /\ caller' = [caller EXCEPT ![c].step = "calling"]
              /\ job' = [job EXCEPT ![c] = Attempt(caller[c].effect, TRUE)]
         ELSE /\ caller' = [caller EXCEPT ![c] = Told(@, "conflict")]
              /\ UNCHANGED job
    /\ UNCHANGED <<session, applied>>

BudgetEnds(c) ==
    /\ caller[c].step \in {"calling", "pausing"}
    /\ caller[c].left
    /\ caller' = [caller EXCEPT ![c].left = FALSE]
    /\ UNCHANGED <<job, session, applied>>

\* No answer from the bridge past the deadline and its margin.
Watchdog(c) ==
    /\ caller[c].step = "calling"
    /\ caller' = [caller EXCEPT ![c] = Told(@, Lost(caller[c].effect))]
    /\ UNCHANGED <<job, session, applied>>

-----------------------------------------------------------------------------
(* The job.                                                                 *)

JobAt(c, step) == job[c].step = step
Of(c) == session[job[c].session]

Sent(c) == [of |-> c, effect |-> job[c].effect]

\* A session in hand: its limits are tightened first when the call is bounded.
Take(c, s, it) ==
    IF job[c].bounded
      THEN /\ job' = [job EXCEPT ![c] = [step |-> "limiting", effect |-> @.effect,
                                         bounded |-> TRUE, session |-> s]]
           /\ session' = [session EXCEPT ![s] = [it EXCEPT !.state = "held"]]
      ELSE /\ job' = [job EXCEPT ![c] = [step |-> "working", effect |-> @.effect,
                                         bounded |-> FALSE, session |-> s]]
           /\ session' = [session EXCEPT ![s] = [it EXCEPT !.state = "held", !.op = Sent(c)]]

GetIdle(c) ==
    /\ JobAt(c, "waiting")
    /\ \E s \in IdleSessions : Take(c, s, session[s])
    /\ UNCHANGED <<caller, applied>>

Room(pool) == Cardinality(pool) < PoolSize

GetNew(c) ==
    /\ JobAt(c, "waiting")
    /\ IdleSessions = {}
    /\ Room(InPool)
    /\ \E s \in {t \in Sessions : session[t] = Closed} : Take(c, s, Fresh)
    /\ UNCHANGED <<caller, applied>>

\* None free in time, no connection, or one that falls short: nothing was sent.
GetFails(c) ==
    /\ JobAt(c, "waiting")
    /\ Settle(c, "unavailable")
    /\ UNCHANGED <<session, applied>>

Limit(c) ==
    /\ JobAt(c, "limiting")
    /\ job' = [job EXCEPT ![c].step = "working"]
    /\ session' = [session EXCEPT ![job[c].session] = [@ EXCEPT !.limits = "tight", !.op = Sent(c)]]
    /\ UNCHANGED <<caller, applied>>

LimitFails(c) ==
    /\ JobAt(c, "limiting")
    /\ Settle(c, "unavailable")
    /\ session' = [session EXCEPT ![job[c].session] = Discarded(@)]
    /\ UNCHANGED applied

WorkEnds(c) ==
    /\ JobAt(c, "working")
    /\ Of(c).reply # "none"
    /\ LET answer == FromDriver(job[c].effect, Of(c).reply)
       IN IF job[c].bounded
            THEN /\ job' = [job EXCEPT ![c] = [step |-> "resetting", session |-> @.session,
                                               answer |-> answer]]
                 /\ UNCHANGED <<caller, session>>
            ELSE /\ Settle(c, answer)
                 /\ session' = [session EXCEPT ![job[c].session] = GivenBack(@)]
    /\ UNCHANGED applied

MayTimeOut(c) == JobAt(c, "working")

\* Cancelled on the server as far as it will be, and the session discarded.
WorkTimesOut(c) ==
    /\ MayTimeOut(c)
    /\ Settle(c, Lost(job[c].effect))
    /\ session' = [session EXCEPT ![job[c].session] = Discarded(@)]
    /\ UNCHANGED applied

Reset(c) ==
    /\ JobAt(c, "resetting")
    /\ Settle(c, job[c].answer)
    /\ session' \in {[session EXCEPT ![job[c].session] = Restored(@)],
                     [session EXCEPT ![job[c].session] = ResetFailed(@)]}
    /\ UNCHANGED applied

-----------------------------------------------------------------------------
(* The server, and the network.                                             *)

\* What was asked has ended: the reply is heard while the session is held.
Ended(it, reply) ==
    IF it.state = "held" /\ it.reply = "none" THEN [it EXCEPT !.op = NoOp, !.reply = reply]
    ELSE IF it.state = "held" THEN [it EXCEPT !.op = NoOp]
    ELSE Closed

Running(s) == session[s] # Closed /\ session[s].op # NoOp

Commit(s) ==
    /\ Running(s)
    /\ LET op == session[s].op
       IN applied' = IF op.effect = "write" THEN [applied EXCEPT ![op.of] = @ + 1] ELSE applied
    /\ session' = [session EXCEPT ![s] = Ended(@, "ok")]
    /\ UNCHANGED <<caller, job>>

RollBack(s) ==
    /\ Running(s)
    /\ \E reply \in Replies \ {"ok", "broken"} :
         session' = [session EXCEPT ![s] = Ended(@, reply)]
    /\ UNCHANGED <<caller, job, applied>>

\* With an answer lost on the way, or none yet: the server may still commit.
Break(s) ==
    /\ session[s].state = "held"
    /\ session[s].reply \in {"none", "ok"}
    /\ \E c \in Callers : JobAt(c, "working") /\ job[c].session = s
    /\ session' = [session EXCEPT ![s].reply = "broken"]
    /\ UNCHANGED <<caller, job, applied>>

IdleEnds(s) ==
    /\ session[s].state = "idle"
    /\ session' = [session EXCEPT ![s] = Closed]
    /\ UNCHANGED <<caller, job, applied>>

-----------------------------------------------------------------------------
CallInit ==
    /\ caller = [c \in Callers |-> Idle]
    /\ job = [c \in Callers |-> NoJob]
    /\ session = [s \in Sessions |-> Closed]
    /\ applied = [c \in Callers |-> 0]

Bridge(c) ==
    \/ GetIdle(c) \/ GetNew(c) \/ GetFails(c) \/ Limit(c) \/ LimitFails(c)
    \/ WorkEnds(c) \/ WorkTimesOut(c) \/ Reset(c)

CallNext ==
    \/ \E c \in Callers : Call(c) \/ CallRefused(c) \/ Resume(c) \/ BudgetEnds(c) \/ Watchdog(c)
    \/ \E c \in Callers : Bridge(c)
    \/ \E s \in Sessions : Commit(s) \/ RollBack(s) \/ Break(s) \/ IdleEnds(s)

\* The bridge's threads run and its timers fire; nothing is asked of the server.
CallFairness ==
    \A c \in Callers : WF_callVars(Bridge(c)) /\ WF_callVars(Resume(c)) /\ WF_callVars(BudgetEnds(c))

CallSpec == CallInit /\ [][CallNext]_callVars /\ CallFairness

-----------------------------------------------------------------------------
(* Properties.                                                              *)

\* Every value is of its type: a job has the session it holds to itself, and
\* the pool is never over its size (execute's Object).
CallTypeOK ==
    /\ \A c \in Callers : caller[c].step \in {"idle", "calling", "pausing", "told"}
    /\ \A c \in Callers : caller[c].step = "told" => caller[c].answer \in CallAnswers
    /\ Cardinality(InPool) <= PoolSize
    /\ \A s \in Sessions : session[s].state = "held" =>
         Cardinality({c \in Callers : job[c].step \in {"limiting", "working", "resetting"}
                                        /\ job[c].session = s}) = 1

\* A caller is told the truth of its write: done when it was made, and any
\* other definite answer when it was not and never will be (lost, from_driver).
ToldTheTruth ==
    \A c \in Callers : caller[c].step = "told" /\ caller[c].effect = "write" =>
        /\ caller[c].answer = "done" => applied[c] = 1
        /\ caller[c].answer \notin {"done", "unknown"} =>
             /\ applied[c] = 0
             /\ job[c] = NoJob
             /\ \A s \in Sessions : Running(s) => session[s].op.of # c

\* However often it is tried, a write is never made twice (retry_conflicts).
NeverTwice == \A c \in Callers : applied[c] <= 1

\* A session in the pool has its own limits, no reply waiting and nothing
\* running: no call queues behind, or is limited by, another (execute).
PoolIsClean ==
    \A s \in IdleSessions :
        session[s].limits = "own" /\ session[s].op = NoOp /\ session[s].reply = "none"

\* Every caller is told something, whatever the server does (deadline, budget),
\* and no job keeps a session for good, even one whose server says nothing.
CallsEnd ==
    \A c \in Callers :
        /\ caller[c].step = "calling" ~> caller[c].step = "told"
        /\ job[c] # NoJob ~> job[c] = NoJob
=============================================================================
