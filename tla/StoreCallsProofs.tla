-------------------------- MODULE StoreCallsProofs --------------------------
(* What a PostgreSQL store's callers are told, for every number of callers, *)
(* sessions and places in the pool.  ToldTheTruth speaks of a caller that   *)
(* has its answer; what makes it inductive is where its operation is before *)
(* that: in the one session its job holds, or in a lost one once the caller *)
(* has been told nothing definite (Asked), and where a write that was made, *)
(* or must have been, is on its way to being told (Made, MustBeMade).       *)
EXTENDS StoreCalls, FiniteSetTheorems, TLAPS

(* The records' shapes.                                                     *)
CallerType ==
    {Idle}
    \cup [step : {"calling", "pausing"}, effect : Effects, bounded : BOOLEAN, left : BOOLEAN]
    \cup [step : {"told"}, effect : Effects, answer : CallAnswers]

JobType ==
    {NoJob}
    \cup [step : {"waiting"}, effect : Effects, bounded : BOOLEAN]
    \cup [step : {"limiting", "working"}, effect : Effects, bounded : BOOLEAN, session : Sessions]
    \cup [step : {"resetting"}, session : Sessions, answer : CallAnswers]

OpType == {NoOp} \cup [of : Callers, effect : Effects]

SessionType ==
    {Closed}
    \cup [state : {"idle", "held", "lost"}, limits : {"own", "tight"}, op : OpType,
          reply : {"none"} \cup Replies]

Types ==
    /\ caller \in [Callers -> CallerType]
    /\ job \in [Callers -> JobType]
    /\ session \in [Sessions -> SessionType]
    /\ applied \in [Callers -> {0, 1}]

Holds(c, s) == job[c].step \in {"limiting", "working", "resetting"} /\ job[c].session = s

(* A session is held exactly while one job, and no other, holds it.         *)
Holding ==
    /\ \A c \in Callers, s \in Sessions : Holds(c, s) => session[s].state = "held"
    /\ \A s \in Sessions : session[s].state = "held" => \E c \in Callers : Holds(c, s)
    /\ \A c, d \in Callers, s \in Sessions : Holds(c, s) /\ Holds(d, s) => c = d

(* A job is for a caller that waits, or that was told nothing definite.     *)
JobsServe ==
    \A c \in Callers :
        /\ caller[c].step = "calling" => job[c] # NoJob
        /\ job[c] # NoJob =>
             \/ caller[c].step = "calling"
             \/ caller[c].step = "told" /\ caller[c].answer = Lost(caller[c].effect)
        /\ job[c].step \in {"waiting", "limiting", "working"} => job[c].effect = caller[c].effect
        /\ job[c].step = "limiting" => job[c].bounded

(* What a session holds by whoever has it.                                  *)
SessionsAt ==
    /\ PoolIsClean
    /\ \A s \in Sessions : session[s].state = "lost" =>
         session[s].reply = "none" /\ session[s].op # NoOp
    /\ \A c \in Callers : job[c].step = "limiting" => Of(c).op = NoOp /\ Of(c).reply = "none"
    /\ \A c \in Callers : job[c].step = "working" =>
         /\ Of(c).limits = "tight" => job[c].bounded
         /\ Of(c).op = NoOp => Of(c).reply # "none"
         /\ Of(c).op # NoOp => Of(c).reply \in {"none", "broken"}
    /\ \A c \in Callers : job[c].step = "resetting" =>
         /\ Of(c).reply # "none"
         /\ Of(c).op # NoOp => Of(c).reply = "broken"

(* An operation of a caller's runs in one place, and has not been made.     *)
Asked(c) ==
    \A s \in Sessions : Running(s) /\ session[s].op.of = c =>
        /\ session[s].op.effect = caller[c].effect
        /\ applied[c] = 0
        /\ \/ session[s].state = "lost" /\ job[c] = NoJob
           \/ job[c].step = "working" /\ job[c].session = s
           \/ /\ job[c].step = "resetting" /\ job[c].session = s
              /\ job[c].answer = Lost(caller[c].effect)
        /\ caller[c].step = "calling" \/ (caller[c].step = "told" /\ caller[c].answer = Lost(caller[c].effect))
        /\ \A t \in Sessions : Running(t) /\ session[t].op.of = c => s = t

(* Where a write that was made is on its way to its caller.                 *)
Made(c) ==
    applied[c] = 1 =>
        /\ caller[c].step \in {"calling", "told"}
        /\ caller[c].effect = "write"
        /\ \/ job[c].step = "working" /\ Of(c).op = NoOp /\ Of(c).reply \in {"ok", "broken"}
           \/ job[c].step = "resetting" /\ job[c].answer \in {"done", "unknown"}
           \/ job[c] = NoJob /\ caller[c].step = "told" /\ caller[c].answer \in {"done", "unknown"}

(* Where a write must have been made.                                       *)
MustBeMade(c) ==
    caller[c].step # "idle" /\ caller[c].effect = "write" =>
        /\ job[c].step = "working" /\ Of(c).reply = "ok" => applied[c] = 1
        /\ job[c].step = "resetting" /\ job[c].answer = "done" => applied[c] = 1
        /\ caller[c].step = "told" /\ caller[c].answer = "done" => applied[c] = 1

Answered == \A c \in Callers : Asked(c) /\ Made(c) /\ MustBeMade(c)

IInv == Types /\ Holding /\ JobsServe /\ SessionsAt /\ Answered /\ Cardinality(InPool) <= PoolSize
-----------------------------------------------------------------------------
(* What the steps of records of several shapes come to.                     *)

\* The step of a caller tells what else its record says.
LEMMA CallerShapes ==
    ASSUME NEW it \in CallerType
    PROVE  /\ it.step \in {"idle", "calling", "pausing", "told"}
           /\ it.step = "idle" => it = Idle
           /\ it.step \in {"calling", "pausing"} =>
                it \in [step : {"calling", "pausing"}, effect : Effects, bounded : BOOLEAN, left : BOOLEAN]
           /\ it.step = "told" => it \in [step : {"told"}, effect : Effects, answer : CallAnswers]
BY DEF CallerType, Idle

\* The step of a job tells what else its record says.
LEMMA JobShapes ==
    ASSUME NEW it \in JobType
    PROVE  /\ it.step \in {"none", "waiting", "limiting", "working", "resetting"}
           /\ it.step = "none" <=> it = NoJob
           /\ it.step = "waiting" => it \in [step : {"waiting"}, effect : Effects, bounded : BOOLEAN]
           /\ it.step \in {"limiting", "working"} =>
                it \in [step : {"limiting", "working"}, effect : Effects, bounded : BOOLEAN,
                        session : Sessions]
           /\ it.step = "resetting" => it \in [step : {"resetting"}, session : Sessions, answer : CallAnswers]
BY DEF JobType, NoJob

\* A session that is not closed has its limits, operation and reply.
LEMMA SessionShapes ==
    ASSUME NEW it \in SessionType
    PROVE  /\ it.state \in {"closed", "idle", "held", "lost"}
           /\ it.state = "closed" <=> it = Closed
           /\ it.state # "closed" =>
                it \in [state : {"idle", "held", "lost"}, limits : {"own", "tight"}, op : OpType,
                        reply : {"none"} \cup Replies]
BY DEF SessionType, Closed

\* An operation that is there is some caller's.
LEMMA OpShapes ==
    ASSUME NEW op \in OpType, op # NoOp
    PROVE  op \in [of : Callers, effect : Effects]
BY DEF OpType

\* What the operators of the pool make of a session.
LEMMA DiscardedIs ==
    ASSUME NEW it \in SessionType, it.state # "closed"
    PROVE  /\ Discarded(it) \in SessionType
           /\ it.op = NoOp => Discarded(it) = Closed
           /\ it.op # NoOp => /\ Discarded(it).state = "lost"
                              /\ Discarded(it).op = it.op
                              /\ Discarded(it).reply = "none"
BY SessionShapes DEF Discarded, SessionType, Closed

\* A session whose operation ends keeps the first reply, or is closed if no
\* one holds it any more (Ended).
LEMMA EndedIs ==
    ASSUME NEW it \in SessionType, it.state # "closed", NEW reply \in Replies
    PROVE  /\ Ended(it, reply) \in SessionType
           /\ it.state # "held" => Ended(it, reply) = Closed
           /\ it.state = "held" => /\ Ended(it, reply).state = "held"
                                   /\ Ended(it, reply).op = NoOp
                                   /\ Ended(it, reply).limits = it.limits
                                   /\ Ended(it, reply).reply = IF it.reply = "none" THEN reply ELSE it.reply
BY SessionShapes DEF Ended, SessionType, Closed, OpType
-----------------------------------------------------------------------------
(* The pool.                                                                *)

\* A pool that gains no session stays within its size.
LEMMA PoolShrinks ==
    ASSUME IInv, InPool' \subseteq InPool
    PROVE  (Cardinality(InPool) <= PoolSize)'
<1>1. IsFiniteSet(InPool)
  BY CallsAssumption, FS_Subset DEF InPool
<1>2. IsFiniteSet(InPool') /\ Cardinality(InPool') <= Cardinality(InPool)
  BY <1>1, FS_Subset
<1>3. Cardinality(InPool) \in Nat /\ Cardinality(InPool') \in Nat
  BY <1>1, <1>2, FS_CardinalityType
<1>4. Cardinality(InPool') <= PoolSize
  BY <1>2, <1>3, CallsAssumption DEF IInv
<1> QED
  BY <1>4

\* Before the first call no session is open and no job waits.
LEMMA InitEstablishes == CallInit => IInv
<1> SUFFICES ASSUME CallInit PROVE IInv
  OBVIOUS
<1>1. Types
  BY DEF CallInit, Types, CallerType, JobType, SessionType
<1>2. Holding
  BY DEF CallInit, Holding, Holds, NoJob, Closed
<1>3. JobsServe
  BY DEF CallInit, JobsServe, NoJob, Idle
<1>4. SessionsAt
  BY DEF CallInit, SessionsAt, PoolIsClean, IdleSessions, NoJob, Closed
<1>5. Answered
  BY DEF CallInit, Answered, Asked, Made, MustBeMade, Running, NoJob, Idle, Closed
<1>6. Cardinality(InPool) <= PoolSize
  <2>1. InPool = {}
    BY DEF CallInit, InPool, Closed
  <2> QED BY <2>1, FS_EmptySet, CallsAssumption
<1> QED
  BY <1>1, <1>2, <1>3, <1>4, <1>5, <1>6 DEF IInv

-----------------------------------------------------------------------------
(* The caller.                                                              *)

\* A call begins: its caller is idle, so nothing of it is anywhere yet.
LEMMA CallPreserves ==
    ASSUME IInv, NEW c \in Callers, Call(c)
    PROVE  IInv'
<1> USE DEF IInv
<1> PICK effect \in Effects, bounded \in BOOLEAN :
      /\ caller' = [caller EXCEPT ![c] = [step |-> "calling", effect |-> effect,
                                          bounded |-> bounded, left |-> bounded]]
      /\ job' = [job EXCEPT ![c] = Attempt(effect, bounded)]
  BY DEF Call
<1>0. /\ session' = session /\ applied' = applied
      /\ caller[c] = Idle /\ job[c] = NoJob
      /\ InPool' = InPool
  BY DEF Call, JobsServe, Idle, InPool
<1>1. Types'
  BY <1>0 DEF Types, CallerType, JobType, Attempt
<1>2. Holding'
  BY <1>0 DEF Types, Holding, Holds, Attempt, NoJob
<1>3. JobsServe'
  BY <1>0 DEF Types, JobsServe, Attempt, NoJob, Lost
<1>4. SessionsAt'
  BY <1>0 DEF Types, SessionsAt, PoolIsClean, IdleSessions, Of, Attempt
<1>5. Answered'
  BY <1>0 DEF Types, Answered, Asked, Made, MustBeMade, Running, Attempt, NoJob, Idle, Of, Lost
<1>6. (Cardinality(InPool) <= PoolSize)'
  BY <1>0, PoolShrinks
<1> QED
  BY <1>1, <1>2, <1>3, <1>4, <1>5, <1>6

\* A refused call asks for nothing, and its caller had nothing out.
LEMMA CallRefusedPreserves ==
    ASSUME IInv, NEW c \in Callers, CallRefused(c)
    PROVE  IInv'
<1> USE DEF IInv
<1>0. /\ caller' = [caller EXCEPT ![c] = [step |-> "told", effect |-> "write", answer |-> "other"]]
      /\ job' = job /\ session' = session /\ applied' = applied
      /\ caller[c] = Idle /\ job[c] = NoJob
      /\ InPool' = InPool
  BY DEF CallRefused, JobsServe, Idle, InPool
<1>1. Types'
  BY <1>0 DEF Types, CallerType, Effects, CallAnswers
<1>2. Holding'
  BY <1>0 DEF Types, Holding, Holds
<1>3. JobsServe'
  BY <1>0 DEF Types, JobsServe, NoJob
<1>4. SessionsAt'
  BY <1>0 DEF Types, SessionsAt, PoolIsClean, IdleSessions, Of
<1>5. Answered'
  BY <1>0 DEF Types, Answered, Asked, Made, MustBeMade, Running, Idle, Of, NoJob
<1>6. (Cardinality(InPool) <= PoolSize)'
  BY <1>0, PoolShrinks
<1> QED
  BY <1>1, <1>2, <1>3, <1>4, <1>5, <1>6

\* A call run again: a conflict ended it, so nothing of it is anywhere.
LEMMA ResumePreserves ==
    ASSUME IInv, NEW c \in Callers, Resume(c)
    PROVE  IInv'
<1> USE DEF IInv
<1>0. /\ session' = session /\ applied' = applied
      /\ caller[c].step = "pausing" /\ job[c] = NoJob
      /\ caller[c] \in [step : {"calling", "pausing"}, effect : Effects, bounded : BOOLEAN, left : BOOLEAN]
      /\ InPool' = InPool
  BY CallerShapes DEF Resume, JobsServe, InPool, Types
<1>1. CASE /\ caller' = [caller EXCEPT ![c].step = "calling"]
           /\ job' = [job EXCEPT ![c] = Attempt(caller[c].effect, TRUE)]
  <2>1. Types'
    BY <1>0, <1>1 DEF Types, CallerType, JobType, Attempt
  <2>2. Holding'
    BY <1>0, <1>1 DEF Types, Holding, Holds, Attempt, NoJob
  <2>3. JobsServe'
    BY <1>0, <1>1 DEF Types, JobsServe, Attempt, NoJob, Lost
  <2>4. SessionsAt'
    BY <1>0, <1>1 DEF Types, SessionsAt, PoolIsClean, IdleSessions, Of, Attempt
  <2>5. Answered'
    BY <1>0, <1>1 DEF Types, Answered, Asked, Made, MustBeMade, Running, Attempt, NoJob, Of, Lost
  <2> QED
    BY <1>0, <2>1, <2>2, <2>3, <2>4, <2>5, PoolShrinks
<1>2. CASE caller' = [caller EXCEPT ![c] = Told(@, "conflict")] /\ UNCHANGED job
  <2>0. caller'[c] = [step |-> "told", effect |-> caller[c].effect, answer |-> "conflict"]
    BY <1>0, <1>2 DEF Told, Types
  <2>1. Types'
    BY <1>0, <1>2, <2>0 DEF Types, CallerType, CallAnswers, Told
  <2>2. Holding'
    BY <1>0, <1>2 DEF Types, Holding, Holds
  <2>3. JobsServe'
    BY <1>0, <1>2, <2>0 DEF Types, JobsServe
  <2>4. SessionsAt'
    BY <1>0, <1>2 DEF Types, SessionsAt, PoolIsClean, IdleSessions, Of
  <2>5. Answered'
    BY <1>0, <1>2, <2>0 DEF Types, Answered, Asked, Made, MustBeMade, Running, NoJob, Of
  <2> QED
    BY <1>0, <2>1, <2>2, <2>3, <2>4, <2>5, PoolShrinks
<1> QED
  BY <1>1, <1>2 DEF Resume

\* The budget's end changes what is tried again, and nothing else.
LEMMA BudgetEndsPreserves ==
    ASSUME IInv, NEW c \in Callers, BudgetEnds(c)
    PROVE  IInv'
<1> USE DEF IInv
<1>0. /\ session' = session /\ applied' = applied /\ job' = job
      /\ caller[c] \in [step : {"calling", "pausing"}, effect : Effects, bounded : BOOLEAN, left : BOOLEAN]
      /\ caller' = [caller EXCEPT ![c].left = FALSE]
      /\ InPool' = InPool
  BY CallerShapes DEF BudgetEnds, InPool, Types
<1>00. /\ caller'[c].step = caller[c].step /\ caller'[c].effect = caller[c].effect
       /\ caller[c].step # "told"
       /\ \A d \in Callers \ {c} : caller'[d] = caller[d]
       /\ caller'[c] \in CallerType
  BY <1>0 DEF Types, CallerType
<1>1. Types'
  BY <1>0, <1>00 DEF Types
<1>2. Holding'
  BY <1>0 DEF Types, Holding, Holds
<1>3. JobsServe'
  BY <1>0, <1>00 DEF Types, JobsServe
<1>4. SessionsAt'
  BY <1>0 DEF Types, SessionsAt, PoolIsClean, IdleSessions, Of
<1>5. Answered'
  BY <1>0, <1>00 DEF Types, Answered, Asked, Made, MustBeMade, Running, Of
<1> QED
  BY <1>0, <1>1, <1>2, <1>3, <1>4, <1>5, PoolShrinks

\* The watchdog leaves the job to itself, and says of it only what it knows.
LEMMA WatchdogPreserves ==
    ASSUME IInv, NEW c \in Callers, Watchdog(c)
    PROVE  IInv'
<1> USE DEF IInv
<1>0. /\ session' = session /\ applied' = applied /\ job' = job
      /\ caller[c].step = "calling"
      /\ caller[c] \in [step : {"calling", "pausing"}, effect : Effects, bounded : BOOLEAN, left : BOOLEAN]
      /\ caller' = [caller EXCEPT ![c] = [step |-> "told", effect |-> caller[c].effect,
                                          answer |-> Lost(caller[c].effect)]]
      /\ InPool' = InPool
  BY CallerShapes DEF Watchdog, InPool, Types, Told
<1>1. Types'
  BY <1>0 DEF Types, CallerType, CallAnswers, Lost
<1>2. Holding'
  BY <1>0 DEF Types, Holding, Holds
<1>3. JobsServe'
  BY <1>0 DEF Types, JobsServe
<1>4. SessionsAt'
  BY <1>0 DEF Types, SessionsAt, PoolIsClean, IdleSessions, Of
<1>5. Answered'
  BY <1>0 DEF Types, Answered, Asked, Made, MustBeMade, Running, Of, Lost, JobsServe
<1> QED
  BY <1>0, <1>1, <1>2, <1>3, <1>4, <1>5, PoolShrinks

-----------------------------------------------------------------------------
(* The job.                                                                 *)

\* A job ends with an answer that says the truth of the write, and lets go of
\* its session: clean into the pool, closed, or lost with what runs in it.
LEMMA SettlePreserves ==
    ASSUME IInv, NEW c \in Callers, NEW answer \in CallAnswers, job[c] # NoJob,
           Settle(c, answer), applied' = applied,
           session' \in [Sessions -> SessionType],
           \A s \in Sessions : ~ Holds(c, s) => session'[s] = session[s],
           \A s \in Sessions : Holds(c, s) =>
               /\ session'[s].state # "held"
               /\ session'[s].state = "idle" =>
                    /\ session'[s].limits = "own"
                    /\ session'[s].op = NoOp
                    /\ session'[s].reply = "none"
               /\ session'[s].state = "lost" =>
                    /\ session'[s].reply = "none"
                    /\ session'[s].op = session[s].op /\ session[s].op # NoOp
                    /\ answer = Lost(caller[c].effect),
           applied[c] = 1 => answer \in {"done", "unknown"},
           answer = "done" /\ caller[c].effect = "write" => applied[c] = 1
    PROVE  IInv'
<1> USE DEF IInv
<1> DEFINE told == [step |-> "told", effect |-> caller[c].effect, answer |-> answer]
<1>0. /\ job' = [job EXCEPT ![c] = NoJob]
      /\ \A d \in Callers \ {c} : caller'[d] = caller[d] /\ job'[d] = job[d]
      /\ job'[c] = NoJob
  BY DEF Settle, Types
<1>1. \/ caller' = caller /\ caller[c].step = "told" /\ caller[c].answer = Lost(caller[c].effect)
      \/ caller' = [caller EXCEPT ![c] = told] /\ caller[c].step = "calling"
      \/ /\ caller' = [caller EXCEPT ![c] = [@ EXCEPT !.step = "pausing"]]
         /\ caller[c].step = "calling" /\ answer = "conflict"
  BY DEF Settle, JobsServe, MayRetry, Told, Types
<1>2. caller[c].step = "calling" =>
        caller[c] \in [step : {"calling", "pausing"}, effect : Effects, bounded : BOOLEAN, left : BOOLEAN]
  BY CallerShapes DEF Types
<1>3. Types'
  <2>1. caller' \in [Callers -> CallerType]
    BY <1>1, <1>2 DEF Types, CallerType
  <2> QED BY <1>0, <2>1 DEF Types, JobType
<1>4. /\ caller'[c].effect = caller[c].effect
      /\ caller'[c].step \in {"told", "pausing"}
      /\ caller'[c].step = "pausing" => answer = "conflict"
      /\ caller'[c].step = "told" => caller'[c].answer \in {answer, Lost(caller[c].effect)}
      /\ caller'[c].step = "told" => caller'[c].answer = answer \/ caller[c].step = "told"
  BY <1>1, <1>2 DEF Types
<1>5. Holding'
  <2>1. \A d \in Callers, s \in Sessions : Holds(d, s)' => d # c /\ Holds(d, s)
    BY <1>0 DEF Holds, NoJob
  <2>2. \A d \in Callers, s \in Sessions : Holds(d, s)' => session'[s] = session[s]
    BY <2>1 DEF Holding
  <2>3. \A s \in Sessions : session'[s].state = "held" => ~ Holds(c, s) /\ session[s].state = "held"
    OBVIOUS
  <2>4. \A d \in Callers \ {c}, s \in Sessions : Holds(d, s) => Holds(d, s)'
    BY <1>0 DEF Holds
  <2> QED BY <2>1, <2>2, <2>3, <2>4 DEF Holding
<1>6. JobsServe'
  BY <1>0, <1>4 DEF JobsServe, NoJob
<1>7. SessionsAt'
  <2>1. PoolIsClean'
    BY DEF SessionsAt, PoolIsClean, IdleSessions
  <2>2. \A s \in Sessions : session'[s].state = "lost" => session'[s].reply = "none" /\ session'[s].op # NoOp
    BY DEF SessionsAt
  <2>3. \A d \in Callers : job'[d].step \in {"limiting", "working", "resetting"} =>
          /\ d # c /\ job'[d] = job[d]
          /\ Of(d)' = Of(d)
    <3> SUFFICES ASSUME NEW d \in Callers, job'[d].step \in {"limiting", "working", "resetting"}
                 PROVE  d # c /\ job'[d] = job[d] /\ session'[job[d].session] = session[job[d].session]
      BY DEF Of
    <3>1. d # c /\ job'[d] = job[d]
      BY <1>0 DEF NoJob
    <3>2. job[d].session \in Sessions
      BY <3>1, JobShapes DEF Types
    <3>3. Holds(d, job[d].session)
      BY <3>1 DEF Holds
    <3> QED BY <3>1, <3>2, <3>3 DEF Holding
  <2> QED BY <2>1, <2>2, <2>3 DEF SessionsAt
<1>8. Answered'
  <2> SUFFICES ASSUME NEW d \in Callers PROVE (Asked(d) /\ Made(d) /\ MustBeMade(d))'
    BY DEF Answered
  <2>0. Asked(d) /\ Made(d) /\ MustBeMade(d) /\ Asked(c) /\ Made(c) /\ MustBeMade(c)
    BY DEF Answered
  <2>1. \A s \in Sessions : Running(s)' => Running(s) /\ session'[s].op = session[s].op
    <3> SUFFICES ASSUME NEW s \in Sessions, Running(s)'
                 PROVE  Running(s) /\ session'[s].op = session[s].op
      OBVIOUS
    <3>1. CASE Holds(c, s)
      <4>1. session'[s].state = "lost"
        BY <3>1, SessionShapes DEF Running
      <4>2. session[s] # Closed
        BY <3>1 DEF Holding, Closed
      <4> QED BY <3>1, <4>1, <4>2 DEF Running
    <3>2. CASE ~ Holds(c, s)
      BY <3>2 DEF Running
    <3> QED BY <3>1, <3>2
  <2>2. CASE d = c
    <3>1. Asked(c)'
      <4> SUFFICES ASSUME NEW s \in Sessions, Running(s)', session'[s].op.of = c
                   PROVE  /\ session'[s].op.effect = caller'[c].effect
                          /\ applied'[c] = 0
                          /\ session'[s].state = "lost"
                          /\ caller'[c].step = "told" /\ caller'[c].answer = Lost(caller'[c].effect)
                          /\ \A t \in Sessions : Running(t)' /\ session'[t].op.of = c => s = t
        BY <1>0 DEF Asked
      <4>1. Running(s) /\ session[s].op = session'[s].op
        BY <2>1
      <4>2. Holds(c, s)
        BY <4>1, <2>0 DEF Asked, Holds
      <4>3. session'[s].state = "lost"
        BY <4>2, SessionShapes DEF Running
      <4>4. answer = Lost(caller[c].effect)
        BY <4>2, <4>3
      <4> QED BY <4>1, <4>2, <4>3, <4>4, <2>0, <2>1, <1>4 DEF Asked, Lost
    <3>2. Made(c)'
      BY <1>0, <1>4, <2>0 DEF Made, Lost
    <3>3. MustBeMade(c)'
      BY <1>0, <1>1, <1>4, <2>0 DEF MustBeMade, Lost, NoJob
    <3> QED BY <2>2, <3>1, <3>2, <3>3
  <2>3. CASE d # c
    <3>1. job'[d] = job[d] /\ caller'[d] = caller[d]
      BY <2>3, <1>0
    <3>2. job[d].step \in {"working", "resetting"} => Of(d)' = Of(d)
      <4> SUFFICES ASSUME job[d].step \in {"working", "resetting"}
                   PROVE  session'[job[d].session] = session[job[d].session]
        BY <3>1 DEF Of
      <4>1. job[d].session \in Sessions /\ Holds(d, job[d].session)
        BY JobShapes DEF Types, Holds
      <4> QED BY <2>3, <4>1 DEF Holding
    <3>3. Asked(d)'
      <4> SUFFICES ASSUME NEW s \in Sessions, Running(s)', session'[s].op.of = d
                   PROVE  /\ session'[s].op.effect = caller[d].effect
                          /\ applied[d] = 0
                          /\ \/ session'[s].state = "lost" /\ job[d] = NoJob
                             \/ job[d].step = "working" /\ job[d].session = s
                             \/ /\ job[d].step = "resetting" /\ job[d].session = s
                                /\ job[d].answer = Lost(caller[d].effect)
                          /\ \/ caller[d].step = "calling"
                             \/ caller[d].step = "told" /\ caller[d].answer = Lost(caller[d].effect)
                          /\ \A t \in Sessions : Running(t)' /\ session'[t].op.of = d => s = t
        BY <3>1 DEF Asked
      <4>1. Running(s) /\ session[s].op.of = d
        BY <2>1
      <4>2. ~ Holds(c, s)
        BY <4>1, <2>0, <2>3 DEF Asked, Holds, Holding
      <4> QED BY <4>1, <4>2, <2>0, <2>1 DEF Asked
    <3>4. Made(d)' /\ MustBeMade(d)'
      BY <2>0, <3>1, <3>2 DEF Made, MustBeMade
    <3> QED BY <3>3, <3>4
  <2> QED BY <2>2, <2>3
<1>9. InPool' \subseteq InPool
  <2> SUFFICES ASSUME NEW s \in Sessions, session'[s].state \in {"idle", "held"}
               PROVE  session[s].state \in {"idle", "held"}
    BY DEF InPool
  <2> QED BY DEF Holding
<1> QED
  BY <1>3, <1>5, <1>6, <1>7, <1>8, <1>9, PoolShrinks

\* What a running job's session says, and that it is this job's alone.
LEMMA HeldSession ==
    ASSUME IInv, NEW c \in Callers, job[c].step \in {"limiting", "working", "resetting"}
    PROVE  /\ job[c].session \in Sessions
           /\ Of(c) \in [state : {"idle", "held", "lost"}, limits : {"own", "tight"}, op : OpType,
                         reply : {"none"} \cup Replies]
           /\ Of(c).state = "held"
           /\ \A s \in Sessions : Holds(c, s) <=> s = job[c].session
           /\ Of(c).op # NoOp => Of(c).op \in [of : Callers, effect : Effects] /\ Of(c).op.of = c
           /\ job[c] # NoJob
<1>1. job[c].session \in Sessions
  BY JobShapes DEF IInv, Types
<1>2. Holds(c, job[c].session) /\ \A s \in Sessions : Holds(c, s) <=> s = job[c].session
  BY DEF Holds
<1>3. Of(c).state = "held"
  BY <1>1, <1>2 DEF IInv, Holding, Of
<1>4. Of(c) \in [state : {"idle", "held", "lost"}, limits : {"own", "tight"}, op : OpType,
                 reply : {"none"} \cup Replies]
  BY <1>1, <1>3, SessionShapes DEF IInv, Types, Of
<1>5. ASSUME Of(c).op # NoOp
      PROVE  Of(c).op \in [of : Callers, effect : Effects] /\ Of(c).op.of = c
  <2>1. Of(c).op \in [of : Callers, effect : Effects]
    BY <1>4, <1>5, OpShapes
  <2>2. Running(job[c].session)
    BY <1>3, <1>5 DEF Running, Of, Closed
  <2>3. PICK d \in Callers : d = Of(c).op.of
    BY <2>1
  <2>4. Holds(d, job[c].session)
    BY <1>1, <1>3, <2>2, <2>3 DEF IInv, Answered, Asked, Of, Holds
  <2> QED BY <1>1, <1>2, <2>1, <2>3, <2>4 DEF IInv, Holding
<1>6. job[c] # NoJob
  BY DEF NoJob
<1> QED
  BY <1>1, <1>2, <1>3, <1>4, <1>5, <1>6

\* Nothing was sent: the answer is that the store could not be reached.
LEMMA GetFailsPreserves ==
    ASSUME IInv, NEW c \in Callers, GetFails(c)
    PROVE  IInv'
<1>1. job[c] # NoJob /\ \A s \in Sessions : ~ Holds(c, s)
  BY DEF GetFails, JobAt, NoJob, Holds
<1>2. applied[c] # 1
  BY <1>1 DEF IInv, Answered, Made, GetFails, JobAt
<1>3. "unavailable" \in CallAnswers
  BY DEF CallAnswers
<1> QED
  BY <1>1, <1>2, <1>3, SettlePreserves DEF GetFails, IInv, Types

\* Tightening the limits failed before anything was asked.
LEMMA LimitFailsPreserves ==
    ASSUME IInv, NEW c \in Callers, LimitFails(c)
    PROVE  IInv'
<1> DEFINE s == job[c].session
<1>1. Of(c).op = NoOp
  BY DEF LimitFails, JobAt, IInv, SessionsAt
<1>2. /\ session' = [session EXCEPT ![s] = Closed]
      /\ s \in Sessions /\ Closed \in SessionType
  BY <1>1, HeldSession DEF LimitFails, JobAt, Discarded, Of, IInv, Types, SessionType
<1>3. applied[c] # 1
  BY DEF LimitFails, IInv, Answered, Made, JobAt, NoJob
<1>4. "unavailable" \in CallAnswers
  BY DEF CallAnswers
<1>5. \A t \in Sessions : Holds(c, t) => session'[t] = Closed
  BY <1>2, HeldSession DEF LimitFails, JobAt, IInv, Types
<1>6. \A t \in Sessions : ~ Holds(c, t) => session'[t] = session[t]
  BY <1>2, HeldSession DEF LimitFails, JobAt, IInv, Types
<1>7. session' \in [Sessions -> SessionType]
  BY <1>2 DEF IInv, Types
<1> QED
  BY <1>3, <1>4, <1>5, <1>6, <1>7, HeldSession, SettlePreserves DEF LimitFails, Closed, JobAt

\* What an answer of the driver says of the write it is about.
LEMMA AnswerIsTrue ==
    ASSUME IInv, NEW c \in Callers, job[c].step = "working", Of(c).reply # "none"
    PROVE  /\ FromDriver(job[c].effect, Of(c).reply) \in CallAnswers
           /\ applied[c] = 1 => FromDriver(job[c].effect, Of(c).reply) \in {"done", "unknown"}
           /\ FromDriver(job[c].effect, Of(c).reply) = "done" /\ caller[c].effect = "write" => applied[c] = 1
           /\ Of(c).reply = "broken" => FromDriver(job[c].effect, Of(c).reply) = Lost(caller[c].effect)
<1>1. Of(c).reply \in Replies
  BY HeldSession
<1>2. job[c].effect = caller[c].effect /\ caller[c].step # "idle" /\ job[c] # NoJob
  BY DEF IInv, JobsServe, NoJob
<1>3. FromDriver(job[c].effect, Of(c).reply) \in CallAnswers
  BY <1>1 DEF Replies, FromDriver, Lost, CallAnswers
<1>4. applied[c] = 1 => FromDriver(job[c].effect, Of(c).reply) \in {"done", "unknown"}
  BY <1>1, <1>2 DEF IInv, Answered, Made, FromDriver, Lost
<1>5. FromDriver(job[c].effect, Of(c).reply) = "done" /\ caller[c].effect = "write" => applied[c] = 1
  BY <1>1, <1>2 DEF IInv, Answered, MustBeMade, Replies, FromDriver, Lost
<1>6. Of(c).reply = "broken" => FromDriver(job[c].effect, Of(c).reply) = Lost(caller[c].effect)
  BY <1>2 DEF FromDriver
<1> QED
  BY <1>3, <1>4, <1>5, <1>6

\* The answer of a bounded call is kept until its session is reset.
LEMMA WorkEndsBoundedPreserves ==
    ASSUME IInv, NEW c \in Callers, WorkEnds(c), job[c].bounded
    PROVE  IInv'
<1> USE DEF IInv
<1> DEFINE s == job[c].session
           answer == FromDriver(job[c].effect, Of(c).reply)
<1>0. /\ job[c].step = "working" /\ Of(c).reply # "none"
      /\ job' = [job EXCEPT ![c] = [step |-> "resetting", session |-> s, answer |-> answer]]
      /\ caller' = caller /\ session' = session /\ applied' = applied
      /\ InPool' = InPool
  BY DEF WorkEnds, JobAt, InPool
<1>1. /\ s \in Sessions /\ answer \in CallAnswers
      /\ \A d \in Callers \ {c} : job'[d] = job[d]
      /\ job'[c] = [step |-> "resetting", session |-> s, answer |-> answer]
  BY <1>0, HeldSession, AnswerIsTrue DEF Types
<1> HIDE DEF answer
<1>2. Types'
  BY <1>0, <1>1 DEF Types, JobType
<1>3. \A d \in Callers, t \in Sessions : Holds(d, t)' <=> Holds(d, t)
  BY <1>0, <1>1 DEF Holds
<1>4. Holding'
  BY <1>0, <1>3 DEF Holding
<1>5. JobsServe'
  BY <1>0, <1>1 DEF JobsServe, NoJob
<1>6. \A d \in Callers : Of(d)' = IF d = c THEN Of(c) ELSE Of(d)
  BY <1>0, <1>1 DEF Of
<1>7. SessionsAt'
  BY <1>0, <1>1, <1>6 DEF SessionsAt, PoolIsClean, IdleSessions
<1>8. Answered'
  <2> SUFFICES ASSUME NEW d \in Callers PROVE (Asked(d) /\ Made(d) /\ MustBeMade(d))'
    BY DEF Answered
  <2>0. Asked(d) /\ Made(d) /\ MustBeMade(d)
    BY DEF Answered
  <2>1. CASE d # c
    BY <2>0, <2>1, <1>0, <1>1, <1>6 DEF Asked, Made, MustBeMade, Running
  <2>2. CASE d = c
    <3>1. Asked(c)'
      <4>1. Of(c).op # NoOp => answer = Lost(caller[c].effect)
        BY <1>0, AnswerIsTrue DEF SessionsAt, answer
      <4> QED BY <2>0, <2>2, <1>0, <1>1, <4>1 DEF Asked, Running, NoJob, Of
    <3>2. Made(c)' /\ MustBeMade(c)'
      BY <2>0, <2>2, <1>0, <1>1, AnswerIsTrue DEF Made, MustBeMade, JobsServe, NoJob, Lost, answer
    <3> QED BY <2>2, <3>1, <3>2
  <2> QED BY <2>1, <2>2
<1> QED
  BY <1>0, <1>2, <1>4, <1>5, <1>7, <1>8, PoolShrinks

\* The session of an unbounded call goes back unless it is broken.
LEMMA WorkEndsPreserves ==
    ASSUME IInv, NEW c \in Callers, WorkEnds(c)
    PROVE  IInv'
<1> DEFINE s == job[c].session
           answer == FromDriver(job[c].effect, Of(c).reply)
<1>1. CASE job[c].bounded
  BY <1>1, WorkEndsBoundedPreserves
<1>2. CASE ~ job[c].bounded
  <2>0. /\ job[c].step = "working" /\ Of(c).reply # "none" /\ s \in Sessions
        /\ Settle(c, answer) /\ applied' = applied
        /\ session' = [session EXCEPT ![s] = GivenBack(Of(c))]
    BY <1>2, HeldSession DEF WorkEnds, JobAt, Of
  <2>1. /\ Of(c) \in SessionType /\ Of(c).state = "held" /\ Of(c).limits # "tight"
        /\ Of(c).op # NoOp => Of(c).reply = "broken"
    BY <1>2, <2>0, HeldSession DEF IInv, Types, SessionsAt, Of
  <2>2. /\ GivenBack(Of(c)) \in SessionType
        /\ GivenBack(Of(c)).state # "held"
        /\ GivenBack(Of(c)).state = "idle" =>
             /\ GivenBack(Of(c)).limits = "own"
             /\ GivenBack(Of(c)).op = NoOp
             /\ GivenBack(Of(c)).reply = "none"
        /\ GivenBack(Of(c)).state = "lost" =>
             /\ GivenBack(Of(c)).reply = "none"
             /\ GivenBack(Of(c)).op = Of(c).op /\ Of(c).op # NoOp
             /\ answer = Lost(caller[c].effect)
    <3>1. CASE Of(c).reply = "broken"
      BY <3>1, <2>0, <2>1, DiscardedIs, AnswerIsTrue DEF GivenBack, Closed
    <3>2. CASE Of(c).reply # "broken"
      <4>1. Of(c) \in [state : {"idle", "held", "lost"}, limits : {"own"}, op : {NoOp},
                       reply : {"none"} \cup Replies]
        BY <3>2, <2>0, <2>1, HeldSession
      <4> QED BY <3>2, <4>1 DEF GivenBack, SessionType, OpType
    <3> QED BY <3>1, <3>2
  <2>3. \A t \in Sessions : session'[t] = IF Holds(c, t) THEN GivenBack(Of(c)) ELSE session[t]
    BY <2>0, HeldSession DEF IInv, Types
  <2>4. session' \in [Sessions -> SessionType]
    BY <2>0, <2>2 DEF IInv, Types
  <2>5. \A t \in Sessions : Holds(c, t) => session[t] = Of(c)
    BY <2>0, HeldSession DEF Of
  <2>6. /\ answer \in CallAnswers /\ job[c] # NoJob
        /\ applied[c] = 1 => answer \in {"done", "unknown"}
        /\ answer = "done" /\ caller[c].effect = "write" => applied[c] = 1
    BY <2>0, AnswerIsTrue, HeldSession
  <2> HIDE DEF answer
  <2> QED BY <2>0, <2>2, <2>3, <2>4, <2>5, <2>6, SettlePreserves
<1> QED
  BY <1>1, <1>2

\* Out of time: whether a write was made is not known, and the session goes.
LEMMA WorkTimesOutPreserves ==
    ASSUME IInv, NEW c \in Callers, WorkTimesOut(c)
    PROVE  IInv'
<1> DEFINE s == job[c].session
           answer == Lost(job[c].effect)
<1>0. /\ job[c].step = "working" /\ s \in Sessions
      /\ Settle(c, answer) /\ applied' = applied
      /\ session' = [session EXCEPT ![s] = Discarded(Of(c))]
  BY HeldSession DEF WorkTimesOut, MayTimeOut, JobAt, Of
<1>1. Of(c) \in SessionType /\ Of(c).state = "held"
  BY <1>0, HeldSession DEF IInv, Types, Of
<1>2. /\ job[c].effect = caller[c].effect /\ job[c].effect \in Effects
      /\ answer \in CallAnswers /\ answer # "done" /\ job[c] # NoJob
      /\ applied[c] = 1 => answer \in {"done", "unknown"}
  BY <1>0, JobShapes DEF IInv, Types, JobsServe, Answered, Made, Lost, CallAnswers, NoJob
<1>3. \A t \in Sessions : session'[t] = IF Holds(c, t) THEN Discarded(Of(c)) ELSE session[t]
  BY <1>0, HeldSession DEF IInv, Types
<1>4. session' \in [Sessions -> SessionType]
  BY <1>0, <1>1, DiscardedIs DEF IInv, Types
<1>5. \A t \in Sessions : Holds(c, t) => session[t] = Of(c)
  BY <1>0, HeldSession DEF Of
<1>6. answer = Lost(caller[c].effect)
  BY <1>2
<1>7. /\ Discarded(Of(c)).state \notin {"held", "idle"}
      /\ Discarded(Of(c)).state = "lost" =>
           /\ Discarded(Of(c)).reply = "none"
           /\ Discarded(Of(c)).op = Of(c).op /\ Of(c).op # NoOp
  BY <1>1, DiscardedIs DEF Closed
<1> HIDE DEF answer
<1> QED
  BY <1>0, <1>2, <1>3, <1>4, <1>5, <1>6, <1>7, SettlePreserves

\* The limits are put back and the session is clean, or it is not kept.
LEMMA ResetPreserves ==
    ASSUME IInv, NEW c \in Callers, Reset(c)
    PROVE  IInv'
<1> DEFINE s == job[c].session
           answer == job[c].answer
<1>0. /\ job[c].step = "resetting" /\ s \in Sessions
      /\ Settle(c, answer) /\ applied' = applied
  BY HeldSession DEF Reset, JobAt
<1>1. PICK after \in {Restored(Of(c)), ResetFailed(Of(c))} : session' = [session EXCEPT ![s] = after]
  BY DEF Reset, Of
<1>2. /\ Of(c) \in SessionType /\ Of(c).state = "held" /\ Of(c).reply # "none"
      /\ Of(c).op # NoOp => Of(c).reply = "broken"
      /\ Of(c).op # NoOp => answer = Lost(caller[c].effect)
  <2>1. Of(c).op # NoOp => Of(c).op.of = c /\ Running(s)
    BY <1>0, HeldSession DEF Running, Of, Closed
  <2>2. Of(c).op # NoOp => answer = Lost(caller[c].effect)
    BY <1>0, <2>1 DEF IInv, Answered, Asked, Of, NoJob
  <2> QED BY <1>0, <2>2, HeldSession DEF IInv, Types, SessionsAt, Of
<1>3. /\ answer \in CallAnswers /\ job[c] # NoJob
      /\ applied[c] = 1 => answer \in {"done", "unknown"}
      /\ answer = "done" /\ caller[c].effect = "write" => applied[c] = 1
  BY <1>0, JobShapes DEF IInv, Types, Answered, Made, MustBeMade, JobsServe, NoJob
<1>4. /\ after \in SessionType
      /\ after.state # "held"
      /\ after.state = "idle" => after.limits = "own" /\ after.op = NoOp /\ after.reply = "none"
      /\ after.state = "lost" =>
           after.reply = "none" /\ after.op = Of(c).op /\ Of(c).op # NoOp
  <2> DEFINE own == [Of(c) EXCEPT !.limits = "own"]
  <2>1. /\ own \in SessionType /\ own.state = "held" /\ own.limits = "own"
        /\ own.reply = Of(c).reply /\ own.op = Of(c).op
        /\ own \in [state : {"idle", "held", "lost"}, limits : {"own"}, op : OpType,
                       reply : {"none"} \cup Replies]
    BY <1>0, <1>2, HeldSession DEF SessionType
  <2>2. CASE after = ResetFailed(Of(c))
    BY <1>2, <2>2, DiscardedIs DEF ResetFailed, Closed
  <2>3. CASE after = GivenBack(own) /\ own.reply = "broken"
    <3> HIDE DEF own
    <3> QED BY <1>2, <2>1, <2>3, DiscardedIs DEF GivenBack, Closed
  <2>4. CASE after = GivenBack(own) /\ own.reply # "broken"
    <3> HIDE DEF own
    <3>1. own.op = NoOp
      BY <1>2, <2>1, <2>4
    <3> QED BY <2>1, <2>4, <3>1 DEF GivenBack, SessionType, OpType
  <2> QED BY <1>1, <2>2, <2>3, <2>4 DEF Restored
<1>5. \A t \in Sessions : session'[t] = IF Holds(c, t) THEN after ELSE session[t]
  BY <1>0, <1>1, HeldSession DEF IInv, Types
<1>6. session' \in [Sessions -> SessionType]
  BY <1>1, <1>4 DEF IInv, Types
<1>7. \A t \in Sessions : Holds(c, t) => session[t] = Of(c)
  BY <1>0, HeldSession DEF Of
<1> HIDE DEF answer
<1> QED
  BY <1>0, <1>2, <1>3, <1>4, <1>5, <1>6, <1>7, SettlePreserves

\* A job takes a session nothing runs in, or asks in the one it has.
LEMMA HoldPreserves ==
    ASSUME IInv, NEW c \in Callers, NEW s \in Sessions,
           job[c].step \in {"waiting", "limiting"},
           job' \in [Callers -> JobType], \A d \in Callers \ {c} : job'[d] = job[d],
           job'[c].step \in {"limiting", "working"}, job'[c].effect = job[c].effect,
           job'[c].bounded = job[c].bounded, job'[c].session = s,
           job'[c].step = "limiting" => job[c].bounded,
           session' \in [Sessions -> SessionType], \A t \in Sessions \ {s} : session'[t] = session[t],
           session'[s].state = "held", session'[s].reply = "none",
           job'[c].step = "working" => session'[s].op = Sent(c),
           job'[c].step = "limiting" => session'[s].op = NoOp,
           session'[s].limits = "tight" => job[c].bounded,
           \A d \in Callers : Holds(d, s) => d = c,
           \A t \in Sessions : Holds(c, t) => t = s,
           ~ Running(s),
           caller' = caller, applied' = applied,
           (Cardinality(InPool) <= PoolSize)'
    PROVE  IInv'
<1> USE DEF IInv
<1>0. /\ job[c] # NoJob /\ job[c].effect = caller[c].effect
      /\ job[c].effect \in Effects /\ job[c].bounded \in BOOLEAN
  BY JobShapes DEF JobsServe, NoJob, Types
<1>1. job'[c] # NoJob
  BY DEF NoJob
<1>2. Types'
  BY DEF Types
<1>3. \A d \in Callers, t \in Sessions : Holds(d, t)' <=> IF d = c THEN t = s ELSE Holds(d, t)
  BY <1>1 DEF Holds
<1>4. Holding'
  BY <1>1, <1>3 DEF Holding
<1>5. JobsServe'
  BY <1>0, <1>1 DEF JobsServe, NoJob
<1>6. \A d \in Callers \ {c} : job[d].step \in {"limiting", "working", "resetting"} => Of(d)' = Of(d)
  <2> SUFFICES ASSUME NEW d \in Callers \ {c}, job[d].step \in {"limiting", "working", "resetting"}
               PROVE  session'[job[d].session] = session[job[d].session]
    BY <1>1 DEF Of
  <2>1. job[d].session # s /\ job[d].session \in Sessions
    BY HeldSession DEF Holds
  <2> QED BY <1>1, <2>1
<1>7. Of(c)' = session'[s]
  BY DEF Of
<1>8. session'[s].op = NoOp <=> job'[c].step = "limiting"
  BY DEF Sent, NoOp
<1>9. SessionsAt'
  <2>1. PoolIsClean'
    BY <1>1 DEF SessionsAt, PoolIsClean, IdleSessions
  <2> QED BY <1>1, <1>6, <1>7, <1>8, <2>1 DEF SessionsAt
<1>10. Answered'
  <2> SUFFICES ASSUME NEW d \in Callers PROVE (Asked(d) /\ Made(d) /\ MustBeMade(d))'
    BY DEF Answered
  <2>0. Asked(d) /\ Made(d) /\ MustBeMade(d)
    BY DEF Answered
  <2>1. CASE d = c
    <3>1. applied[c] = 0
      BY <2>0, <2>1, <1>0 DEF Made, Types
    <3>2. \A t \in Sessions : Running(t) => session[t].op.of # c
      BY <2>0, <2>1, <1>0 DEF Asked
    <3>3. Asked(c)'
      BY <1>0, <1>1, <1>8, <3>1, <3>2 DEF Asked, Running, Sent, JobsServe
    <3>4. Made(c)' /\ MustBeMade(c)'
      BY <1>0, <1>1, <1>7, <3>1, <2>0, <2>1 DEF Made, MustBeMade, JobsServe, Lost
    <3> QED BY <2>1, <3>3, <3>4
  <2>2. CASE d # c
    <3>1. Asked(d)'
      <4>1. \A t \in Sessions : Running(t)' /\ session'[t].op.of = d =>
              Running(t) /\ session'[t] = session[t]
        BY <2>2, <1>1, <1>8 DEF Running, Sent
      <4> QED BY <2>0, <2>2, <1>1, <4>1 DEF Asked
    <3>2. Made(d)' /\ MustBeMade(d)'
      BY <2>0, <2>2, <1>1, <1>6 DEF Made, MustBeMade
    <3> QED BY <3>1, <3>2
  <2> QED BY <2>1, <2>2
<1> QED
  BY <1>2, <1>4, <1>5, <1>9, <1>10

\* The limits are tight and the call is asked.
LEMMA LimitPreserves ==
    ASSUME IInv, NEW c \in Callers, Limit(c)
    PROVE  IInv'
<1> DEFINE s == job[c].session
           it == [Of(c) EXCEPT !.limits = "tight", !.op = Sent(c)]
<1>0. /\ job[c].step = "limiting" /\ s \in Sessions
      /\ job' = [job EXCEPT ![c].step = "working"]
      /\ session' = [session EXCEPT ![s] = it]
      /\ caller' = caller /\ applied' = applied
      /\ job[c] \in [step : {"limiting", "working"}, effect : Effects, bounded : BOOLEAN, session : Sessions]
      /\ job[c].bounded
  BY HeldSession, JobShapes DEF Limit, JobAt, Of, IInv, Types, JobsServe
<1>1. /\ job' \in [Callers -> JobType]
      /\ \A d \in Callers \ {c} : job'[d] = job[d]
      /\ job'[c].step = "working" /\ job'[c].effect = job[c].effect
      /\ job'[c].bounded = job[c].bounded /\ job'[c].session = s
  BY <1>0 DEF IInv, Types, JobType
<1>2. /\ Of(c).op = NoOp /\ Of(c).reply = "none" /\ Of(c).state = "held"
      /\ \A t \in Sessions : Holds(c, t) <=> t = s
      /\ \A d \in Callers : Holds(d, s) => d = c
      /\ ~ Running(s)
  BY <1>0, HeldSession DEF IInv, SessionsAt, Holding, Running, Of
<1>3. it \in SessionType /\ it.state = "held" /\ it.reply = "none" /\ it.op = Sent(c)
  <2>1. Sent(c) \in OpType
    BY <1>0 DEF Sent, OpType
  <2>2. it.state = "held" /\ it.reply = "none" /\ it.op = Sent(c)
    BY <1>0, <1>2, HeldSession
  <2>3. it \in [state : {"idle", "held", "lost"}, limits : {"own", "tight"}, op : OpType,
               reply : {"none"} \cup Replies]
    <3> DEFINE tight == [Of(c) EXCEPT !.limits = "tight"]
    <3>1. tight \in [state : {"idle", "held", "lost"}, limits : {"own", "tight"}, op : OpType,
                     reply : {"none"} \cup Replies]
      BY <1>0, HeldSession
    <3>2. it = [tight EXCEPT !.op = Sent(c)]
      OBVIOUS
    <3> HIDE DEF tight
    <3> QED BY <2>1, <3>1, <3>2
  <2> QED BY <2>2, <2>3 DEF SessionType
<1>4. InPool' \subseteq InPool
  BY <1>0, <1>2, <1>3 DEF InPool, IInv, Types, Of
<1>5. /\ session' \in [Sessions -> SessionType]
      /\ \A t \in Sessions \ {s} : session'[t] = session[t]
      /\ session'[s] = it
  BY <1>0, <1>3 DEF IInv, Types
<1> HIDE DEF it
<1> QED
  BY <1>0, <1>1, <1>2, <1>3, <1>4, <1>5, PoolShrinks, HoldPreserves

\* A job takes a session, which is tightened first or asked in at once.
LEMMA TakePreserves ==
    ASSUME IInv, NEW c \in Callers, NEW s \in Sessions, NEW it, Take(c, s, it),
           job[c].step = "waiting", session[s].state \in {"idle", "closed"},
           it \in [state : {"idle", "held"}, limits : {"own"}, op : {NoOp}, reply : {"none"}],
           caller' = caller, applied' = applied,
           (Cardinality(InPool) <= PoolSize)'
    PROVE  IInv'
<1>0. /\ job[c] \in [step : {"waiting"}, effect : Effects, bounded : BOOLEAN]
      /\ \A d \in Callers : ~ Holds(d, s)
      /\ \A t \in Sessions : ~ Holds(c, t)
      /\ ~ Running(s)
  BY JobShapes, SessionShapes DEF IInv, Types, Holding, Holds, SessionsAt, PoolIsClean, IdleSessions, Running
<1>1. CASE job[c].bounded
  <2> DEFINE held == [it EXCEPT !.state = "held"]
  <2>1. /\ job' = [job EXCEPT ![c] = [step |-> "limiting", effect |-> job[c].effect,
                                     bounded |-> TRUE, session |-> s]]
        /\ session' = [session EXCEPT ![s] = held]
    BY <1>0, <1>1 DEF Take, IInv, Types
  <2>3. /\ job' \in [Callers -> JobType]
        /\ \A d \in Callers \ {c} : job'[d] = job[d]
        /\ job'[c].step = "limiting" /\ job'[c].effect = job[c].effect
        /\ job'[c].bounded = job[c].bounded /\ job'[c].session = s
    BY <1>0, <1>1, <2>1 DEF IInv, Types, JobType
  <2>2. /\ held \in SessionType /\ held.state = "held" /\ held.reply = "none" /\ held.op = NoOp
        /\ held.limits = "own"
    BY DEF SessionType, OpType
  <2>4. /\ session' \in [Sessions -> SessionType]
        /\ \A t \in Sessions \ {s} : session'[t] = session[t]
        /\ session'[s] = held
    BY <2>1, <2>2 DEF IInv, Types
  <2> HIDE DEF held
  <2> QED BY <1>0, <1>1, <2>2, <2>3, <2>4, HoldPreserves
<1>2. CASE ~ job[c].bounded
  <2> DEFINE held == [it EXCEPT !.state = "held", !.op = Sent(c)]
  <2>1. /\ job' = [job EXCEPT ![c] = [step |-> "working", effect |-> job[c].effect,
                                     bounded |-> FALSE, session |-> s]]
        /\ session' = [session EXCEPT ![s] = held]
    BY <1>0, <1>2 DEF Take, IInv, Types
  <2>3. /\ job' \in [Callers -> JobType]
        /\ \A d \in Callers \ {c} : job'[d] = job[d]
        /\ job'[c].step = "working" /\ job'[c].effect = job[c].effect
        /\ job'[c].bounded = job[c].bounded /\ job'[c].session = s
    BY <1>0, <1>2, <2>1 DEF IInv, Types, JobType
  <2>2. /\ held \in SessionType /\ held.state = "held" /\ held.reply = "none" /\ held.op = Sent(c)
        /\ held.limits = "own"
    BY <1>0 DEF SessionType, OpType, Sent
  <2>4. /\ session' \in [Sessions -> SessionType]
        /\ \A t \in Sessions \ {s} : session'[t] = session[t]
        /\ session'[s] = held
    BY <2>1, <2>2 DEF IInv, Types
  <2> HIDE DEF held
  <2> QED BY <1>0, <1>2, <2>2, <2>3, <2>4, HoldPreserves
<1> QED
  BY <1>1, <1>2

\* An idle session is clean, so what it is asked next is all it has (get).
LEMMA GetIdlePreserves ==
    ASSUME IInv, NEW c \in Callers, GetIdle(c)
    PROVE  IInv'
<1> PICK s \in IdleSessions : Take(c, s, session[s])
  BY DEF GetIdle
<1>1. /\ s \in Sessions /\ session[s].state = "idle"
      /\ session[s] \in [state : {"idle", "held"}, limits : {"own"}, op : {NoOp}, reply : {"none"}]
  BY SessionShapes DEF IdleSessions, IInv, Types, SessionsAt, PoolIsClean
<1>2. InPool' \subseteq InPool
  BY <1>1 DEF InPool, Take, IInv, Types
<1> QED
  BY <1>1, <1>2, PoolShrinks, TakePreserves DEF GetIdle, JobAt

\* A new session is connected only while the pool has room for it.
LEMMA GetNewPreserves ==
    ASSUME IInv, NEW c \in Callers, GetNew(c)
    PROVE  IInv'
<1> PICK s \in {t \in Sessions : session[t] = Closed} : Take(c, s, Fresh)
  BY DEF GetNew
<1>1. /\ s \in Sessions /\ session[s].state = "closed"
      /\ Fresh \in [state : {"idle", "held"}, limits : {"own"}, op : {NoOp}, reply : {"none"}]
  BY DEF Fresh, Closed
<1>2. (Cardinality(InPool) <= PoolSize)'
  <2>1. IsFiniteSet(InPool)
    BY CallsAssumption, FS_Subset DEF InPool
  <2>2. InPool' \subseteq InPool \cup {s}
    BY <1>1 DEF InPool, Take, IInv, Types
  <2>3. /\ IsFiniteSet(InPool \cup {s})
        /\ Cardinality(InPool \cup {s}) = IF s \in InPool THEN Cardinality(InPool)
                                          ELSE Cardinality(InPool) + 1
    BY <2>1, FS_AddElement
  <2>4. IsFiniteSet(InPool') /\ Cardinality(InPool') <= Cardinality(InPool \cup {s})
    BY <2>2, <2>3, FS_Subset
  <2>5. Cardinality(InPool) \in Nat /\ Cardinality(InPool') \in Nat
    BY <2>1, <2>4, FS_CardinalityType
  <2>6. Cardinality(InPool) < PoolSize
    BY DEF GetNew, Room
  <2>7. Cardinality(InPool') <= PoolSize
    BY <2>3, <2>4, <2>5, <2>6, CallsAssumption
  <2> QED BY <2>7
<1> QED
  BY <1>1, <1>2, TakePreserves DEF GetNew, JobAt

-----------------------------------------------------------------------------
(* The server, and the network.                                             *)

\* A session that is held by a job and changes in its reply, or in what runs
\* in it, keeps its holder.
LEMMA HoldingKept ==
    ASSUME IInv, job' = job, NEW s \in Sessions,
           \A t \in Sessions \ {s} : session'[t] = session[t],
           session'[s].state = "held" <=> session[s].state = "held"
    PROVE  Holding'
BY DEF IInv, Holding, Holds

\* Whoever a running operation is of.
LEMMA RunningOf ==
    ASSUME IInv, NEW s \in Sessions, Running(s)
    PROVE  /\ session[s].op \in [of : Callers, effect : Effects]
           /\ session[s].state \in {"held", "lost"}
           /\ session[s].state = "held" =>
                /\ job[session[s].op.of].step \in {"working", "resetting"}
                /\ job[session[s].op.of].session = s
           /\ session[s].state = "lost" => job[session[s].op.of] = NoJob
<1>1. session[s].state # "closed" /\ session[s].op \in OpType
  BY SessionShapes DEF IInv, Types, Running
<1>2. session[s].op \in [of : Callers, effect : Effects]
  BY <1>1, OpShapes DEF Running
<1>3. session[s].state \in {"held", "lost"}
  BY <1>1, SessionShapes DEF IInv, Types, SessionsAt, PoolIsClean, IdleSessions, Running
<1>4. PICK d \in Callers : d = session[s].op.of
  BY <1>2
<1>5. \/ session[s].state = "lost" /\ job[d] = NoJob
      \/ job[d].step \in {"working", "resetting"} /\ job[d].session = s
  BY <1>4 DEF IInv, Answered, Asked
<1>6. job[d].step \in {"working", "resetting"} /\ job[d].session = s => session[s].state = "held"
  BY DEF IInv, Holding, Holds
<1> QED
  BY <1>2, <1>3, <1>4, <1>5, <1>6

\* What runs in a session ends, with the write made or not, and its job hears
\* of it while it holds the session and the connection is whole.
LEMMA EndedPreserves ==
    ASSUME IInv, NEW s \in Sessions, Running(s), NEW reply \in Replies \ {"broken"},
           session' = [session EXCEPT ![s] = Ended(@, reply)],
           caller' = caller, job' = job,
           applied' \in [Callers -> {0, 1}],
           \A d \in Callers \ {session[s].op.of} : applied'[d] = applied[d],
           reply = "ok" => applied'[session[s].op.of] =
                             IF session[s].op.effect = "write" THEN 1 ELSE applied[session[s].op.of],
           reply # "ok" => applied'[session[s].op.of] = applied[session[s].op.of]
    PROVE  IInv'
<1> USE DEF IInv
<1> PICK c \in Callers : c = session[s].op.of
  BY RunningOf
<1> DEFINE it == Ended(session[s], reply)
<1>0. /\ session[s] \in SessionType /\ session[s].state \in {"held", "lost"} /\ session[s].op # NoOp
      /\ c \in Callers /\ session[s].op.effect = caller[c].effect
      /\ applied[c] = 0
      /\ \A t \in Sessions : Running(t) /\ session[t].op.of = c => t = s
      /\ caller[c].step = "calling" \/ (caller[c].step = "told" /\ caller[c].answer = Lost(caller[c].effect))
  BY RunningOf DEF Types, Running, Answered, Asked
<1>1. /\ session' \in [Sessions -> SessionType]
      /\ \A t \in Sessions \ {s} : session'[t] = session[t]
      /\ session'[s] = it
      /\ session[s].state = "lost" => it = Closed
      /\ session[s].state = "held" =>
           /\ it.state = "held" /\ it.op = NoOp /\ it.limits = session[s].limits
           /\ it.reply = IF session[s].reply = "none" THEN reply ELSE session[s].reply
  BY <1>0, EndedIs DEF Types
<1> HIDE DEF it
<1>2. ~ Running(s)' /\ \A t \in Sessions : Running(t)' => Running(t) /\ t # s
  BY <1>0, <1>1 DEF Running
<1>3. Types'
  BY <1>1 DEF Types
<1>4. Holding'
  BY <1>0, <1>1, HoldingKept DEF Closed
<1>5. JobsServe'
  BY DEF JobsServe
<1>6. /\ session[s].state = "held" =>
           /\ job[c].step \in {"working", "resetting"} /\ job[c].session = s
           /\ Of(c) = session[s] /\ Of(c)' = it
      /\ session[s].state = "lost" => job[c] = NoJob
  BY <1>0, <1>1, RunningOf DEF Of
<1>7. \A d \in Callers \ {c} : job[d].step \in {"limiting", "working", "resetting"} => Of(d)' = Of(d)
  <2> SUFFICES ASSUME NEW d \in Callers \ {c}, job[d].step \in {"limiting", "working", "resetting"}
               PROVE  session'[job[d].session] = session[job[d].session]
    BY DEF Of
  <2>1. job[d].session \in Sessions /\ Holds(d, job[d].session)
    BY HeldSession
  <2>2. job[d].session # s
    <3> SUFFICES ASSUME job[d].session = s PROVE FALSE
      OBVIOUS
    <3>1. session[s].state = "held"
      BY <2>1 DEF Holding
    <3>2. Holds(c, s)
      BY <3>1, <1>6 DEF Holds
    <3> QED BY <2>1, <3>2, <1>0 DEF Holding
  <2> QED BY <1>1, <2>1, <2>2
<1>8. SessionsAt'
  <2>1. PoolIsClean'
    BY <1>0, <1>1 DEF SessionsAt, PoolIsClean, IdleSessions, Closed
  <2>2. \A t \in Sessions : session'[t].state = "lost" => session'[t].reply = "none" /\ session'[t].op # NoOp
    BY <1>0, <1>1 DEF SessionsAt, Closed
  <2>3. job[c].step \in {"limiting", "working", "resetting"} =>
          /\ job[c].step # "limiting"
          /\ Of(c)'.op = NoOp /\ Of(c)'.limits = Of(c).limits /\ Of(c)'.reply # "none"
    BY <1>0, <1>1, <1>6 DEF Replies, NoJob
  <2> QED BY <2>1, <2>2, <2>3, <1>0, <1>7 DEF SessionsAt
<1>9. Answered'
  <2> SUFFICES ASSUME NEW d \in Callers PROVE (Asked(d) /\ Made(d) /\ MustBeMade(d))'
    BY DEF Answered
  <2>0. Asked(d) /\ Made(d) /\ MustBeMade(d)
    BY DEF Answered
  <2>1. CASE d = c
    <3>1. Asked(c)'
      BY <1>1, <1>2, <1>0 DEF Asked
    <3>2. job[c].step = "working" => Of(c)'.op = NoOp /\ Of(c).reply \in {"none", "broken"}
      BY <1>0, <1>1, <1>6 DEF SessionsAt, NoJob
    <3>3. job[c].step = "working" /\ Of(c).reply = "none" => Of(c)'.reply = reply
      BY <1>0, <1>1, <1>6 DEF NoJob
    <3>4. job[c].step = "working" /\ Of(c).reply = "broken" => Of(c)'.reply = "broken"
      BY <1>0, <1>1, <1>6 DEF NoJob
    <3>5. job[c].step = "resetting" => job[c].answer = Lost(caller[c].effect)
      BY <1>0 DEF Answered, Asked, NoJob
    <3>6. job[c] = NoJob => caller[c].step = "told" /\ caller[c].answer = Lost(caller[c].effect)
      BY <1>0 DEF JobsServe
    <3>7. Made(c)'
      BY <1>0, <1>6, <3>2, <3>3, <3>4, <3>5, <3>6 DEF Made, Lost
    <3>8. MustBeMade(c)'
      BY <1>0, <1>6, <3>2, <3>3, <3>4, <3>5, <3>6 DEF MustBeMade, Lost, NoJob
    <3> QED BY <2>1, <3>1, <3>7, <3>8
  <2>2. CASE d # c
    <3>1. Asked(d)'
      BY <2>0, <2>2, <1>1, <1>2 DEF Asked
    <3>2. Made(d)' /\ MustBeMade(d)'
      BY <2>0, <2>2, <1>7 DEF Made, MustBeMade
    <3> QED BY <3>1, <3>2
  <2> QED BY <2>1, <2>2
<1>10. InPool' \subseteq InPool
  BY <1>0, <1>1 DEF InPool, Closed
<1> QED
  BY <1>3, <1>4, <1>5, <1>8, <1>9, <1>10, PoolShrinks

\* A commit is the first and the only one of its write.
LEMMA CommitPreserves ==
    ASSUME IInv, NEW s \in Sessions, Commit(s)
    PROVE  IInv'
<1> PICK c \in Callers : c = session[s].op.of
  BY RunningOf DEF Commit
<1>1. Running(s) /\ applied[c] = 0
  BY DEF Commit, IInv, Answered, Asked
<1>2. applied' = IF session[s].op.effect = "write" THEN [applied EXCEPT ![c] = 1] ELSE applied
  BY <1>1 DEF Commit, IInv, Types
<1>3. /\ applied' \in [Callers -> {0, 1}]
      /\ \A d \in Callers \ {c} : applied'[d] = applied[d]
      /\ applied'[c] = IF session[s].op.effect = "write" THEN 1 ELSE applied[c]
  BY <1>1, <1>2 DEF IInv, Types
<1>4. "ok" \in Replies \ {"broken"}
  BY DEF Replies
<1> QED
  BY <1>1, <1>3, <1>4, EndedPreserves DEF Commit

\* What was refused, cancelled or conflicted was not made.
LEMMA RollBackPreserves ==
    ASSUME IInv, NEW s \in Sessions, RollBack(s)
    PROVE  IInv'
<1>1. PICK reply \in Replies \ {"ok", "broken"} : session' = [session EXCEPT ![s] = Ended(@, reply)]
  BY DEF RollBack
<1>2. applied' \in [Callers -> {0, 1}]
  BY DEF RollBack, IInv, Types
<1> QED
  BY <1>1, <1>2, EndedPreserves DEF RollBack

\* The connection breaks: what runs in the session goes on, unheard.
LEMMA BreakPreserves ==
    ASSUME IInv, NEW s \in Sessions, Break(s)
    PROVE  IInv'
<1> USE DEF IInv
<1> PICK c \in Callers : job[c].step = "working" /\ job[c].session = s
  BY DEF Break, JobAt
<1>0. /\ session[s].reply \in {"none", "ok"} /\ session[s].state = "held"
      /\ Of(c) = session[s] /\ Holds(c, s)
      /\ caller' = caller /\ job' = job /\ applied' = applied
      /\ session[s] \in [state : {"idle", "held", "lost"}, limits : {"own", "tight"}, op : OpType,
                         reply : {"none"} \cup Replies]
  BY HeldSession DEF Break, Of, Holds
<1>1. /\ session' = [session EXCEPT ![s] = [session[s] EXCEPT !.reply = "broken"]]
      /\ "broken" \in Replies
  BY DEF Break, Replies
<1>2. /\ session' \in [Sessions -> SessionType]
      /\ \A t \in Sessions \ {s} : session'[t] = session[t]
      /\ session'[s].state = "held" /\ session'[s].reply = "broken"
      /\ session'[s].limits = session[s].limits /\ session'[s].op = session[s].op
      /\ session'[s] # Closed /\ session[s] # Closed
  BY <1>0, <1>1 DEF Types, SessionType, Closed
<1>3. Types'
  BY <1>0, <1>2 DEF Types
<1>4. Holding'
  BY <1>0, <1>2, HoldingKept
<1>5. JobsServe'
  BY <1>0 DEF JobsServe
<1>6. \A d \in Callers \ {c} : job[d].step \in {"limiting", "working", "resetting"} => Of(d)' = Of(d)
  <2> SUFFICES ASSUME NEW d \in Callers \ {c}, job[d].step \in {"limiting", "working", "resetting"}
               PROVE  session'[job[d].session] = session[job[d].session]
    BY <1>0 DEF Of
  <2>1. job[d].session \in Sessions /\ Holds(d, job[d].session) /\ job[d].session # s
    BY <1>0, HeldSession DEF Holding
  <2> QED BY <1>2, <2>1
<1>7. Of(c)' = session'[s]
  BY <1>0 DEF Of
<1>8. SessionsAt'
  <2>1. PoolIsClean'
    BY <1>2 DEF SessionsAt, PoolIsClean, IdleSessions
  <2>2. \A t \in Sessions : session'[t].state = "lost" => session'[t].reply = "none" /\ session'[t].op # NoOp
    BY <1>2 DEF SessionsAt
  <2> QED BY <1>0, <1>2, <1>6, <1>7, <2>1, <2>2 DEF SessionsAt
<1>9. Answered'
  <2>1. \A t \in Sessions : (Running(t)' <=> Running(t)) /\ session'[t].op = session[t].op
    BY <1>2 DEF Running
  <2>2. \A t \in Sessions : session[t].state = "lost" => session'[t].state = "lost"
    BY <1>0, <1>2
  <2>3. \A d \in Callers : Asked(d)'
    BY <1>0, <2>1, <2>2 DEF Answered, Asked
  <2>4. \A d \in Callers \ {c} : Made(d)' /\ MustBeMade(d)'
    BY <1>0, <1>6 DEF Answered, Made, MustBeMade
  <2>5. Made(c)'
    BY <1>0, <1>2, <1>7 DEF Answered, Made, NoJob
  <2>6. MustBeMade(c)'
    BY <1>0, <1>2, <1>7 DEF Answered, MustBeMade
  <2> QED BY <2>3, <2>4, <2>5, <2>6 DEF Answered
<1>10. InPool' \subseteq InPool
  BY <1>0, <1>2 DEF InPool
<1> QED
  BY <1>3, <1>4, <1>5, <1>8, <1>9, <1>10, PoolShrinks

\* A session that ends in the pool takes nothing with it.
LEMMA IdleEndsPreserves ==
    ASSUME IInv, NEW s \in Sessions, IdleEnds(s)
    PROVE  IInv'
<1> USE DEF IInv
<1>0. /\ session[s].state = "idle" /\ session[s].op = NoOp
      /\ session' = [session EXCEPT ![s] = Closed]
      /\ caller' = caller /\ job' = job /\ applied' = applied
      /\ \A d \in Callers : ~ Holds(d, s)
  BY DEF IdleEnds, SessionsAt, PoolIsClean, IdleSessions, Holding
<1>1. \A t \in Sessions : session'[t] = IF t = s THEN Closed ELSE session[t]
  BY <1>0 DEF Types
<1>2. Types'
  BY <1>0 DEF Types, SessionType
<1>3. Holding'
  BY <1>0, <1>1, HoldingKept DEF Closed
<1>4. JobsServe'
  BY <1>0 DEF JobsServe
<1>5. \A d \in Callers : job[d].step \in {"limiting", "working", "resetting"} => Of(d)' = Of(d)
  BY <1>0, <1>1, HeldSession DEF Of, Holds
<1>6. SessionsAt'
  <2>1. PoolIsClean'
    BY <1>1 DEF SessionsAt, PoolIsClean, IdleSessions, Closed
  <2>2. \A t \in Sessions : session'[t].state = "lost" => session'[t].reply = "none" /\ session'[t].op # NoOp
    BY <1>1 DEF SessionsAt, Closed
  <2> QED BY <1>0, <1>5, <2>1, <2>2 DEF SessionsAt
<1>7. Answered'
  <2>1. \A t \in Sessions : Running(t)' => Running(t) /\ session'[t] = session[t]
    BY <1>1 DEF Running
  <2>2. \A d \in Callers : Asked(d)'
    BY <1>0, <2>1 DEF Answered, Asked
  <2>3. \A d \in Callers : Made(d)' /\ MustBeMade(d)'
    BY <1>0, <1>5 DEF Answered, Made, MustBeMade
  <2> QED BY <2>2, <2>3 DEF Answered
<1>8. InPool' \subseteq InPool
  BY <1>1 DEF InPool, Closed
<1> QED
  BY <1>2, <1>3, <1>4, <1>6, <1>7, <1>8, PoolShrinks

-----------------------------------------------------------------------------
\* Every step of a caller, a job or the server keeps the invariant.
LEMMA NextPreserves ==
    ASSUME IInv, [CallNext]_callVars
    PROVE  IInv'
<1>1. CASE \E c \in Callers : Call(c) \/ CallRefused(c) \/ Resume(c) \/ BudgetEnds(c) \/ Watchdog(c)
  BY <1>1, CallPreserves, CallRefusedPreserves, ResumePreserves, BudgetEndsPreserves, WatchdogPreserves
<1>2. CASE \E c \in Callers : Bridge(c)
  BY <1>2, GetIdlePreserves, GetNewPreserves, GetFailsPreserves, LimitPreserves, LimitFailsPreserves,
     WorkEndsPreserves, WorkTimesOutPreserves, ResetPreserves DEF Bridge
<1>3. CASE \E s \in Sessions : Commit(s) \/ RollBack(s) \/ Break(s) \/ IdleEnds(s)
  BY <1>3, CommitPreserves, RollBackPreserves, BreakPreserves, IdleEndsPreserves
<1>4. CASE UNCHANGED callVars
  <2> USE <1>4 DEF callVars, IInv
  <2>1. Types' /\ Holding' /\ JobsServe'
    BY DEF Types, Holding, Holds, JobsServe
  <2>2. SessionsAt'
    BY DEF SessionsAt, PoolIsClean, IdleSessions, Of
  <2>3. Answered'
    BY DEF Answered, Asked, Made, MustBeMade, Running, Of
  <2>4. InPool' = InPool
    BY DEF InPool
  <2> QED BY <2>1, <2>2, <2>3, <2>4, PoolShrinks
<1> QED
  BY <1>1, <1>2, <1>3, <1>4 DEF CallNext

\* The invariant holds however calls, time limits and the server interleave.
LEMMA Inductive == CallSpec => []IInv
<1>1. CallInit => IInv
  BY InitEstablishes
<1>2. IInv /\ [CallNext]_callVars => IInv'
  BY NextPreserves
<1> QED
  BY <1>1, <1>2, PTL DEF CallSpec

\* Every value is of its type, and a held session is held by exactly one job.
THEOREM TypeCorrect == CallSpec => []CallTypeOK
<1>1. IInv => CallTypeOK
  <2> SUFFICES ASSUME IInv PROVE CallTypeOK
    OBVIOUS
  <2>1. \A c \in Callers : /\ caller[c].step \in {"idle", "calling", "pausing", "told"}
                           /\ caller[c].step = "told" => caller[c].answer \in CallAnswers
    BY CallerShapes DEF IInv, Types
  <2>2. ASSUME NEW s \in Sessions, session[s].state = "held"
        PROVE  Cardinality({c \in Callers : job[c].step \in {"limiting", "working", "resetting"}
                                              /\ job[c].session = s}) = 1
    <3>1. PICK c \in Callers : Holds(c, s)
      BY <2>2 DEF IInv, Holding
    <3>2. {d \in Callers : Holds(d, s)} = {c}
      BY <3>1 DEF IInv, Holding
    <3>3. Cardinality({c}) = 1
      BY FS_Singleton
    <3> QED BY <3>2, <3>3 DEF Holds
  <2> QED BY <2>1, <2>2 DEF CallTypeOK, IInv
<1> QED
  BY <1>1, Inductive, PTL

\* A caller is told the truth of its write: done only when it was made, and no
\* other definite answer when it was, or when it may still be.
THEOREM ToldTheTruthAlways == CallSpec => []ToldTheTruth
<1>1. IInv => ToldTheTruth
  <2> SUFFICES ASSUME IInv, NEW c \in Callers, caller[c].step = "told", caller[c].effect = "write"
               PROVE  /\ caller[c].answer = "done" => applied[c] = 1
                      /\ caller[c].answer \notin {"done", "unknown"} =>
                           /\ applied[c] = 0
                           /\ job[c] = NoJob
                           /\ \A s \in Sessions : Running(s) => session[s].op.of # c
    BY DEF ToldTheTruth
  <2>1. caller[c].answer = "done" => applied[c] = 1
    BY DEF IInv, Answered, MustBeMade
  <2>2. ASSUME caller[c].answer \notin {"done", "unknown"}
        PROVE  /\ applied[c] = 0
               /\ job[c] = NoJob
               /\ \A s \in Sessions : Running(s) => session[s].op.of # c
    <3>1. job[c] = NoJob
      BY <2>2 DEF IInv, JobsServe, Lost
    <3>2. applied[c] = 0
      BY <2>2, <3>1 DEF IInv, Answered, Made, Types, NoJob
    <3>3. \A s \in Sessions : Running(s) => session[s].op.of # c
      BY <2>2 DEF IInv, Answered, Asked, Lost
    <3> QED BY <3>1, <3>2, <3>3
  <2> QED BY <2>1, <2>2
<1> QED
  BY <1>1, Inductive, PTL

\* However often a call is run again, a write is never made twice.
THEOREM NeverTwiceAlways == CallSpec => []NeverTwice
<1>1. IInv => NeverTwice
  BY DEF IInv, Types, NeverTwice
<1> QED
  BY <1>1, Inductive, PTL

\* A session that is given back is as a new one: nothing runs in it, nothing is
\* left to read, and its limits are its own.
THEOREM PoolIsCleanAlways == CallSpec => []PoolIsClean
<1>1. IInv => PoolIsClean
  BY DEF IInv, SessionsAt
<1> QED
  BY <1>1, Inductive, PTL
=============================================================================
