---------------------------- MODULE StepExecutor ----------------------------
(***************************************************************************)
(* One job of a step-based task, from its first attempt to its completion: *)
(* step-executor.ts, the hydration and migration of step state in job.ts,  *)
(* the processing order of task.ts and the Redis hash of stores/.          *)
(*                                                                         *)
(* A handler is a deterministic list of steps.  Every attempt runs it from *)
(* the top; a step recorded as completed answers from memory, the others   *)
(* execute.  The record is a field of a Redis hash written apart from      *)
(* BullMQ's own job hash, so each await between an effect, its record and  *)
(* the job's move to another state is a place where the process may die.   *)
(*                                                                         *)
(* A value is the set of what it names: n is what the n-th execution of a  *)
(* `do` handler returned, c the child job c or its result, {} is           *)
(* undefined.  What a handler returned also has a 0 in it, for everything  *)
(* about it that JSON does not keep (a Date, undefined, NaN, a class): the *)
(* first execution answers with the raw value, and what is written to the  *)
(* hash and read back by a later attempt has been through JSON.            *)
(* BullMQ's job states, lock, retry counting and parent-child bookkeeping  *)
(* are external; one attempt runs at a time.                               *)
(***************************************************************************)
EXTENDS Naturals, Sequences, FiniteSets

CONSTANTS
    Program,      \* the kinds of the handler's steps, in order
    Legacies,     \* the inline stepState (job.data.state) a job may arrive with
    Nap,          \* duration of a "sleep" step
    Deadline,     \* timestamp of a "sleepUntil" step
    WakeBuffer,   \* STEP_STATE_WAKE_BUFFER_SECONDS
    OrphanTtl,    \* orphanTtlSeconds; 0 when not set (the default)
    BulkSize,     \* jobs of a "runTasks" step (more than ten in the code)
    MaxAttempts,  \* the job's attempts option
    Removal,      \* finished children may be removed
    MaxFaults,    \* bound: crashes, errors and child failures
    MaxClock      \* bound: time passes up to here, or until a sleeper wakes

Steps == DOMAIN Program
Kind  == {"do", "sleep", "sleepUntil", "runTask", "runTasks",
          "runTaskAndWait", "waitForChildTasks"}
Status == {"none", "completed", "errored", "sleeping", "waiting_for_child",
           "waiting_for_children"}

\* StepResult: `at` is sleepUntil, or the timestamp of a bulk reference.
StepResult == [status : Status, data : SUBSET Nat, at : Nat]
Result(status, data, at) == [status |-> status, data |-> data, at |-> at]
Absent == Result("none", {}, 0)
Blank  == [s \in Steps |-> Absent]

ASSUME StepAssumption ==
    /\ Program \in Seq(Kind)
    /\ Legacies \subseteq [Steps -> StepResult]
    /\ {Nap, Deadline, WakeBuffer, OrphanTtl, BulkSize, MaxFaults, MaxClock}
         \subseteq Nat
    /\ MaxAttempts \in Nat \ {0}
    /\ Removal \in BOOLEAN

\* An older release ran the same steps in the same order.  References to
\* children in inline state are left out: its children are not in the model.
\* Job data is JSON, so what JSON does not keep is not in it.
ASSUME LegacyAssumption ==
    \A l \in Legacies : \A s \in Steps :
        /\ l[s].status \notin {"none", "errored"} =>
               \A t \in 1..(s - 1) : l[t].status = "completed"
        /\ l[s].status # "waiting_for_child"
        /\ Program[s] = "runTask" => l[s].data = {}
        /\ 0 \notin l[s].data

VARIABLES
    job,       \* the BullMQ state of the job
    attempts,  \* failed attempts
    wake,      \* when BullMQ wakes the delayed job
    at,        \* where the running attempt is between two awaits
    pc,        \* the step it is at (or the entry it migrates)
    val,       \* the value it holds
    mem,       \* job.state.stepState, the attempt's copy
    store,     \* the Redis hash
    expires,   \* when Redis drops the hash (0: never)
    legacy,    \* stepState still inside job.data
    cached,    \* the children's queue is in client._consumerQueues
    children,  \* every child job started, in order
    clock,
    execs,     \* how often each step's own logic has executed
    seen,      \* every value the handler was ever given, per step
    faults,
    lost       \* the hash was dropped by its TTL

attempt == <<at, pc, val, mem>>
redis   == <<store, expires, lost>>
history == <<execs, seen>>
world   == <<children, clock>>
vars    == <<job, attempts, wake, attempt, redis, legacy, cached, world,
             history, faults>>

JobState == {"waiting", "active", "delayed", "waiting-children", "completed",
             "failed"}
Place    == {"idle", "fetched", "migrating", "next", "effect", "started",
             "await", "recover", "parked"}
Child    == [born : Nat, state : {"waiting", "completed", "failed", "removed"}]

\* The one type invariant of the module.
TypeOK ==
    /\ job \in JobState
    /\ attempts \in 0..MaxAttempts
    /\ wake \in Nat
    /\ at \in Place
    /\ pc \in 1..(Len(Program) + 1)
    /\ val \in SUBSET Nat
    /\ mem \in [Steps -> StepResult]
    /\ store \in [Steps -> StepResult]
    /\ expires \in Nat
    /\ legacy \in [Steps -> StepResult]
    /\ cached \in BOOLEAN
    /\ children \in Seq(Child)
    /\ clock \in Nat
    /\ execs \in [Steps -> Nat]
    /\ seen \in [Steps -> SUBSET SUBSET Nat]
    /\ faults \in 0..MaxFaults
    /\ lost \in BOOLEAN

Init ==
    /\ job = "waiting"
    /\ attempts = 0
    /\ wake = 0
    /\ at = "idle"
    /\ pc = 1
    /\ val = {}
    /\ mem = Blank
    /\ store = Blank
    /\ expires = 0
    /\ legacy \in Legacies
    /\ cached = FALSE
    /\ children = <<>>
    /\ clock = 1
    /\ execs = [s \in Steps |-> 0]
    /\ seen = [s \in Steps |-> {}]
    /\ faults = 0
    /\ lost = FALSE

----------------------------------------------------------------------------
(* Helpers *)

Kids         == DOMAIN children
Pending      == {c \in Kids : children[c].state \in {"waiting", "failed"}}
ChildIs(s)   == \A c \in val : children[c].state = s
AtStep(kind) == at = "next" /\ pc \in Steps /\ Program[pc] \in kind
Remembered   == mem[pc].status

\* Statuses that fall through to the step's own logic.
Unrun == Remembered \in {"none", "errored"}

\* computeStepStateTtlSeconds and the EXPIRE of saveStep.  HSET alone leaves
\* the expiry an earlier step gave the whole hash.
Expiry(r) ==
    LET orphan == IF OrphanTtl > 0 THEN clock + OrphanTtl ELSE 0
        due    == r.at + WakeBuffer
        awake  == IF r.status = "sleeping" /\ due > clock THEN due ELSE 0
    IN  IF orphan = 0 /\ awake = 0 THEN expires
        ELSE IF orphan > awake THEN orphan ELSE awake

\* JSON.stringify on the way to Redis and JSON.parse on the way back.
Json(v)   == v \ {0}
Stored(r) == [r EXCEPT !.data = Json(@)]

\* saveStep of one field.
HSet(s, r) ==
    /\ store' = [store EXCEPT ![s] = Stored(r)]
    /\ expires' = Expiry(r)
    /\ UNCHANGED lost

\* persistStepState: in memory first, as it is, then in Redis.
Persist(r) ==
    /\ HSet(pc, r)
    /\ mem' = [mem EXCEPT ![pc] = r]

\* The attempt is over and its memory gone; BullMQ puts the job in state s.
Leave(s) ==
    /\ job' = s
    /\ at' = "idle"
    /\ pc' = 1
    /\ val' = {}
    /\ mem' = Blank

\* An error that is neither a control error nor unrecoverable.
FailAttempt ==
    LET n == IF attempts < MaxAttempts THEN attempts + 1 ELSE attempts
    IN  /\ attempts' = n
        /\ Leave(IF n < MaxAttempts THEN "waiting" ELSE "failed")

\* The step returns v to the handler, which goes on to its next step.
Answer(v) ==
    /\ seen' = [seen EXCEPT ![pc] = @ \cup {v}]
    /\ at' = "next"
    /\ pc' = pc + 1
    /\ val' = {}

Blame == faults < MaxFaults /\ faults' = faults + 1

NewChildren(n) == [i \in 1..n |-> [born |-> clock, state |-> "waiting"]]

----------------------------------------------------------------------------
(* The attempt begins: hydrateStoredData, validateJob, hydrateStepState *)

PickUp ==
    /\ job = "waiting"
    /\ job' = "active"
    /\ at' = "fetched"
    /\ UNCHANGED <<attempts, wake, pc, val, mem, redis, legacy, cached, world,
                   history, faults>>

\* The payload fails the schema: UnrecoverableError, no attempt is left.
RejectPayload ==
    /\ at = "fetched"
    /\ Blame
    /\ attempts' = MaxAttempts
    /\ Leave("failed")
    /\ UNCHANGED <<wake, redis, legacy, cached, world, history>>

\* Slip: the attempt starts without what earlier attempts recorded.
HydrateNothing ==
    /\ at = "fetched"
    /\ legacy = Blank
    /\ mem' = Blank
    /\ at' = "next"
    /\ UNCHANGED <<job, attempts, wake, pc, val, redis, legacy, cached, world,
                   history, faults>>

\* A hash that is not there reads as no steps at all.
Hydrate ==
    /\ at = "fetched"
    /\ legacy = Blank
    /\ mem' = store
    /\ at' = "next"
    /\ UNCHANGED <<job, attempts, wake, pc, val, redis, legacy, cached, world,
                   history, faults>>

StartMigration ==
    /\ at = "fetched"
    /\ legacy # Blank
    /\ mem' = legacy
    /\ at' = "migrating"
    /\ UNCHANGED <<job, attempts, wake, pc, val, redis, legacy, cached, world,
                   history, faults>>

\* Slip: the loop moves only the entries that are still pending.
MigrateStepPending ==
    /\ at = "migrating"
    /\ pc \in Steps
    /\ pc' = pc + 1
    /\ IF legacy[pc].status \in {"none", "completed"} THEN UNCHANGED redis
       ELSE HSet(pc, legacy[pc])
    /\ UNCHANGED <<job, attempts, wake, at, val, mem, legacy, cached, world,
                   history, faults>>

\* One turn of the loop over the inline entries.
MigrateStep ==
    /\ at = "migrating"
    /\ pc \in Steps
    /\ pc' = pc + 1
    /\ IF legacy[pc] = Absent THEN UNCHANGED redis ELSE HSet(pc, legacy[pc])
    /\ UNCHANGED <<job, attempts, wake, at, val, mem, legacy, cached, world,
                   history, faults>>

\* Slip: the inline state is stripped before all of it is saved.
StripLegacyEarly ==
    /\ at = "migrating"
    /\ legacy' = Blank
    /\ at' = "next"
    /\ pc' = 1
    /\ UNCHANGED <<job, attempts, wake, val, mem, redis, cached, world,
                   history, faults>>

\* stripLegacyStepStateFromJobData, and the handler starts.
StripLegacy ==
    /\ at = "migrating"
    /\ pc \notin Steps
    /\ legacy' = Blank
    /\ at' = "next"
    /\ pc' = 1
    /\ UNCHANGED <<job, attempts, wake, val, mem, redis, cached, world,
                   history, faults>>

----------------------------------------------------------------------------
(* Steps that are recorded already *)

\* getJobById for one job; for a bulk reference getChildJobs, which answers
\* from a queue it has in its cache and filters by the reference's timestamp.
Reconstruct(r) ==
    CASE Program[pc] = "runTask" ->
            {c \in r.data : children[c].state # "removed"}
      [] Program[pc] = "runTasks" ->
            {c \in Kids : /\ cached
                          /\ children[c].state # "removed"
                          /\ children[c].born >= r.at}
      [] OTHER -> r.data

Replay ==
    /\ AtStep(Kind)
    /\ Remembered = "completed"
    /\ Answer(Reconstruct(mem[pc]))
    /\ cached' = (cached \/ Program[pc] = "runTask")
    /\ UNCHANGED <<job, attempts, wake, mem, redis, legacy, world, execs,
                   faults>>

\* _handleChildJobRecovery up to getState: wait again, read the result of a
\* completed child, or throw because it failed or is gone.
RecoverChild ==
    /\ AtStep({"runTaskAndWait"})
    /\ Remembered = "waiting_for_child"
    /\ cached' = TRUE
    /\ LET c == CHOOSE k \in mem[pc].data : TRUE
       IN  IF children[c].state \in {"failed", "removed"}
           THEN FailAttempt
           ELSE /\ at' = IF children[c].state = "completed" THEN "recover"
                         ELSE "await"
                /\ val' = {c}
                /\ UNCHANGED <<job, attempts, pc, mem>>
    /\ UNCHANGED <<wake, redis, legacy, world, history, faults>>

\* getResult asks for the state again before it fetches the result.
ReadRecovered ==
    /\ at = "recover"
    /\ val' = {c \in val : children[c].state = "completed"}
    /\ at' = "effect"
    /\ UNCHANGED <<job, attempts, wake, pc, mem, redis, legacy, cached, world,
                   history, faults>>

\* Slip: waking up is taken for the end of the sleep.
ResumeSleepAwake ==
    /\ AtStep({"sleep", "sleepUntil"})
    /\ Remembered = "sleeping"
    /\ at' = "effect"
    /\ UNCHANGED <<job, attempts, wake, pc, val, mem, redis, legacy, cached,
                   world, history, faults>>

\* The sleep is over, or the job has to be delayed again.
ResumeSleep ==
    /\ AtStep({"sleep", "sleepUntil"})
    /\ Remembered = "sleeping"
    /\ at' = IF clock >= mem[pc].at THEN "effect" ELSE "parked"
    /\ UNCHANGED <<job, attempts, wake, pc, val, mem, redis, legacy, cached,
                   world, history, faults>>

ResumeJoin ==
    /\ AtStep({"waitForChildTasks"})
    /\ Remembered = "waiting_for_children"
    /\ at' = "parked"
    /\ UNCHANGED <<job, attempts, wake, pc, val, mem, redis, legacy, cached,
                   world, history, faults>>

----------------------------------------------------------------------------
(* Steps that execute *)

\* The handler given to `do` (or sendEvent) has run; nothing is recorded yet.
RunEffect ==
    /\ AtStep({"do"})
    /\ Unrun
    /\ execs' = [execs EXCEPT ![pc] = @ + 1]
    /\ val' = {0, execs[pc] + 1}
    /\ at' = "effect"
    /\ UNCHANGED <<job, attempts, wake, pc, mem, redis, legacy, cached, world,
                   seen, faults>>

\* task.run or task.runMany: the children exist before anything names them.
LaunchChildren ==
    /\ AtStep({"runTask", "runTasks", "runTaskAndWait"})
    /\ Unrun
    /\ LET n == IF Program[pc] = "runTasks" THEN BulkSize ELSE 1
       IN  /\ children' = children \o NewChildren(n)
           /\ val' = {Len(children) + i : i \in 1..n}
    /\ execs' = [execs EXCEPT ![pc] = @ + 1]
    /\ at' = IF Program[pc] = "runTaskAndWait" THEN "started" ELSE "effect"
    /\ UNCHANGED <<job, attempts, wake, pc, mem, redis, legacy, cached, clock,
                   seen, faults>>

\* The child's reference is stored before the wait.
SaveChildRef ==
    /\ at = "started"
    /\ Persist(Result("waiting_for_child", val, 0))
    /\ at' = "await"
    /\ UNCHANGED <<job, attempts, wake, pc, val, legacy, cached, world,
                   history, faults>>

\* waitForResult resolves; the result is named after the child.
ChildAnswers ==
    /\ at = "await"
    /\ ChildIs("completed")
    /\ at' = "effect"
    /\ UNCHANGED <<job, attempts, wake, pc, val, mem, redis, legacy, cached,
                   world, history, faults>>

\* waitForResult throws; the reference stays for the next attempt.
ChildThrows ==
    /\ at = "await"
    /\ ChildIs("failed") \/ ChildIs("removed")
    /\ FailAttempt
    /\ UNCHANGED <<wake, redis, legacy, cached, world, history, faults>>

\* A sleepUntil whose time has passed completes at once.
BeginSleep ==
    /\ AtStep({"sleep", "sleepUntil"})
    /\ Unrun
    /\ LET until == IF Program[pc] = "sleep" THEN clock + Nap ELSE Deadline
       IN  IF Program[pc] = "sleepUntil" /\ until <= clock
           THEN at' = "effect" /\ UNCHANGED <<mem, redis>>
           ELSE at' = "parked" /\ Persist(Result("sleeping", {}, until))
    /\ UNCHANGED <<job, attempts, wake, pc, val, legacy, cached, world,
                   history, faults>>

BeginJoin ==
    /\ AtStep({"waitForChildTasks"})
    /\ Unrun
    /\ Persist(Result("waiting_for_children", {}, 0))
    /\ at' = "parked"
    /\ UNCHANGED <<job, attempts, wake, pc, val, legacy, cached, world,
                   history, faults>>

\* Slip: DelayedError is thrown and the job was never moved.
MoveToDelayedUnmoved ==
    /\ at = "parked"
    /\ Remembered = "sleeping"
    /\ Leave("active")
    /\ UNCHANGED <<attempts, wake, redis, legacy, cached, world, history,
                   faults>>

\* moveToDelayed, then DelayedError ends the attempt without a failure.
MoveToDelayed ==
    /\ at = "parked"
    /\ Remembered = "sleeping"
    /\ wake' = mem[pc].at
    /\ Leave("delayed")
    /\ UNCHANGED <<attempts, redis, legacy, cached, world, history, faults>>

\* moveToWaitingChildren answers whether the job has to wait.
MoveToWaitingChildren ==
    /\ at = "parked"
    /\ Remembered = "waiting_for_children"
    /\ IF Pending # {}
       THEN Leave("waiting-children")
       ELSE at' = "effect" /\ UNCHANGED <<job, pc, val, mem>>
    /\ UNCHANGED <<attempts, wake, redis, legacy, cached, world, history,
                   faults>>

\* What a step records when it completes: its value, or for a bulk step a
\* reference stamped with the time of memoization.
Completed ==
    Result("completed", val, IF Program[pc] = "runTasks" THEN clock ELSE 0)

\* Slip: the result is kept in memory and not persisted.
MemoizeUnsaved ==
    /\ at = "effect"
    /\ mem' = [mem EXCEPT ![pc] = Completed]
    /\ Answer(val)
    /\ UNCHANGED <<job, attempts, wake, redis, legacy, cached, world, execs,
                   faults>>

Memoize ==
    /\ at = "effect"
    /\ Persist(Completed)
    /\ Answer(val)
    /\ UNCHANGED <<job, attempts, wake, legacy, cached, world, execs, faults>>

\* Redis applies the write and the reply is lost: the attempt fails.
MemoizeUnanswered ==
    /\ at = "effect"
    /\ Blame
    /\ HSet(pc, Completed)
    /\ FailAttempt
    /\ UNCHANGED <<wake, legacy, cached, world, history>>

\* The handler returned.  BullMQ completes no job with pending children.
Finish ==
    /\ at = "next"
    /\ pc \notin Steps
    /\ IF Pending = {} THEN Leave("completed") /\ UNCHANGED attempts
       ELSE FailAttempt
    /\ UNCHANGED <<wake, redis, legacy, cached, world, history, faults>>

----------------------------------------------------------------------------
(* Faults and the world around the job *)

\* The process dies, or loses the job: BullMQ hands a stalled job out again.
Crash ==
    /\ at # "idle"
    /\ Blame
    /\ Leave("waiting")
    /\ cached' = FALSE
    /\ UNCHANGED <<attempts, wake, redis, legacy, world, history>>

\* The handler, an effect or a Redis call throws.
Throw ==
    /\ at # "idle"
    /\ Blame
    /\ FailAttempt
    /\ UNCHANGED <<wake, redis, legacy, cached, world, history>>

\* Somebody retries the failed job.
Retry ==
    /\ job = "failed"
    /\ job' = "waiting"
    /\ UNCHANGED <<attempts, wake, attempt, redis, legacy, cached, world,
                   history, faults>>

\* BullMQ wakes a delayed job when it is due ...
Wake ==
    /\ job = "delayed"
    /\ clock >= wake
    /\ job' = "waiting"
    /\ UNCHANGED <<attempts, wake, attempt, redis, legacy, cached, world,
                   history, faults>>

\* ... or earlier, when somebody promotes it.
Promote ==
    /\ job = "delayed"
    /\ clock < wake
    /\ job' = "waiting"
    /\ UNCHANGED <<attempts, wake, attempt, redis, legacy, cached, world,
                   history, faults>>

ChildrenDone ==
    /\ job = "waiting-children"
    /\ Pending = {}
    /\ job' = "waiting"
    /\ UNCHANGED <<attempts, wake, attempt, redis, legacy, cached, world,
                   history, faults>>

MoveChild(c, from, to) ==
    /\ children[c].state \in from
    /\ children' = [children EXCEPT ![c].state = to]
    /\ UNCHANGED <<job, attempts, wake, attempt, redis, legacy, cached, clock,
                   history>>

ChildCompletes(c) == MoveChild(c, {"waiting"}, "completed") /\ UNCHANGED faults
ChildFails(c)     == MoveChild(c, {"waiting"}, "failed") /\ Blame
RetryChild(c)     == MoveChild(c, {"failed"}, "waiting") /\ UNCHANGED faults
RemoveChild(c)    == /\ Removal
                     /\ MoveChild(c, {"completed", "failed"}, "removed")
                     /\ UNCHANGED faults

\* Time passes, and Redis drops the hash when its TTL is over.
Tick ==
    /\ clock < MaxClock \/ (job = "delayed" /\ clock < wake)
    /\ clock' = clock + 1
    /\ IF expires # 0 /\ clock + 1 >= expires
       THEN store' = Blank /\ expires' = 0 /\ lost' = TRUE
       ELSE UNCHANGED redis
    /\ UNCHANGED <<job, attempts, wake, attempt, legacy, cached, children,
                   history, faults>>

----------------------------------------------------------------------------
AttemptStep ==
    \/ Hydrate \/ StartMigration \/ MigrateStep \/ StripLegacy
    \/ Replay \/ RecoverChild \/ ReadRecovered \/ ResumeSleep \/ ResumeJoin
    \/ RunEffect \/ LaunchChildren \/ SaveChildRef \/ ChildAnswers
    \/ ChildThrows \/ BeginSleep \/ BeginJoin \/ MoveToDelayed
    \/ MoveToWaitingChildren \/ Memoize \/ Finish

Fault == RejectPayload \/ MemoizeUnanswered \/ Crash \/ Throw

BullStep == PickUp \/ Wake \/ ChildrenDone

ChildStep ==
    \E c \in Kids : ChildCompletes(c) \/ ChildFails(c) \/ RetryChild(c)
                    \/ RemoveChild(c)

Next ==
    \/ AttemptStep \/ Fault \/ BullStep \/ ChildStep \/ Tick \/ Promote
    \/ Retry

Spec == Init /\ [][Next]_vars

\* A live worker runs its continuations and takes waiting jobs, time passes,
\* and every child's own worker finishes it.  Nobody has to retry anything.
Fairness ==
    /\ WF_vars(AttemptStep)
    /\ WF_vars(PickUp) /\ WF_vars(Wake) /\ WF_vars(ChildrenDone)
    /\ WF_vars(Tick)
    /\ WF_vars(\E c \in Kids : ChildCompletes(c) \/ ChildFails(c))

FairSpec == Spec /\ Fairness

----------------------------------------------------------------------------
(* Properties *)

\* What the next attempt will find recorded.
Record == IF legacy = Blank THEN store ELSE legacy

Done == {s \in Steps : Record[s].status = "completed"}

\* Every attempt gives the handler the same value for a step up to JSON, so a
\* replayed handler that looks at nothing JSON drops takes the branch it took
\* before: what _executeStep returns raw after core logic and what a later
\* attempt reads back agree in what JSON keeps.  A reference to
\* one job may come back undefined, after the job was removed; a bulk
\* reference may even come back with fewer jobs (see Reconstruct) and is no
\* part of this.
ReplayStable ==
    lost \/ \A s \in Steps \ {t \in Steps : Program[t] = "runTasks"} :
        \A v, w \in {Json(x) : x \in seen[s]} :
            \/ v = w
            \/ Program[s] = "runTask" /\ v \cap w = {}
                 /\ \A c \in v \cup w : children[c].state = "removed"

\* The record has no hole: a step is recorded only after all steps before it
\* have completed, so a resumed handler never runs a step twice around a
\* step it still has to run, and a job completes with all of them on record.
\* A job that BullMQ holds back has the sleep it is in, and until when, on
\* record: the record comes before the move (step-executor.ts:488-493).
NoHole ==
    lost \/
    /\ \A s \in Steps :
           Record[s].status \notin {"none", "errored"} => 1..(s - 1) \subseteq Done
    /\ job = "completed" => Done = Steps
    /\ job = "delayed" =>
           \E s \in Steps : Record[s].status = "sleeping" /\ Record[s].at = wake

\* At-least-once, and no worse: each execution of a step's own logic beyond
\* the first is paid for by a crash, a lost reply or an error of its own.
RedoneOnlyByFault ==
    lost \/ \A s \in Steps : execs[s] <= 1 + faults

\* Completed means completed: a recorded result is never overwritten and its
\* step never executes again, over crashes, retries and the migration.
CompletedStepsStay ==
    [][\A s \in Done : lost' \/ (Record'[s] = Record[s] /\ execs'[s] = execs[s])]_vars

\* A sleep keeps the deadline it was given first and ends no earlier, also
\* when the job is promoted or its worker dies.
SleepKeepsDeadline ==
    [][\A s \in Steps :
         Record[s].status = "sleeping" /\ Record'[s] # Record[s] =>
             lost' \/ (Record'[s].status = "completed" /\ clock >= Record[s].at)]_vars

\* Whatever happens, the job gets somewhere: it completes, or fails for
\* somebody to look at, or waits for a child that failed.
AlwaysSettles ==
    []<>(\/ job \in {"completed", "failed"}
         \/ job = "waiting-children" /\ \E c \in Kids : children[c].state = "failed")

\* The job implements the abstract workflow: its results are the values on
\* record, and they only ever grow.
Durable == INSTANCE DurableWorkflow WITH
    Length  <- Len(Program),
    results <- [i \in 1..Cardinality(Done) |-> Record[i].data],
    outcome <- IF job \in {"completed", "failed"} THEN job ELSE "open"

ImplementsDurable == Durable!Spec
=============================================================================
