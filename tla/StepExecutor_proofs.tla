-------------------------- MODULE StepExecutor_proofs --------------------------
(***************************************************************************)
(* Theorems about StepExecutor, for any handler, any inline state an older *)
(* release may have left, and any number of attempts, faults and children. *)
(***************************************************************************)
EXTENDS StepExecutor, SequenceTheorems, FiniteSetTheorems, TLAPS

-----------------------------------------------------------------------------
(* The inductive invariant *)

\* The attempt has its step state in memory and runs the handler.
Running == at \notin {"idle", "fetched", "migrating"}

\* Where an attempt can be, and what it holds there.
Places ==
    /\ at = "idle" <=> job # "active"
    /\ at \in {"idle", "fetched"} => pc = 1
    /\ at \notin {"idle", "fetched", "migrating", "next"} => pc \in Steps
    /\ at \in {"started", "await", "recover"} => Program[pc] = "runTaskAndWait"
    /\ at = "parked" => Program[pc] \in {"sleep", "sleepUntil", "waitForChildTasks"}
    /\ at = "started" => val # {} /\ 0 \notin val
    /\ at = "effect" /\ Program[pc] = "runTask" =>
           val \subseteq Kids /\ \A c, d \in val : c = d

\* Who waits for a child has its reference, and what is kept as JSON is what
\* JSON keeps.
Referring ==
    \A s \in Steps :
        /\ \A r \in {mem[s], store[s], legacy[s]} :
               r.status = "waiting_for_child" => r.data # {}
        /\ 0 \notin store[s].data /\ 0 \notin legacy[s].data

\* The migration copies entry by entry, and may be repeated.
Migrating ==
    /\ legacy # Blank => ~Running /\ \A s \in Steps : store[s] \in {Absent, legacy[s]}
    /\ at = "migrating" => /\ legacy # Blank /\ mem = legacy
                           /\ \A s \in Steps : s < pc => store[s] = legacy[s]

\* What the attempt remembers of the steps it has not passed is what is
\* recorded; of those it has passed it may have the raw result.
Remembering == Running => \A s \in Steps : s >= pc => mem[s] = store[s]

\* A step is recorded after the steps before it, and the attempt has passed
\* only completed ones.
Ordered ==
    /\ \A s, t \in Steps : t < s /\ Record[s].status \notin {"none", "errored"} =>
           Record[t].status = "completed"
    /\ Running => \A t \in Steps : t < pc => Record[t].status = "completed"
    /\ job = "completed" => legacy = Blank /\ \A s \in Steps : Record[s].status = "completed"
    /\ job = "delayed" =>
           \E s \in Steps : Record[s].status = "sleeping" /\ Record[s].at = wake

\* What is recorded of the step the attempt is at.
Standing ==
    /\ at \in {"effect", "started", "await", "recover", "parked"} =>
           Record[pc].status # "completed"
    /\ at = "started" => Record[pc].status \in {"none", "errored"}
    /\ at \in {"await", "recover"} => Record[pc].status = "waiting_for_child"
    /\ at = "effect" /\ Record[pc].status = "sleeping" => clock >= Record[pc].at

\* The last execution of the step was for something.
Owed(s) ==
    \/ Record[s].status \in {"completed", "waiting_for_child"}
    \/ pc = s /\ at \in {"effect", "started", "await", "recover"}

Paid ==
    \A s \in Steps : /\ execs[s] <= 1 + faults
                     /\ ~Owed(s) => execs[s] <= faults

\* The values given to the handler are the recorded one up to JSON, or what is
\* left of it.
Given ==
    \A s \in Steps :
        /\ Record[s].status # "completed" => seen[s] = {}
        /\ Record[s].status = "completed" /\ Program[s] = "runTask" =>
               Record[s].data \subseteq Kids /\ \A c, d \in Record[s].data : c = d
        /\ Program[s] # "runTasks" => \A v \in seen[s] :
               \/ Json(v) = Record[s].data
               \/ /\ Program[s] = "runTask" /\ v = {}
                  /\ \A c \in Record[s].data : children[c].state = "removed"

\* The inductive invariant.
EInv ==
    /\ TypeOK
    /\ Places
    /\ Referring
    /\ lost \/ (Migrating /\ Remembering /\ Ordered /\ Standing /\ Paid /\ Given)

-----------------------------------------------------------------------------
(* Lemmas *)

\* The steps are numbered, and nothing is recorded in the empty state.
LEMMA StepFacts ==
    /\ Steps = 1..Len(Program) /\ Len(Program) \in Nat
    /\ Program \in [Steps -> Kind]
    /\ Absent \in StepResult /\ Absent.status = "none" /\ Absent.data = {}
    /\ Blank \in [Steps -> StepResult]
    /\ \A s \in Steps : Blank[s] = Absent
  <1>1. Steps = 1..Len(Program) /\ Len(Program) \in Nat /\ Program \in [Steps -> Kind]
    BY StepAssumption DEF Steps
  <1>2. Absent \in StepResult /\ Absent.status = "none" /\ Absent.data = {}
    BY DEF Absent, Result, StepResult, Status
  <1>3. QED
    BY <1>1, <1>2 DEF Blank

\* The children are numbered from 1.
LEMMA KidFacts ==
    ASSUME TypeOK
    PROVE  /\ Kids = 1..Len(children) /\ Len(children) \in Nat
           /\ Kids \subseteq Nat
           /\ \A c \in Kids : children[c] \in Child
  BY DEF TypeOK, Kids

\* The record is one of the two places.
LEMMA RecordFacts ==
    ASSUME TypeOK
    PROVE  /\ Record \in [Steps -> StepResult]
           /\ Running /\ Migrating => Record = store
  BY DEF TypeOK, Record, Migrating

\* What an attempt that runs remembers of the step it is at is the record.
LEMMA RemembersRecord ==
    ASSUME EInv, ~lost, Running, pc \in Steps
    PROVE  Record[pc] = mem[pc]
  <1>1. Record = store
    BY RecordFacts DEF EInv
  <1>2. pc >= pc
    BY StepFacts
  <1>3. QED
    BY <1>1, <1>2 DEF EInv, Remembering

\* What JSON makes of a result.
LEMMA StoredFacts ==
    ASSUME NEW r \in StepResult
    PROVE  /\ Stored(r) \in StepResult
           /\ Stored(r).status = r.status /\ Stored(r).at = r.at
           /\ Stored(r).data = Json(r.data) /\ 0 \notin Stored(r).data
           /\ 0 \notin r.data => Stored(r) = r
  BY DEF Stored, Json, StepResult

\* Where the job and its attempt are once the attempt has left.
LEMMA LeaveEffect ==
    ASSUME TypeOK, NEW s \in JobState, Leave(s)
    PROVE  /\ job' = s /\ at' = "idle" /\ pc' = 1 /\ val' = {} /\ mem' = Blank
           /\ job' \in JobState /\ at' \in Place /\ val' \in SUBSET Nat
           /\ pc' \in 1..(Len(Program) + 1)
           /\ mem' \in [Steps -> StepResult]
  BY StepFacts DEF Leave, Place

LEMMA FailEffect ==
    ASSUME TypeOK, FailAttempt
    PROVE  /\ attempts' \in 0..MaxAttempts
           /\ \E s \in {"waiting", "failed"} : Leave(s)
  <1> DEFINE n == IF attempts < MaxAttempts THEN attempts + 1 ELSE attempts
  <1>1. n \in 0..MaxAttempts
    BY StepAssumption DEF TypeOK
  <1>2. attempts' = n /\ Leave(IF n < MaxAttempts THEN "waiting" ELSE "failed")
    BY DEF FailAttempt
  <1> HIDE DEF n
  <1>3. QED
    BY <1>1, <1>2

\* The attempt ends without a trace in the record.
LEMMA EndKeeps ==
    ASSUME EInv, NEW s \in JobState \ {"active"}, Leave(s),
           attempts' \in 0..MaxAttempts, wake' \in Nat, cached' \in BOOLEAN,
           UNCHANGED <<store, expires, lost, legacy, children, clock, execs, seen>>,
           faults' \in 0..MaxFaults, faults' >= faults,
           at \in {"effect", "started"} => faults' >= faults + 1,
           s = "completed" /\ ~lost =>
               legacy = Blank /\ \A t \in Steps : Record[t].status = "completed",
           s = "delayed" /\ ~lost =>
               \E t \in Steps : Record[t].status = "sleeping" /\ Record[t].at = wake'
    PROVE  EInv'
  <1>1. /\ job' = s /\ at' = "idle" /\ pc' = 1 /\ val' = {} /\ mem' = Blank
        /\ job' \in JobState /\ at' \in Place /\ val' \in SUBSET Nat
        /\ pc' \in 1..(Len(Program) + 1)
        /\ mem' \in [Steps -> StepResult]
    BY LeaveEffect DEF EInv
  <1>2. TypeOK'
    BY <1>1 DEF EInv, TypeOK
  <1>3. Places'
    BY <1>1 DEF Places
  <1>4. Referring'
    <2>1. \A t \in Steps : Blank[t].status # "waiting_for_child"
      BY StepFacts
    <2>2. QED
      BY <1>1, <2>1 DEF EInv, Referring
  <1>5. Record' = Record
    BY DEF Record
  <1>6. ASSUME ~lost
        PROVE  (Migrating /\ Remembering /\ Ordered /\ Standing /\ Paid /\ Given)'
    <2>0. Migrating /\ Ordered /\ Standing /\ Paid /\ Given
      BY <1>6 DEF EInv
    <2>1. Migrating' /\ Remembering'
      BY <1>1, <2>0 DEF Migrating, Remembering, Running
    <2>2. Ordered'
      BY <1>1, <1>5, <1>6, <2>0 DEF Ordered, Running
    <2>3. Standing'
      BY <1>1 DEF Standing
    <2>4. Paid'
      <3> SUFFICES ASSUME NEW t \in Steps
                   PROVE  execs[t] <= 1 + faults' /\ (~Owed(t)' => execs[t] <= faults')
        BY DEF Paid
      <3>1. execs[t] \in Nat /\ faults \in Nat /\ faults' \in Nat
        BY StepAssumption DEF EInv, TypeOK
      <3>2. execs[t] <= 1 + faults /\ (~Owed(t) => execs[t] <= faults)
        BY <2>0 DEF Paid
      <3>3. Owed(t) /\ ~Owed(t)' => at \in {"effect", "started"}
        BY <1>1, <1>5, <2>0 DEF Owed, Standing
      <3>4. QED
        BY <3>1, <3>2, <3>3
    <2>5. Given'
      BY <1>5, <2>0 DEF Given, Kids
    <2>6. QED
      BY <2>1, <2>2, <2>3, <2>4, <2>5
  <1>7. QED
    BY <1>2, <1>3, <1>4, <1>6 DEF EInv

\* The attempt goes from one await to the next and records nothing.
LEMMA MoveKeeps ==
    ASSUME EInv, Running, Running',
           UNCHANGED <<job, attempts, wake, pc, mem, store, expires, lost, legacy, children,
                       clock, execs, seen, faults>>,
           cached' \in BOOLEAN, val' \in SUBSET Nat, at' \in Place, Places',
           ~lost => Standing',
           at \in {"effect", "started", "await", "recover"} =>
               at' \in {"effect", "started", "await", "recover"}
    PROVE  EInv'
  <1>1. TypeOK'
    BY DEF EInv, TypeOK
  <1>2. Referring'
    BY DEF EInv, Referring
  <1>3. Record' = Record
    BY DEF Record
  <1>4. ASSUME ~lost
        PROVE  (Migrating /\ Remembering /\ Ordered /\ Paid /\ Given)'
    <2>0. Migrating /\ Remembering /\ Ordered /\ Standing /\ Paid /\ Given
      BY <1>4 DEF EInv
    <2>1. Migrating' /\ Remembering'
      BY <2>0 DEF Migrating, Remembering, Running
    <2>2. Ordered'
      BY <1>3, <2>0 DEF Ordered
    <2>3. Paid'
      BY <1>3, <2>0 DEF Paid, Owed
    <2>4. Given'
      BY <1>3, <2>0 DEF Given, Kids
    <2>5. QED
      BY <2>1, <2>2, <2>3, <2>4
  <1>5. QED
    BY <1>1, <1>2, <1>4 DEF EInv

-----------------------------------------------------------------------------
(* The attempt ends *)

LEMMA FailKeeps ==
    ASSUME EInv, FailAttempt, wake' = wake, cached' \in BOOLEAN,
           UNCHANGED <<store, expires, lost, legacy, children, clock, execs, seen>>,
           faults' \in 0..MaxFaults, faults' >= faults,
           at \in {"effect", "started"} => faults' >= faults + 1
    PROVE  EInv'
  <1>1. PICK s \in {"waiting", "failed"} : Leave(s)
    BY FailEffect DEF EInv
  <1>2. attempts' \in 0..MaxAttempts /\ wake' \in Nat
    BY FailEffect DEF EInv, TypeOK
  <1>3. s \in JobState \ {"active"} /\ s \notin {"completed", "delayed"}
    BY DEF JobState
  <1>4. QED
    BY <1>1, <1>2, <1>3, EndKeeps

\* A fault is counted.
LEMMA BlameEffect ==
    ASSUME TypeOK, Blame
    PROVE  faults' \in 0..MaxFaults /\ faults' >= faults /\ faults' >= faults + 1
  BY StepAssumption DEF TypeOK, Blame

LEMMA SameFaults ==
    ASSUME TypeOK, faults' = faults
    PROVE  faults' \in 0..MaxFaults /\ faults' >= faults
  BY StepAssumption DEF TypeOK

LEMMA FaultKeeps ==
    ASSUME EInv, RejectPayload \/ Crash \/ Throw
    PROVE  EInv'
  <1>1. faults' \in 0..MaxFaults /\ faults' >= faults /\ faults' >= faults + 1
    BY BlameEffect DEF EInv, RejectPayload, Crash, Throw
  <1>2. /\ UNCHANGED <<store, expires, lost, legacy, children, clock, execs, seen>>
        /\ wake' = wake /\ wake' \in Nat /\ cached' \in BOOLEAN
    BY DEF RejectPayload, Crash, Throw, redis, world, history, EInv, TypeOK
  <1>3. CASE RejectPayload
    <2>1. attempts' \in 0..MaxAttempts /\ Leave("failed")
      BY <1>3, StepAssumption DEF RejectPayload
    <2>2. "failed" \in JobState \ {"active"}
      BY DEF JobState
    <2>3. QED
      BY <1>1, <1>2, <2>1, <2>2, EndKeeps
  <1>4. CASE Crash
    <2>1. attempts' \in 0..MaxAttempts /\ Leave("waiting")
      BY <1>4 DEF Crash, EInv, TypeOK
    <2>2. "waiting" \in JobState \ {"active"}
      BY DEF JobState
    <2>3. QED
      BY <1>1, <1>2, <2>1, <2>2, EndKeeps
  <1>5. CASE Throw
    BY <1>1, <1>2, <1>5, FailKeeps DEF Throw
  <1>6. QED
    BY <1>3, <1>4, <1>5

LEMMA ChildThrowsKeeps ==
    ASSUME EInv, ChildThrows
    PROVE  EInv'
  <1>1. /\ UNCHANGED <<store, expires, lost, legacy, children, clock, execs, seen>>
        /\ wake' = wake /\ cached' \in BOOLEAN /\ faults' = faults
        /\ at = "await" /\ FailAttempt
    BY DEF ChildThrows, redis, world, history, EInv, TypeOK
  <1>2. faults' \in 0..MaxFaults /\ faults' >= faults
    BY <1>1, SameFaults DEF EInv
  <1>3. QED
    BY <1>1, <1>2, FailKeeps

LEMMA MoveToDelayedKeeps ==
    ASSUME EInv, MoveToDelayed
    PROVE  EInv'
  <1>1. /\ UNCHANGED <<store, expires, lost, legacy, children, clock, execs, seen>>
        /\ cached' \in BOOLEAN /\ faults' = faults /\ at = "parked" /\ Leave("delayed")
        /\ attempts' \in 0..MaxAttempts
    BY DEF MoveToDelayed, redis, world, history, EInv, TypeOK
  <1>2. faults' \in 0..MaxFaults /\ faults' >= faults
    BY <1>1, SameFaults DEF EInv
  <1>3. wake' \in Nat
    <2>1. pc \in Steps
      BY <1>1 DEF EInv, Places
    <2>2. mem[pc] \in StepResult
      BY <2>1 DEF EInv, TypeOK
    <2>3. QED
      BY <2>2 DEF MoveToDelayed, StepResult
  <1>4. "delayed" \in JobState \ {"active"}
    BY DEF JobState
  <1>5. ASSUME ~lost
        PROVE  \E t \in Steps : Record[t].status = "sleeping" /\ Record[t].at = wake'
    <2>1. pc \in Steps /\ Running
      BY <1>1 DEF EInv, Places, Running
    <2>2. Record[pc] = mem[pc]
      BY <1>5, <2>1, RemembersRecord
    <2>3. QED
      BY <2>1, <2>2 DEF MoveToDelayed, Remembered
  <1>6. QED
    BY <1>1, <1>2, <1>3, <1>4, <1>5, EndKeeps

LEMMA FinishKeeps ==
    ASSUME EInv, Finish
    PROVE  EInv'
  <1>1. /\ UNCHANGED <<store, expires, lost, legacy, children, clock, execs, seen>>
        /\ wake' = wake /\ wake' \in Nat /\ cached' \in BOOLEAN /\ faults' = faults
        /\ at = "next" /\ pc \notin Steps
    BY DEF Finish, redis, world, history, EInv, TypeOK
  <1>2. faults' \in 0..MaxFaults /\ faults' >= faults
    BY <1>1, SameFaults DEF EInv
  <1>3. CASE FailAttempt
    BY <1>1, <1>2, <1>3, FailKeeps
  <1>4. CASE Leave("completed") /\ attempts' = attempts
    <2>1. "completed" \in JobState \ {"active"} /\ attempts' \in 0..MaxAttempts
      BY <1>4 DEF JobState, EInv, TypeOK
    <2>2. ASSUME ~lost
          PROVE  legacy = Blank /\ \A t \in Steps : Record[t].status = "completed"
      <3>1. Running
        BY <1>1 DEF Running
      <3>2. \A t \in Steps : t < pc
        BY <1>1, StepFacts DEF EInv, TypeOK
      <3>3. QED
        BY <2>2, <3>1, <3>2 DEF EInv, Ordered, Migrating
    <2>3. QED
      BY <1>1, <1>2, <1>4, <2>1, <2>2, EndKeeps
  <1>5. QED
    BY <1>3, <1>4 DEF Finish

-----------------------------------------------------------------------------
(* The attempt goes on *)

LEMMA MoveToWaitingChildrenKeeps ==
    ASSUME EInv, MoveToWaitingChildren
    PROVE  EInv'
  <1>1. /\ UNCHANGED <<store, expires, lost, legacy, children, clock, execs, seen>>
        /\ attempts' = attempts /\ wake' = wake /\ wake' \in Nat /\ cached' \in BOOLEAN
        /\ faults' = faults /\ at = "parked" /\ mem[pc].status = "waiting_for_children"
        /\ attempts' \in 0..MaxAttempts
    BY DEF MoveToWaitingChildren, redis, world, history, EInv, TypeOK, Remembered
  <1>2. faults' \in 0..MaxFaults /\ faults' >= faults
    BY <1>1, SameFaults DEF EInv
  <1>3. CASE Leave("waiting-children")
    <2>1. "waiting-children" \in JobState \ {"active"}
      BY DEF JobState
    <2>2. QED
      BY <1>1, <1>2, <1>3, <2>1, EndKeeps
  <1>4. CASE at' = "effect" /\ UNCHANGED <<job, pc, val, mem>>
    <2>1. Running /\ Running' /\ at' \in Place /\ val' \in SUBSET Nat
      BY <1>1, <1>4 DEF Running, Place, EInv, TypeOK
    <2>2. Places'
      BY <1>1, <1>4 DEF EInv, Places
    <2>3. ASSUME ~lost
          PROVE  Standing'
      <3>1. pc \in Steps
        BY <1>1 DEF EInv, Places
      <3>2. Record[pc] = mem[pc] /\ Record' = Record
        BY <1>1, <1>4, <2>1, <2>3, <3>1, RemembersRecord DEF Record
      <3>3. QED
        BY <1>1, <1>4, <3>2 DEF Standing
    <2>4. QED
      BY <1>1, <1>4, <2>1, <2>2, <2>3, MoveKeeps
  <1>5. QED
    BY <1>3, <1>4 DEF MoveToWaitingChildren

\* An attempt at a step that is recorded and not yet completed.
LEMMA ResumeKeeps ==
    ASSUME EInv, ResumeSleep \/ ResumeJoin
    PROVE  EInv'
  <1>1. /\ UNCHANGED <<job, attempts, wake, pc, mem, val, store, expires, lost, legacy, cached,
                       children, clock, execs, seen, faults>>
        /\ at = "next" /\ pc \in Steps /\ at' \in {"effect", "parked"}
        /\ mem[pc].status \in {"sleeping", "waiting_for_children"}
        /\ Program[pc] \in {"sleep", "sleepUntil", "waitForChildTasks"}
        /\ at' = "effect" /\ mem[pc].status = "sleeping" => clock >= mem[pc].at
    BY DEF ResumeSleep, ResumeJoin, redis, world, history, AtStep, Remembered
  <1>2. /\ Running /\ Running' /\ at' \in Place /\ val' \in SUBSET Nat
        /\ cached' \in BOOLEAN
    BY <1>1 DEF Running, Place, EInv, TypeOK
  <1>3. Places'
    BY <1>1 DEF EInv, Places
  <1>4. ASSUME ~lost
        PROVE  Standing'
    <2>1. Record[pc] = mem[pc] /\ Record' = Record
      BY <1>1, <1>2, <1>4, RemembersRecord DEF Record
    <2>2. QED
      BY <1>1, <2>1 DEF Standing
  <1>5. QED
    BY <1>1, <1>2, <1>3, <1>4, MoveKeeps

LEMMA ChildAnswersKeeps ==
    ASSUME EInv, ChildAnswers \/ ReadRecovered
    PROVE  EInv'
  <1>1. /\ UNCHANGED <<job, attempts, wake, pc, mem, store, expires, lost, legacy, cached,
                       children, clock, execs, seen, faults>>
        /\ at \in {"await", "recover"} /\ at' = "effect" /\ val' \subseteq val
    BY DEF ChildAnswers, ReadRecovered, redis, world, history
  <1>2. /\ Running /\ Running' /\ at' \in Place /\ val' \in SUBSET Nat
        /\ cached' \in BOOLEAN
    BY <1>1 DEF Running, Place, EInv, TypeOK
  <1>3. Places'
    BY <1>1 DEF EInv, Places
  <1>4. ASSUME ~lost
        PROVE  Standing'
    <2>1. Record' = Record
      BY <1>1 DEF Record
    <2>2. QED
      BY <1>1, <1>4, <2>1 DEF EInv, Standing
  <1>5. QED
    BY <1>1, <1>2, <1>3, <1>4, MoveKeeps

\* A child that failed or is gone fails the attempt; its reference stays.
LEMMA RecoverChildKeeps ==
    ASSUME EInv, RecoverChild
    PROVE  EInv'
  <1>1. /\ UNCHANGED <<store, expires, lost, legacy, children, clock, execs, seen, faults>>
        /\ wake' = wake /\ cached' \in BOOLEAN
        /\ at = "next" /\ pc \in Steps /\ mem[pc].status = "waiting_for_child"
        /\ Program[pc] = "runTaskAndWait"
    BY DEF RecoverChild, redis, world, history, AtStep, Remembered
  <1>2. faults' \in 0..MaxFaults /\ faults' >= faults
    BY <1>1, SameFaults DEF EInv
  <1>3. CASE FailAttempt
    BY <1>1, <1>2, <1>3, FailKeeps
  <1>4. CASE ~FailAttempt
    <2>1. PICK c \in mem[pc].data :
              /\ at' \in {"recover", "await"} /\ val' = {c}
              /\ UNCHANGED <<job, attempts, pc, mem>>
      <3>1. mem[pc].data # {}
        BY <1>1 DEF EInv, Referring
      <3> DEFINE c == CHOOSE k \in mem[pc].data : TRUE
      <3>2. c \in mem[pc].data
        BY <3>1
      <3>3. /\ at' \in {"recover", "await"} /\ val' = {c}
            /\ UNCHANGED <<job, attempts, pc, mem>>
        BY <1>4 DEF RecoverChild
      <3> HIDE DEF c
      <3>4. QED
        BY <3>2, <3>3
    <2>2. c \in Nat
      <3>1. mem[pc] \in StepResult
        BY <1>1 DEF EInv, TypeOK
      <3>2. QED
        BY <3>1 DEF StepResult
    <2>3. Running /\ Running' /\ at' \in Place /\ val' \in SUBSET Nat
      BY <1>1, <2>1, <2>2 DEF Running, Place
    <2>4. Places'
      BY <1>1, <2>1 DEF EInv, Places
    <2>5. ASSUME ~lost
          PROVE  Standing'
      <3>1. Record[pc] = mem[pc] /\ Record' = Record
        BY <1>1, <2>1, <2>3, <2>5, RemembersRecord DEF Record
      <3>2. QED
        BY <1>1, <2>1, <3>1 DEF Standing
    <2>6. QED
      BY <1>1, <2>1, <2>3, <2>4, <2>5, MoveKeeps
  <1>5. QED
    BY <1>3, <1>4

-----------------------------------------------------------------------------
(* The attempt begins *)

LEMMA HydrateKeeps ==
    ASSUME EInv, Hydrate
    PROVE  EInv'
  <1>1. /\ UNCHANGED <<job, attempts, wake, pc, val, store, expires, lost, legacy, cached,
                       children, clock, execs, seen, faults>>
        /\ at = "fetched" /\ at' = "next" /\ legacy = Blank /\ mem' = store
    BY DEF Hydrate, redis, world, history
  <1>2. TypeOK'
    BY <1>1 DEF EInv, TypeOK, Place
  <1>3. Places' /\ Referring'
    BY <1>1 DEF EInv, Places, Referring
  <1>4. Record' = Record /\ pc = 1
    BY <1>1 DEF Record, EInv, Places
  <1>5. ASSUME ~lost
        PROVE  (Migrating /\ Remembering /\ Ordered /\ Standing /\ Paid /\ Given)'
    <2>0. Migrating /\ Ordered /\ Paid /\ Given
      BY <1>5 DEF EInv
    <2>1. Migrating' /\ Remembering' /\ Standing'
      BY <1>1, <2>0 DEF Migrating, Remembering, Running, Standing
    <2>2. Ordered'
      <3>1. \A t \in Steps : ~(t < pc)
        BY <1>4, StepFacts
      <3>2. QED
        BY <1>1, <1>4, <2>0, <3>1 DEF Ordered
    <2>3. Paid' /\ Given'
      BY <1>1, <1>4, <2>0 DEF Paid, Owed, Given, Kids
    <2>4. QED
      BY <2>1, <2>2, <2>3
  <1>6. QED
    BY <1>1, <1>2, <1>3, <1>5 DEF EInv

LEMMA StartMigrationKeeps ==
    ASSUME EInv, StartMigration
    PROVE  EInv'
  <1>1. /\ UNCHANGED <<job, attempts, wake, pc, val, store, expires, lost, legacy, cached,
                       children, clock, execs, seen, faults>>
        /\ at = "fetched" /\ at' = "migrating" /\ legacy # Blank /\ mem' = legacy
    BY DEF StartMigration, redis, world, history
  <1>2. TypeOK'
    BY <1>1 DEF EInv, TypeOK, Place
  <1>3. Places' /\ Referring'
    BY <1>1 DEF EInv, Places, Referring
  <1>4. Record' = Record /\ pc = 1
    BY <1>1 DEF Record, EInv, Places
  <1>5. ASSUME ~lost
        PROVE  (Migrating /\ Remembering /\ Ordered /\ Standing /\ Paid /\ Given)'
    <2>0. Migrating /\ Ordered /\ Paid /\ Given
      BY <1>5 DEF EInv
    <2>1. \A t \in Steps : ~(t < pc)
      BY <1>4, StepFacts
    <2>2. Migrating' /\ Remembering' /\ Standing'
      BY <1>1, <2>0, <2>1 DEF Migrating, Remembering, Running, Standing
    <2>3. Ordered'
      BY <1>1, <1>4, <2>0 DEF Ordered, Running
    <2>4. Paid' /\ Given'
      BY <1>1, <1>4, <2>0 DEF Paid, Owed, Given, Kids
    <2>5. QED
      BY <2>2, <2>3, <2>4
  <1>6. QED
    BY <1>1, <1>2, <1>3, <1>5 DEF EInv

\* A write to the Redis hash.
LEMMA HSetEffect ==
    ASSUME TypeOK, NEW s \in Steps, NEW r \in StepResult, HSet(s, r)
    PROVE  /\ store' \in [Steps -> StepResult] /\ store'[s] = Stored(r)
           /\ \A t \in Steps \ {s} : store'[t] = store[t]
           /\ expires' \in Nat /\ lost' = lost
  <1>1. Expiry(r) \in Nat
    <2>1. r.at \in Nat
      BY DEF StepResult
    <2>2. {clock, expires, OrphanTtl, WakeBuffer} \subseteq Nat
      BY StepAssumption DEF TypeOK
    <2>3. QED
      BY <2>1, <2>2 DEF Expiry
  <1>2. QED
    BY <1>1, StoredFacts DEF HSet, TypeOK

\* One entry more is in Redis; until all are, the inline state counts.
LEMMA MigrateStepKeeps ==
    ASSUME EInv, MigrateStep
    PROVE  EInv'
  <1>1. /\ UNCHANGED <<job, attempts, wake, at, val, mem, legacy, cached,
                       children, clock, execs, seen, faults>>
        /\ at = "migrating" /\ pc \in Steps /\ pc' = pc + 1
    BY DEF MigrateStep, world, history
  <1>2. /\ legacy[pc] \in StepResult
        /\ pc \in Nat /\ pc' \in 1..(Len(Program) + 1)
    BY <1>1, StepFacts DEF EInv, TypeOK
  <1>3. /\ store' \in [Steps -> StepResult] /\ expires' \in Nat /\ lost' = lost
        /\ \A t \in Steps \ {pc} : store'[t] = store[t]
        /\ store'[pc] = IF legacy[pc] = Absent THEN store[pc] ELSE legacy[pc]
    <2>1. CASE legacy[pc] = Absent
      BY <1>1, <2>1 DEF MigrateStep, redis, EInv, TypeOK
    <2>2. CASE legacy[pc] # Absent
      <3>1. Stored(legacy[pc]) = legacy[pc]
        BY <1>1, <1>2, StoredFacts DEF EInv, Referring
      <3>2. QED
        BY <1>1, <1>2, <2>2, <3>1, HSetEffect DEF MigrateStep, EInv
    <2>3. QED
      BY <2>1, <2>2
  <1>4. TypeOK'
    BY <1>1, <1>2, <1>3 DEF EInv, TypeOK
  <1>5. Places'
    BY <1>1 DEF EInv, Places
  <1>6. Referring'
    BY <1>1, <1>3 DEF EInv, Referring
  <1>7. ASSUME ~lost
        PROVE  (Migrating /\ Remembering /\ Ordered /\ Standing /\ Paid /\ Given)'
    <2>0. Migrating /\ Ordered /\ Paid /\ Given
      BY <1>7 DEF EInv
    <2>1. legacy # Blank /\ Record = legacy /\ Record' = Record
      BY <1>1, <2>0 DEF Migrating, Record
    <2>2. Migrating'
      <3>1. \A t \in Steps : t < pc + 1 => t < pc \/ t = pc
        BY <1>1, StepFacts
      <3>2. store'[pc] = legacy[pc]
        BY <1>1, <1>3, <2>0, <2>1 DEF Migrating
      <3>3. QED
        BY <1>1, <1>3, <2>0, <3>1, <3>2 DEF Migrating, Running
    <2>3. Remembering' /\ Standing'
      BY <1>1 DEF Remembering, Running, Standing
    <2>4. Ordered'
      BY <1>1, <2>0, <2>1 DEF Ordered, Running
    <2>5. Paid' /\ Given'
      BY <1>1, <2>0, <2>1 DEF Paid, Owed, Given, Kids
    <2>6. QED
      BY <2>2, <2>3, <2>4, <2>5
  <1>8. QED
    BY <1>3, <1>4, <1>5, <1>6, <1>7 DEF EInv

\* The hash has all of it when the inline state goes.
LEMMA StripLegacyKeeps ==
    ASSUME EInv, StripLegacy
    PROVE  EInv'
  <1>1. /\ UNCHANGED <<job, attempts, wake, val, mem, store, expires, lost, cached,
                       children, clock, execs, seen, faults>>
        /\ at = "migrating" /\ pc \notin Steps /\ legacy' = Blank /\ at' = "next" /\ pc' = 1
    BY DEF StripLegacy, redis, world, history
  <1>2. TypeOK'
    BY <1>1, StepFacts DEF EInv, TypeOK, Place
  <1>3. Places'
    BY <1>1 DEF EInv, Places
  <1>4. Referring'
    <2>1. \A t \in Steps : Blank[t].status # "waiting_for_child" /\ 0 \notin Blank[t].data
      BY StepFacts
    <2>2. QED
      BY <1>1, <2>1 DEF EInv, Referring
  <1>5. ASSUME ~lost
        PROVE  (Migrating /\ Remembering /\ Ordered /\ Standing /\ Paid /\ Given)'
    <2>0. Migrating /\ Ordered /\ Paid /\ Given
      BY <1>5 DEF EInv
    <2>1. store = legacy
      <3>1. \A t \in Steps : t < pc
        BY <1>1, StepFacts DEF EInv, TypeOK
      <3>2. \A t \in Steps : store[t] = legacy[t]
        BY <1>1, <2>0, <3>1 DEF Migrating
      <3>3. QED
        BY <3>2 DEF EInv, TypeOK
    <2>2. Record' = Record /\ mem = store
      BY <1>1, <2>0, <2>1 DEF Record, Migrating
    <2>3. Migrating' /\ Remembering' /\ Standing'
      BY <1>1, <2>2 DEF Migrating, Remembering, Standing
    <2>4. Ordered'
      <3>1. \A t \in Steps : ~(t < 1)
        BY StepFacts
      <3>2. QED
        BY <1>1, <2>0, <2>2, <3>1 DEF Ordered
    <2>5. Paid' /\ Given'
      BY <1>1, <2>0, <2>2 DEF Paid, Owed, Given, Kids
    <2>6. QED
      BY <2>3, <2>4, <2>5
  <1>6. QED
    BY <1>1, <1>2, <1>3, <1>4, <1>5 DEF EInv

-----------------------------------------------------------------------------
(* Around the attempt *)

\* The job moves while no attempt runs.
LEMMA RestKeeps ==
    ASSUME EInv, at = "idle", job # "completed",
           UNCHANGED <<attempts, wake, pc, val, mem, store, expires, lost, legacy, cached,
                       children, clock, execs, seen, faults>>,
           \/ at' = "idle" /\ job' \in JobState \ {"active", "completed", "delayed"}
           \/ at' = "fetched" /\ job' = "active"
    PROVE  EInv'
  <1>1. TypeOK'
    BY DEF EInv, TypeOK, Place, JobState
  <1>2. Places' /\ Referring'
    BY DEF EInv, Places, Referring
  <1>3. Record' = Record
    BY DEF Record
  <1>4. ASSUME ~lost
        PROVE  (Migrating /\ Remembering /\ Ordered /\ Standing /\ Paid /\ Given)'
    <2>0. Migrating /\ Ordered /\ Paid /\ Given
      BY <1>4 DEF EInv
    <2>1. Migrating' /\ Remembering' /\ Standing'
      BY <2>0 DEF Migrating, Remembering, Running, Standing
    <2>2. Ordered'
      BY <1>3, <2>0 DEF Ordered, Running
    <2>3. Paid' /\ Given'
      BY <1>3, <2>0 DEF Paid, Owed, Given, Kids
    <2>4. QED
      BY <2>1, <2>2, <2>3
  <1>5. QED
    BY <1>1, <1>2, <1>4 DEF EInv

LEMMA BullStepKeeps ==
    ASSUME EInv, BullStep \/ Promote \/ Retry
    PROVE  EInv'
  <1>1. /\ UNCHANGED <<attempts, wake, pc, val, mem, store, expires, lost, legacy, cached,
                       children, clock, execs, seen, faults>>
        /\ job \in {"waiting", "delayed", "waiting-children", "failed"}
        /\ \/ at' = at /\ job' = "waiting"
           \/ at' = "fetched" /\ job' = "active"
    BY DEF BullStep, PickUp, Wake, ChildrenDone, Promote, Retry, attempt, redis, world, history
  <1>2. at = "idle"
    BY <1>1 DEF EInv, Places
  <1>3. "waiting" \in JobState \ {"active", "completed", "delayed"}
    BY DEF JobState
  <1>4. QED
    BY <1>1, <1>2, <1>3, RestKeeps

\* A child's own worker moves it; what is removed stays removed.
LEMMA ChildStepKeeps ==
    ASSUME EInv, ChildStep
    PROVE  EInv'
  <1>1. PICK c \in Kids : \/ ChildCompletes(c) \/ ChildFails(c) \/ RetryChild(c)
                          \/ RemoveChild(c)
    BY DEF ChildStep
  <1>2. PICK from \in SUBSET {"waiting", "completed", "failed"},
             to \in {"waiting", "completed", "failed", "removed"} : MoveChild(c, from, to)
    BY <1>1 DEF ChildCompletes, ChildFails, RetryChild, RemoveChild
  <1>3. faults' \in 0..MaxFaults /\ faults' >= faults
    BY <1>1, BlameEffect, SameFaults
       DEF ChildCompletes, ChildFails, RetryChild, RemoveChild, EInv
  <1>4. /\ UNCHANGED <<job, attempts, wake, at, pc, val, mem, store, expires, lost, legacy,
                       cached, clock, execs, seen>>
        /\ children[c].state # "removed"
        /\ children' = [children EXCEPT ![c].state = to]
    BY <1>2 DEF MoveChild, attempt, redis, history
  <1>5. /\ children' \in Seq(Child) /\ Kids' = Kids
        /\ \A k \in Kids : children[k].state = "removed" => children'[k].state = "removed"
    <2> DEFINE r == [children[c] EXCEPT !.state = to]
    <2>1. children \in Seq(Child) /\ children[c] \in Child /\ c \in 1..Len(children)
      BY KidFacts DEF EInv, TypeOK
    <2>2. r \in Child
      BY <2>1 DEF Child
    <2>3. children' = [children EXCEPT ![c] = r]
      BY <1>4
    <2> HIDE DEF r
    <2>4. /\ children' \in Seq(Child) /\ DOMAIN children' = DOMAIN children
          /\ \A k \in DOMAIN children : k # c => children'[k] = children[k]
      BY <2>1, <2>2, <2>3, ExceptSeq, LenProperties
    <2>5. QED
      BY <1>4, <2>4 DEF Kids
  <1>6. TypeOK'
    BY <1>3, <1>4, <1>5 DEF EInv, TypeOK
  <1>7. Places' /\ Referring'
    BY <1>4, <1>5 DEF EInv, Places, Referring
  <1>8. Record' = Record
    BY <1>4 DEF Record
  <1>9. ASSUME ~lost
        PROVE  (Migrating /\ Remembering /\ Ordered /\ Standing /\ Paid /\ Given)'
    <2>0. Migrating /\ Remembering /\ Ordered /\ Standing /\ Paid /\ Given
      BY <1>9 DEF EInv
    <2>1. Migrating' /\ Remembering' /\ Standing'
      BY <1>4, <1>8, <2>0 DEF Migrating, Remembering, Running, Standing
    <2>2. Ordered'
      BY <1>4, <1>8, <2>0 DEF Ordered, Running
    <2>3. Paid'
      <3> SUFFICES ASSUME NEW t \in Steps
                   PROVE  execs[t] <= 1 + faults' /\ (~Owed(t)' => execs[t] <= faults')
        BY <1>4 DEF Paid
      <3>1. execs[t] \in Nat /\ faults \in Nat /\ faults' \in Nat
        BY <1>3, StepAssumption DEF EInv, TypeOK
      <3>2. execs[t] <= 1 + faults /\ (~Owed(t) => execs[t] <= faults)
        BY <2>0 DEF Paid
      <3>3. Owed(t)' = Owed(t)
        BY <1>4, <1>8 DEF Owed
      <3>4. QED
        BY <1>3, <3>1, <3>2, <3>3
    <2>4. Given'
      BY <1>4, <1>5, <1>8, <2>0 DEF Given
    <2>5. QED
      BY <2>1, <2>2, <2>3, <2>4
  <1>10. QED
    BY <1>4, <1>6, <1>7, <1>9 DEF EInv

\* Time passes; the loss of the hash is noted.
LEMMA TickKeeps ==
    ASSUME EInv, Tick
    PROVE  EInv'
  <1>1. /\ UNCHANGED <<job, attempts, wake, at, pc, val, mem, legacy, cached, children,
                       execs, seen, faults>>
        /\ clock' = clock + 1
        /\ \/ store' = Blank /\ expires' = 0 /\ lost' = TRUE
           \/ UNCHANGED <<store, expires, lost>>
    BY DEF Tick, attempt, redis, history
  <1>2. TypeOK'
    <2>1. store' \in [Steps -> StepResult] /\ expires' \in Nat /\ lost' \in BOOLEAN
      <3>1. CASE store' = Blank /\ expires' = 0 /\ lost' = TRUE
        BY <3>1, StepFacts
      <3>2. CASE UNCHANGED <<store, expires, lost>>
        BY <3>2 DEF EInv, TypeOK
      <3>3. QED
        BY <1>1, <3>1, <3>2
    <2>2. clock' \in Nat
      BY <1>1 DEF EInv, TypeOK
    <2>3. QED
      BY <1>1, <2>1, <2>2 DEF EInv, TypeOK
  <1>3. Places'
    BY <1>1 DEF EInv, Places, Kids
  <1>4. Referring'
    <2>1. \A t \in Steps : Blank[t].status # "waiting_for_child" /\ 0 \notin Blank[t].data
      BY StepFacts
    <2>2. QED
      BY <1>1, <2>1 DEF EInv, Referring
  <1>5. ASSUME ~lost'
        PROVE  (Migrating /\ Remembering /\ Ordered /\ Standing /\ Paid /\ Given)'
    <2>0. ~lost /\ UNCHANGED <<store, expires, lost>>
      BY <1>1, <1>5
    <2>1. Migrating /\ Remembering /\ Ordered /\ Standing /\ Paid /\ Given
      BY <2>0 DEF EInv
    <2>2. Record' = Record
      BY <1>1, <2>0 DEF Record
    <2>3. Migrating' /\ Remembering' /\ Ordered'
      BY <1>1, <2>0, <2>1, <2>2 DEF Migrating, Remembering, Running, Ordered
    <2>4. Standing'
      <3>1. at = "effect" => pc \in Steps
        BY DEF EInv, Places
      <3>2. pc \in Steps => Record[pc].at \in Nat
        BY RecordFacts DEF EInv, StepResult
      <3>3. clock \in Nat
        BY DEF EInv, TypeOK
      <3>4. QED
        BY <1>1, <2>1, <2>2, <3>1, <3>2, <3>3 DEF Standing
    <2>5. Paid' /\ Given'
      BY <1>1, <2>1, <2>2 DEF Paid, Owed, Given, Kids
    <2>6. QED
      BY <2>3, <2>4, <2>5
  <1>6. QED
    BY <1>2, <1>3, <1>4, <1>5 DEF EInv

-----------------------------------------------------------------------------
(* Steps execute *)

\* The effect has happened, once more, and is owed to nobody's fault yet.
LEMMA RunEffectKeeps ==
    ASSUME EInv, RunEffect
    PROVE  EInv'
  <1>1. /\ UNCHANGED <<job, attempts, wake, pc, mem, store, expires, lost, legacy, cached,
                       children, clock, seen, faults>>
        /\ at = "next" /\ at' = "effect" /\ pc \in Steps /\ Program[pc] = "do"
        /\ mem[pc].status \in {"none", "errored"}
        /\ execs' = [execs EXCEPT ![pc] = @ + 1] /\ val' = {0, execs[pc] + 1}
    BY DEF RunEffect, redis, world, AtStep, Unrun, Remembered
  <1>2. execs[pc] \in Nat /\ execs[pc] + 1 \in Nat
    BY <1>1 DEF EInv, TypeOK
  <1>3. /\ execs' \in [Steps -> Nat] /\ execs'[pc] = execs[pc] + 1
        /\ \A t \in Steps \ {pc} : execs'[t] = execs[t]
    BY <1>1, <1>2 DEF EInv, TypeOK
  <1>4. TypeOK'
    BY <1>1, <1>2, <1>3 DEF EInv, TypeOK, Place
  <1>5. Places' /\ Referring'
    BY <1>1 DEF EInv, Places, Referring
  <1>6. Record' = Record
    BY <1>1 DEF Record
  <1>7. ASSUME ~lost
        PROVE  (Migrating /\ Remembering /\ Ordered /\ Standing /\ Paid /\ Given)'
    <2>0. Migrating /\ Remembering /\ Ordered /\ Paid /\ Given /\ Running /\ Running'
      BY <1>1, <1>7 DEF EInv, Running
    <2>1. Record[pc] = mem[pc]
      BY <1>1, <1>7, <2>0, RemembersRecord
    <2>2. Migrating' /\ Remembering' /\ Ordered'
      BY <1>1, <1>6, <2>0 DEF Migrating, Remembering, Ordered
    <2>3. Standing'
      BY <1>1, <1>6, <2>1 DEF Standing
    <2>4. Paid'
      <3>1. ~Owed(pc)
        BY <1>1, <2>1 DEF Owed
      <3>2. execs[pc] <= faults /\ faults \in Nat
        BY <1>1, <2>0, <3>1, StepAssumption DEF Paid, EInv, TypeOK
      <3>3. execs'[pc] <= 1 + faults' /\ Owed(pc)'
        BY <1>1, <1>2, <1>3, <3>2 DEF Owed
      <3>4. \A t \in Steps \ {pc} : Owed(t)' = Owed(t)
        BY <1>1, <1>6 DEF Owed
      <3>5. QED
        BY <1>1, <1>3, <2>0, <3>3, <3>4 DEF Paid
    <2>5. Given'
      BY <1>1, <1>6, <2>0 DEF Given, Kids
    <2>6. QED
      BY <2>2, <2>3, <2>4, <2>5
  <1>8. QED
    BY <1>1, <1>4, <1>5, <1>7 DEF EInv

\* New children come after the old ones.
LEMMA ChildrenGrow ==
    ASSUME TypeOK, NEW n \in Nat, children' = children \o NewChildren(n)
    PROVE  /\ children' \in Seq(Child) /\ Kids \subseteq Kids'
           /\ \A c \in Kids : children'[c] = children[c]
           /\ \A i \in 1..n : Len(children) + i \in Nat \ {0} /\ Len(children) + i \in Kids'
  <1> DEFINE new == NewChildren(n)
  <1>1. [born |-> clock, state |-> "waiting"] \in Child
    BY DEF TypeOK, Child
  <1>2. new \in [1..n -> Child]
    BY <1>1 DEF NewChildren
  <1>3. new \in Seq(Child) /\ Len(new) = n
    BY <1>2
  <1> HIDE DEF new
  <1>4. children \in Seq(Child) /\ Len(children) \in Nat /\ Kids = 1..Len(children)
    BY KidFacts DEF TypeOK
  <1>5. /\ children' \in Seq(Child) /\ Len(children') = Len(children) + n
        /\ \A i \in 1..Len(children) + n :
               children'[i] = IF i <= Len(children) THEN children[i] ELSE new[i - Len(children)]
    BY <1>3, <1>4, ConcatProperties DEF new
  <1>6. Kids' = 1..(Len(children) + n)
    BY <1>5, LenProperties DEF Kids
  <1>7. QED
    BY <1>4, <1>5, <1>6

LEMMA LaunchChildrenKeeps ==
    ASSUME EInv, LaunchChildren
    PROVE  EInv'
  <1> DEFINE n == IF Program[pc] = "runTasks" THEN BulkSize ELSE 1
  <1>1. /\ UNCHANGED <<job, attempts, wake, pc, mem, store, expires, lost, legacy, cached,
                       clock, seen, faults>>
        /\ at = "next" /\ pc \in Steps
        /\ Program[pc] \in {"runTask", "runTasks", "runTaskAndWait"}
        /\ at' = IF Program[pc] = "runTaskAndWait" THEN "started" ELSE "effect"
        /\ mem[pc].status \in {"none", "errored"}
        /\ execs' = [execs EXCEPT ![pc] = @ + 1]
        /\ children' = children \o NewChildren(n)
        /\ val' = {Len(children) + i : i \in 1..n}
    BY DEF LaunchChildren, redis, AtStep, Unrun, Remembered
  <1>2. n \in Nat /\ (Program[pc] # "runTasks" => n = 1)
    BY StepAssumption
  <1> HIDE DEF n
  <1>3. /\ children' \in Seq(Child) /\ Kids \subseteq Kids'
        /\ \A c \in Kids : children'[c] = children[c]
        /\ \A i \in 1..n : Len(children) + i \in Nat \ {0} /\ Len(children) + i \in Kids'
    BY <1>1, <1>2, ChildrenGrow DEF EInv
  <1>4. val' \in SUBSET Nat /\ val' \subseteq Kids' /\ 0 \notin val'
    BY <1>1, <1>3
  <1>5. Program[pc] # "runTasks" => val' = {Len(children) + 1}
    <2>1. 1..1 = {1}
      OBVIOUS
    <2>2. QED
      BY <1>1, <1>2, <2>1
  <1>6. /\ execs' \in [Steps -> Nat] /\ execs'[pc] = execs[pc] + 1 /\ execs[pc] \in Nat
        /\ \A t \in Steps \ {pc} : execs'[t] = execs[t]
    BY <1>1 DEF EInv, TypeOK
  <1>7. TypeOK'
    BY <1>1, <1>3, <1>4, <1>6 DEF EInv, TypeOK, Place
  <1>8. Places'
    <2>1. job' = "active" /\ at' \in {"started", "effect"}
      BY <1>1 DEF EInv, Places
    <2>2. at' = "effect" /\ Program[pc] = "runTask" =>
              val' \subseteq Kids' /\ \A c, d \in val' : c = d
      BY <1>4, <1>5
    <2>3. at' = "started" => Program[pc] = "runTaskAndWait" /\ val' # {} /\ 0 \notin val'
      BY <1>1, <1>4, <1>5
    <2>4. QED
      BY <1>1, <2>1, <2>2, <2>3 DEF Places
  <1>9. Referring'
    BY <1>1 DEF EInv, Referring
  <1>10. Record' = Record
    BY <1>1 DEF Record
  <1>11. ASSUME ~lost
         PROVE  (Migrating /\ Remembering /\ Ordered /\ Standing /\ Paid /\ Given)'
    <2>0. Migrating /\ Remembering /\ Ordered /\ Paid /\ Given /\ Running /\ Running'
      BY <1>1, <1>11 DEF EInv, Running
    <2>1. Record[pc] = mem[pc]
      BY <1>1, <1>11, <2>0, RemembersRecord
    <2>2. Migrating' /\ Remembering' /\ Ordered'
      BY <1>1, <1>10, <2>0 DEF Migrating, Remembering, Ordered
    <2>3. Standing'
      BY <1>1, <1>10, <2>1 DEF Standing
    <2>4. Paid'
      <3>1. ~Owed(pc)
        BY <1>1, <2>1 DEF Owed
      <3>2. execs[pc] <= faults /\ faults \in Nat
        BY <1>1, <2>0, <3>1, StepAssumption DEF Paid, EInv, TypeOK
      <3>3. execs'[pc] <= 1 + faults' /\ Owed(pc)'
        BY <1>1, <1>6, <3>2 DEF Owed
      <3>4. \A t \in Steps \ {pc} : Owed(t)' = Owed(t)
        BY <1>1, <1>10 DEF Owed
      <3>5. QED
        BY <1>1, <1>6, <2>0, <3>3, <3>4 DEF Paid
    <2>5. Given'
      <3> SUFFICES ASSUME NEW t \in Steps
                   PROVE  /\ Record[t].status # "completed" => seen[t] = {}
                          /\ Record[t].status = "completed" /\ Program[t] = "runTask" =>
                                 /\ Record[t].data \subseteq Kids'
                                 /\ \A c, d \in Record[t].data : c = d
                          /\ Program[t] # "runTasks" => \A v \in seen[t] :
                                 \/ Json(v) = Record[t].data
                                 \/ /\ Program[t] = "runTask" /\ v = {}
                                    /\ \A c \in Record[t].data : children'[c].state = "removed"
        BY <1>1, <1>10 DEF Given
      <3>1. QED
        BY <1>3, <2>0 DEF Given
    <2>6. QED
      BY <2>2, <2>3, <2>4, <2>5
  <1>12. QED
    BY <1>1, <1>7, <1>8, <1>9, <1>11 DEF EInv

\* What a running attempt writes is on record at once.
LEMMA WriteEffect ==
    ASSUME EInv, ~lost, Running, pc \in Steps, NEW r \in StepResult, HSet(pc, r),
           legacy' = legacy
    PROVE  /\ legacy = Blank /\ Record = store /\ Record' = store'
           /\ Record'[pc] = Stored(r) /\ \A t \in Steps \ {pc} : Record'[t] = Record[t]
  <1>1. Migrating /\ Remembering
    BY DEF EInv
  <1>2. legacy = Blank
    BY <1>1 DEF Migrating
  <1>3. Record = store /\ Record' = store'
    BY <1>2 DEF Record
  <1>4. store'[pc] = Stored(r) /\ \A t \in Steps \ {pc} : store'[t] = store[t]
    BY HSetEffect DEF EInv
  <1>5. QED
    BY <1>2, <1>3, <1>4

\* A write at the step the attempt is at leaves the record in order.
LEMMA WriteOrdered ==
    ASSUME EInv, ~lost, Running, pc \in Steps, NEW r,
           Record[pc].status # "completed", Record'[pc] = r,
           \A t \in Steps \ {pc} : Record'[t] = Record[t],
           job' \notin {"completed", "delayed"},
           Running' => \/ pc' = pc
                       \/ pc' = pc + 1 /\ r.status = "completed"
    PROVE  Ordered'
  <1>1. Ordered
    BY DEF EInv
  <1>2. \A t \in Steps : t < pc => Record'[t].status = "completed"
    BY <1>1, StepFacts DEF Ordered
  <1>3. ASSUME NEW u \in Steps, NEW t \in Steps, t < u,
               Record'[u].status \notin {"none", "errored"}
        PROVE  Record'[t].status = "completed"
    <2>1. CASE u = pc
      BY <1>2, <1>3, <2>1
    <2>2. CASE u # pc
      BY <1>1, <1>3, <2>2 DEF Ordered
    <2>3. QED
      BY <2>1, <2>2
  <1>4. ASSUME Running', NEW t \in Steps, t < pc'
        PROVE  Record'[t].status = "completed"
    <2>1. CASE pc' = pc
      BY <1>2, <1>4, <2>1
    <2>2. CASE pc' = pc + 1 /\ r.status = "completed"
      <3>1. t < pc \/ t = pc
        BY <1>4, <2>2, StepFacts
      <3>2. QED
        BY <1>2, <2>2, <3>1
    <2>3. QED
      BY <1>4, <2>1, <2>2
  <1>5. QED
    BY <1>3, <1>4 DEF Ordered

\* The attempt records why it is about to wait.
LEMMA PersistKeeps ==
    ASSUME EInv, at \in {"next", "started"}, pc \in Steps, NEW r \in StepResult, Persist(r),
           UNCHANGED <<job, attempts, wake, pc, val, legacy, cached, children, clock, execs,
                       seen, faults>>,
           ~lost => Record[pc].status \in {"none", "errored"}, 0 \notin r.data,
           \/ /\ r.status \in {"sleeping", "waiting_for_children"}
              /\ at = "next" /\ at' = "parked"
              /\ Program[pc] \in {"sleep", "sleepUntil", "waitForChildTasks"}
           \/ /\ r.status = "waiting_for_child" /\ r.data # {}
              /\ at = "started" /\ at' = "await"
    PROVE  EInv'
  <1>0. Stored(r) = r
    BY StoredFacts
  <1>1. /\ store' \in [Steps -> StepResult] /\ store'[pc] = r
        /\ \A t \in Steps \ {pc} : store'[t] = store[t]
        /\ expires' \in Nat /\ lost' = lost
    BY <1>0, HSetEffect DEF Persist, EInv
  <1>2. /\ mem' \in [Steps -> StepResult] /\ mem'[pc] = r
        /\ \A t \in Steps \ {pc} : mem'[t] = mem[t]
    BY DEF Persist, EInv, TypeOK
  <1>3. TypeOK'
    BY <1>1, <1>2 DEF EInv, TypeOK, Place
  <1>4. Places'
    BY DEF EInv, Places, Kids
  <1>5. Referring'
    BY <1>1, <1>2 DEF EInv, Referring
  <1>6. ASSUME ~lost
        PROVE  (Migrating /\ Remembering /\ Ordered /\ Standing /\ Paid /\ Given)'
    <2>0. Migrating /\ Remembering /\ Ordered /\ Paid /\ Given /\ Running /\ Running'
      BY <1>6 DEF EInv, Running
    <2>1. /\ legacy = Blank /\ Record' = store'
          /\ Record'[pc] = r /\ \A t \in Steps \ {pc} : Record'[t] = Record[t]
      BY <1>0, <1>6, <2>0, WriteEffect DEF Persist
    <2>2. Migrating'
      BY <2>0, <2>1 DEF Migrating, Running
    <2>3. Remembering'
      <3>1. \A t \in Steps : t >= pc => mem'[t] = store'[t]
        BY <1>1, <1>2, <2>0 DEF Remembering
      <3>2. QED
        BY <3>1 DEF Remembering
    <2>4. Ordered'
      <3>1. job' \notin {"completed", "delayed"}
        BY DEF EInv, Places
      <3>2. QED
        BY <1>6, <2>0, <2>1, <3>1, WriteOrdered
    <2>5. Standing'
      BY <2>1 DEF Standing
    <2>6. Paid'
      <3>1. at = "next" => ~Owed(pc)
        BY <1>6 DEF Owed
      <3>2. at = "started" => Owed(pc)'
        BY <2>1 DEF Owed
      <3>3. \A t \in Steps \ {pc} : Owed(t)' = Owed(t)
        BY <2>1 DEF Owed
      <3>4. QED
        BY <2>0, <3>1, <3>2, <3>3 DEF Paid
    <2>7. Given'
      BY <1>6, <2>0, <2>1 DEF Given, Kids
    <2>8. QED
      BY <2>2, <2>3, <2>4, <2>5, <2>6, <2>7
  <1>7. QED
    BY <1>1, <1>3, <1>4, <1>5, <1>6 DEF EInv

LEMMA BeginWaitKeeps ==
    ASSUME EInv, BeginSleep \/ BeginJoin \/ SaveChildRef
    PROVE  EInv'
  <1>1. /\ UNCHANGED <<job, attempts, wake, pc, val, legacy, cached, children, clock, execs,
                       seen, faults>>
    BY DEF BeginSleep, BeginJoin, SaveChildRef, world, history
  <1>2. CASE SaveChildRef
    <2>1. at = "started" /\ at' = "await" /\ Running
      BY <1>2 DEF SaveChildRef, Running
    <2> DEFINE r == Result("waiting_for_child", val, 0)
    <2>2. /\ r \in StepResult /\ r.status = "waiting_for_child" /\ pc \in Steps
          /\ r.data # {} /\ 0 \notin r.data
      BY <2>1 DEF Result, StepResult, Status, EInv, TypeOK, Places
    <2>3. Persist(r)
      BY <1>2 DEF SaveChildRef
    <2>4. ~lost => Record[pc].status \in {"none", "errored"}
      BY <2>1 DEF EInv, Standing
    <2> HIDE DEF r
    <2>5. QED
      BY <1>1, <2>1, <2>2, <2>3, <2>4, PersistKeeps
  <1>3. CASE BeginJoin
    <2>1. /\ at = "next" /\ at' = "parked" /\ Running /\ pc \in Steps
          /\ mem[pc].status \in {"none", "errored"} /\ Program[pc] = "waitForChildTasks"
      BY <1>3 DEF BeginJoin, Running, AtStep, Unrun, Remembered
    <2> DEFINE r == Result("waiting_for_children", {}, 0)
    <2>2. r \in StepResult /\ r.status = "waiting_for_children" /\ 0 \notin r.data
      BY DEF Result, StepResult, Status
    <2>3. Persist(r)
      BY <1>3 DEF BeginJoin
    <2>4. ~lost => Record[pc].status \in {"none", "errored"}
      BY <2>1, RemembersRecord
    <2> HIDE DEF r
    <2>5. QED
      BY <1>1, <2>1, <2>2, <2>3, <2>4, PersistKeeps
  <1>4. CASE BeginSleep
    <2> DEFINE until == IF Program[pc] = "sleep" THEN clock + Nap ELSE Deadline
               r == Result("sleeping", {}, until)
    <2>1. /\ at = "next" /\ Running /\ pc \in Steps
          /\ mem[pc].status \in {"none", "errored"} /\ Program[pc] \in {"sleep", "sleepUntil"}
      BY <1>4 DEF BeginSleep, Running, AtStep, Unrun, Remembered
    <2>2. until \in Nat
      BY StepAssumption DEF EInv, TypeOK
    <2>3. \/ at' = "effect" /\ UNCHANGED <<mem, store, expires, lost>>
          \/ at' = "parked" /\ Persist(r)
      BY <1>4 DEF BeginSleep, redis
    <2> HIDE DEF until
    <2>4. r \in StepResult /\ r.status = "sleeping" /\ 0 \notin r.data
      BY <2>2 DEF Result, StepResult, Status
    <2>5. ~lost => Record[pc].status \in {"none", "errored"}
      BY <2>1, RemembersRecord
    <2> HIDE DEF r
    <2>6. CASE at' = "parked" /\ Persist(r)
      BY <1>1, <2>1, <2>4, <2>5, <2>6, PersistKeeps
    <2>7. CASE at' = "effect" /\ UNCHANGED <<mem, store, expires, lost>>
      <3>1. Running' /\ at' \in Place /\ val' \in SUBSET Nat /\ cached' \in BOOLEAN
        BY <1>1, <2>7 DEF Running, Place, EInv, TypeOK
      <3>2. Places'
        BY <1>1, <2>1, <2>7 DEF EInv, Places
      <3>3. ~lost => Standing'
        BY <1>1, <2>5, <2>7 DEF Standing, Record
      <3>4. QED
        BY <1>1, <2>1, <2>7, <3>1, <3>2, <3>3, MoveKeeps
    <2>8. QED
      BY <2>3, <2>6, <2>7
  <1>5. QED
    BY <1>2, <1>3, <1>4

\* A completed step is recorded with the value the handler is given, as JSON.
LEMMA CompletedFacts ==
    ASSUME TypeOK
    PROVE  /\ Completed \in StepResult /\ Stored(Completed) \in StepResult
           /\ Completed.status = "completed" /\ Stored(Completed).status = "completed"
           /\ Completed.data = val /\ Stored(Completed).data = Json(val)
           /\ 0 \notin Stored(Completed).data
  <1>1. /\ Completed \in StepResult
        /\ Completed.status = "completed" /\ Completed.data = val
    BY DEF Completed, Result, StepResult, Status, TypeOK
  <1>2. QED
    BY <1>1, StoredFacts

\* The record of a completed step, and the first value the handler is given.
LEMMA MemoizeFacts ==
    ASSUME EInv, ~lost, at = "effect", HSet(pc, Completed), legacy' = legacy,
           children' = children,
           \A t \in Steps \ {pc} : seen'[t] = seen[t],
           seen'[pc] \in {seen[pc], seen[pc] \cup {val}}
    PROVE  /\ Running /\ pc \in Steps /\ Record[pc].status # "completed"
           /\ legacy = Blank /\ Record' = store'
           /\ Record'[pc] = Stored(Completed)
           /\ \A t \in Steps \ {pc} : Record'[t] = Record[t]
           /\ Given'
  <1>1. Running /\ pc \in Steps /\ Record[pc].status # "completed"
    BY DEF EInv, Running, Places, Standing
  <1>2. /\ Completed \in StepResult /\ Stored(Completed).status = "completed"
        /\ Stored(Completed).data = Json(val)
    BY CompletedFacts DEF EInv
  <1>3. /\ legacy = Blank /\ Record' = store' /\ Record'[pc] = Stored(Completed)
        /\ \A t \in Steps \ {pc} : Record'[t] = Record[t]
    BY <1>1, <1>2, WriteEffect
  <1>4. Given'
    <2> SUFFICES ASSUME NEW t \in Steps
                 PROVE  /\ Record'[t].status # "completed" => seen'[t] = {}
                        /\ Record'[t].status = "completed" /\ Program[t] = "runTask" =>
                               /\ Record'[t].data \subseteq Kids
                               /\ \A c, d \in Record'[t].data : c = d
                        /\ Program[t] # "runTasks" => \A v \in seen'[t] :
                               \/ Json(v) = Record'[t].data
                               \/ /\ Program[t] = "runTask" /\ v = {}
                                  /\ \A c \in Record'[t].data : children[c].state = "removed"
      BY DEF Given, Kids
    <2>0. Given /\ Places
      BY DEF EInv
    <2>1. CASE t = pc
      <3>1. seen[pc] = {} /\ \A v \in seen'[pc] : v = val
        BY <1>1, <2>0 DEF Given
      <3>2. Program[pc] = "runTask" => val \subseteq Kids /\ \A c, d \in val : c = d
        BY <2>0 DEF Places
      <3>3. Program[pc] = "runTask" => Json(val) \subseteq Kids /\ \A c, d \in Json(val) : c = d
        BY <3>2 DEF Json
      <3>4. QED
        BY <1>2, <1>3, <2>1, <3>1, <3>3
    <2>2. CASE t # pc
      BY <1>3, <2>0, <2>2 DEF Given
    <2>3. QED
      BY <2>1, <2>2
  <1>5. QED
    BY <1>1, <1>3, <1>4

\* The step is recorded and the handler goes on.
LEMMA MemoizeKeeps ==
    ASSUME EInv, Memoize
    PROVE  EInv'
  <1>1. /\ UNCHANGED <<job, attempts, wake, legacy, cached, children, clock, execs, faults>>
        /\ at = "effect" /\ at' = "next" /\ pc' = pc + 1 /\ val' = {}
        /\ HSet(pc, Completed) /\ mem' = [mem EXCEPT ![pc] = Completed]
        /\ seen' = [seen EXCEPT ![pc] = @ \cup {val}]
    BY DEF Memoize, Persist, Answer, world
  <1>2. pc \in Steps
    BY <1>1 DEF EInv, Places
  <1>3. /\ Completed \in StepResult /\ Completed.status = "completed"
        /\ Stored(Completed).status = "completed" /\ 0 \notin Stored(Completed).data
    BY CompletedFacts DEF EInv
  <1>4. /\ store' \in [Steps -> StepResult] /\ store'[pc] = Stored(Completed)
        /\ \A t \in Steps \ {pc} : store'[t] = store[t]
        /\ expires' \in Nat /\ lost' = lost
    BY <1>1, <1>2, <1>3, HSetEffect DEF EInv
  <1>5. /\ mem' \in [Steps -> StepResult] /\ mem'[pc] = Completed
        /\ \A t \in Steps \ {pc} : mem'[t] = mem[t]
    BY <1>1, <1>2, <1>3 DEF EInv, TypeOK
  <1>6. /\ seen' \in [Steps -> SUBSET SUBSET Nat] /\ seen'[pc] = seen[pc] \cup {val}
        /\ \A t \in Steps \ {pc} : seen'[t] = seen[t]
    BY <1>1, <1>2 DEF EInv, TypeOK
  <1>7. pc' \in 1..(Len(Program) + 1)
    BY <1>1, <1>2, StepFacts
  <1>8. TypeOK'
    BY <1>1, <1>4, <1>5, <1>6, <1>7 DEF EInv, TypeOK, Place
  <1>9. Places'
    BY <1>1 DEF EInv, Places
  <1>10. Referring'
    BY <1>1, <1>3, <1>4, <1>5 DEF EInv, Referring
  <1>11. ASSUME ~lost
         PROVE  (Migrating /\ Remembering /\ Ordered /\ Standing /\ Paid /\ Given)'
    <2>0. Migrating /\ Remembering /\ Ordered /\ Paid
      BY <1>11 DEF EInv
    <2>1. /\ Running /\ pc \in Steps /\ Record[pc].status # "completed"
          /\ legacy = Blank /\ Record' = store'
          /\ Record'[pc] = Stored(Completed)
          /\ \A t \in Steps \ {pc} : Record'[t] = Record[t]
          /\ Given'
      BY <1>1, <1>6, <1>11, MemoizeFacts
    <2>2. Migrating' /\ Standing'
      BY <1>1, <2>1 DEF Migrating, Standing
    <2>3. Remembering'
      <3>1. \A t \in Steps : t >= pc + 1 => t >= pc /\ t # pc
        BY <1>2, StepFacts
      <3>2. QED
        BY <1>1, <1>4, <1>5, <2>0, <2>1, <3>1 DEF Remembering
    <2>4. Ordered'
      <3>1. job' \notin {"completed", "delayed"}
        BY <1>1 DEF EInv, Places
      <3>2. QED
        BY <1>1, <1>3, <1>11, <2>1, <3>1, WriteOrdered
    <2>5. Paid'
      <3> SUFFICES ASSUME NEW t \in Steps
                   PROVE  execs[t] <= 1 + faults /\ (~Owed(t)' => execs[t] <= faults)
        BY <1>1 DEF Paid
      <3>1. t = pc => Owed(t)'
        BY <1>3, <2>1 DEF Owed
      <3>2. t # pc /\ Owed(t) => Owed(t)'
        BY <2>1 DEF Owed
      <3>3. QED
        BY <2>0, <3>1, <3>2 DEF Paid
    <2>6. QED
      BY <2>1, <2>2, <2>3, <2>4, <2>5
  <1>12. QED
    BY <1>4, <1>8, <1>9, <1>10, <1>11 DEF EInv

\* The write went through and the attempt fails all the same.
LEMMA MemoizeUnansweredKeeps ==
    ASSUME EInv, MemoizeUnanswered
    PROVE  EInv'
  <1>1. /\ UNCHANGED <<wake, legacy, cached, children, clock, execs, seen>>
        /\ at = "effect" /\ HSet(pc, Completed) /\ FailAttempt /\ Blame
    BY DEF MemoizeUnanswered, world, history
  <1>2. pc \in Steps
    BY <1>1 DEF EInv, Places
  <1>3. /\ Completed \in StepResult /\ Completed.status = "completed"
        /\ Stored(Completed).status = "completed" /\ 0 \notin Stored(Completed).data
    BY CompletedFacts DEF EInv
  <1>4. /\ store' \in [Steps -> StepResult] /\ store'[pc] = Stored(Completed)
        /\ \A t \in Steps \ {pc} : store'[t] = store[t]
        /\ expires' \in Nat /\ lost' = lost
    BY <1>1, <1>2, <1>3, HSetEffect DEF EInv
  <1>5. PICK s \in {"waiting", "failed"} : Leave(s)
    BY <1>1, FailEffect DEF EInv
  <1>6. /\ job' = s /\ at' = "idle" /\ pc' = 1 /\ val' = {} /\ mem' = Blank
        /\ job' \in JobState /\ at' \in Place /\ val' \in SUBSET Nat
        /\ pc' \in 1..(Len(Program) + 1)
        /\ mem' \in [Steps -> StepResult]
    BY <1>5, LeaveEffect DEF EInv, JobState
  <1>7. attempts' \in 0..MaxAttempts
    BY <1>1, FailEffect DEF EInv
  <1>8. faults' = faults + 1 /\ faults' \in 0..MaxFaults /\ faults \in Nat
    BY <1>1, StepAssumption DEF Blame, EInv, TypeOK
  <1>9. TypeOK'
    BY <1>1, <1>4, <1>6, <1>7, <1>8 DEF EInv, TypeOK
  <1>10. Places'
    BY <1>6 DEF Places
  <1>11. Referring'
    <2>1. \A t \in Steps : Blank[t].status # "waiting_for_child"
      BY StepFacts
    <2>2. QED
      BY <1>1, <1>3, <1>4, <1>6, <2>1 DEF EInv, Referring
  <1>12. ASSUME ~lost
         PROVE  (Migrating /\ Remembering /\ Ordered /\ Standing /\ Paid /\ Given)'
    <2>0. Migrating /\ Ordered /\ Paid
      BY <1>12 DEF EInv
    <2>1. /\ Running /\ pc \in Steps /\ Record[pc].status # "completed"
          /\ legacy = Blank /\ Record' = store'
          /\ Record'[pc] = Stored(Completed)
          /\ \A t \in Steps \ {pc} : Record'[t] = Record[t]
          /\ Given'
      BY <1>1, <1>12, MemoizeFacts
    <2>2. Migrating' /\ Remembering' /\ Standing' /\ ~Running'
      BY <1>1, <1>6, <2>1 DEF Migrating, Remembering, Standing, Running
    <2>3. Ordered'
      BY <1>3, <1>6, <1>12, <2>1, <2>2, WriteOrdered
    <2>4. Paid'
      <3> SUFFICES ASSUME NEW t \in Steps
                   PROVE  execs[t] <= 1 + faults' /\ (~Owed(t)' => execs[t] <= faults')
        BY <1>1 DEF Paid
      <3>1. execs[t] <= 1 + faults /\ execs[t] \in Nat
        BY <2>0 DEF Paid, EInv, TypeOK
      <3>2. QED
        BY <1>8, <3>1
    <2>5. QED
      BY <2>1, <2>2, <2>3, <2>4
  <1>13. QED
    BY <1>4, <1>9, <1>10, <1>11, <1>12 DEF EInv

\* What a replay hands to the handler: the recorded value, or nothing once
\* the job it names is gone.
LEMMA ReconstructFacts ==
    ASSUME EInv, ~lost, Running, pc \in Steps, mem[pc].status = "completed"
    PROVE  \/ Program[pc] = "runTasks"
           \/ Json(Reconstruct(mem[pc])) = Record[pc].data
           \/ /\ Program[pc] = "runTask" /\ Reconstruct(mem[pc]) = {}
              /\ \A c \in Record[pc].data : children[c].state = "removed"
  <1>1. Record[pc] = mem[pc] /\ Given
    BY RemembersRecord DEF EInv
  <1>0. Json(Record[pc].data) = Record[pc].data
    BY DEF EInv, Referring, Record, Json
  <1>2. CASE Program[pc] = "runTask"
    <2>1. Reconstruct(mem[pc]) = {c \in mem[pc].data : children[c].state # "removed"}
      BY <1>2 DEF Reconstruct
    <2>2. \A c, d \in mem[pc].data : c = d
      BY <1>1, <1>2 DEF Given
    <2>3. CASE \A c \in mem[pc].data : children[c].state = "removed"
      BY <1>1, <1>2, <2>1, <2>3
    <2>4. CASE ~ \A c \in mem[pc].data : children[c].state = "removed"
      BY <1>0, <1>1, <2>1, <2>2, <2>4
    <2>5. QED
      BY <2>3, <2>4
  <1>3. CASE Program[pc] \notin {"runTask", "runTasks"}
    BY <1>0, <1>1, <1>3 DEF Reconstruct
  <1>4. QED
    BY <1>2, <1>3

LEMMA ReplayKeeps ==
    ASSUME EInv, Replay
    PROVE  EInv'
  <1> DEFINE v == Reconstruct(mem[pc])
  <1>1. /\ UNCHANGED <<job, attempts, wake, mem, store, expires, lost, legacy, children,
                       clock, execs, faults>>
        /\ at = "next" /\ at' = "next" /\ pc \in Steps /\ pc' = pc + 1 /\ val' = {}
        /\ mem[pc].status = "completed"
        /\ seen' = [seen EXCEPT ![pc] = @ \cup {v}]
        /\ cached' = (cached \/ Program[pc] = "runTask")
    BY DEF Replay, AtStep, Remembered, Answer, redis, world
  <1>2. v \in SUBSET Nat
    <2>1. mem[pc].data \in SUBSET Nat /\ Kids \subseteq Nat
      BY <1>1, KidFacts DEF EInv, TypeOK, StepResult
    <2>2. QED
      BY <2>1 DEF Reconstruct
  <1>3. ~lost => \/ Program[pc] = "runTasks"
                 \/ Json(v) = Record[pc].data
                 \/ /\ Program[pc] = "runTask" /\ v = {}
                    /\ \A c \in Record[pc].data : children[c].state = "removed"
    BY <1>1, ReconstructFacts DEF Running
  <1> HIDE DEF v
  <1>4. /\ seen' \in [Steps -> SUBSET SUBSET Nat] /\ seen'[pc] = seen[pc] \cup {v}
        /\ \A t \in Steps \ {pc} : seen'[t] = seen[t]
    BY <1>1, <1>2 DEF EInv, TypeOK
  <1>5. cached' \in BOOLEAN /\ pc' \in 1..(Len(Program) + 1)
    BY <1>1, StepFacts
  <1>6. TypeOK'
    BY <1>1, <1>4, <1>5 DEF EInv, TypeOK
  <1>7. Places'
    BY <1>1 DEF EInv, Places
  <1>8. Referring'
    BY <1>1 DEF EInv, Referring
  <1>9. Record' = Record
    BY <1>1 DEF Record
  <1>10. ASSUME ~lost
         PROVE  (Migrating /\ Remembering /\ Ordered /\ Standing /\ Paid /\ Given)'
    <2>0. Migrating /\ Remembering /\ Ordered /\ Paid /\ Given /\ Running /\ Running'
      BY <1>1, <1>10 DEF EInv, Running
    <2>1. Record[pc].status = "completed"
      BY <1>1, <1>10, <2>0, RemembersRecord
    <2>2. Migrating' /\ Remembering' /\ Standing'
      <3>1. \A t \in Steps : t >= pc + 1 => t >= pc
        BY <1>1, StepFacts
      <3>2. QED
        BY <1>1, <2>0, <3>1 DEF Migrating, Remembering, Standing
    <2>3. Ordered'
      <3>1. \A t \in Steps : t < pc + 1 => t < pc \/ t = pc
        BY <1>1, StepFacts
      <3>2. QED
        BY <1>1, <1>9, <2>0, <2>1, <3>1 DEF Ordered
    <2>4. Paid'
      <3>1. \A t \in Steps : Owed(t) => Owed(t)'
        BY <1>1, <1>9 DEF Owed
      <3>2. QED
        BY <1>1, <2>0, <3>1 DEF Paid
    <2>5. Given'
      <3> SUFFICES ASSUME NEW t \in Steps
                   PROVE  /\ Record[t].status # "completed" => seen'[t] = {}
                          /\ Record[t].status = "completed" /\ Program[t] = "runTask" =>
                                 /\ Record[t].data \subseteq Kids
                                 /\ \A c, d \in Record[t].data : c = d
                          /\ Program[t] # "runTasks" => \A w \in seen'[t] :
                                 \/ Json(w) = Record[t].data
                                 \/ /\ Program[t] = "runTask" /\ w = {}
                                    /\ \A c \in Record[t].data : children[c].state = "removed"
        BY <1>1, <1>9 DEF Given, Kids
      <3>1. CASE t = pc
        BY <1>3, <1>4, <1>10, <2>0, <2>1, <3>1 DEF Given
      <3>2. CASE t # pc
        BY <1>4, <2>0, <3>2 DEF Given
      <3>3. QED
        BY <3>1, <3>2
    <2>6. QED
      BY <2>2, <2>3, <2>4, <2>5
  <1>11. QED
    BY <1>1, <1>6, <1>7, <1>8, <1>10 DEF EInv

-----------------------------------------------------------------------------
(* The invariant is inductive *)

\* It holds at first: an older release's record is in order.
LEMMA EInvInit ==
    ASSUME Init
    PROVE  EInv
  <1>1. /\ job = "waiting" /\ at = "idle" /\ pc = 1 /\ val = {} /\ mem = Blank /\ store = Blank
        /\ legacy \in Legacies /\ children = <<>> /\ faults = 0 /\ lost = FALSE
        /\ execs = [s \in Steps |-> 0] /\ seen = [s \in Steps |-> {}]
    BY DEF Init
  <1>2. legacy \in [Steps -> StepResult]
    BY <1>1, StepAssumption
  <1>3. TypeOK
    <2>1. /\ attempts \in 0..MaxAttempts /\ faults \in 0..MaxFaults
          /\ pc \in 1..(Len(Program) + 1) /\ wake \in Nat /\ clock \in Nat /\ expires \in Nat
      BY <1>1, StepAssumption, StepFacts DEF Init
    <2>2. execs \in [Steps -> Nat] /\ seen \in [Steps -> SUBSET SUBSET Nat]
      BY <1>1
    <2>3. children \in Seq(Child) /\ cached \in BOOLEAN
      BY <1>1, EmptySeq DEF Init
    <2>4. QED
      BY <1>1, <1>2, <2>1, <2>2, <2>3, StepFacts DEF TypeOK, JobState, Place
  <1>4. Places
    BY <1>1 DEF Places
  <1>5. Record = legacy
    BY <1>1 DEF Record
  <1>6. Referring
    BY <1>1, StepFacts, LegacyAssumption DEF Referring
  <1>7. Migrating /\ Remembering /\ Standing
    BY <1>1, StepFacts DEF Migrating, Remembering, Standing, Running
  <1>8. Ordered
    <2>1. ASSUME NEW s \in Steps, NEW t \in Steps, t < s,
                 legacy[s].status \notin {"none", "errored"}
          PROVE  legacy[t].status = "completed"
      <3>1. t \in 1..(s - 1)
        BY <2>1, StepFacts
      <3>2. QED
        BY <1>1, <2>1, <3>1, LegacyAssumption
    <2>2. QED
      BY <1>1, <1>5, <2>1 DEF Ordered, Running
  <1>9. Paid
    BY <1>1 DEF Paid
  <1>10. Given
    BY <1>1, <1>5, LegacyAssumption DEF Given
  <1>11. QED
    BY <1>3, <1>4, <1>6, <1>7, <1>8, <1>9, <1>10 DEF EInv

LEMMA StutterKeeps ==
    ASSUME EInv, UNCHANGED vars
    PROVE  EInv'
  <1>1. UNCHANGED <<job, attempts, wake, at, pc, val, mem, store, expires, lost, legacy,
                    cached, children, clock, execs, seen, faults>>
    BY DEF vars, attempt, redis, world, history
  <1>2. Record' = Record
    BY <1>1 DEF Record
  <1>3. TypeOK' /\ Places' /\ Referring'
    BY <1>1 DEF EInv, TypeOK, Places, Referring, Kids
  <1>4. ~lost => Migrating' /\ Remembering' /\ Standing'
    BY <1>1, <1>2 DEF EInv, Migrating, Remembering, Standing, Running
  <1>5. ~lost => Ordered' /\ Paid' /\ Given'
    BY <1>1, <1>2 DEF EInv, Ordered, Paid, Owed, Given, Running, Kids
  <1>6. QED
    BY <1>1, <1>3, <1>4, <1>5 DEF EInv

LEMMA EInvNext ==
    ASSUME EInv, [Next]_vars
    PROVE  EInv'
  <1>1. CASE Hydrate
    BY <1>1, HydrateKeeps
  <1>2. CASE StartMigration
    BY <1>2, StartMigrationKeeps
  <1>3. CASE MigrateStep
    BY <1>3, MigrateStepKeeps
  <1>4. CASE StripLegacy
    BY <1>4, StripLegacyKeeps
  <1>5. CASE Replay
    BY <1>5, ReplayKeeps
  <1>6. CASE RecoverChild
    BY <1>6, RecoverChildKeeps
  <1>7. CASE ReadRecovered \/ ChildAnswers
    BY <1>7, ChildAnswersKeeps
  <1>8. CASE ResumeSleep \/ ResumeJoin
    BY <1>8, ResumeKeeps
  <1>9. CASE RunEffect
    BY <1>9, RunEffectKeeps
  <1>10. CASE LaunchChildren
    BY <1>10, LaunchChildrenKeeps
  <1>11. CASE SaveChildRef \/ BeginSleep \/ BeginJoin
    BY <1>11, BeginWaitKeeps
  <1>12. CASE ChildThrows
    BY <1>12, ChildThrowsKeeps
  <1>13. CASE MoveToDelayed
    BY <1>13, MoveToDelayedKeeps
  <1>14. CASE MoveToWaitingChildren
    BY <1>14, MoveToWaitingChildrenKeeps
  <1>15. CASE Memoize
    BY <1>15, MemoizeKeeps
  <1>16. CASE Finish
    BY <1>16, FinishKeeps
  <1>17. CASE RejectPayload \/ Crash \/ Throw
    BY <1>17, FaultKeeps
  <1>18. CASE MemoizeUnanswered
    BY <1>18, MemoizeUnansweredKeeps
  <1>19. CASE BullStep \/ Promote \/ Retry
    BY <1>19, BullStepKeeps
  <1>20. CASE ChildStep
    BY <1>20, ChildStepKeeps
  <1>21. CASE Tick
    BY <1>21, TickKeeps
  <1>22. CASE UNCHANGED vars
    BY <1>22, StutterKeeps
  <1>23. QED
    BY <1>1, <1>2, <1>3, <1>4, <1>5, <1>6, <1>7, <1>8, <1>9, <1>10, <1>11, <1>12, <1>13,
       <1>14, <1>15, <1>16, <1>17, <1>18, <1>19, <1>20, <1>21, <1>22
       DEF Next, AttemptStep, Fault

LEMMA InvAlways == Spec => []EInv
  <1>1. Init => EInv
    BY EInvInit
  <1>2. EInv /\ [Next]_vars => EInv'
    BY EInvNext
  <1>3. QED
    BY <1>1, <1>2, PTL DEF Spec

-----------------------------------------------------------------------------
(* What a step does to the record *)

\* The step writes nothing, and at most the step the attempt is at executes.
RecordKept ==
    /\ Record' = Record
    /\ \A s \in Steps : execs'[s] # execs[s] => Record[s].status # "completed"

\* The attempt records that it is about to wait.
WaitRecorded ==
    /\ pc \in Steps /\ Record[pc].status \in {"none", "errored"}
    /\ Record'[pc].status # "completed"
    /\ \A s \in Steps \ {pc} : Record'[s] = Record[s]
    /\ execs' = execs /\ job' = job

\* The attempt records the result of the step it is at.
ResultRecorded ==
    /\ at = "effect" /\ pc \in Steps /\ Record[pc].status # "completed"
    /\ Record'[pc] = Stored(Completed)
    /\ \A s \in Steps \ {pc} : Record'[s] = Record[s]
    /\ execs' = execs

\* Once the record is lost it stays so.
LEMMA LostStays ==
    ASSUME [Next]_vars, ~lost'
    PROVE  lost' = lost
  <1>1. CASE AttemptStep
    BY <1>1 DEF AttemptStep, Hydrate, StartMigration, MigrateStep, StripLegacy, Replay,
       RecoverChild, ReadRecovered, ResumeSleep, ResumeJoin, RunEffect, LaunchChildren,
       SaveChildRef, ChildAnswers, ChildThrows, BeginSleep, BeginJoin, MoveToDelayed,
       MoveToWaitingChildren, Memoize, Finish, Persist, HSet, redis
  <1>2. CASE Fault
    BY <1>2 DEF Fault, RejectPayload, MemoizeUnanswered, Crash, Throw, HSet, redis
  <1>3. CASE BullStep \/ ChildStep \/ Promote \/ Retry \/ UNCHANGED vars
    BY <1>3 DEF BullStep, PickUp, Wake, ChildrenDone, ChildStep, ChildCompletes, ChildFails,
       RetryChild, RemoveChild, MoveChild, Promote, Retry, redis, vars
  <1>4. CASE Tick
    BY <1>4 DEF Tick, redis
  <1>5. QED
    BY <1>1, <1>2, <1>3, <1>4 DEF Next

\* Steps that write nothing.
LEMMA QuietKept ==
    ASSUME UNCHANGED <<store, legacy, execs>>
    PROVE  RecordKept
  BY DEF RecordKept, Record

\* Every step keeps the record or writes at the step the attempt is at.
LEMMA RecordCases ==
    ASSUME EInv, ~lost, [Next]_vars, ~lost'
    PROVE  RecordKept \/ WaitRecorded \/ ResultRecorded
  <1>0. Migrating
    BY DEF EInv
  <1>1. CASE Hydrate \/ StartMigration \/ Replay \/ RecoverChild \/ ReadRecovered
             \/ ResumeSleep \/ ResumeJoin \/ ChildAnswers \/ ChildThrows \/ MoveToDelayed
             \/ MoveToWaitingChildren \/ Finish
    <2>1. UNCHANGED <<store, legacy, execs>>
      BY <1>1 DEF Hydrate, StartMigration, Replay, RecoverChild, ReadRecovered, ResumeSleep,
         ResumeJoin, ChildAnswers, ChildThrows, MoveToDelayed, MoveToWaitingChildren, Finish,
         redis, history
    <2>2. QED
      BY <2>1, QuietKept
  <1>2. CASE RejectPayload \/ Crash \/ Throw \/ BullStep \/ Promote \/ Retry \/ UNCHANGED vars
    <2>1. UNCHANGED <<store, legacy, execs>>
      BY <1>2 DEF RejectPayload, Crash, Throw, BullStep, PickUp, Wake, ChildrenDone, Promote,
         Retry, redis, history, vars
    <2>2. QED
      BY <2>1, QuietKept
  <1>3. CASE ChildStep \/ Tick
    <2>1. UNCHANGED <<store, legacy, execs>>
      BY <1>3 DEF ChildStep, ChildCompletes, ChildFails, RetryChild, RemoveChild, MoveChild,
         Tick, redis, history
    <2>2. QED
      BY <2>1, QuietKept
  <1>4. CASE MigrateStep
    <2>1. /\ at = "migrating" /\ UNCHANGED <<legacy, execs>>
      BY <1>4 DEF MigrateStep, history
    <2>2. QED
      BY <1>0, <2>1 DEF Migrating, RecordKept, Record
  <1>5. CASE StripLegacy
    <2>1. /\ at = "migrating" /\ pc \notin Steps /\ legacy' = Blank /\ UNCHANGED <<store, execs>>
      BY <1>5 DEF StripLegacy, history, redis
    <2>2. \A s \in Steps : s < pc
      BY <2>1, StepFacts DEF EInv, TypeOK
    <2>3. store = legacy
      BY <1>0, <2>1, <2>2 DEF Migrating, EInv, TypeOK
    <2>4. QED
      BY <1>0, <2>1, <2>3 DEF Migrating, RecordKept, Record
  <1>6. CASE RunEffect \/ LaunchChildren
    <2>1. /\ UNCHANGED <<store, legacy>> /\ at = "next" /\ pc \in Steps
          /\ mem[pc].status \in {"none", "errored"}
          /\ execs' = [execs EXCEPT ![pc] = @ + 1]
      BY <1>6 DEF RunEffect, LaunchChildren, redis, AtStep, Unrun, Remembered
    <2>2. Record[pc].status # "completed"
      BY <2>1, RemembersRecord DEF Running
    <2>3. QED
      BY <2>1, <2>2 DEF RecordKept, Record, EInv, TypeOK
  <1>7. CASE BeginSleep \/ BeginJoin \/ SaveChildRef
    <2>1. /\ UNCHANGED <<job, legacy, execs>> /\ Running /\ pc \in Steps
          /\ at = "started" \/ (at = "next" /\ mem[pc].status \in {"none", "errored"})
      BY <1>7 DEF BeginSleep, BeginJoin, SaveChildRef, history, AtStep, Unrun, Remembered,
         Running, EInv, Places
    <2>2. Record[pc].status \in {"none", "errored"}
      BY <2>1, RemembersRecord DEF EInv, Standing
    <2>3. CASE UNCHANGED <<store, expires, lost>>
      BY <2>1, <2>3, QuietKept
    <2>4. ASSUME NEW r \in StepResult, r.status # "completed", Persist(r)
          PROVE  WaitRecorded
      <3>1. /\ Record'[pc] = Stored(r) /\ \A t \in Steps \ {pc} : Record'[t] = Record[t]
        BY <2>1, <2>4, WriteEffect DEF Persist
      <3>2. Stored(r).status # "completed"
        BY <2>4, StoredFacts
      <3>3. QED
        BY <2>1, <2>2, <3>1, <3>2 DEF WaitRecorded
    <2>5. CASE SaveChildRef
      <3>1. Result("waiting_for_child", val, 0) \in StepResult
        BY DEF Result, StepResult, Status, EInv, TypeOK
      <3>2. QED
        BY <2>4, <2>5, <3>1 DEF SaveChildRef, Result
    <2>6. CASE BeginJoin
      <3>1. Result("waiting_for_children", {}, 0) \in StepResult
        BY DEF Result, StepResult, Status
      <3>2. QED
        BY <2>4, <2>6, <3>1 DEF BeginJoin, Result
    <2>7. CASE BeginSleep
      <3> DEFINE until == IF Program[pc] = "sleep" THEN clock + Nap ELSE Deadline
      <3>1. until \in Nat
        BY StepAssumption DEF EInv, TypeOK
      <3>2. UNCHANGED <<store, expires, lost>> \/ Persist(Result("sleeping", {}, until))
        BY <2>7 DEF BeginSleep, redis
      <3> HIDE DEF until
      <3>3. Result("sleeping", {}, until) \in StepResult
        BY <3>1 DEF Result, StepResult, Status
      <3>4. QED
        BY <2>3, <2>4, <3>2, <3>3 DEF Result
    <2>8. QED
      BY <1>7, <2>5, <2>6, <2>7
  <1>8. CASE Memoize \/ MemoizeUnanswered
    <2>1. /\ at = "effect" /\ HSet(pc, Completed) /\ UNCHANGED <<legacy, execs>>
      BY <1>8 DEF Memoize, MemoizeUnanswered, Persist, history
    <2>2. pc \in Steps /\ Running /\ Record[pc].status # "completed"
      BY <2>1 DEF EInv, Places, Standing, Running
    <2>3. Completed \in StepResult
      BY CompletedFacts DEF EInv
    <2>4. Record'[pc] = Stored(Completed) /\ \A t \in Steps \ {pc} : Record'[t] = Record[t]
      BY <2>1, <2>2, <2>3, WriteEffect
    <2>5. QED
      BY <2>1, <2>2, <2>4 DEF ResultRecorded
  <1>9. QED
    BY <1>1, <1>2, <1>3, <1>4, <1>5, <1>6, <1>7, <1>8 DEF Next, AttemptStep, Fault

-----------------------------------------------------------------------------
(* Theorems *)

\* Every variable keeps to its type: an attempt is always at one of its
\* awaits, at a step of the handler or past the last one, the attempts made
\* never exceed the job's attempts option, and what is in memory, in the
\* Redis hash and in job.data are records of steps (step-executor.ts,
\* _executeStep and persistStepState; stores/redis-step-state-store.ts).
THEOREM TypeCorrect == Spec => []TypeOK
  BY InvAlways, PTL DEF EInv

\* As long as Redis keeps the hash, its record of a job has no hole: what
\* _executeStep memoizes comes after completed steps only, over crashes,
\* retries and the migration of inline state (job.ts, hydrateStepState), and
\* a job that BullMQ completes has all of its steps on record, one that it
\* holds back the sleep it is in.
THEOREM NoHoleAlways == Spec => []NoHole
  <1>1. EInv => NoHole
    <2> SUFFICES ASSUME EInv, ~lost
                 PROVE  NoHole
      BY DEF NoHole
    <2>1. Ordered
      BY DEF EInv
    <2>2. ASSUME NEW s \in Steps, Record[s].status \notin {"none", "errored"},
                 NEW t \in 1..(s - 1)
          PROVE  t \in Done
      <3>1. t \in Steps /\ t < s
        BY <2>2, StepFacts
      <3>2. QED
        BY <2>1, <2>2, <3>1 DEF Ordered, Done
    <2>3. job = "completed" => Done = Steps
      BY <2>1 DEF Ordered, Done
    <2>4. job = "delayed" =>
              \E s \in Steps : Record[s].status = "sleeping" /\ Record[s].at = wake
      BY <2>1 DEF Ordered
    <2>5. QED
      BY <2>2, <2>3, <2>4 DEF NoHole
  <1>2. QED
    BY <1>1, InvAlways, PTL

\* No step's own logic executes more often than once and once more for each
\* fault: what _executeStep has recorded it answers from memory, and what it
\* has not recorded was interrupted by an error, a crash or a lost reply.
THEOREM RedoneOnlyByFaultAlways == Spec => []RedoneOnlyByFault
  <1>1. EInv => RedoneOnlyByFault
    BY DEF EInv, Paid, RedoneOnlyByFault
  <1>2. QED
    BY <1>1, InvAlways, PTL

\* A replayed step gives the handler what it gave it first, up to JSON: the
\* value that _executeStep returns after core logic, less what JSON does not
\* keep, is the one reconstructResult reads from the record, unless the job a
\* runTask step names has been removed.
THEOREM ReplayStableAlways == Spec => []ReplayStable
  <1>1. EInv => ReplayStable
    <2> SUFFICES ASSUME EInv, ~lost,
                        NEW s \in Steps, Program[s] # "runTasks",
                        NEW x \in seen[s], NEW y \in seen[s], Json(x) # Json(y)
                 PROVE  /\ Program[s] = "runTask" /\ Json(x) \cap Json(y) = {}
                        /\ \A c \in Json(x) \cup Json(y) : children[c].state = "removed"
      BY DEF ReplayStable
    <2>1. \A u \in seen[s] :
              \/ Json(u) = Record[s].data
              \/ /\ Program[s] = "runTask" /\ Json(u) = {}
                 /\ \A c \in Record[s].data : children[c].state = "removed"
      BY DEF EInv, Given, Json
    <2>2. CASE Json(x) = Record[s].data
      BY <2>1, <2>2
    <2>3. CASE Json(x) # Record[s].data
      BY <2>1, <2>3
    <2>4. QED
      BY <2>2, <2>3
  <1>2. QED
    BY <1>1, InvAlways, PTL

\* Completed means completed: once a step's result is in the Redis hash (or
\* in the inline state an older release left) no later write of saveStep, no
\* migration and no attempt changes it, and its logic never runs again.
THEOREM CompletedStepsStayAlways == Spec => CompletedStepsStay
  <1> DEFINE Stays == \A s \in Done : lost' \/ (Record'[s] = Record[s] /\ execs'[s] = execs[s])
  <1>1. EInv /\ [Next]_vars => Stays
    <2> SUFFICES ASSUME EInv, [Next]_vars, ~lost', NEW s \in Steps,
                        Record[s].status = "completed"
                 PROVE  Record'[s] = Record[s] /\ execs'[s] = execs[s]
      BY DEF Done
    <2>1. RecordKept \/ WaitRecorded \/ ResultRecorded
      BY LostStays, RecordCases
    <2>2. QED
      BY <2>1 DEF RecordKept, WaitRecorded, ResultRecorded
  <1>2. QED
    BY <1>1, InvAlways, PTL DEF Spec, CompletedStepsStay

\* A sleep keeps the deadline it was given first: the sleepUntil on record
\* is replaced by nothing but the step's completion, and that no earlier than
\* the deadline, although somebody may promote the job or its worker die
\* (step-executor.ts, sleep and sleepUntil).
THEOREM SleepKeepsDeadlineAlways == Spec => SleepKeepsDeadline
  <1> DEFINE Keeps == \A s \in Steps :
                  Record[s].status = "sleeping" /\ Record'[s] # Record[s] =>
                      lost' \/ (Record'[s].status = "completed" /\ clock >= Record[s].at)
  <1>1. EInv /\ [Next]_vars => Keeps
    <2> SUFFICES ASSUME EInv, [Next]_vars, ~lost', NEW s \in Steps,
                        Record[s].status = "sleeping", Record'[s] # Record[s]
                 PROVE  Record'[s].status = "completed" /\ clock >= Record[s].at
      OBVIOUS
    <2>1. ~lost /\ (RecordKept \/ WaitRecorded \/ ResultRecorded)
      BY LostStays, RecordCases
    <2>2. ResultRecorded /\ s = pc
      BY <2>1 DEF RecordKept, WaitRecorded, ResultRecorded
    <2>3. clock >= Record[s].at
      BY <2>1, <2>2 DEF ResultRecorded, EInv, Standing
    <2>4. QED
      BY <2>2, <2>3, CompletedFacts DEF ResultRecorded, EInv
  <1>2. QED
    BY <1>1, InvAlways, PTL DEF Spec, SleepKeepsDeadline

-----------------------------------------------------------------------------
(* The job implements the abstract workflow *)

\* What the abstract workflow sees of the job.
Results == [i \in 1..Cardinality(Done) |-> Record[i].data]
Outcome == IF job \in {"completed", "failed"} THEN job ELSE "open"

\* The completed steps are the first ones of the handler.
DonePrefix ==
    /\ IsFiniteSet(Done) /\ Cardinality(Done) \in 0..Len(Program)
    /\ Done = 1..Cardinality(Done)

\* The results are a sequence of values.
ResultList ==
    /\ Results \in Seq(SUBSET Nat) /\ Len(Results) = Cardinality(Done)
    /\ \A i \in 1..Cardinality(Done) : Results[i] = Record[i].data

LEMMA FirstNumbers ==
    ASSUME NEW n \in Nat
    PROVE  IsFiniteSet(1..n) /\ Cardinality(1..n) = n
  <1>1. /\ IsFiniteSet(1..n)
        /\ Cardinality(1..n) = IF 1 > n THEN 0 ELSE n - 1 + 1
    BY FS_Interval
  <1>2. QED
    BY <1>1

LEMMA DoneIsPrefix == EInv /\ ~lost => DonePrefix
  <1> SUFFICES ASSUME EInv, ~lost
               PROVE  DonePrefix
    OBVIOUS
  <1>1. /\ Steps = 1..Len(Program) /\ Len(Program) \in Nat
        /\ IsFiniteSet(Steps) /\ Cardinality(Steps) = Len(Program)
    BY StepFacts, FirstNumbers
  <1>2. Done \in SUBSET Steps
    BY DEF Done
  <1>3. /\ IsFiniteSet(Done) /\ Cardinality(Done) \in Nat
        /\ Cardinality(Done) <= Len(Program)
    BY <1>1, <1>2, FS_Subset, FS_CardinalityType
  <1>4. ASSUME NEW s \in Done
        PROVE  s \in 1..Cardinality(Done)
    <2>1. s \in Steps /\ s \in Nat /\ s >= 1
      BY <1>1, <1>2
    <2>2. \A t \in Steps : t < s => t \in Done
      BY <2>1 DEF EInv, Ordered, Done
    <2>3. 1..s \in SUBSET Done
      BY <1>1, <2>1, <2>2
    <2>4. Cardinality(1..s) <= Cardinality(Done)
      BY <1>3, <2>3, FS_Subset
    <2>5. s <= Cardinality(Done)
      BY <2>1, <2>4, FirstNumbers
    <2>6. QED
      BY <1>3, <2>1, <2>5
  <1>5. Done \in SUBSET (1..Cardinality(Done))
    BY <1>4
  <1>6. /\ IsFiniteSet(1..Cardinality(Done))
        /\ Cardinality(1..Cardinality(Done)) = Cardinality(Done)
    BY <1>3, FirstNumbers
  <1>7. Done = 1..Cardinality(Done)
    BY <1>5, <1>6, FS_Subset
  <1>8. QED
    BY <1>1, <1>3, <1>7 DEF DonePrefix

LEMMA ResultsFacts == EInv /\ ~lost => ResultList
  <1> SUFFICES ASSUME EInv, ~lost
               PROVE  ResultList
    OBVIOUS
  <1>1. Cardinality(Done) \in Nat /\ 1..Cardinality(Done) = Done
    BY DoneIsPrefix, StepFacts DEF DonePrefix
  <1>2. \A s \in Done : Record[s].data \in SUBSET Nat
    BY RecordFacts DEF EInv, Done, StepResult
  <1>3. Results \in [1..Cardinality(Done) -> SUBSET Nat]
    BY <1>1, <1>2 DEF Results
  <1>4. Results \in Seq(SUBSET Nat) /\ Len(Results) = Cardinality(Done)
    BY <1>1, <1>3
  <1>5. QED
    BY <1>4 DEF Results, ResultList

\* How a step may move the job between the states of BullMQ.
LEMMA JobCases ==
    ASSUME EInv, [Next]_vars
    PROVE  \/ Outcome' = Outcome
           \/ job = "active" /\ job' = "failed"
           \/ at = "next" /\ job = "active" /\ job' = "completed"
           \/ at = "idle" /\ job = "failed" /\ job' = "waiting"
  <1>0. Places
    BY DEF EInv
  <1>1. CASE UNCHANGED job
    BY <1>1 DEF Outcome
  <1>2. CASE FailAttempt /\ at # "idle"
    <2>1. job = "active" /\ job' \in {"waiting", "failed"}
      BY <1>0, <1>2, FailEffect DEF EInv, Leave, Places
    <2>2. QED
      BY <2>1 DEF Outcome
  <1>3. CASE AttemptStep
    <2>1. at # "idle" /\ job = "active"
      BY <1>0, <1>3 DEF AttemptStep, Hydrate, StartMigration, MigrateStep, StripLegacy, Replay,
         RecoverChild, ReadRecovered, ResumeSleep, ResumeJoin, RunEffect, LaunchChildren,
         SaveChildRef, ChildAnswers, ChildThrows, BeginSleep, BeginJoin, MoveToDelayed,
         MoveToWaitingChildren, Memoize, Finish, AtStep, Places
    <2>2. CASE MoveToDelayed \/ MoveToWaitingChildren
      <3>1. job' \in {"active", "delayed", "waiting-children"}
        BY <2>1, <2>2 DEF MoveToDelayed, MoveToWaitingChildren, Leave
      <3>2. QED
        BY <2>1, <3>1 DEF Outcome
    <2>3. CASE Finish /\ Pending = {}
      BY <2>1, <2>3 DEF Finish, Leave
    <2>4. CASE RecoverChild \/ ChildThrows \/ (Finish /\ Pending # {})
      BY <1>1, <1>2, <2>1, <2>4 DEF RecoverChild, ChildThrows, Finish
    <2>5. CASE \/ Hydrate \/ StartMigration \/ MigrateStep \/ StripLegacy \/ Replay
               \/ ReadRecovered \/ ResumeSleep \/ ResumeJoin \/ RunEffect \/ LaunchChildren
               \/ SaveChildRef \/ ChildAnswers \/ BeginSleep \/ BeginJoin \/ Memoize
      BY <1>1, <2>5 DEF Hydrate, StartMigration, MigrateStep, StripLegacy, Replay,
         ReadRecovered, ResumeSleep, ResumeJoin, RunEffect, LaunchChildren, SaveChildRef,
         ChildAnswers, BeginSleep, BeginJoin, Memoize
    <2>6. QED
      BY <1>3, <2>2, <2>3, <2>4, <2>5 DEF AttemptStep
  <1>4. CASE RejectPayload \/ Crash
    <2>1. job = "active" /\ job' \in {"waiting", "failed"}
      BY <1>0, <1>4 DEF RejectPayload, Crash, Leave, Places
    <2>2. QED
      BY <2>1 DEF Outcome
  <1>5. CASE MemoizeUnanswered \/ Throw
    BY <1>2, <1>5 DEF MemoizeUnanswered, Throw
  <1>6. CASE BullStep \/ Promote
    BY <1>6 DEF BullStep, PickUp, Wake, ChildrenDone, Promote, Outcome
  <1>7. CASE Retry
    BY <1>0, <1>7 DEF Retry, Places
  <1>8. CASE ChildStep \/ Tick \/ UNCHANGED vars
    BY <1>1, <1>8 DEF ChildStep, ChildCompletes, ChildFails, RetryChild, RemoveChild, MoveChild,
       Tick, vars
  <1>9. QED
    BY <1>3, <1>4, <1>5, <1>6, <1>7, <1>8 DEF Next, Fault

\* A step that records no result leaves the results alone.
LEMMA ResultsKept ==
    ASSUME EInv, ~lost, RecordKept \/ WaitRecorded
    PROVE  Done' = Done /\ Results' = Results
  <1>1. Done' = Done /\ \A s \in Done : Record'[s] = Record[s]
    BY DEF RecordKept, WaitRecorded, Done
  <1>2. Done = 1..Cardinality(Done)
    BY DoneIsPrefix DEF DonePrefix
  <1>3. QED
    BY <1>1, <1>2 DEF Results

\* A recorded result comes after those there were.
LEMMA ResultsExtended ==
    ASSUME EInv, ~lost, EInv', ~lost', ResultRecorded
    PROVE  Len(Results) < Len(Program) /\ Durable!Extends(Results', Results)
  <1> DEFINE k == Cardinality(Done)
  <1>0. DonePrefix /\ DonePrefix' /\ ResultList /\ ResultList'
    <2>1. (EInv /\ ~lost => DonePrefix /\ ResultList)'
      BY DoneIsPrefix, ResultsFacts, PTL
    <2>2. QED
      BY <2>1, DoneIsPrefix, ResultsFacts
  <1>1. IsFiniteSet(Done) /\ k \in Nat /\ Done = 1..k
    BY <1>0, StepFacts DEF DonePrefix
  <1>2. /\ pc \in Steps /\ pc \notin Done /\ Done' = Done \cup {pc}
        /\ \A s \in Done : Record'[s] = Record[s]
    BY CompletedFacts DEF ResultRecorded, Done, EInv
  <1>3. Cardinality(Done)' = k + 1
    BY <1>1, <1>2, FS_AddElement
  <1>4. /\ Results \in Seq(SUBSET Nat) /\ Len(Results) = k
        /\ \A i \in 1..k : Results[i] = Record[i].data
    BY <1>0 DEF ResultList
  <1>5. /\ Results' \in Seq(SUBSET Nat) /\ Len(Results') = k + 1
        /\ \A i \in 1..k + 1 : Results'[i] = Record'[i].data
    BY <1>0, <1>3 DEF ResultList
  <1>6. k + 1 <= Len(Program)
    BY <1>0, <1>3 DEF DonePrefix
  <1> HIDE DEF k
  <1>7. \A i \in 1..k : Results'[i] = Results[i] /\ Results'[i] \in SUBSET Nat
    <2> SUFFICES ASSUME NEW i \in 1..k
                 PROVE  Results'[i] = Results[i] /\ Results'[i] \in SUBSET Nat
      OBVIOUS
    <2>1. i \in 1..(k + 1) /\ i \in Done
      BY <1>1
    <2>2. Results'[i] = Record'[i].data /\ Results[i] = Record[i].data
      BY <1>4, <1>5, <2>1
    <2>3. Record'[i] = Record[i]
      BY <1>2, <2>1
    <2>4. Results[i] \in SUBSET Nat
      BY <1>4
    <2>5. QED
      BY <2>2, <2>3, <2>4
  <1>8. SubSeq(Results', 1, k) = Results
    <2>1. /\ SubSeq(Results', 1, k) \in Seq(SUBSET Nat)
          /\ Len(SubSeq(Results', 1, k)) = k
          /\ \A i \in 1..k : SubSeq(Results', 1, k)[i] = Results'[i]
      BY <1>1, <1>5, <1>7
    <2>2. QED
      BY <1>1, <1>4, <1>7, <2>1
  <1>9. QED
    BY <1>1, <1>4, <1>5, <1>6, <1>8 DEF Durable!Extends

LEMMA StepImplements ==
    ASSUME EInv, ~lost, ~lost', [Next]_vars
    PROVE  [Durable!Next]_<<Results, Outcome>>
  <1>1. EInv'
    BY EInvNext
  <1>2. /\ \/ Outcome' = Outcome
           \/ job = "active" /\ job' = "failed"
           \/ at = "next" /\ job = "active" /\ job' = "completed"
           \/ at = "idle" /\ job = "failed" /\ job' = "waiting"
        /\ RecordKept \/ WaitRecorded \/ ResultRecorded
    BY JobCases, RecordCases
  <1>3. CASE ResultRecorded
    <2>1. Len(Results) < Len(Program) /\ Durable!Extends(Results', Results)
      BY <1>1, <1>3, ResultsExtended
    <2>2. at = "effect" /\ job = "active"
      BY <1>3 DEF ResultRecorded, EInv, Places
    <2>3. Outcome = "open" /\ Outcome' \in {"open", "failed"}
      BY <1>2, <2>2 DEF Outcome
    <2>4. Durable!Record
      BY <2>1, <2>3 DEF Durable!Record, Results, Outcome
    <2>5. QED
      BY <2>4 DEF Durable!Next
  <1>4. CASE RecordKept \/ WaitRecorded
    <2>1. Done' = Done /\ Results' = Results
      BY <1>4, ResultsKept
    <2>2. CASE Outcome' = Outcome
      BY <2>1, <2>2
    <2>3. CASE job = "active" /\ job' = "failed"
      <3>1. Durable!Fail
        BY <2>1, <2>3 DEF Durable!Fail, Results, Outcome
      <3>2. QED
        BY <3>1 DEF Durable!Next
    <2>4. CASE job = "active" /\ job' = "completed"
      <3>1. \A s \in Steps : Record'[s].status = "completed"
        BY <1>1, <2>4 DEF EInv, Ordered
      <3>2. Done = 1..Len(Program)
        BY <2>1, <3>1, StepFacts DEF Done
      <3>3. Len(Results) = Len(Program)
        <4>1. Cardinality(1..Len(Program)) = Len(Program)
          BY StepFacts, FirstNumbers
        <4>2. QED
          BY <3>2, <4>1, ResultsFacts DEF ResultList
      <3>4. Durable!Complete
        BY <2>1, <2>4, <3>3 DEF Durable!Complete, Results, Outcome
      <3>5. QED
        BY <3>4 DEF Durable!Next
    <2>5. CASE job = "failed" /\ job' = "waiting"
      <3>1. Durable!Reopen
        BY <2>1, <2>5 DEF Durable!Reopen, Results, Outcome
      <3>2. QED
        BY <3>1 DEF Durable!Next
    <2>6. QED
      BY <1>2, <2>2, <2>3, <2>4, <2>5
  <1>5. QED
    BY <1>2, <1>3, <1>4

\* A job whose hash Redis keeps is a durable workflow: its results are one
\* list in program order that only grows at its end, it completes with the
\* list full, and a failed job is reopened with the list it had.  Every await
\* of step-executor.ts, every crash and retry between two of them, and the
\* migration of job.ts map to a step of DurableWorkflow or to none.
THEOREM RefinesDurable == Spec /\ []~lost => ImplementsDurable
  <1>1. Init => Durable!Init
    <2> SUFFICES ASSUME Init
                 PROVE  Durable!Init
      OBVIOUS
    <2>1. EInv /\ ~lost /\ job = "waiting"
      BY EInvInit DEF Init
    <2>2. Outcome = "open"
      BY <2>1 DEF Outcome
    <2>3. Len(Results) <= Len(Program)
      BY <2>1, StepFacts, ResultsFacts, DoneIsPrefix DEF ResultList, DonePrefix
    <2>4. QED
      BY <2>2, <2>3 DEF Durable!Init, Results, Outcome
  <1>2. EInv /\ ~lost /\ (~lost)' /\ [Next]_vars =>
            [Durable!Next]_<<Results, Outcome>>
    BY StepImplements
  <1>3. [Durable!Next]_<<Results, Outcome>> =>
            [Durable!Next]_<<[i \in 1..Cardinality(Done) |-> Record[i].data],
                             IF job \in {"completed", "failed"} THEN job ELSE "open">>
    BY DEF Results, Outcome
  <1>4. QED
    BY <1>1, <1>2, <1>3, InvAlways, PTL DEF Spec, ImplementsDurable, Durable!Spec
=============================================================================
