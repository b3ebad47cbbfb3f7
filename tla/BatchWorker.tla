---------------------------- MODULE BatchWorker ----------------------------
(***************************************************************************)
(* TaskWorker's batch mode (packages/torotask/src/worker.ts).              *)
(*                                                                         *)
(* BullMQ delivers jobs one at a time; batchJobCollector gathers them in   *)
(* jobBatch and parks every one of them on jobBatchProcessPromise until    *)
(* processBatchWrapper has passed the whole array to the task's handler.   *)
(* Node runs one continuation at a time, so an action below is the code    *)
(* between two awaits.  The hard part is what other continuations do while *)
(* a collector is in `await job.log(...)`, while the handler runs, and     *)
(* while the worker closes.                                                *)
(*                                                                         *)
(* The handler gets the live array, not a copy: HandlerReads is a read of  *)
(* the array at any moment of the run.  BullMQ (delivery, the concurrency  *)
(* limit, recording an outcome once) is external.                          *)
(*                                                                         *)
(* batchProcessingScheduled is left out: it is set immediately before the  *)
(* call of processBatchWrapper, whose first statement resets it, so no     *)
(* continuation ever sees it TRUE.  The branches "promise is null",        *)
(* "resolver missing" and "empty batch" are left out for the same reason:  *)
(* initializeJobBatch always sets the three together and every caller of   *)
(* processBatchWrapper has checked the length.                             *)
(***************************************************************************)
EXTENDS Naturals, Sequences, FiniteSets

CONSTANTS
    Jobs,         \* the jobs BullMQ may deliver; each is delivered once
    BatchSize,    \* options.batch.size
    MinSize,      \* options.batch.minSize, 1 by default
    Concurrency,  \* options.concurrency after validateBatchOptions
    EarlyJobs     \* the jobs the handler may complete by itself (job.complete)

ASSUME BatchAssumption ==
    /\ BatchSize \in Nat \ {0}
    /\ MinSize \in Nat \ {0}
    /\ Concurrency \in Nat
    /\ Concurrency >= BatchSize
    /\ EarlyJobs \subseteq Jobs

VARIABLES
    pc,        \* where each job's collector is
    waits,     \* the batch whose promise the collector awaits (0: none yet)
    outcome,   \* what Redis records of the job
    early,     \* jobs with _batchCompleted set
    batches,   \* one record per initializeJobBatch; the last one is jobBatch
    runs,      \* one record per processBatchWrapper that reached the handler
    running,   \* batchProcessingRunning
    lock,      \* batchLock
    timer,     \* batchTimeoutTimer is armed
    closing,   \* progress of close()
    drain,     \* the run close() awaits (0: none)
    forced     \* close was called with force = true

vars == <<pc, waits, outcome, early, batches, runs, running, lock, timer,
          closing, drain, forced>>

Collector == {"queued", "waiting", "logging", "awaiting", "settled"}
Outcome   == {"none", "completed", "failed"}
Promise   == {"pending", "resolved", "rejected"}
Closing   == {"open", "draining", "closing", "closed"}
Batch     == [members : SUBSET Jobs, promise : Promise]
Run       == [batch : Nat, first : SUBSET Jobs, seen : SUBSET Jobs,
              active : BOOLEAN]

\* The one type invariant of the module.
TypeOK ==
    /\ pc \in [Jobs -> Collector]
    /\ waits \in [Jobs -> Nat]
    /\ outcome \in [Jobs -> Outcome]
    /\ early \in SUBSET Jobs
    /\ batches \in Seq(Batch)
    /\ runs \in Seq(Run)
    /\ running \in BOOLEAN
    /\ lock \in BOOLEAN
    /\ timer \in BOOLEAN
    /\ closing \in Closing
    /\ drain \in Nat
    /\ forced \in BOOLEAN

----------------------------------------------------------------------------
\* Slip: initializeJobBatch forgets the new promise.
NewBatchUnpromised == [members |-> {}, promise |-> "null"]

NewBatch == [members |-> {}, promise |-> "pending"]

Init ==
    /\ pc = [j \in Jobs |-> "queued"]
    /\ waits = [j \in Jobs |-> 0]
    /\ outcome = [j \in Jobs |-> "none"]
    /\ early = {}
    /\ batches = <<NewBatch>>
    /\ runs = <<>>
    /\ running = FALSE
    /\ lock = FALSE
    /\ timer = FALSE
    /\ closing = "open"
    /\ drain = 0
    /\ forced = FALSE

cur      == Len(batches)              \* this.jobBatchProcessPromise ...
jobBatch == batches[cur].members      \* ... and this.jobBatch

\* A promise settles once; a second resolve or reject is a no-op.
SettlePromise(bs, k, how) ==
    IF bs[k].promise = "pending" THEN [bs EXCEPT ![k].promise = how] ELSE bs

InFlight == {j \in Jobs : pc[j] \in {"waiting", "logging", "awaiting"}}

\* processBatchWrapper up to its await of the handler: `first` is the array as
\* it stands, which the log line and the batch token count.
StartRun ==
    /\ runs' = Append(runs, [batch |-> cur, first |-> jobBatch, seen |-> {},
                             active |-> TRUE])
    /\ running' = TRUE
    /\ lock' = TRUE
    /\ timer' = FALSE

\* clearBatchTimeoutTimer, or nothing, with no run started.
NoRun(armed) ==
    /\ timer' = armed
    /\ UNCHANGED <<runs, running, lock>>

----------------------------------------------------------------------------
(* The collector of one job *)

CanFetch == closing \in {"open", "draining"} /\ Cardinality(InFlight) < Concurrency

\* callProcessJob with a payload the validator accepts (or no validator).
Deliver(j) ==
    /\ pc[j] = "queued"
    /\ CanFetch
    /\ pc' = [pc EXCEPT ![j] = "waiting"]
    /\ UNCHANGED <<waits, outcome, early, batches, runs, running, lock, timer,
                   closing, drain, forced>>

\* callValidateJob throws: the job fails without ever reaching a batch.
RejectInvalid(j) ==
    /\ pc[j] = "queued"
    /\ CanFetch
    /\ pc' = [pc EXCEPT ![j] = "settled"]
    /\ outcome' = [outcome EXCEPT ![j] = "failed"]
    /\ UNCHANGED <<waits, early, batches, runs, running, lock, timer, closing,
                   drain, forced>>

\* The poll loop ends and the job is pushed; job.log is then in flight.
\* The loop ends when the lock is free, or after 50 attempts whatever the lock
\* says, so a push is possible in both cases: there is no guard on `lock`.
Push(j) ==
    /\ pc[j] = "waiting"
    /\ pc' = [pc EXCEPT ![j] = "logging"]
    /\ batches' = [batches EXCEPT ![cur].members = @ \cup {j}]
    /\ UNCHANGED <<waits, outcome, early, runs, running, lock, timer, closing,
                   drain, forced>>

\* Slip: the size trigger does not look at batchProcessingRunning.
LogDoneUnguarded(j) ==
    /\ pc[j] = "logging"
    /\ pc' = [pc EXCEPT ![j] = "awaiting"]
    /\ waits' = [waits EXCEPT ![j] = cur]
    /\ \/ Cardinality(jobBatch) >= BatchSize /\ StartRun
       \/ Cardinality(jobBatch) < BatchSize /\ NoRun(timer \/ jobBatch # {})
    /\ UNCHANGED <<outcome, early, batches, closing, drain, forced>>

\* Slip: only the job that opens a batch arms the timer.
LogDoneUnarmed(j) ==
    /\ pc[j] = "logging"
    /\ pc' = [pc EXCEPT ![j] = "awaiting"]
    /\ waits' = [waits EXCEPT ![j] = cur]
    /\ \/ Cardinality(jobBatch) >= BatchSize /\ ~running /\ StartRun
       \/ /\ Cardinality(jobBatch) < BatchSize \/ running
          /\ NoRun(timer \/ jobBatch = {j})
    /\ UNCHANGED <<outcome, early, batches, closing, drain, forced>>

\* job.log returned (or failed: the error is caught).  Only here is the promise
\* read.  The timer is armed, and the batch started when it is full.
LogDone(j) ==
    /\ pc[j] = "logging"
    /\ pc' = [pc EXCEPT ![j] = "awaiting"]
    /\ waits' = [waits EXCEPT ![j] = cur]
    /\ \/ /\ Cardinality(jobBatch) >= BatchSize
          /\ ~running
          /\ StartRun
       \/ /\ Cardinality(jobBatch) < BatchSize \/ running
          /\ NoRun(timer \/ jobBatch # {})
    /\ UNCHANGED <<outcome, early, batches, closing, drain, forced>>

\* The awaited promise settled: the collector returns or throws and BullMQ
\* records the outcome, unless the job was completed early (moveToCompleted is
\* then a no-op) or has an outcome already (BullMQ refuses a second one).
Settle(j) ==
    /\ pc[j] = "awaiting"
    /\ batches[waits[j]].promise # "pending"
    /\ pc' = [pc EXCEPT ![j] = "settled"]
    /\ outcome' =
         IF outcome[j] # "none" THEN outcome
         ELSE IF batches[waits[j]].promise = "rejected"
              THEN [outcome EXCEPT ![j] = "failed"]
              ELSE IF j \in early THEN outcome
                   ELSE [outcome EXCEPT ![j] = "completed"]
    /\ UNCHANGED <<waits, early, batches, runs, running, lock, timer, closing,
                   drain, forced>>

\* After a forced close the connection may be gone: nothing is recorded.
SettleUnrecorded(j) ==
    /\ forced
    /\ pc[j] = "awaiting"
    /\ batches[waits[j]].promise # "pending"
    /\ pc' = [pc EXCEPT ![j] = "settled"]
    /\ UNCHANGED <<waits, outcome, early, batches, runs, running, lock, timer,
                   closing, drain, forced>>

----------------------------------------------------------------------------
(* The timeout and the batch run *)

\* The callback of startBatchTimeoutTimerIfNeeded.  Below MinSize it only logs.
TimerFires ==
    /\ timer
    /\ \/ /\ jobBatch # {}
          /\ ~running
          /\ Cardinality(jobBatch) >= MinSize
          /\ StartRun
       \/ /\ jobBatch = {} \/ running \/ Cardinality(jobBatch) < MinSize
          /\ NoRun(FALSE)
    /\ UNCHANGED <<pc, waits, outcome, early, batches, closing, drain, forced>>

ActiveRuns == {r \in DOMAIN runs : runs[r].active}

\* The handler looks at the array it was given, which may have grown.
HandlerReads(r) ==
    /\ r \in ActiveRuns
    /\ runs' = [runs EXCEPT ![r].seen = batches[runs[r].batch].members]
    /\ UNCHANGED <<pc, waits, outcome, early, batches, running, lock, timer,
                   closing, drain, forced>>

\* The handler calls item.complete(value): _batchCompleted is set first, then
\* the write succeeds or throws.
CompleteEarly(r, j, written) ==
    /\ r \in ActiveRuns
    /\ j \in (runs[r].seen \cap EarlyJobs) \ early
    /\ early' = early \cup {j}
    /\ outcome' = IF written /\ outcome[j] = "none"
                  THEN [outcome EXCEPT ![j] = "completed"] ELSE outcome
    /\ UNCHANGED <<pc, waits, batches, runs, running, lock, timer, closing,
                   drain, forced>>

\* Slip: the finally block does not call initializeJobBatch.
FinishRunKeepingBatch(r, how) ==
    /\ r \in ActiveRuns
    /\ how = "resolved" => runs[r].seen # {}
    /\ runs' = [runs EXCEPT ![r].active = FALSE]
    /\ batches' = SettlePromise(batches, runs[r].batch, how)
    /\ running' = FALSE
    /\ lock' = FALSE
    /\ timer' = FALSE
    /\ UNCHANGED <<pc, waits, outcome, early, closing, drain, forced>>

\* Slip: the catch block logs the error and does not reject the promise.
FinishRunSilent(r, how) ==
    /\ r \in ActiveRuns
    /\ how = "resolved" => runs[r].seen # {}
    /\ runs' = [runs EXCEPT ![r].active = FALSE]
    /\ batches' = Append(IF how = "rejected" THEN batches
                         ELSE SettlePromise(batches, runs[r].batch, how), NewBatch)
    /\ running' = FALSE
    /\ lock' = FALSE
    /\ timer' = FALSE
    /\ UNCHANGED <<pc, waits, outcome, early, closing, drain, forced>>

\* The rest of processBatchWrapper: settle the promise captured at the start,
\* release the flags, and initializeJobBatch, which drops whatever array is
\* current.  The handler resolves only after it has read its batch.
FinishRun(r, how) ==
    /\ r \in ActiveRuns
    /\ how = "resolved" => runs[r].seen # {}
    /\ runs' = [runs EXCEPT ![r].active = FALSE]
    /\ batches' = Append(SettlePromise(batches, runs[r].batch, how), NewBatch)
    /\ running' = FALSE
    /\ lock' = FALSE
    /\ timer' = FALSE
    /\ UNCHANGED <<pc, waits, outcome, early, closing, drain, forced>>

----------------------------------------------------------------------------
(* close(force), called once *)

\* A pending batch that meets MinSize is processed before the base close.
CloseWithFinalBatch ==
    /\ closing = "open"
    /\ jobBatch # {} /\ ~running /\ Cardinality(jobBatch) >= MinSize
    /\ StartRun
    /\ closing' = "draining"
    /\ drain' = Len(runs')
    /\ UNCHANGED <<pc, waits, outcome, early, batches, forced>>

\* Slip: closing unblocks the collectors of the running batch.
CloseDuringRunResolving ==
    /\ closing = "open"
    /\ running
    /\ NoRun(FALSE)
    /\ closing' = "draining"
    /\ drain' = Len(runs')
    /\ batches' = SettlePromise(batches, cur, "resolved")
    /\ UNCHANGED <<pc, waits, outcome, early, forced>>

\* A running batch is awaited, through its promise (both settle in one step).
CloseDuringRun ==
    /\ closing = "open"
    /\ running
    /\ NoRun(FALSE)
    /\ closing' = "draining"
    /\ drain' = Len(runs')
    /\ UNCHANGED <<pc, waits, outcome, early, batches, forced>>

\* "Skipping final batch": the promise is resolved and the array is kept.
CloseSkippingBatch ==
    /\ closing = "open"
    /\ jobBatch # {} /\ ~running /\ Cardinality(jobBatch) < MinSize
    /\ batches' = SettlePromise(batches, cur, "resolved")
    /\ NoRun(FALSE)
    /\ closing' = "closing"
    /\ UNCHANGED <<pc, waits, outcome, early, drain, forced>>

CloseIdle ==
    /\ closing = "open"
    /\ jobBatch = {} /\ ~running
    /\ NoRun(FALSE)
    /\ closing' = "closing"
    /\ UNCHANGED <<pc, waits, outcome, early, batches, drain, forced>>

\* Force: the flags are reset under a wrapper that is still running.
CloseForced ==
    /\ closing = "open"
    /\ forced' = TRUE
    /\ running' = FALSE
    /\ lock' = (lock /\ ~running)
    /\ timer' = FALSE
    /\ batches' = SettlePromise(batches, cur, "rejected")
    /\ closing' = "closing"
    /\ UNCHANGED <<pc, waits, outcome, early, runs, drain>>

\* The awaited run is over: super.close() stops the fetching of jobs.
DrainDone ==
    /\ closing = "draining"
    /\ ~runs[drain].active
    /\ closing' = "closing"
    /\ UNCHANGED <<pc, waits, outcome, early, batches, runs, running, lock,
                   timer, drain, forced>>

\* super.close() waits for the jobs in flight unless forced.
CloseDone ==
    /\ closing = "closing"
    /\ forced \/ InFlight = {}
    /\ closing' = "closed"
    /\ UNCHANGED <<pc, waits, outcome, early, batches, runs, running, lock,
                   timer, drain, forced>>

----------------------------------------------------------------------------
JobStep(j) ==
    \/ Deliver(j) \/ RejectInvalid(j) \/ Push(j) \/ LogDone(j)
    \/ Settle(j) \/ SettleUnrecorded(j)

RunStep(r) ==
    \/ HandlerReads(r)
    \/ \E j \in EarlyJobs, written \in BOOLEAN : CompleteEarly(r, j, written)
    \/ \E how \in {"resolved", "rejected"} : FinishRun(r, how)

CloseStep ==
    \/ CloseWithFinalBatch \/ CloseDuringRun \/ CloseSkippingBatch
    \/ CloseIdle \/ CloseForced \/ DrainDone \/ CloseDone

Next ==
    \/ \E j \in Jobs : JobStep(j)
    \/ TimerFires
    \/ \E r \in DOMAIN runs : RunStep(r)
    \/ CloseStep

Spec == Init /\ [][Next]_vars

\* Redis answers or the call fails (LogDone), the poll loop is bounded (Push),
\* promise continuations run (Settle), an armed timer fires, and the handler
\* returns or throws: the one assumption about user code.
Fairness ==
    /\ \A j \in Jobs : WF_vars(Push(j)) /\ WF_vars(LogDone(j)) /\ WF_vars(Settle(j))
    /\ WF_vars(TimerFires)
    /\ WF_vars(\E r \in DOMAIN runs : \E how \in {"resolved", "rejected"} : FinishRun(r, how))

FairSpec == Spec /\ Fairness

----------------------------------------------------------------------------
(* Properties *)

\* Until a forced close, the two flags agree, they tell whether a wrapper is
\* between its first and its last statement, there is at most one such
\* wrapper, and it is the newest and works on the current batch: what
\* "batchLock prevents concurrent batch operations" asks of worker.ts:27.
OneBatchAtATime ==
    ~forced =>
      /\ running = lock
      /\ \A r \in DOMAIN runs :
           runs[r].active <=> running /\ r = Len(runs)
      /\ running => runs # <<>> /\ runs[Len(runs)].batch = cur

\* Until a forced close, no batch is run twice and no job reaches the handler
\* in two runs: the array is shared, never re-initialised before its run ends.
JobsRunOnce ==
    ~forced =>
      \A r, s \in DOMAIN runs :
        r # s => /\ runs[r].batch # runs[s].batch
                 /\ runs[r].seen \cap runs[s].seen = {}

\* A job BullMQ recorded as completed, whose own batch ran with the job in it
\* from the start, was shown to the handler: promises are not resolved ahead
\* of the handler while the worker is open or close() drains a run.  (A close
\* that skips a small batch does resolve ahead: see SkippedJobsRemain.)
CompletedMeansHandled ==
    (closing = "open" \/ drain # 0) =>
    \A j \in Jobs : \A r \in DOMAIN runs :
      (outcome[j] = "completed" /\ runs[r].batch = waits[j] /\ j \in runs[r].first)
        => \E s \in DOMAIN runs : j \in runs[s].seen

\* While the worker is open the handler is never shown a job whose outcome
\* was recorded before, unless the handler recorded it itself.
NoWorkAfterOutcome ==
    [][closing = "open" =>
         \A r \in DOMAIN runs : \A j \in runs'[r].seen \ runs[r].seen :
           outcome[j] = "none"]_vars

\* No lost wake-up: a pending batch of at least MinSize jobs is run, even when
\* the worker is closed gracefully meanwhile.
PendingBatchRuns ==
    \A k \in 1..Cardinality(Jobs) :
      (cur = k /\ Cardinality(jobBatch) >= MinSize)
        ~> (forced \/ \E r \in DOMAIN runs : runs[r].batch = k)

\* A collector parked on the promise of a batch that is running gets its
\* answer, in a forced close too.
RunningBatchAnswers ==
    \A j \in Jobs :
      (pc[j] = "awaiting" /\ \E r \in ActiveRuns : runs[r].batch = waits[j])
        ~> pc[j] = "settled"

\* worker.ts:428 says of the jobs skipped at shutdown that they "may be
\* processed on next startup": a job whose batch never ran is not completed.
SkippedJobsRemain ==
    \A j \in Jobs : outcome[j] = "completed" =>
      \E r \in DOMAIN runs : runs[r].batch = waits[j] \/ j \in runs[r].seen
=============================================================================
