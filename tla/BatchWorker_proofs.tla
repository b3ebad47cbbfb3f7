------------------------- MODULE BatchWorker_proofs -------------------------
(***************************************************************************)
(* Proofs about BatchWorker, for any set of jobs and any options: types,   *)
(* mutual exclusion of batch runs, that no job is run twice, and what the  *)
(* outcome of a job says about the handler.                                *)
(***************************************************************************)
EXTENDS BatchWorker, SequenceTheorems, TLAPS

\* A run is always a run of some batch, and the handler sees only its jobs.
RunsOfBatches ==
    /\ Len(batches) >= 1
    /\ \A r \in DOMAIN runs :
         /\ runs[r].batch \in 1..Len(batches)
         /\ runs[r].seen \subseteq batches[runs[r].batch].members

\* Why OneBatchAtATime is inductive: a finished run left its batch behind, and
\* no two runs have the same one.
RunOrder ==
    ~forced =>
      \A r \in DOMAIN runs :
        /\ ~runs[r].active => runs[r].batch < Len(batches)
        /\ \A s \in DOMAIN runs : r # s => runs[r].batch # runs[s].batch

\* A job is pushed once, so it is in one batch at most.
OneHome ==
    /\ \A k \in DOMAIN batches : \A j \in batches[k].members :
         pc[j] \notin {"queued", "waiting"}
    /\ \A k, l \in DOMAIN batches :
         k # l => batches[k].members \cap batches[l].members = {}

IInv == TypeOK /\ RunsOfBatches /\ OneBatchAtATime /\ RunOrder /\ OneHome

----------------------------------------------------------------------------
\* What TypeOK says of the two sequences, element by element.
LEMMA Shapes ==
    ASSUME TypeOK
    PROVE  /\ Len(batches) \in Nat /\ DOMAIN batches = 1..Len(batches)
           /\ Len(runs) \in Nat /\ DOMAIN runs = 1..Len(runs)
           /\ \A k \in 1..Len(batches) :
                batches[k] \in Batch /\ batches[k].members \subseteq Jobs
           /\ \A r \in 1..Len(runs) :
                /\ runs[r] \in Run
                /\ runs[r].batch \in Nat
                /\ runs[r].seen \subseteq Jobs
                /\ runs[r].active \in BOOLEAN
  <1>1. batches \in Seq(Batch) /\ runs \in Seq(Run)
    BY DEF TypeOK
  <1>2. /\ Len(batches) \in Nat /\ DOMAIN batches = 1..Len(batches)
        /\ Len(runs) \in Nat /\ DOMAIN runs = 1..Len(runs)
    BY <1>1, LenProperties
  <1>3. ASSUME NEW k \in 1..Len(batches)
        PROVE  batches[k] \in Batch /\ batches[k].members \subseteq Jobs
    <2>1. batches[k] \in Batch
      BY <1>1, ElementOfSeq
    <2>2. QED
      BY <2>1 DEF Batch
  <1>4. ASSUME NEW r \in 1..Len(runs)
        PROVE  /\ runs[r] \in Run
               /\ runs[r].batch \in Nat
               /\ runs[r].seen \subseteq Jobs
               /\ runs[r].active \in BOOLEAN
    <2>1. runs[r] \in Run
      BY <1>1, ElementOfSeq
    <2>2. QED
      BY <2>1 DEF Run
  <1>5. QED
    BY <1>2, <1>3, <1>4

\* Appending the record of a run that starts.
LEMMA StartRunEffect ==
    ASSUME TypeOK, RunsOfBatches, StartRun
    PROVE  /\ runs' \in Seq(Run)
           /\ Len(runs') = Len(runs) + 1
           /\ \A r \in 1..Len(runs) : runs'[r] = runs[r]
           /\ runs'[Len(runs) + 1].batch = Len(batches)
           /\ runs'[Len(runs) + 1].seen = {}
           /\ runs'[Len(runs) + 1].active
           /\ running' = TRUE /\ lock' = TRUE /\ timer' = FALSE
  <1> DEFINE new == [batch |-> cur, first |-> jobBatch, seen |-> {}, active |-> TRUE]
  <1>1. batches[Len(batches)] \in Batch /\ Len(batches) \in Nat
    BY Shapes DEF RunsOfBatches
  <1>2. new \in Run
    BY <1>1 DEF Run, Batch, cur, jobBatch
  <1>3. runs' = Append(runs, new) /\ runs \in Seq(Run)
    BY DEF StartRun, TypeOK
  <1>4. QED
    BY <1>2, <1>3, AppendProperties DEF StartRun, cur

\* Settling a promise changes no membership.
LEMMA SettlePromiseEffect ==
    ASSUME NEW bs \in Seq(Batch), NEW k \in 1..Len(bs),
           NEW how \in {"resolved", "rejected"}
    PROVE  /\ SettlePromise(bs, k, how) \in Seq(Batch)
           /\ Len(SettlePromise(bs, k, how)) = Len(bs)
           /\ \A i \in 1..Len(bs) : SettlePromise(bs, k, how)[i].members = bs[i].members
  <1> DEFINE e == [bs[k] EXCEPT !.promise = how]
  <1>1. bs[k] \in Batch
    BY ElementOfSeq
  <1>2. e \in Batch /\ e.members = bs[k].members
    BY <1>1 DEF Batch, Promise
  <1>3. CASE bs[k].promise = "pending"
    <2>1. SettlePromise(bs, k, how) = [bs EXCEPT ![k] = e]
      BY <1>3 DEF SettlePromise
    <2>2. QED
      BY <2>1, <1>2, ExceptSeq
  <1>4. CASE bs[k].promise # "pending"
    BY <1>4 DEF SettlePromise
  <1>5. QED
    BY <1>3, <1>4

\* The actions of a collector, of the handler and of close() that touch
\* neither a batch, nor a run, nor a flag.
LEMMA QuietStep ==
    ASSUME IInv,
           UNCHANGED <<batches, runs, running, lock, forced>>,
           \A j \in Jobs : pc'[j] \in {"queued", "waiting"} => pc[j] \in {"queued", "waiting"},
           TypeOK'
    PROVE  IInv'
  <1>1. RunsOfBatches' /\ OneBatchAtATime' /\ RunOrder'
    BY DEF IInv, RunsOfBatches, OneBatchAtATime, RunOrder, cur
  <1>2. OneHome'
    BY Shapes DEF IInv, OneHome
  <1>3. QED
    BY <1>1, <1>2 DEF IInv

\* A step that only starts a run, with no run in progress and no forced close.
LEMMA StartStep ==
    ASSUME IInv, ~running, StartRun,
           UNCHANGED <<batches, forced>>,
           \A j \in Jobs : pc'[j] \in {"queued", "waiting"} => pc[j] \in {"queued", "waiting"},
           TypeOK'
    PROVE  IInv'
  <1> USE DEF IInv
  <1>1. /\ Len(runs) \in Nat /\ Len(batches) \in Nat
        /\ DOMAIN runs = 1..Len(runs)
        /\ DOMAIN runs' = 1..(Len(runs) + 1)
        /\ Len(runs') = Len(runs) + 1
    BY StartRunEffect, Shapes, LenProperties
  <1>2e. /\ \A r \in 1..Len(runs) : runs'[r] = runs[r]
        /\ runs'[Len(runs) + 1].batch = Len(batches)
        /\ runs'[Len(runs) + 1].seen = {}
        /\ runs'[Len(runs) + 1].active
        /\ running' = TRUE /\ lock' = TRUE
    BY StartRunEffect
  <1>2. RunsOfBatches'
    BY <1>1, <1>2e DEF RunsOfBatches
  <1>3. ASSUME ~forced
        PROVE  \A r \in 1..Len(runs) : ~runs[r].active /\ runs[r].batch < Len(batches)
    BY <1>1, <1>3, Shapes DEF OneBatchAtATime, RunOrder
  <1>4. OneBatchAtATime'
    BY <1>1, <1>2e, <1>3 DEF OneBatchAtATime, cur
  <1>5. RunOrder'
    BY <1>1, <1>2e, <1>3 DEF RunOrder, RunsOfBatches
  <1>6. OneHome'
    BY Shapes DEF OneHome
  <1>7. QED
    BY <1>2, <1>4, <1>5, <1>6

----------------------------------------------------------------------------
(* Type correctness *)

\* Every action preserves the types, given that run records name real batches.
LEMMA TypeStep ==
    ASSUME TypeOK, RunsOfBatches, [Next]_vars
    PROVE  TypeOK'
  <1>1. /\ Len(batches) \in Nat /\ Len(batches) \in 1..Len(batches)
        /\ batches[Len(batches)] \in Batch
        /\ batches \in Seq(Batch) /\ runs \in Seq(Run)
        /\ Len(runs) \in Nat /\ DOMAIN runs = 1..Len(runs)
    BY Shapes DEF RunsOfBatches, TypeOK
  <1>2. ASSUME StartRun
        PROVE  runs' \in Seq(Run) /\ running' \in BOOLEAN /\ lock' \in BOOLEAN
               /\ timer' \in BOOLEAN /\ Len(runs') \in Nat
    BY <1>1, <1>2, StartRunEffect
  <1>3. ASSUME NEW armed \in BOOLEAN, NoRun(armed)
        PROVE  runs' \in Seq(Run) /\ running' \in BOOLEAN /\ lock' \in BOOLEAN
               /\ timer' \in BOOLEAN /\ Len(runs') \in Nat
    BY <1>1, <1>3 DEF NoRun, TypeOK
  <1>4. ASSUME NEW j \in Jobs, JobStep(j)
        PROVE  TypeOK'
    <2>1. CASE Deliver(j)
      BY <2>1 DEF Deliver, TypeOK, Collector
    <2>2. CASE RejectInvalid(j)
      BY <2>2 DEF RejectInvalid, TypeOK, Collector, Outcome
    <2>3. CASE Push(j)
      <3> DEFINE e == [batches[Len(batches)] EXCEPT !.members = @ \cup {j}]
      <3>1. e \in Batch
        BY <1>1 DEF Batch
      <3>2. batches' = [batches EXCEPT ![Len(batches)] = e]
        BY <2>3 DEF Push, cur
      <3>3. batches' \in Seq(Batch)
        BY <1>1, <3>1, <3>2, ExceptSeq
      <3>4. QED
        BY <2>3, <3>3 DEF Push, TypeOK, Collector
    <2>4. CASE LogDone(j)
      <3>1. runs' \in Seq(Run) /\ running' \in BOOLEAN /\ lock' \in BOOLEAN
            /\ timer' \in BOOLEAN
        BY <2>4, <1>2, <1>3 DEF LogDone, TypeOK
      <3>2. QED
        BY <2>4, <3>1, <1>1 DEF LogDone, TypeOK, Collector, cur
    <2>5. CASE Settle(j)
      BY <2>5 DEF Settle, TypeOK, Collector, Outcome
    <2>6. CASE SettleUnrecorded(j)
      BY <2>6 DEF SettleUnrecorded, TypeOK, Collector
    <2>7. QED
      BY <1>4, <2>1, <2>2, <2>3, <2>4, <2>5, <2>6 DEF JobStep
  <1>5. CASE TimerFires
    <2>1. runs' \in Seq(Run) /\ running' \in BOOLEAN /\ lock' \in BOOLEAN
          /\ timer' \in BOOLEAN
      BY <1>5, <1>2, <1>3 DEF TimerFires
    <2>2. QED
      BY <1>5, <2>1 DEF TimerFires, TypeOK
  <1>6. ASSUME NEW r \in DOMAIN runs, RunStep(r)
        PROVE  TypeOK'
    <2>1. /\ r \in 1..Len(runs) /\ runs[r] \in Run
          /\ runs[r].batch \in 1..Len(batches)
          /\ batches[runs[r].batch].members \subseteq Jobs
      BY <1>1, Shapes DEF RunsOfBatches
    <2>2. CASE HandlerReads(r)
      <3> DEFINE e == [runs[r] EXCEPT !.seen = batches[runs[r].batch].members]
      <3>1. e \in Run
        BY <2>1 DEF Run
      <3>2. runs' = [runs EXCEPT ![r] = e]
        BY <2>2 DEF HandlerReads
      <3>3. runs' \in Seq(Run)
        BY <1>1, <2>1, <3>1, <3>2, ExceptSeq
      <3>4. QED
        BY <2>2, <3>3 DEF HandlerReads, TypeOK
    <2>3. ASSUME NEW j \in EarlyJobs, NEW written \in BOOLEAN, CompleteEarly(r, j, written)
          PROVE  TypeOK'
      BY <2>3, BatchAssumption DEF CompleteEarly, TypeOK, Outcome
    <2>4. ASSUME NEW how \in {"resolved", "rejected"}, FinishRun(r, how)
          PROVE  TypeOK'
      <3> DEFINE e == [runs[r] EXCEPT !.active = FALSE]
      <3>1. e \in Run
        BY <2>1 DEF Run
      <3>2. runs' = [runs EXCEPT ![r] = e]
        BY <2>4 DEF FinishRun
      <3>3. runs' \in Seq(Run)
        BY <1>1, <2>1, <3>1, <3>2, ExceptSeq
      <3>4. NewBatch \in Batch
        BY DEF NewBatch, Batch, Promise
      <3>5. SettlePromise(batches, runs[r].batch, how) \in Seq(Batch)
        BY <1>1, <2>1, SettlePromiseEffect
      <3>6. batches' \in Seq(Batch)
        BY <2>4, <3>4, <3>5, AppendProperties DEF FinishRun
      <3>7. QED
        BY <2>4, <3>3, <3>6 DEF FinishRun, TypeOK
    <2>5. QED
      BY <1>6, <2>2, <2>3, <2>4 DEF RunStep
  <1>7. CASE CloseStep
    <2>1. CASE CloseWithFinalBatch
      BY <2>1, <1>2 DEF CloseWithFinalBatch, TypeOK, Closing
    <2>2. CASE CloseDuringRun
      BY <2>2, <1>3 DEF CloseDuringRun, TypeOK, Closing
    <2>3. CASE CloseSkippingBatch
      <3>1. batches' \in Seq(Batch)
        BY <2>3, <1>1, SettlePromiseEffect DEF CloseSkippingBatch, cur
      <3>2. QED
        BY <2>3, <3>1, <1>3 DEF CloseSkippingBatch, TypeOK, Closing
    <2>4. CASE CloseIdle
      BY <2>4, <1>3 DEF CloseIdle, TypeOK, Closing
    <2>5. CASE CloseForced
      <3>1. batches' \in Seq(Batch)
        BY <2>5, <1>1, SettlePromiseEffect DEF CloseForced, cur
      <3>2. QED
        BY <2>5, <3>1 DEF CloseForced, TypeOK, Closing
    <2>6. CASE DrainDone
      BY <2>6 DEF DrainDone, TypeOK, Closing
    <2>7. CASE CloseDone
      BY <2>7 DEF CloseDone, TypeOK, Closing
    <2>8. QED
      BY <1>7, <2>1, <2>2, <2>3, <2>4, <2>5, <2>6, <2>7 DEF CloseStep
  <1>8. CASE UNCHANGED vars
    BY <1>8 DEF vars, TypeOK
  <1>9. QED
    BY <1>4, <1>5, <1>6, <1>7, <1>8 DEF Next

----------------------------------------------------------------------------
(* The inductive invariant *)

LEMMA InvInit == Init => IInv
  <1> SUFFICES ASSUME Init PROVE IInv
    OBVIOUS
  <1>1. NewBatch \in Batch
    BY DEF NewBatch, Batch, Promise
  <1>2. batches = <<NewBatch>> /\ Len(batches) = 1 /\ batches[1].members = {}
        /\ batches \in Seq(Batch) /\ DOMAIN batches = 1..1
    BY <1>1 DEF Init, NewBatch
  <1>3. runs = <<>> /\ runs \in Seq(Run) /\ DOMAIN runs = {}
    BY DEF Init
  <1>4. TypeOK
    BY <1>2, <1>3 DEF Init, TypeOK, Collector, Outcome, Closing
  <1>5. RunsOfBatches /\ RunOrder
    BY <1>2, <1>3 DEF RunsOfBatches, RunOrder
  <1>6. OneBatchAtATime
    BY <1>3 DEF OneBatchAtATime, Init
  <1>7. OneHome
    BY <1>2 DEF OneHome
  <1>8. QED
    BY <1>4, <1>5, <1>6, <1>7 DEF IInv

\* A step that leaves the runs and the flags alone and keeps the members of
\* every batch: a promise is settled, and that is all.
LEMMA SettleStep ==
    ASSUME IInv, TypeOK',
           UNCHANGED <<pc, runs, running, lock, forced>>,
           Len(batches') = Len(batches),
           \A k \in 1..Len(batches) : batches'[k].members = batches[k].members
    PROVE  IInv'
  <1>1. DOMAIN batches' = DOMAIN batches /\ DOMAIN batches = 1..Len(batches)
        /\ DOMAIN runs = 1..Len(runs)
    BY Shapes, LenProperties DEF IInv, TypeOK
  <1>2. RunsOfBatches' /\ RunOrder'
    BY <1>1 DEF IInv, RunsOfBatches, RunOrder
  <1>3. OneBatchAtATime'
    BY <1>1 DEF IInv, OneBatchAtATime, cur
  <1>4. OneHome'
    BY <1>1 DEF IInv, OneHome
  <1>5. QED
    BY <1>2, <1>3, <1>4 DEF IInv

LEMMA PushStep ==
    ASSUME IInv, TypeOK', NEW j \in Jobs, Push(j)
    PROVE  IInv'
  <1> DEFINE n == Len(batches)
             e == [batches[n] EXCEPT !.members = @ \cup {j}]
  <1>1. /\ n \in 1..n /\ n \in Nat /\ DOMAIN batches = 1..n
        /\ batches \in Seq(Batch) /\ batches[n] \in Batch
        /\ DOMAIN runs = 1..Len(runs)
    BY Shapes DEF IInv, RunsOfBatches, TypeOK
  <1>2. e \in Batch /\ e.members = batches[n].members \cup {j}
    BY <1>1 DEF Batch
  <1>3. batches' = [batches EXCEPT ![n] = e]
    BY DEF Push, cur
  <1>4. /\ Len(batches') = n /\ DOMAIN batches' = 1..n
        /\ \A k \in 1..n : batches'[k].members =
             IF k = n THEN batches[n].members \cup {j} ELSE batches[k].members
    BY <1>1, <1>2, <1>3, ExceptSeq
  <1>5. UNCHANGED <<runs, running, lock, forced>> /\ pc[j] = "waiting"
        /\ pc' = [pc EXCEPT ![j] = "logging"]
    BY DEF Push
  <1>6. RunsOfBatches' /\ RunOrder'
    BY <1>1, <1>4, <1>5 DEF IInv, RunsOfBatches, RunOrder
  <1>7. OneBatchAtATime'
    BY <1>1, <1>4, <1>5 DEF IInv, OneBatchAtATime, cur
  <1>8. OneHome'
    <2>1. \A k \in 1..n : j \notin batches[k].members
      BY <1>1, <1>5 DEF IInv, OneHome
    <2>2. \A k \in 1..n : batches[k].members \subseteq Jobs
      BY Shapes DEF IInv
    <2>3. \A k \in 1..n : \A i \in batches'[k].members :
            pc'[i] \notin {"queued", "waiting"}
      <3>1. pc \in [Jobs -> Collector]
        BY DEF IInv, TypeOK
      <3>2. SUFFICES ASSUME NEW k \in 1..n, NEW i \in batches'[k].members
                     PROVE  pc'[i] \notin {"queued", "waiting"}
        OBVIOUS
      <3>3. CASE i = j
        BY <1>5, <3>1, <3>3
      <3>4. CASE i # j
        <4>1. i \in batches[k].members
          BY <1>4, <3>4
        <4>2. pc[i] \notin {"queued", "waiting"} /\ i \in Jobs
          BY <1>1, <4>1, <2>2 DEF IInv, OneHome
        <4>3. QED
          BY <1>5, <3>1, <3>4, <4>2
      <3>5. QED
        BY <3>3, <3>4
    <2>4. \A k, l \in 1..n :
            k # l => batches'[k].members \cap batches'[l].members = {}
      BY <1>1, <1>4, <2>1 DEF IInv, OneHome
    <2>5. QED
      BY <1>4, <2>3, <2>4 DEF OneHome
  <1>9. QED
    BY <1>6, <1>7, <1>8 DEF IInv

LEMMA HandlerReadsStep ==
    ASSUME IInv, TypeOK', NEW r \in DOMAIN runs, HandlerReads(r)
    PROVE  IInv'
  <1> DEFINE e == [runs[r] EXCEPT !.seen = batches[runs[r].batch].members]
  <1>1. /\ DOMAIN runs = 1..Len(runs) /\ runs \in Seq(Run) /\ runs[r] \in Run
        /\ r \in 1..Len(runs) /\ Len(runs) \in Nat
        /\ batches[runs[r].batch].members \subseteq Jobs
    BY Shapes DEF IInv, TypeOK, RunsOfBatches
  <1>2. /\ e \in Run /\ e.batch = runs[r].batch /\ e.active = runs[r].active
        /\ e.seen = batches[runs[r].batch].members
    BY <1>1 DEF Run
  <1>3. runs' = [runs EXCEPT ![r] = e]
    BY DEF HandlerReads
  <1>4. /\ Len(runs') = Len(runs) /\ DOMAIN runs' = DOMAIN runs
        /\ \A s \in 1..Len(runs) :
             /\ runs'[s].batch = runs[s].batch /\ runs'[s].active = runs[s].active
             /\ runs'[s].seen = IF s = r THEN batches[runs[r].batch].members
                                ELSE runs[s].seen
    BY <1>1, <1>2, <1>3, ExceptSeq
  <1>5. UNCHANGED <<pc, batches, running, lock, forced>>
    BY DEF HandlerReads
  <1>6. RunsOfBatches' /\ RunOrder'
    BY <1>1, <1>4, <1>5 DEF IInv, RunsOfBatches, RunOrder
  <1>7. OneBatchAtATime'
    <2>1. runs # <<>> => runs' # <<>>
      BY <1>3
    <2>2. Len(runs) >= 1
      BY <1>1
    <2>3. QED
      BY <1>1, <1>4, <1>5, <2>1, <2>2 DEF IInv, OneBatchAtATime, cur
  <1>8. OneHome'
    BY <1>5 DEF IInv, OneHome
  <1>9. QED
    BY <1>6, <1>7, <1>8 DEF IInv

LEMMA FinishRunStep ==
    ASSUME IInv, TypeOK', NEW r \in DOMAIN runs,
           NEW how \in {"resolved", "rejected"}, FinishRun(r, how)
    PROVE  IInv'
  <1> DEFINE e  == [runs[r] EXCEPT !.active = FALSE]
             n  == Len(batches)
             bs == SettlePromise(batches, runs[r].batch, how)
  <1>1. /\ DOMAIN runs = 1..Len(runs) /\ runs \in Seq(Run) /\ runs[r] \in Run
        /\ r \in 1..Len(runs) /\ Len(runs) \in Nat
        /\ n \in Nat /\ n >= 1 /\ DOMAIN batches = 1..n /\ batches \in Seq(Batch)
        /\ runs[r].batch \in 1..n
    BY Shapes DEF IInv, TypeOK, RunsOfBatches
  <1>2. /\ e \in Run /\ e.batch = runs[r].batch /\ e.seen = runs[r].seen
        /\ e.active = FALSE
    BY <1>1 DEF Run
  <1>3. /\ Len(runs') = Len(runs) /\ DOMAIN runs' = DOMAIN runs
        /\ \A s \in 1..Len(runs) :
             /\ runs'[s].batch = runs[s].batch /\ runs'[s].seen = runs[s].seen
             /\ runs'[s].active = IF s = r THEN FALSE ELSE runs[s].active
    <2>1. runs' = [runs EXCEPT ![r] = e]
      BY DEF FinishRun
    <2>2. QED
      BY <1>1, <1>2, <2>1, ExceptSeq
  <1>4. /\ Len(batches') = n + 1 /\ DOMAIN batches' = 1..(n + 1)
        /\ \A k \in 1..n : batches'[k].members = batches[k].members
        /\ batches'[n + 1].members = {}
    <2>1. bs \in Seq(Batch) /\ Len(bs) = n
          /\ \A k \in 1..n : bs[k].members = batches[k].members
      BY <1>1, SettlePromiseEffect
    <2>2. NewBatch \in Batch /\ NewBatch.members = {}
      BY DEF NewBatch, Batch, Promise
    <2>3. batches' = Append(bs, NewBatch)
      BY DEF FinishRun
    <2>4. QED
      BY <1>1, <2>1, <2>2, <2>3, AppendProperties, LenProperties
  <1>5. UNCHANGED <<pc, forced>> /\ running' = FALSE /\ lock' = FALSE /\ runs[r].active
    BY DEF FinishRun, ActiveRuns
  <1>6. RunsOfBatches'
    <2>1. SUFFICES ASSUME NEW s \in 1..Len(runs)
                   PROVE  /\ runs'[s].batch \in 1..(n + 1)
                          /\ runs'[s].seen \subseteq batches'[runs'[s].batch].members
      BY <1>1, <1>3, <1>4 DEF RunsOfBatches
    <2>2. runs[s].batch \in 1..n /\ runs[s].seen \subseteq batches[runs[s].batch].members
      BY <1>1 DEF IInv, RunsOfBatches
    <2>3. runs'[s].batch = runs[s].batch /\ runs'[s].seen = runs[s].seen
      BY <1>3
    <2>4. batches'[runs[s].batch].members = batches[runs[s].batch].members
      BY <1>4, <2>2
    <2>5. QED
      BY <1>1, <2>2, <2>3, <2>4
  <1>7. ASSUME ~forced
        PROVE  /\ \A s \in 1..Len(runs) : ~runs'[s].active
               /\ \A s \in 1..Len(runs) : runs[s].batch < n + 1
    <2>1. \A s \in 1..Len(runs) : runs[s].active => s = r
      BY <1>1, <1>5, <1>7 DEF IInv, OneBatchAtATime
    <2>2. \A s \in 1..Len(runs) : ~runs'[s].active
      BY <1>3, <2>1
    <2>3. \A s \in 1..Len(runs) : runs[s].batch \in 1..n
      BY <1>1 DEF IInv, RunsOfBatches
    <2>4. \A s \in 1..Len(runs) : runs[s].batch < n + 1
      BY <1>1, <2>3
    <2>5. QED
      BY <2>2, <2>4
  <1>8. OneBatchAtATime'
    BY <1>1, <1>3, <1>5, <1>7 DEF OneBatchAtATime
  <1>9. RunOrder'
    <2>1. SUFFICES ASSUME ~forced, NEW s \in 1..Len(runs)
                   PROVE  /\ runs'[s].batch < Len(batches')
                          /\ \A t \in 1..Len(runs) : s # t => runs'[s].batch # runs'[t].batch
      BY <1>1, <1>3, <1>5 DEF RunOrder
    <2>2. runs'[s].batch < Len(batches')
      BY <1>3, <1>4, <1>7, <2>1
    <2>3. \A t \in 1..Len(runs) : s # t => runs[s].batch # runs[t].batch
      BY <1>1, <2>1 DEF IInv, RunOrder
    <2>4. QED
      BY <1>3, <2>2, <2>3
  <1>10. OneHome'
    <2>1. \A k \in 1..(n + 1) : k \in 1..n \/ batches'[k].members = {}
      BY <1>1, <1>4
    <2>2. QED
      BY <1>1, <1>4, <1>5, <2>1 DEF IInv, OneHome
  <1>11. QED
    BY <1>6, <1>8, <1>9, <1>10 DEF IInv

LEMMA InvStep == IInv /\ [Next]_vars => IInv'
  <1> SUFFICES ASSUME IInv, [Next]_vars PROVE IInv'
    OBVIOUS
  <1>1. TypeOK'
    BY TypeStep DEF IInv
  <1>2. pc \in [Jobs -> Collector]
    BY DEF IInv, TypeOK
  <1>3. ASSUME NEW j \in Jobs, JobStep(j)
        PROVE  IInv'
    <2>1. CASE Deliver(j)
      BY <2>1, <1>1, <1>2, QuietStep DEF Deliver
    <2>2. CASE RejectInvalid(j)
      BY <2>2, <1>1, <1>2, QuietStep DEF RejectInvalid
    <2>3. CASE Push(j)
      BY <2>3, <1>1, PushStep
    <2>4. CASE LogDone(j)
      <3>1. \A i \in Jobs : pc'[i] \in {"queued", "waiting"} => pc[i] \in {"queued", "waiting"}
        BY <2>4, <1>2 DEF LogDone
      <3>2. CASE ~running /\ StartRun
        BY <2>4, <3>1, <3>2, <1>1, StartStep DEF LogDone
      <3>3. CASE NoRun(timer \/ jobBatch # {})
        BY <2>4, <3>1, <3>3, <1>1, QuietStep DEF LogDone, NoRun
      <3>4. QED
        BY <2>4, <3>2, <3>3 DEF LogDone
    <2>5. CASE Settle(j)
      BY <2>5, <1>1, <1>2, QuietStep DEF Settle
    <2>6. CASE SettleUnrecorded(j)
      BY <2>6, <1>1, <1>2, QuietStep DEF SettleUnrecorded
    <2>7. QED
      BY <1>3, <2>1, <2>2, <2>3, <2>4, <2>5, <2>6 DEF JobStep
  <1>4. CASE TimerFires
    <2>1. CASE ~running /\ StartRun
      BY <1>4, <2>1, <1>1, StartStep DEF TimerFires
    <2>2. CASE NoRun(FALSE)
      BY <1>4, <2>2, <1>1, QuietStep DEF TimerFires, NoRun
    <2>3. QED
      BY <1>4, <2>1, <2>2 DEF TimerFires
  <1>5. ASSUME NEW r \in DOMAIN runs, RunStep(r)
        PROVE  IInv'
    <2>1. CASE HandlerReads(r)
      BY <2>1, <1>1, HandlerReadsStep
    <2>2. ASSUME NEW j \in EarlyJobs, NEW written \in BOOLEAN, CompleteEarly(r, j, written)
          PROVE  IInv'
      BY <2>2, <1>1, QuietStep DEF CompleteEarly
    <2>3. ASSUME NEW how \in {"resolved", "rejected"}, FinishRun(r, how)
          PROVE  IInv'
      BY <2>3, <1>1, FinishRunStep
    <2>4. QED
      BY <1>5, <2>1, <2>2, <2>3 DEF RunStep
  <1>6. CASE CloseStep
    <2>1. CASE CloseWithFinalBatch
      BY <2>1, <1>1, StartStep DEF CloseWithFinalBatch
    <2>2. CASE CloseDuringRun
      BY <2>2, <1>1, QuietStep DEF CloseDuringRun, NoRun
    <2>3. CASE CloseSkippingBatch
      <3>1. Len(batches) \in 1..Len(batches) /\ batches \in Seq(Batch)
        BY Shapes DEF IInv, RunsOfBatches, TypeOK
      <3>2. Len(batches') = Len(batches)
            /\ \A k \in 1..Len(batches) : batches'[k].members = batches[k].members
        BY <2>3, <3>1, SettlePromiseEffect DEF CloseSkippingBatch, cur
      <3>3. QED
        BY <2>3, <3>2, <1>1, SettleStep DEF CloseSkippingBatch, NoRun
    <2>4. CASE CloseIdle
      BY <2>4, <1>1, QuietStep DEF CloseIdle, NoRun
    <2>5. CASE CloseForced
      <3>1. Len(batches) \in 1..Len(batches) /\ batches \in Seq(Batch)
            /\ Len(batches) \in Nat /\ DOMAIN batches = 1..Len(batches)
        BY Shapes DEF IInv, RunsOfBatches, TypeOK
      <3>2. Len(batches') = Len(batches) /\ DOMAIN batches' = 1..Len(batches)
            /\ \A k \in 1..Len(batches) : batches'[k].members = batches[k].members
        BY <2>5, <3>1, SettlePromiseEffect, LenProperties DEF CloseForced, cur
      <3>3. forced' = TRUE /\ UNCHANGED <<pc, runs>>
        BY <2>5 DEF CloseForced
      <3>4. RunsOfBatches'
        BY <3>1, <3>2, <3>3, Shapes DEF IInv, RunsOfBatches
      <3>5. OneBatchAtATime' /\ RunOrder'
        BY <3>3 DEF OneBatchAtATime, RunOrder
      <3>6. OneHome'
        BY <3>1, <3>2, <3>3 DEF IInv, OneHome
      <3>7. QED
        BY <1>1, <3>4, <3>5, <3>6 DEF IInv
    <2>6. CASE DrainDone
      BY <2>6, <1>1, QuietStep DEF DrainDone
    <2>7. CASE CloseDone
      BY <2>7, <1>1, QuietStep DEF CloseDone
    <2>8. QED
      BY <1>6, <2>1, <2>2, <2>3, <2>4, <2>5, <2>6, <2>7 DEF CloseStep
  <1>7. CASE UNCHANGED vars
    BY <1>7, <1>1, QuietStep DEF vars
  <1>8. QED
    BY <1>3, <1>4, <1>5, <1>6, <1>7 DEF Next

\* The handler's view of two runs is disjoint because their batches are.
LEMMA InvGivesJobsRunOnce == IInv => JobsRunOnce
  <1> SUFFICES ASSUME IInv, ~forced, NEW r \in DOMAIN runs, NEW s \in DOMAIN runs, r # s
               PROVE  /\ runs[r].batch # runs[s].batch
                      /\ runs[r].seen \cap runs[s].seen = {}
    BY DEF JobsRunOnce
  <1>1. runs[r].batch # runs[s].batch
    BY DEF IInv, RunOrder
  <1>2. /\ runs[r].batch \in DOMAIN batches /\ runs[s].batch \in DOMAIN batches
        /\ runs[r].seen \subseteq batches[runs[r].batch].members
        /\ runs[s].seen \subseteq batches[runs[s].batch].members
    BY Shapes DEF IInv, RunsOfBatches
  <1>3. QED
    BY <1>1, <1>2 DEF IInv, OneHome

LEMMA Invariance == Spec => []IInv
  <1>1. QED
    BY InvInit, InvStep, PTL DEF Spec

----------------------------------------------------------------------------
(* Outcomes *)

\* What the handler has read includes the jobs its run began with.
Shown ==
    \A r \in DOMAIN runs :
        /\ runs[r].first \subseteq batches[runs[r].batch].members
        /\ runs[r].seen = {} \/ runs[r].first \subseteq runs[r].seen

\* A collector waits for its own batch or, if job.log took long, a later one,
\* and a job that is in no batch yet has no outcome.
Parked ==
    \A j \in Jobs :
        /\ pc[j] \in {"queued", "waiting"} => outcome[j] = "none"
        /\ pc[j] \in {"queued", "waiting", "logging"} => waits[j] = 0
        /\ pc[j] = "awaiting" =>
               /\ waits[j] \in DOMAIN batches
               /\ \A k \in DOMAIN batches : j \in batches[k].members => waits[j] >= k

\* The worker is open, or close() waits or waited for a run.
Steady == closing = "open" \/ drain # 0

\* Then promises are resolved by runs only, after the handler has read its
\* batch, and outcomes come from these promises or from the handler.
Answered ==
    /\ closing = "open" => drain = 0
    /\ Steady =>
        /\ ~forced
        /\ batches[Len(batches)].promise = "pending"
        /\ \A k \in DOMAIN batches : batches[k].promise = "resolved" =>
               \E r \in DOMAIN runs : runs[r].batch = k /\ runs[r].seen # {}
        /\ \A j \in Jobs : outcome[j] = "completed" =>
               \/ \E r \in DOMAIN runs : j \in runs[r].seen
               \/ waits[j] \in DOMAIN batches /\ batches[waits[j]].promise = "resolved"
        /\ \A j \in batches[Len(batches)].members :
               outcome[j] = "none" \/ \E r \in DOMAIN runs : j \in runs[r].seen
\* The invariant of the outcomes.
HInv == IInv /\ Shown /\ Parked /\ Answered

\* The parts of it that a step may disturb.
Rest == Shown /\ Parked /\ Answered

LEMMA HShapes ==
    ASSUME HInv
    PROVE  /\ DOMAIN batches = 1..Len(batches) /\ Len(batches) \in Nat /\ Len(batches) >= 1
           /\ DOMAIN runs = 1..Len(runs) /\ Len(runs) \in Nat
           /\ batches \in Seq(Batch) /\ runs \in Seq(Run)
           /\ pc \in [Jobs -> Collector] /\ outcome \in [Jobs -> Outcome]
           /\ waits \in [Jobs -> Nat] /\ drain \in Nat
           /\ \A k \in 1..Len(batches) : batches[k] \in Batch
           /\ \A r \in 1..Len(runs) :
                  /\ runs[r] \in Run /\ runs[r].batch \in 1..Len(batches)
                  /\ runs[r].seen \subseteq batches[runs[r].batch].members
  BY Shapes DEF HInv, IInv, TypeOK, RunsOfBatches

\* Steps that touch neither a batch nor a run, and give no job an outcome but
\* for a reason.
LEMMA QuietRest ==
    ASSUME HInv, UNCHANGED <<batches, runs, forced>>, Parked',
           closing' = "open" => closing = "open" /\ drain' = drain,
           Steady' => Steady,
           \A j \in Jobs : outcome'[j] = "completed" =>
               \/ outcome[j] = "completed" /\ (waits'[j] = waits[j] \/ waits[j] = 0)
               \/ \E r \in DOMAIN runs : j \in runs[r].seen
               \/ waits'[j] \in DOMAIN batches /\ batches[waits'[j]].promise = "resolved",
           \A j \in batches[Len(batches)].members : Steady /\ outcome'[j] # outcome[j] =>
               \E r \in DOMAIN runs : j \in runs[r].seen
    PROVE  Rest'
  <1>1. Shown'
    BY DEF HInv, Shown
  <1>2. Answered'
    <2>1. closing' = "open" => drain' = 0
      BY DEF HInv, Answered
    <2>2. ASSUME Steady'
          PROVE  /\ ~forced'
                 /\ batches[Len(batches)].promise = "pending"
                 /\ \A k \in DOMAIN batches : batches[k].promise = "resolved" =>
                        \E r \in DOMAIN runs : runs[r].batch = k /\ runs[r].seen # {}
                 /\ \A j \in Jobs : outcome'[j] = "completed" =>
                        \/ \E r \in DOMAIN runs : j \in runs[r].seen
                        \/ waits'[j] \in DOMAIN batches /\ batches[waits'[j]].promise = "resolved"
                 /\ \A j \in batches[Len(batches)].members :
                        outcome'[j] = "none" \/ \E r \in DOMAIN runs : j \in runs[r].seen
      <3>1. Answered /\ Steady
        BY <2>2 DEF HInv
      <3>2. 0 \notin DOMAIN batches
        BY HShapes
      <3>3. QED
        BY <3>1, <3>2 DEF Answered
    <2>3. QED
      BY <2>1, <2>2 DEF Answered
  <1>3. QED
    BY <1>1, <1>2 DEF Rest

\* A run starts.
LEMMA StartRest ==
    ASSUME HInv, StartRun, UNCHANGED <<batches, forced, outcome>>, Parked',
           closing' = "open" => closing = "open" /\ drain' = drain,
           Steady' => Steady,
           \A j \in Jobs : waits'[j] = waits[j] \/ waits[j] = 0
    PROVE  Rest'
  <1> DEFINE n == Len(runs)
  <1>1. /\ runs' \in Seq(Run) /\ DOMAIN runs' = 1..n + 1 /\ DOMAIN runs = 1..n /\ n \in Nat
        /\ \A r \in 1..n : runs'[r] = runs[r]
        /\ runs'[n + 1].batch = Len(batches) /\ runs'[n + 1].seen = {}
    BY StartRunEffect, HShapes, LenProperties DEF HInv, IInv
  <1>2. runs'[n + 1].first = batches[Len(batches)].members
    <2> DEFINE new == [batch |-> cur, first |-> jobBatch, seen |-> {}, active |-> TRUE]
    <2>1. batches[Len(batches)] \in Batch /\ Len(batches) \in Nat
      BY HShapes
    <2>2. new \in Run /\ runs \in Seq(Run)
      BY <2>1, HShapes DEF Run, Batch, cur, jobBatch
    <2>3. runs' = Append(runs, new)
      BY DEF StartRun
    <2> HIDE DEF new
    <2>4. runs'[n + 1] = new
      BY <2>2, <2>3, AppendProperties
    <2>5. QED
      BY <2>4 DEF new, cur, jobBatch
  <1> HIDE DEF n
  <1>3. Shown'
    <2> SUFFICES ASSUME NEW r \in 1..n + 1
                 PROVE  /\ runs'[r].first \subseteq batches[runs'[r].batch].members
                        /\ runs'[r].seen = {} \/ runs'[r].first \subseteq runs'[r].seen
      BY <1>1 DEF Shown
    <2>1. CASE r = n + 1
      BY <1>1, <1>2, <2>1
    <2>2. CASE r # n + 1
      <3>1. r \in 1..n
        BY <1>1, <2>2
      <3>2. QED
        BY <1>1, <3>1 DEF HInv, Shown
    <2>3. QED
      BY <2>1, <2>2
  <1>4. \A j \in Jobs : (\E r \in 1..n : j \in runs[r].seen) =>
            \E r \in DOMAIN runs' : j \in runs'[r].seen
    BY <1>1
  <1>5. Answered'
    <2>1. closing' = "open" => drain' = 0
      BY DEF HInv, Answered
    <2>2. ASSUME Steady'
          PROVE  /\ ~forced
                 /\ batches[Len(batches)].promise = "pending"
                 /\ \A k \in DOMAIN batches : batches[k].promise = "resolved" =>
                        \E r \in DOMAIN runs' : runs'[r].batch = k /\ runs'[r].seen # {}
                 /\ \A j \in Jobs : outcome[j] = "completed" =>
                        \/ \E r \in DOMAIN runs' : j \in runs'[r].seen
                        \/ waits'[j] \in DOMAIN batches /\ batches[waits'[j]].promise = "resolved"
                 /\ \A j \in batches[Len(batches)].members :
                        outcome[j] = "none" \/ \E r \in DOMAIN runs' : j \in runs'[r].seen
      <3>1. Answered /\ Steady
        BY <2>2 DEF HInv
      <3>2. 0 \notin DOMAIN batches
        BY HShapes
      <3>3. \A k \in DOMAIN batches : batches[k].promise = "resolved" =>
                \E r \in DOMAIN runs' : runs'[r].batch = k /\ runs'[r].seen # {}
        BY <1>1, <3>1 DEF Answered
      <3>4. \A j \in Jobs : outcome[j] = "completed" =>
                \/ \E r \in DOMAIN runs' : j \in runs'[r].seen
                \/ waits'[j] \in DOMAIN batches /\ batches[waits'[j]].promise = "resolved"
        BY <1>1, <1>4, <3>1, <3>2 DEF Answered
      <3>5. \A j \in batches[Len(batches)].members :
                outcome[j] = "none" \/ \E r \in DOMAIN runs' : j \in runs'[r].seen
        <4>0. Len(batches) \in 1..Len(batches)
          BY HShapes
        <4>1. batches[Len(batches)].members \subseteq Jobs
          BY <4>0, HShapes DEF Batch
        <4>2. QED
          BY <1>1, <1>4, <3>1, <4>1 DEF Answered
      <3>6. QED
        BY <3>1, <3>3, <3>4, <3>5 DEF Answered
    <2>3. QED
      BY <2>1, <2>2 DEF Answered
  <1>6. QED
    BY <1>3, <1>5 DEF Rest

\* A job that is pushed has no outcome yet.
LEMMA PushRest ==
    ASSUME HInv, NEW j \in Jobs, Push(j)
    PROVE  Rest'
  <1> DEFINE n == Len(batches)
             e == [batches[n] EXCEPT !.members = @ \cup {j}]
  <1>1. /\ n \in 1..n /\ n \in Nat /\ DOMAIN batches = 1..n
        /\ batches \in Seq(Batch) /\ batches[n] \in Batch
        /\ DOMAIN runs = 1..Len(runs) /\ Len(runs) \in Nat
    BY HShapes
  <1>2. e \in Batch /\ e.members = batches[n].members \cup {j} /\ e.promise = batches[n].promise
    BY <1>1 DEF Batch
  <1>3. batches' = [batches EXCEPT ![n] = e]
    BY DEF Push, cur
  <1>4. /\ Len(batches') = n /\ DOMAIN batches' = 1..n
        /\ \A k \in 1..n : /\ batches'[k].promise = batches[k].promise
                           /\ batches'[k].members =
                                  IF k = n THEN batches[n].members \cup {j} ELSE batches[k].members
    <2> HIDE DEF e
    <2>1. /\ Len(batches') = n /\ DOMAIN batches' = 1..n
          /\ \A k \in 1..n : batches'[k] = IF k = n THEN e ELSE batches[k]
      BY <1>1, <1>2, <1>3, ExceptSeq
    <2>2. QED
      BY <1>2, <2>1
  <1> HIDE DEF n, e
  <1>5. /\ UNCHANGED <<waits, outcome, runs, forced, closing, drain>> /\ pc[j] = "waiting"
        /\ pc' = [pc EXCEPT ![j] = "logging"] /\ pc \in [Jobs -> Collector]
    BY HShapes DEF Push
  <1>6. Shown'
    <2> SUFFICES ASSUME NEW r \in 1..Len(runs)
                 PROVE  /\ runs[r].first \subseteq batches'[runs[r].batch].members
                        /\ runs[r].seen = {} \/ runs[r].first \subseteq runs[r].seen
      BY <1>1, <1>5 DEF Shown
    <2>1. runs[r].batch \in 1..n
      BY HShapes DEF n
    <2>2. QED
      BY <1>1, <1>4, <2>1 DEF HInv, Shown
  <1>7. Parked'
    <2> SUFFICES ASSUME NEW i \in Jobs
                 PROVE  /\ pc'[i] \in {"queued", "waiting"} => outcome[i] = "none"
                        /\ pc'[i] \in {"queued", "waiting", "logging"} => waits[i] = 0
                        /\ pc'[i] = "awaiting" =>
                               /\ waits[i] \in 1..n
                               /\ \A k \in 1..n : i \in batches'[k].members => waits[i] >= k
      BY <1>4, <1>5 DEF Parked
    <2>1. CASE i = j
      BY <1>5, <2>1 DEF HInv, Parked
    <2>2. CASE i # j
      <3>1. pc'[i] = pc[i]
        BY <1>5, <2>2
      <3>2. \A k \in 1..n : i \in batches'[k].members => i \in batches[k].members
        BY <1>4, <2>2
      <3>3. QED
        BY <1>1, <3>1, <3>2 DEF HInv, Parked
    <2>3. QED
      BY <2>1, <2>2
  <1>8. Answered'
    <2>1. Steady' = Steady
      BY <1>5 DEF Steady
    <2>2. outcome[j] = "none"
      BY <1>5 DEF HInv, Parked
    <2>3. ASSUME Steady
          PROVE  /\ ~forced
                 /\ batches'[n].promise = "pending"
                 /\ \A k \in 1..n : batches'[k].promise = "resolved" =>
                        \E r \in DOMAIN runs : runs[r].batch = k /\ runs[r].seen # {}
                 /\ \A i \in Jobs : outcome[i] = "completed" =>
                        \/ \E r \in DOMAIN runs : i \in runs[r].seen
                        \/ waits[i] \in 1..n /\ batches'[waits[i]].promise = "resolved"
                 /\ \A i \in batches'[n].members :
                        outcome[i] = "none" \/ \E r \in DOMAIN runs : i \in runs[r].seen
      <3>1. /\ ~forced
            /\ batches[n].promise = "pending"
            /\ \A k \in 1..n : batches[k].promise = "resolved" =>
                   \E r \in DOMAIN runs : runs[r].batch = k /\ runs[r].seen # {}
            /\ \A i \in Jobs : outcome[i] = "completed" =>
                   \/ \E r \in DOMAIN runs : i \in runs[r].seen
                   \/ waits[i] \in 1..n /\ batches[waits[i]].promise = "resolved"
            /\ \A i \in batches[n].members :
                   outcome[i] = "none" \/ \E r \in DOMAIN runs : i \in runs[r].seen
        BY <1>1, <2>3 DEF HInv, Answered, n
      <3>2. \A k \in 1..n : batches'[k].promise = batches[k].promise
        BY <1>4
      <3>4. batches'[n].members = batches[n].members \cup {j}
        BY <1>1, <1>4
      <3>5. batches'[n].promise = "pending"
        BY <1>1, <3>1, <3>2
      <3>3. QED
        BY <2>2, <3>1, <3>2, <3>4, <3>5
    <2>4. closing' = "open" => drain' = 0
      BY <1>5 DEF HInv, Answered
    <2>5. QED
      BY <1>4, <1>5, <2>1, <2>3, <2>4 DEF Answered
  <1>9. QED
    BY <1>6, <1>7, <1>8 DEF Rest

\* What the handler reads now it has read before, or all of the batch.
LEMMA HandlerReadsRest ==
    ASSUME HInv, NEW r \in DOMAIN runs, HandlerReads(r)
    PROVE  Rest'
  <1> DEFINE e == [runs[r] EXCEPT !.seen = batches[runs[r].batch].members]
  <1>1. /\ DOMAIN runs = 1..Len(runs) /\ runs \in Seq(Run) /\ runs[r] \in Run
        /\ r \in 1..Len(runs) /\ Len(runs) \in Nat
        /\ runs[r].batch \in 1..Len(batches)
        /\ batches[runs[r].batch] \in Batch /\ DOMAIN batches = 1..Len(batches)
    BY HShapes
  <1>2. /\ e \in Run /\ e.batch = runs[r].batch /\ e.first = runs[r].first
        /\ e.seen = batches[runs[r].batch].members
    BY <1>1 DEF Run, Batch
  <1>3. runs' = [runs EXCEPT ![r] = e]
    BY DEF HandlerReads
  <1>4. /\ Len(runs') = Len(runs) /\ DOMAIN runs' = DOMAIN runs
        /\ \A s \in 1..Len(runs) :
             /\ runs'[s].batch = runs[s].batch /\ runs'[s].first = runs[s].first
             /\ runs'[s].seen = IF s = r THEN batches[runs[r].batch].members
                                ELSE runs[s].seen
    <2> HIDE DEF e
    <2>1. QED
      BY <1>1, <1>2, <1>3, ExceptSeq
  <1> HIDE DEF e
  <1>5. UNCHANGED <<pc, waits, outcome, batches, forced, closing, drain>>
    BY DEF HandlerReads
  <1>6. \A s \in 1..Len(runs) : runs[s].seen \subseteq runs'[s].seen
    BY <1>1, <1>4, HShapes
  <1>7. Shown'
    BY <1>1, <1>4, <1>5 DEF HInv, Shown
  <1>8. Parked'
    BY <1>5 DEF HInv, Parked
  <1>9. Answered'
    <2>1. Steady' = Steady
      BY <1>5 DEF Steady
    <2>2. Answered
      BY DEF HInv
    <2>3. ASSUME Steady, NEW k \in DOMAIN batches, batches[k].promise = "resolved"
          PROVE  \E s \in DOMAIN runs : runs'[s].batch = k /\ runs'[s].seen # {}
      <3>1. PICK s \in DOMAIN runs : runs[s].batch = k /\ runs[s].seen # {}
        BY <2>2, <2>3 DEF Answered
      <3>2. QED
        BY <1>1, <1>4, <1>6, <3>1
    <2>4. \A j \in Jobs : (\E s \in DOMAIN runs : j \in runs[s].seen) =>
              \E s \in DOMAIN runs : j \in runs'[s].seen
      BY <1>1, <1>6
    <2>5. batches[Len(batches)].members \subseteq Jobs
      <3>1. Len(batches) \in 1..Len(batches)
        BY HShapes
      <3>2. QED
        BY <3>1, HShapes DEF Batch
    <2>6. ASSUME Steady
          PROVE  /\ \A j \in Jobs : outcome[j] = "completed" =>
                        \/ \E s \in DOMAIN runs : j \in runs'[s].seen
                        \/ waits[j] \in DOMAIN batches /\ batches[waits[j]].promise = "resolved"
                 /\ \A j \in batches[Len(batches)].members :
                        outcome[j] = "none" \/ \E s \in DOMAIN runs : j \in runs'[s].seen
      BY <2>2, <2>4, <2>5, <2>6 DEF Answered
    <2>7. /\ closing = "open" => drain = 0
          /\ Steady => ~forced /\ batches[Len(batches)].promise = "pending"
      BY <2>2 DEF Answered
    <2>8. DOMAIN runs' = DOMAIN runs
      BY <1>4
    <2>9. QED
      BY <1>5, <2>1, <2>3, <2>6, <2>7, <2>8 DEF Answered
  <1>10. QED
    BY <1>7, <1>8, <1>9 DEF Rest

\* Settling a promise: it was pending, and the others stay as they are.
LEMMA PromiseEffect ==
    ASSUME NEW bs \in Seq(Batch), NEW k \in 1..Len(bs),
           NEW how \in {"resolved", "rejected"}, NEW i \in 1..Len(bs)
    PROVE  /\ bs[i].promise # "pending" => SettlePromise(bs, k, how)[i].promise = bs[i].promise
           /\ SettlePromise(bs, k, how)[i].promise = "resolved" =>
                  bs[i].promise = "resolved" \/ (i = k /\ how = "resolved")
  <1> DEFINE e == [bs[k] EXCEPT !.promise = how]
  <1>1. bs[k] \in Batch
    BY ElementOfSeq
  <1>2. e \in Batch /\ e.promise = how
    BY <1>1 DEF Batch, Promise
  <1>3. CASE bs[k].promise = "pending"
    <2>1. SettlePromise(bs, k, how) = [bs EXCEPT ![k] = e]
      BY <1>3 DEF SettlePromise
    <2>2. [bs EXCEPT ![k] = e][i] = IF i = k THEN e ELSE bs[i]
      BY <1>2, ExceptSeq
    <2>3. QED
      BY <1>2, <1>3, <2>1, <2>2
  <1>4. CASE bs[k].promise # "pending"
    BY <1>4 DEF SettlePromise
  <1>5. QED
    BY <1>3, <1>4

\* The run that is over has read its batch if it resolves the promise.
LEMMA FinishRunRest ==
    ASSUME HInv, NEW r \in DOMAIN runs, NEW how \in {"resolved", "rejected"},
           FinishRun(r, how)
    PROVE  Rest'
  <1> DEFINE e  == [runs[r] EXCEPT !.active = FALSE]
             n  == Len(batches)
             bs == SettlePromise(batches, runs[r].batch, how)
  <1>1. /\ DOMAIN runs = 1..Len(runs) /\ runs \in Seq(Run) /\ runs[r] \in Run
        /\ r \in 1..Len(runs) /\ Len(runs) \in Nat
        /\ n \in Nat /\ n >= 1 /\ DOMAIN batches = 1..n /\ batches \in Seq(Batch)
        /\ runs[r].batch \in 1..n
    BY HShapes
  <1>2. /\ e \in Run /\ e.batch = runs[r].batch /\ e.seen = runs[r].seen
        /\ e.first = runs[r].first
    BY <1>1 DEF Run
  <1>3. /\ Len(runs') = Len(runs) /\ DOMAIN runs' = DOMAIN runs
        /\ \A s \in 1..Len(runs) :
             /\ runs'[s].batch = runs[s].batch /\ runs'[s].seen = runs[s].seen
             /\ runs'[s].first = runs[s].first
    <2>1. runs' = [runs EXCEPT ![r] = e]
      BY DEF FinishRun
    <2> HIDE DEF e
    <2>2. QED
      BY <1>1, <1>2, <2>1, ExceptSeq
  <1>4. /\ Len(batches') = n + 1 /\ DOMAIN batches' = 1..(n + 1)
        /\ \A k \in 1..n :
               /\ batches'[k].members = batches[k].members
               /\ batches[k].promise # "pending" => batches'[k].promise = batches[k].promise
               /\ batches'[k].promise = "resolved" =>
                      batches[k].promise = "resolved" \/ (k = runs[r].batch /\ how = "resolved")
        /\ batches'[n + 1].members = {} /\ batches'[n + 1].promise = "pending"
    <2>1. bs \in Seq(Batch) /\ Len(bs) = n
          /\ \A k \in 1..n : bs[k].members = batches[k].members
      BY <1>1, SettlePromiseEffect
    <2>2. NewBatch \in Batch /\ NewBatch.members = {} /\ NewBatch.promise = "pending"
      BY DEF NewBatch, Batch, Promise
    <2>3. batches' = Append(bs, NewBatch)
      BY DEF FinishRun
    <2>4. \A k \in 1..n :
              /\ batches[k].promise # "pending" => bs[k].promise = batches[k].promise
              /\ bs[k].promise = "resolved" =>
                     batches[k].promise = "resolved" \/ (k = runs[r].batch /\ how = "resolved")
      BY <1>1, PromiseEffect
    <2> HIDE DEF bs
    <2>5. /\ Len(batches') = n + 1 /\ DOMAIN batches' = 1..(n + 1)
          /\ \A k \in 1..n : batches'[k] = bs[k]
          /\ batches'[n + 1] = NewBatch
      BY <1>1, <2>1, <2>2, <2>3, AppendProperties, LenProperties
    <2>6. QED
      BY <2>1, <2>2, <2>4, <2>5
  <1> HIDE DEF e, n, bs
  <1>5. /\ UNCHANGED <<pc, waits, outcome, forced, closing, drain>>
        /\ how = "resolved" => runs[r].seen # {}
    BY DEF FinishRun
  <1>6. Shown'
    <2> SUFFICES ASSUME NEW s \in 1..Len(runs)
                 PROVE  /\ runs[s].first \subseteq batches'[runs[s].batch].members
                        /\ runs[s].seen = {} \/ runs[s].first \subseteq runs[s].seen
      BY <1>1, <1>3 DEF Shown
    <2>1. runs[s].batch \in 1..n
      BY HShapes DEF n
    <2>2. QED
      BY <1>1, <1>4, <2>1 DEF HInv, Shown
  <1>7. Parked'
    <2> SUFFICES ASSUME NEW j \in Jobs
                 PROVE  /\ pc[j] \in {"queued", "waiting"} => outcome[j] = "none"
                        /\ pc[j] \in {"queued", "waiting", "logging"} => waits[j] = 0
                        /\ pc[j] = "awaiting" =>
                               /\ waits[j] \in 1..(n + 1)
                               /\ \A k \in 1..(n + 1) : j \in batches'[k].members => waits[j] >= k
      BY <1>4, <1>5 DEF Parked
    <2>1. \A k \in 1..(n + 1) : j \in batches'[k].members => k \in 1..n /\ j \in batches[k].members
      <3> SUFFICES ASSUME NEW k \in 1..(n + 1), j \in batches'[k].members
                   PROVE  k \in 1..n /\ j \in batches[k].members
        OBVIOUS
      <3>1. k # n + 1
        BY <1>4
      <3>2. k \in 1..n
        BY <1>1, <3>1
      <3>3. QED
        BY <1>4, <3>2
    <2>2. pc[j] = "awaiting" => waits[j] \in 1..n
      BY <1>1 DEF HInv, Parked
    <2>3. pc[j] = "awaiting" => waits[j] \in 1..(n + 1)
      BY <1>1, <2>2
    <2>4. QED
      BY <1>1, <2>1, <2>3 DEF HInv, Parked
  <1>8. Answered'
    <2>1. Steady' = Steady /\ (closing' = "open" => drain' = 0)
      BY <1>5 DEF Steady, HInv, Answered
    <2>2. ASSUME Steady
          PROVE  /\ ~forced
                 /\ \A k \in 1..(n + 1) : batches'[k].promise = "resolved" =>
                        \E s \in DOMAIN runs : runs[s].batch = k /\ runs[s].seen # {}
                 /\ \A j \in Jobs : outcome[j] = "completed" =>
                        \/ \E s \in DOMAIN runs : j \in runs[s].seen
                        \/ waits[j] \in 1..(n + 1) /\ batches'[waits[j]].promise = "resolved"
      <3>1. Answered
        BY DEF HInv
      <3>2. ASSUME NEW k \in 1..(n + 1), batches'[k].promise = "resolved"
            PROVE  \E s \in DOMAIN runs : runs[s].batch = k /\ runs[s].seen # {}
        <4>1. k \in 1..n
          <5>1. k # n + 1
            BY <1>4, <3>2
          <5>2. QED
            BY <1>1, <5>1
        <4>2. CASE batches[k].promise = "resolved"
          BY <1>1, <2>2, <3>1, <4>1, <4>2 DEF Answered
        <4>3. CASE k = runs[r].batch /\ how = "resolved"
          BY <1>5, <4>3
        <4>4. QED
          BY <1>4, <3>2, <4>1, <4>2, <4>3
      <3>3. ASSUME NEW j \in Jobs, outcome[j] = "completed"
            PROVE  \/ \E s \in DOMAIN runs : j \in runs[s].seen
                   \/ waits[j] \in 1..(n + 1) /\ batches'[waits[j]].promise = "resolved"
        <4>1. \/ \E s \in DOMAIN runs : j \in runs[s].seen
              \/ waits[j] \in 1..n /\ batches[waits[j]].promise = "resolved"
          BY <1>1, <2>2, <3>1, <3>3 DEF Answered
        <4>2. CASE waits[j] \in 1..n /\ batches[waits[j]].promise = "resolved"
          <5>1. waits[j] \in 1..(n + 1) /\ batches'[waits[j]].promise = "resolved"
            BY <1>1, <1>4, <4>2
          <5>2. QED
            BY <5>1
        <4>3. QED
          BY <4>1, <4>2
      <3>4. QED
        BY <2>2, <3>1, <3>2, <3>3 DEF Answered
    <2>3. ASSUME Steady
          PROVE  /\ \A k \in DOMAIN batches' : batches'[k].promise = "resolved" =>
                        \E s \in DOMAIN runs' : runs'[s].batch = k /\ runs'[s].seen # {}
                 /\ \A j \in Jobs : outcome'[j] = "completed" =>
                        \/ \E s \in DOMAIN runs' : j \in runs'[s].seen
                        \/ waits'[j] \in DOMAIN batches' /\ batches'[waits'[j]].promise = "resolved"
                 /\ batches'[Len(batches')].promise = "pending"
                 /\ batches'[Len(batches')].members = {}
      <3>1. batches'[Len(batches')].promise = "pending" /\ batches'[Len(batches')].members = {}
        BY <1>4
      <3>2. DOMAIN runs = 1..Len(runs) /\ DOMAIN batches' = 1..(n + 1) /\ DOMAIN runs' = DOMAIN runs
        BY <1>1, <1>3, <1>4
      <3>3. \A k \in 1..(n + 1) : batches'[k].promise = "resolved" =>
                \E s \in DOMAIN runs : runs'[s].batch = k /\ runs'[s].seen # {}
        BY <1>3, <2>2, <2>3, <3>2
      <3>4. \A j \in Jobs : outcome[j] = "completed" =>
                \/ \E s \in DOMAIN runs : j \in runs'[s].seen
                \/ waits[j] \in 1..(n + 1) /\ batches'[waits[j]].promise = "resolved"
        BY <1>3, <2>2, <2>3, <3>2
      <3>5. QED
        BY <1>5, <3>1, <3>2, <3>3, <3>4
    <2>4. QED
      BY <1>5, <2>1, <2>2, <2>3 DEF Answered
  <1>9. QED
    BY <1>6, <1>7, <1>8 DEF Rest

\* close() settles the promise of a batch without a run: nothing is claimed
\* of the outcomes from then on.
LEMMA CloseUnrunRest ==
    ASSUME HInv, CloseSkippingBatch \/ CloseForced
    PROVE  Rest'
  <1> DEFINE n == Len(batches)
  <1>1. /\ n \in 1..n /\ n \in Nat /\ DOMAIN batches = 1..n /\ batches \in Seq(Batch)
    BY HShapes
  <1>2. PICK how \in {"resolved", "rejected"} : batches' = SettlePromise(batches, n, how)
    BY DEF CloseSkippingBatch, CloseForced, cur
  <1>3. /\ Len(batches') = n /\ DOMAIN batches' = 1..n
        /\ \A k \in 1..n : batches'[k].members = batches[k].members
    BY <1>1, <1>2, SettlePromiseEffect, LenProperties
  <1>4. /\ UNCHANGED <<pc, waits, outcome, runs, drain>>
        /\ closing = "open" /\ closing' = "closing"
    BY DEF CloseSkippingBatch, CloseForced, NoRun
  <1>5. ~Steady' /\ closing' # "open"
    BY <1>4 DEF HInv, Answered, Steady
  <1>6. Shown'
    <2>1. \A r \in DOMAIN runs : runs[r].batch \in 1..n
      BY HShapes DEF n
    <2>2. QED
      BY <1>3, <1>4, <2>1 DEF HInv, Shown
  <1>7. Parked'
    BY <1>1, <1>3, <1>4 DEF HInv, Parked
  <1>8. Answered'
    BY <1>5 DEF Answered
  <1>9. QED
    BY <1>6, <1>7, <1>8 DEF Rest

\* A collector that got its answer waited for its batch or a later one: while
\* no unrun batch is settled, that is not the current one.
LEMMA SettledElsewhere ==
    ASSUME HInv, Steady, NEW j \in Jobs, pc[j] = "awaiting",
           batches[waits[j]].promise # "pending"
    PROVE  j \notin batches[Len(batches)].members
  <1>1. Len(batches) \in DOMAIN batches /\ DOMAIN batches = 1..Len(batches)
    BY HShapes
  <1>2. /\ waits[j] \in DOMAIN batches
        /\ j \in batches[Len(batches)].members => waits[j] >= Len(batches)
    BY <1>1 DEF HInv, Parked
  <1>3. batches[Len(batches)].promise = "pending"
    BY DEF HInv, Answered
  <1>4. QED
    BY <1>1, <1>2, <1>3, HShapes

\* Between the awaits of a collector.
LEMMA CollectorRest ==
    ASSUME HInv, NEW j \in Jobs, JobStep(j)
    PROVE  Rest'
  <1>0. /\ pc \in [Jobs -> Collector] /\ outcome \in [Jobs -> Outcome]
        /\ waits \in [Jobs -> Nat]
        /\ Len(batches) \in DOMAIN batches /\ DOMAIN batches = 1..Len(batches)
    BY HShapes
  <1>1. CASE Deliver(j) \/ RejectInvalid(j)
    <2>1. /\ UNCHANGED <<batches, runs, forced, closing, drain, waits>> /\ pc[j] = "queued"
          /\ pc' \in {[pc EXCEPT ![j] = "waiting"], [pc EXCEPT ![j] = "settled"]}
          /\ \/ UNCHANGED outcome
             \/ outcome' = [outcome EXCEPT ![j] = "failed"] /\ pc'[j] = "settled"
      BY <1>0, <1>1 DEF Deliver, RejectInvalid
    <2>2. Parked'
      BY <1>0, <2>1 DEF HInv, Parked
    <2>3. Steady' = Steady
      BY <2>1 DEF Steady
    <2>4. j \notin batches[Len(batches)].members
      BY <1>0, <2>1 DEF HInv, IInv, OneHome
    <2>5. \A i \in Jobs : outcome'[i] = "completed" => outcome[i] = "completed"
      BY <1>0, <2>1
    <2>6. \A i \in Jobs : outcome'[i] # outcome[i] => i = j
      BY <1>0, <2>1
    <2>7. batches[Len(batches)].members \subseteq Jobs
      BY <1>0, HShapes DEF Batch
    <2>8. QED
      BY <2>1, <2>2, <2>3, <2>4, <2>5, <2>6, <2>7, QuietRest
  <1>2. CASE Push(j)
    BY <1>2, PushRest
  <1>3. CASE LogDone(j)
    <2>1. /\ UNCHANGED <<batches, outcome, forced, closing, drain>> /\ pc[j] = "logging"
          /\ pc' = [pc EXCEPT ![j] = "awaiting"]
          /\ waits' = [waits EXCEPT ![j] = Len(batches)]
          /\ StartRun \/ UNCHANGED runs
      BY <1>3 DEF LogDone, NoRun, cur
    <2>2. Parked'
      <3> SUFFICES ASSUME NEW i \in Jobs
                   PROVE  /\ pc'[i] \in {"queued", "waiting"} => outcome[i] = "none"
                          /\ pc'[i] \in {"queued", "waiting", "logging"} => waits'[i] = 0
                          /\ pc'[i] = "awaiting" =>
                                 /\ waits'[i] \in DOMAIN batches
                                 /\ \A k \in DOMAIN batches :
                                        i \in batches[k].members => waits'[i] >= k
        BY <2>1 DEF Parked
      <3>1. CASE i = j
        BY <1>0, <2>1, <3>1
      <3>2. CASE i # j
        BY <1>0, <2>1, <3>2 DEF HInv, Parked
      <3>3. QED
        BY <3>1, <3>2
    <2>3. Steady' = Steady
      BY <2>1 DEF Steady
    <2>4. \A i \in Jobs : waits'[i] = waits[i] \/ waits[i] = 0
      BY <1>0, <2>1 DEF HInv, Parked
    <2>5. CASE StartRun
      BY <2>1, <2>2, <2>3, <2>4, <2>5, StartRest
    <2>6. CASE UNCHANGED runs
      <3>1. batches[Len(batches)].members \subseteq Jobs
        BY <1>0, HShapes DEF Batch
      <3>2. QED
        BY <2>1, <2>2, <2>3, <2>4, <2>6, QuietRest
    <2>7. QED
      BY <2>1, <2>5, <2>6
  <1>4. CASE Settle(j) \/ SettleUnrecorded(j)
    <2>1. /\ UNCHANGED <<waits, batches, runs, forced, closing, drain>>
          /\ pc[j] = "awaiting" /\ batches[waits[j]].promise # "pending"
          /\ pc' = [pc EXCEPT ![j] = "settled"]
          /\ \A i \in Jobs \ {j} : outcome'[i] = outcome[i]
      BY <1>0, <1>4 DEF Settle, SettleUnrecorded
    <2>2. waits[j] \in DOMAIN batches /\ batches[waits[j]] \in Batch
      BY <1>0, <2>1, HShapes DEF HInv, Parked
    <2>3. outcome'[j] = "completed" =>
              outcome[j] = "completed" \/ batches[waits[j]].promise = "resolved"
      BY <1>0, <1>4, <2>1, <2>2 DEF Settle, SettleUnrecorded, Batch, Promise
    <2>4. Parked'
      BY <1>0, <2>1 DEF HInv, Parked
    <2>5. Steady' = Steady
      BY <2>1 DEF Steady
    <2>6. Steady => j \notin batches[Len(batches)].members
      BY <2>1, SettledElsewhere
    <2>7. batches[Len(batches)].members \subseteq Jobs
      BY <1>0, HShapes DEF Batch
    <2>8. QED
      BY <2>1, <2>2, <2>3, <2>4, <2>5, <2>6, <2>7, QuietRest
  <1>5. QED
    BY <1>1, <1>2, <1>3, <1>4 DEF JobStep

LEMMA HInvStep == HInv /\ [Next]_vars => HInv'
  <1> SUFFICES ASSUME HInv, [Next]_vars PROVE HInv'
    OBVIOUS
  <1>1. IInv'
    BY InvStep DEF HInv
  <1>2. SUFFICES Rest'
    BY <1>1 DEF Rest, HInv
  <1>3. ASSUME NEW j \in Jobs, JobStep(j)
        PROVE  Rest'
    BY <1>3, CollectorRest
  <1>4. ASSUME NEW r \in DOMAIN runs, RunStep(r)
        PROVE  Rest'
    <2>1. CASE HandlerReads(r)
      BY <2>1, HandlerReadsRest
    <2>2. ASSUME NEW how \in {"resolved", "rejected"}, FinishRun(r, how)
          PROVE  Rest'
      BY <2>2, FinishRunRest
    <2>3. ASSUME NEW j \in EarlyJobs, NEW written \in BOOLEAN, CompleteEarly(r, j, written)
          PROVE  Rest'
      <3>1. /\ UNCHANGED <<pc, waits, batches, runs, forced, closing, drain>>
            /\ j \in runs[r].seen /\ j \in Jobs
            /\ \A i \in Jobs \ {j} : outcome'[i] = outcome[i]
        BY <2>3, BatchAssumption, HShapes DEF CompleteEarly
      <3>2. pc[j] \notin {"queued", "waiting"}
        BY <3>1, HShapes DEF HInv, IInv, OneHome
      <3>3. Parked'
        BY <3>1, <3>2 DEF HInv, Parked
      <3>4. Steady' = Steady
        BY <3>1 DEF Steady
      <3>5. Len(batches) \in 1..Len(batches)
        BY HShapes
      <3>6. batches[Len(batches)].members \subseteq Jobs
        BY <3>5, HShapes DEF Batch
      <3>7. QED
        BY <3>1, <3>3, <3>4, <3>6, QuietRest
    <2>4. QED
      BY <1>4, <2>1, <2>2, <2>3 DEF RunStep
  <1>5. CASE CloseSkippingBatch \/ CloseForced
    BY <1>5, CloseUnrunRest
  <1>6. CASE TimerFires \/ CloseWithFinalBatch \/ CloseDuringRun \/ CloseIdle \/ DrainDone
             \/ CloseDone \/ UNCHANGED vars
    <2>1. UNCHANGED <<pc, waits, outcome, batches, forced>> /\ (StartRun \/ UNCHANGED runs)
      BY <1>6 DEF TimerFires, CloseWithFinalBatch, CloseDuringRun, CloseIdle, DrainDone,
         CloseDone, NoRun, vars
    <2>2. Parked'
      BY <2>1 DEF HInv, Parked
    <2>3. (closing' = "open" => closing = "open" /\ drain' = drain) /\ (Steady' => Steady)
      BY <1>6 DEF TimerFires, CloseWithFinalBatch, CloseDuringRun, CloseIdle, DrainDone,
         CloseDone, NoRun, vars, Steady
    <2>4. CASE StartRun
      BY <2>1, <2>2, <2>3, <2>4, StartRest
    <2>5. CASE UNCHANGED runs
      <3>1. Len(batches) \in 1..Len(batches)
        BY HShapes
      <3>2. batches[Len(batches)].members \subseteq Jobs
        BY <3>1, HShapes DEF Batch
      <3>3. QED
        BY <2>1, <2>2, <2>3, <2>5, <3>2, QuietRest
    <2>6. QED
      BY <2>1, <2>4, <2>5
  <1>7. QED
    BY <1>3, <1>4, <1>5, <1>6 DEF Next, CloseStep

LEMMA HInvInit == Init => HInv
  <1> SUFFICES ASSUME Init PROVE HInv
    OBVIOUS
  <1>1. IInv
    BY InvInit
  <1>2. /\ batches = <<NewBatch>> /\ Len(batches) = 1 /\ DOMAIN batches = 1..1
        /\ batches[1].members = {} /\ batches[1].promise = "pending"
        /\ DOMAIN runs = {}
    BY DEF Init, NewBatch
  <1>3. Shown /\ Parked /\ Answered
    BY <1>2 DEF Init, Shown, Parked, Answered
  <1>4. QED
    BY <1>1, <1>3 DEF HInv

LEMMA HInvariance == Spec => []HInv
  <1>1. QED
    BY HInvInit, HInvStep, PTL DEF Spec

\* Only a read of its array shows the handler of a run anything new.
LEMMA SeenByReading ==
    ASSUME HInv, [Next]_vars, NEW r \in DOMAIN runs, NEW j \in runs'[r].seen,
           j \notin runs[r].seen
    PROVE  HandlerReads(r)
  <1>1. CASE UNCHANGED runs
    BY <1>1
  <1>2. CASE StartRun
    <2>1. runs'[r] = runs[r]
      BY <1>2, StartRunEffect, HShapes DEF HInv, IInv
    <2>2. QED
      BY <2>1
  <1>3. ASSUME NEW s \in DOMAIN runs, NEW how, FinishRun(s, how)
        PROVE  FALSE
    <2> DEFINE e == [runs[s] EXCEPT !.active = FALSE]
    <2>1. runs' = [runs EXCEPT ![s] = e] /\ runs[s] \in Run /\ e.seen = runs[s].seen
      BY <1>3, HShapes DEF FinishRun, Run
    <2> HIDE DEF e
    <2>2. runs'[r].seen = runs[r].seen
      BY <2>1, HShapes
    <2>3. QED
      BY <2>2
  <1>4. ASSUME NEW s \in DOMAIN runs, HandlerReads(s), s # r
        PROVE  FALSE
    <2> DEFINE e == [runs[s] EXCEPT !.seen = batches[runs[s].batch].members]
    <2>1. runs' = [runs EXCEPT ![s] = e]
      BY <1>4 DEF HandlerReads
    <2> HIDE DEF e
    <2>2. runs'[r] = runs[r]
      BY <1>4, <2>1, HShapes
    <2>3. QED
      BY <2>2
  <1>5. ASSUME NEW i \in Jobs, JobStep(i)
        PROVE  StartRun \/ UNCHANGED runs
    BY <1>5 DEF JobStep, Deliver, RejectInvalid, Push, LogDone, Settle, SettleUnrecorded, NoRun
  <1>6. ASSUME CloseStep \/ TimerFires \/ UNCHANGED vars
        PROVE  StartRun \/ UNCHANGED runs
    BY <1>6 DEF CloseStep, CloseWithFinalBatch, CloseDuringRun, CloseSkippingBatch, CloseIdle,
       CloseForced, DrainDone, CloseDone, TimerFires, NoRun, vars
  <1>7. ASSUME NEW s \in DOMAIN runs, RunStep(s)
        PROVE  \/ UNCHANGED runs \/ HandlerReads(s)
               \/ \E how \in {"resolved", "rejected"} : FinishRun(s, how)
    BY <1>7 DEF RunStep, CompleteEarly
  <1>8. QED
    BY <1>1, <1>2, <1>3, <1>4, <1>5, <1>6, <1>7 DEF Next

----------------------------------------------------------------------------
(* The theorems *)

\* The state of worker.ts:20-28 and of the collectors keeps its types.
THEOREM TypeCorrect == Spec => []TypeOK
  <1>1. IInv => TypeOK
    BY DEF IInv
  <1>2. QED
    BY Invariance, <1>1, PTL

\* batchLock and batchProcessingRunning exclude a second batch run, whatever
\* the order of collectors, timer, handler and graceful close.
THEOREM RunsExclude == Spec => []OneBatchAtATime
  <1>1. IInv => OneBatchAtATime
    BY DEF IInv
  <1>2. QED
    BY Invariance, <1>1, PTL

\* Without a forced close the handler is shown no job in two runs.
THEOREM RunOnce == Spec => []JobsRunOnce
  <1>1. QED
    BY Invariance, InvGivesJobsRunOnce, PTL

\* A job that BullMQ records as completed was shown to the handler, if its
\* batch was run with the job in it from the start: while the worker is open,
\* and while close() drains a run, resolveJobBatchProcess follows the handler
\* (worker.ts, processBatchWrapper and close).
THEOREM CompletedHandled == Spec => []CompletedMeansHandled
  <1>1. HInv => CompletedMeansHandled
    <2> SUFFICES ASSUME HInv, Steady, NEW j \in Jobs, NEW r \in DOMAIN runs,
                        outcome[j] = "completed", runs[r].batch = waits[j], j \in runs[r].first
                 PROVE  \E s \in DOMAIN runs : j \in runs[s].seen
      BY DEF CompletedMeansHandled, Steady
    <2>1. CASE \E s \in DOMAIN runs : j \in runs[s].seen
      BY <2>1
    <2>2. CASE waits[j] \in DOMAIN batches /\ batches[waits[j]].promise = "resolved"
      <3>1. PICK s \in DOMAIN runs : runs[s].batch = waits[j] /\ runs[s].seen # {}
        BY <2>2 DEF HInv, Answered
      <3>2. s = r
        BY <3>1 DEF HInv, IInv, RunOrder, Answered
      <3>3. runs[r].first \subseteq runs[r].seen
        BY <3>1, <3>2 DEF HInv, Shown
      <3>4. QED
        BY <3>3
    <2>3. QED
      BY <2>1, <2>2 DEF HInv, Answered
  <1>2. QED
    BY HInvariance, <1>1, PTL

\* While the worker is open the handler is never newly shown a job whose
\* outcome is on record: a job is recorded when the promise it awaits settles,
\* that of its own batch or a later one, and then initializeJobBatch has put
\* an empty array in the place of the one the handler reads (worker.ts,
\* batchJobCollector and processBatchWrapper).
THEOREM NothingAfterOutcome == Spec => NoWorkAfterOutcome
  <1> DEFINE Fresh == closing = "open" =>
                 \A r \in DOMAIN runs : \A j \in runs'[r].seen \ runs[r].seen : outcome[j] = "none"
  <1>1. HInv /\ [Next]_vars => Fresh
    <2> SUFFICES ASSUME HInv, [Next]_vars, closing = "open",
                        NEW r \in DOMAIN runs, NEW j \in runs'[r].seen, j \notin runs[r].seen
                 PROVE  outcome[j] = "none"
      OBVIOUS
    <2>1. HandlerReads(r)
      BY SeenByReading
    <2>2. /\ runs[r].active /\ j \in batches[runs[r].batch].members
      <3>1. /\ r \in 1..Len(runs) /\ runs \in Seq(Run) /\ runs[r] \in Run
        BY HShapes
      <3> DEFINE e == [runs[r] EXCEPT !.seen = batches[runs[r].batch].members]
      <3>2. runs' = [runs EXCEPT ![r] = e] /\ runs[r].active
        BY <2>1 DEF HandlerReads, ActiveRuns
      <3>3. e.seen = batches[runs[r].batch].members
        BY <3>1 DEF Run
      <3> HIDE DEF e
      <3>4. runs'[r] = e
        BY <3>1, <3>2
      <3>5. QED
        BY <3>2, <3>3, <3>4
    <2>3. ~forced /\ Steady
      BY DEF HInv, Answered, Steady
    <2>4. runs[r].batch = Len(batches)
      BY <2>2, <2>3, HShapes DEF HInv, IInv, OneBatchAtATime, cur
    <2>5. CASE \E s \in DOMAIN runs : j \in runs[s].seen
      <3>1. PICK s \in DOMAIN runs : j \in runs[s].seen
        BY <2>5
      <3>2. j \in batches[runs[s].batch].members
        BY <3>1, HShapes
      <3>3. runs[s].batch = runs[r].batch
        BY <2>2, <3>2, HShapes DEF HInv, IInv, OneHome
      <3>4. s = r
        BY <2>3, <3>3 DEF HInv, IInv, RunOrder
      <3>5. QED
        BY <3>1, <3>4
    <2>6. QED
      BY <2>2, <2>3, <2>4, <2>5 DEF HInv, Answered
  <1>2. QED
    BY HInvariance, <1>1, PTL DEF Spec, NoWorkAfterOutcome
=============================================================================
