----------------------- MODULE ServerLifecycle_proofs -----------------------
(***************************************************************************)
(* Theorems about ServerLifecycle, for any number of groups, tasks and     *)
(* overlapping calls, any filters and any handlers, batching or not.       *)
(***************************************************************************)
EXTENDS ServerLifecycle, TLAPS

\* A closing worker is still in its slot.
SlotsKept == \A q \in Queues : closing[q] => worker[q]

\* A close() that waits for a batch waits for one that runs.
DrainingRuns == \A q \in draining : closing[q] /\ job[q] = "active"

\* The server knows of its listeners.
ListenersKnown == installed = IF attached THEN 1 ELSE 0

\* What goes beyond the user's groups is a shutdown.
OnlyShutdownsClose ==
    \A c \in Calls : pc[c] \in {"stopSweep", "close"} => call[c].filter = {}

\* A sweep that runs can be found through its group.
SweepFound ==
    /\ worker[Sweep] => registered
    /\ \A c \in Calls : pc[c] = "groups" => registered

\* A call that is alone has no call of the other kind beside it.
Alone ==
    \A c \in Calls : alone[c] =>
        /\ c \in Stopping => Starting = {}
        /\ c \in Starting => Stopping = {}

\* A shutdown that is alone waits for the workers of its stage, and those of
\* the stages before are closed.
ShutdownWaits ==
    \A c \in Calls : alone[c] =>
        /\ pc[c] = "stopGroups" /\ call[c].filter = {} =>
              /\ call[c].sweep = registered
              /\ \A t \in Tasks : worker[t] => t \in waiting[c]
        /\ pc[c] = "stopSweep" =>
              /\ \A t \in Tasks : ~worker[t]
              /\ worker[Sweep] => Sweep \in waiting[c]
        /\ pc[c] = "close" =>
              /\ ~attached
              /\ \A t \in Tasks : ~worker[t]
              /\ ~worker[Sweep]
              /\ worker[Dispatcher] => closing[Dispatcher] /\ Dispatcher \in waiting[c]

\* What a start that is alone has started stays, and nothing is closing.
StartStays ==
    \A c \in Calls : alone[c] =>
        /\ c \in Starting => \A q \in Queues : ~closing[q]
        /\ pc[c] \in {"scan", "sweep", "groups"} => worker[Manager]
        /\ pc[c] \in {"sweep", "groups"} => worker[Dispatcher]
        /\ pc[c] = "groups" => worker[Sweep]

\* A start has selected every group it was asked for.
GroupsSelected ==
    \A c \in Calls : pc[c] = "groups" =>
        \A group \in Groups :
            call[c].filter = {} \/ group \in call[c].filter => group \in call[c].groups

\* The inductive invariant.
LInv ==
    /\ TypeOK
    /\ NoStrayWorker
    /\ SlotsKept
    /\ DrainingRuns
    /\ ListenersKnown
    /\ OnlyShutdownsClose
    /\ SweepFound
    /\ Alone
    /\ ShutdownWaits
    /\ StartStays
    /\ GroupsSelected

CallRecords == [filter : SUBSET Names, groups : SUBSET (Groups \cup {Maintenance}),
                sweep : BOOLEAN]

-----------------------------------------------------------------------------
(* What starting and stopping workers does to the slots.                   *)

\* The queues of the server itself are none of the user's, nor of each other.
LEMMA QueuesApart ==
    /\ Sweep \notin Tasks /\ Manager \notin Tasks /\ Dispatcher \notin Tasks
    /\ Sweep # Manager /\ Sweep # Dispatcher /\ Manager # Dispatcher
    /\ Discovery \notin Queues
  BY LifecycleAssumption DEF Sweep, Manager, Dispatcher, Discovery, Queues

\* Only a free slot gets a worker, so no queue gets a second one.
LEMMA StartWorkersEffect ==
    ASSUME LInv, NEW qs \in SUBSET Queues, StartWorkers(qs)
    PROVE  /\ worker' \in [Queues -> BOOLEAN]
           /\ fetching' \in [Queues -> 0..2]
           /\ UNCHANGED <<closing, draining>>
           /\ \A q \in Queues : worker'[q] <=> (worker[q] \/ q \in qs)
           /\ NoStrayWorker' /\ SlotsKept'
  <1>1. /\ worker' = [q \in Queues |-> worker[q] \/ q \in qs]
        /\ fetching' = [q \in Queues |->
                            fetching[q] + (IF q \in qs /\ ~worker[q] THEN 1 ELSE 0)]
        /\ UNCHANGED <<closing, draining>>
    BY DEF StartWorkers, Startable, LInv, TypeOK
  <1>2. ASSUME NEW q \in Queues
        PROVE  /\ worker'[q] <=> (worker[q] \/ q \in qs)
               /\ closing'[q] => worker'[q]
               /\ fetching'[q] =
                    IF worker'[q] /\ (closing'[q] => q \in draining') THEN 1 ELSE 0
    <2>1. /\ worker[q] \in BOOLEAN /\ closing[q] \in BOOLEAN
          /\ closing[q] => worker[q]
          /\ fetching[q] = IF worker[q] /\ (closing[q] => q \in draining) THEN 1 ELSE 0
      BY DEF LInv, TypeOK, NoStrayWorker, SlotsKept
    <2>2. /\ worker'[q] <=> (worker[q] \/ q \in qs)
          /\ fetching'[q] = fetching[q] + (IF q \in qs /\ ~worker[q] THEN 1 ELSE 0)
          /\ closing'[q] = closing[q] /\ draining' = draining
      BY <1>1
    <2>3. CASE worker[q]
      BY <2>1, <2>2, <2>3
    <2>4. CASE ~worker[q]
      BY <2>1, <2>2, <2>4
    <2>5. QED
      BY <2>3, <2>4
  <1>3. worker' \in [Queues -> BOOLEAN] /\ fetching' \in [Queues -> 0..2]
    BY <1>1, <1>2 DEF LInv, TypeOK
  <1>4. QED
    BY <1>1, <1>2, <1>3 DEF NoStrayWorker, SlotsKept

\* What is so once call c has told the workers of qs to close.
Stopped(c, qs, others) ==
    /\ worker' = worker /\ awaits' = awaits
    /\ closing' \in [Queues -> BOOLEAN]
    /\ fetching' \in [Queues -> 0..2]
    /\ draining' \subseteq Batched
    /\ job' \in [Tasks -> {"none", "waiting", "active"}]
    /\ held' \in [Tasks -> 0..MinSize]
    /\ waiting' \in [Calls -> SUBSET (Queues \cup {Discovery})]
    /\ \A q \in Queues : closing'[q] <=> (closing[q] \/ (q \in qs /\ worker[q]))
    /\ \A q \in Queues : fetching'[q] < fetching[q] => closing'[q]
    /\ waiting'[c] = {q \in qs : worker[q]} \cup others
    /\ \A d \in Calls \ {c} : waiting'[d] = waiting[d]
    /\ NoStrayWorker' /\ SlotsKept' /\ DrainingRuns'

\* Closing leaves the slots filled, takes no worker down twice, and the call
\* waits for all of them.
LEMMA StopWorkersEffect ==
    ASSUME LInv, NEW c \in Calls, NEW qs \in SUBSET Queues,
           NEW others \in SUBSET {Discovery}, StopWorkers(c, qs, others)
    PROVE  Stopped(c, qs, others)
  <1> DEFINE busy  == Filled(qs)
             batch == {t \in busy \cap Batched : job[t] = "active" \/ held[t] = MinSize}
             first == {q \in busy : ~closing[q]}
  <1>1. /\ closing' = [q \in Queues |-> closing[q] \/ q \in busy]
        /\ draining' = draining \cup (first \cap batch)
        /\ fetching' = [q \in Queues |->
                            IF q \in first \ batch THEN fetching[q] - 1 ELSE fetching[q]]
        /\ job' = [t \in Tasks |-> IF t \in batch THEN "active" ELSE job[t]]
        /\ held' = [t \in Tasks |->
                            IF t \in busy /\ job[t] # "active" THEN 0 ELSE held[t]]
        /\ waiting' = [waiting EXCEPT ![c] = busy \cup others]
        /\ worker' = worker /\ awaits' = awaits
    BY DEF StopWorkers
  <1>2. /\ \A q \in Queues : q \in busy <=> q \in qs /\ worker[q]
        /\ busy \subseteq Queues /\ batch \subseteq busy /\ batch \subseteq Batched
        /\ \A q \in Queues : q \in first <=> q \in busy /\ ~closing[q]
        /\ Batched \subseteq Tasks /\ MinSize \in Nat
    BY LifecycleAssumption DEF Filled
  <1> HIDE DEF busy, batch, first
  <1>3. ASSUME NEW q \in Queues
        PROVE  /\ closing'[q] <=> (closing[q] \/ (q \in qs /\ worker[q]))
               /\ closing'[q] => worker'[q]
               /\ fetching'[q] =
                    IF worker'[q] /\ (closing'[q] => q \in draining') THEN 1 ELSE 0
               /\ fetching'[q] < fetching[q] => closing'[q]
    <2>1. /\ worker[q] \in BOOLEAN /\ closing[q] \in BOOLEAN
          /\ closing[q] => worker[q]
          /\ q \in draining => closing[q]
          /\ fetching[q] = IF worker[q] /\ (closing[q] => q \in draining) THEN 1 ELSE 0
      BY DEF LInv, TypeOK, NoStrayWorker, SlotsKept, DrainingRuns
    <2>2. /\ closing'[q] <=> (closing[q] \/ q \in busy)
          /\ fetching'[q] = IF q \in first \ batch THEN fetching[q] - 1 ELSE fetching[q]
          /\ q \in draining' <=> q \in draining \/ (q \in first /\ q \in batch)
          /\ worker'[q] = worker[q]
      BY <1>1
    <2>3. CASE closing[q]
      BY <1>2, <2>1, <2>2, <2>3
    <2>4. CASE ~closing[q] /\ q \in busy
      BY <1>2, <2>1, <2>2, <2>4
    <2>5. CASE ~closing[q] /\ q \notin busy
      BY <1>2, <2>1, <2>2, <2>5
    <2>6. QED
      BY <2>1, <2>3, <2>4, <2>5
  <1>4. closing' \in [Queues -> BOOLEAN] /\ fetching' \in [Queues -> 0..2]
    BY <1>1, <1>3 DEF LInv, TypeOK
  <1>5. /\ draining' \subseteq Batched
        /\ job' \in [Tasks -> {"none", "waiting", "active"}]
        /\ held' \in [Tasks -> 0..MinSize]
    BY <1>1, <1>2 DEF LInv, TypeOK
  <1>6. /\ waiting' \in [Calls -> SUBSET (Queues \cup {Discovery})]
        /\ waiting'[c] = {q \in qs : worker[q]} \cup others
        /\ \A d \in Calls \ {c} : waiting'[d] = waiting[d]
    <2>1. waiting \in [Calls -> SUBSET (Queues \cup {Discovery})]
      BY DEF LInv, TypeOK
    <2>2. busy = {q \in qs : worker[q]}
      BY DEF busy, Filled
    <2>3. QED
      BY <1>1, <1>2, <2>1, <2>2
  <1>7. DrainingRuns'
    <2>1. ASSUME NEW q \in draining' PROVE closing'[q] /\ job'[q] = "active"
      <3>1. q \in Batched /\ q \in Queues /\ q \in Tasks
        BY <1>2, <1>5, <2>1 DEF Queues
      <3>2. q \in draining => closing[q] /\ job[q] = "active"
        BY DEF LInv, DrainingRuns
      <3>3. QED
        BY <1>1, <1>2, <2>1, <3>1, <3>2
    <2>2. QED
      BY <2>1 DEF DrainingRuns
  <1>8. QED
    BY <1>1, <1>3, <1>4, <1>5, <1>6, <1>7 DEF Stopped, NoStrayWorker, SlotsKept

\* The queues of some groups are queues.
LEMMA QueuesOfType == \A groups : QueuesOf(groups) \subseteq Queues
  BY DEF QueuesOf, Queues

\* A call that settles, with nothing else changed but the count of failures,
\* disturbs no other call.
LEMMA SettleStep ==
    ASSUME LInv, NEW c \in Calls, Settle(c), UNCHANGED <<workers, server, jobs>>,
           faults' \in 0..MaxFaults
    PROVE  LInv'
  <1>1. /\ pc' = [pc EXCEPT ![c] = "done"]
        /\ call' = [call EXCEPT ![c] = NoCall]
        /\ alone' = [alone EXCEPT ![c] = FALSE]
        /\ waiting' = [waiting EXCEPT ![c] = {}]
        /\ UNCHANGED <<worker, fetching, closing, draining, registered, subscribed,
                       attached, installed, discovery, job, held, awaits>>
    BY DEF Settle, workers, server, jobs
  <1>2. TypeOK'
    <2>1. NoCall \in CallRecords
      BY DEF NoCall, CallRecords
    <2>2. QED
      BY <1>1, <2>1 DEF LInv, TypeOK, CallRecords
  <1>3. /\ NoStrayWorker' /\ SlotsKept' /\ DrainingRuns' /\ ListenersKnown'
    BY <1>1 DEF LInv, NoStrayWorker, SlotsKept, DrainingRuns, ListenersKnown
  <1>4. /\ \A d \in Calls : d # c => /\ pc'[d] = pc[d] /\ call'[d] = call[d]
                                     /\ alone'[d] = alone[d] /\ waiting'[d] = waiting[d]
        /\ pc'[c] = "done" /\ ~alone'[c]
    BY <1>1 DEF LInv, TypeOK
  <1>5. OnlyShutdownsClose' /\ SweepFound' /\ GroupsSelected'
    BY <1>1, <1>4 DEF LInv, OnlyShutdownsClose, SweepFound, GroupsSelected
  <1>6. Alone'
    BY <1>4 DEF LInv, Alone, Starting, Stopping
  <1>7. ShutdownWaits'
    BY <1>1, <1>4 DEF LInv, ShutdownWaits
  <1>8. StartStays'
    BY <1>1, <1>4 DEF LInv, StartStays, Starting
  <1>9. QED
    BY <1>2, <1>3, <1>5, <1>6, <1>7, <1>8 DEF LInv

-----------------------------------------------------------------------------
(* The steps of start.                                                     *)

\* A start that begins ends the solitude of the stops beside it.
LEMMA BeginStartStep ==
    ASSUME LInv, NEW c \in Calls, BeginStart(c)
    PROVE  LInv'
  <1>1. /\ worker' \in [Queues -> BOOLEAN] /\ fetching' \in [Queues -> 0..2]
        /\ UNCHANGED <<closing, draining>> /\ NoStrayWorker' /\ SlotsKept'
        /\ \A q \in Queues : worker'[q] <=> (worker[q] \/ q = Manager)
    BY StartWorkersEffect DEF BeginStart, Queues
  <1>2. PICK f \in SUBSET Names :
          /\ call' = [call EXCEPT ![c].filter = f]
          /\ \A d \in Calls : /\ call'[d].filter = IF d = c THEN f ELSE call[d].filter
                              /\ call'[d].groups = call[d].groups
                              /\ call'[d].sweep = call[d].sweep
    <2>1. PICK f \in SUBSET Names : call' = [call EXCEPT ![c].filter = f]
      BY LifecycleAssumption DEF BeginStart
    <2>2. call \in [Calls -> CallRecords]
      BY DEF LInv, TypeOK, CallRecords
    <2>3. ASSUME NEW d \in Calls
          PROVE  /\ call'[d].filter = IF d = c THEN f ELSE call[d].filter
                 /\ call'[d].groups = call[d].groups
                 /\ call'[d].sweep = call[d].sweep
      BY <2>1, <2>2 DEF CallRecords
    <2>4. QED
      BY <2>1, <2>3
  <1>3. attached' = TRUE /\ installed' = 1
    <2>1. attached \in BOOLEAN /\ installed = IF attached THEN 1 ELSE 0
      BY DEF LInv, TypeOK, ListenersKnown
    <2>2. QED
      BY <2>1 DEF BeginStart, Attach
  <1>4. /\ pc[c] = "new"
        /\ pc' = [pc EXCEPT ![c] = "scan"]
        /\ alone' = [d \in Calls |-> IF d = c THEN Stopping = {} /\ \A q \in Queues : ~closing[q]
                                     ELSE alone[d] /\ d \notin Stopping]
        /\ UNCHANGED <<registered, subscribed, discovery, waiting, job, held, awaits, faults>>
    BY DEF BeginStart, Begins, jobs
  <1>5. TypeOK'
    <2>1. call' \in [Calls -> CallRecords]
      BY <1>2 DEF LInv, TypeOK, CallRecords
    <2>2. attached' \in BOOLEAN /\ installed' \in 0..1
      BY <1>3
    <2>3. alone' \in [Calls -> BOOLEAN]
      BY <1>4 DEF LInv, TypeOK
    <2>4. QED
      BY <1>1, <1>4, <2>1, <2>2, <2>3 DEF LInv, TypeOK, CallRecords
  <1>6. DrainingRuns' /\ ListenersKnown'
    BY <1>1, <1>3, <1>4 DEF LInv, DrainingRuns, ListenersKnown
  <1>7. /\ \A d \in Calls : d # c => pc'[d] = pc[d]
        /\ pc'[c] = "scan" /\ c \notin Stopping
        /\ Stopping' = Stopping /\ Starting' = Starting \cup {c}
        /\ \A d \in Calls : alone'[d] =>
              IF d = c THEN Stopping = {} /\ \A q \in Queues : ~closing[q]
              ELSE alone[d] /\ d \notin Stopping
    <2>1. \A d \in Calls : pc'[d] = IF d = c THEN "scan" ELSE pc[d]
      BY <1>4 DEF LInv, TypeOK
    <2>2. \A d \in Calls : alone'[d] =>
              IF d = c THEN Stopping = {} /\ \A q \in Queues : ~closing[q]
              ELSE alone[d] /\ d \notin Stopping
      BY <1>4
    <2>3. QED
      BY <1>4, <2>1, <2>2 DEF Starting, Stopping
  <1>8. OnlyShutdownsClose' /\ GroupsSelected'
    BY <1>2, <1>7 DEF LInv, OnlyShutdownsClose, GroupsSelected
  <1>9. SweepFound'
    BY <1>1, <1>4, <1>7, QueuesApart DEF LInv, SweepFound, Queues
  <1>10. Alone'
    BY <1>7 DEF LInv, Alone
  <1>11. ShutdownWaits'
    BY <1>7 DEF ShutdownWaits, Stopping
  <1>12. StartStays'
    BY <1>1, <1>7 DEF LInv, StartStays, Queues
  <1>13. QED
    BY <1>1, <1>5, <1>6, <1>8, <1>9, <1>10, <1>11, <1>12 DEF LInv

\* The dispatcher gets its worker.
LEMMA ScanDoneStep ==
    ASSUME LInv, NEW c \in Calls, ScanDone(c)
    PROVE  LInv'
  <1>1. /\ worker' \in [Queues -> BOOLEAN] /\ fetching' \in [Queues -> 0..2]
        /\ UNCHANGED <<closing, draining>> /\ NoStrayWorker' /\ SlotsKept'
        /\ \A q \in Queues : worker'[q] <=> (worker[q] \/ q = Dispatcher)
    BY StartWorkersEffect DEF ScanDone, Queues
  <1>2. /\ pc[c] = "scan" /\ pc' = [pc EXCEPT ![c] = "sweep"] /\ subscribed' = TRUE
        /\ UNCHANGED <<registered, attached, installed, discovery, call, waiting, alone,
                       job, held, awaits, faults>>
    BY DEF ScanDone, jobs
  <1>3. TypeOK'
    BY <1>1, <1>2 DEF LInv, TypeOK
  <1>4. /\ \A d \in Calls : d # c => pc'[d] = pc[d]
        /\ pc'[c] = "sweep"
        /\ c \in Starting /\ Stopping' = Stopping /\ Starting' = Starting
    BY <1>2 DEF Starting, Stopping, LInv, TypeOK
  <1>5. /\ DrainingRuns' /\ ListenersKnown' /\ OnlyShutdownsClose'
        /\ Alone' /\ GroupsSelected'
    BY <1>1, <1>2, <1>4 DEF LInv, DrainingRuns, ListenersKnown, OnlyShutdownsClose, Alone,
       GroupsSelected
  <1>6. SweepFound'
    BY <1>1, <1>2, <1>4, QueuesApart DEF LInv, SweepFound, Queues
  <1>7. ShutdownWaits'
    BY <1>2, <1>4 DEF LInv, ShutdownWaits, Alone, Stopping
  <1>8. StartStays'
    BY <1>1, <1>2, <1>4 DEF LInv, StartStays, Queues, Starting
  <1>9. QED
    BY <1>1, <1>3, <1>5, <1>6, <1>7, <1>8 DEF LInv

\* The groups are selected, the maintenance group is there and its worker runs.
LEMMA StartSweepStep ==
    ASSUME LInv, NEW c \in Calls, StartSweep(c)
    PROVE  LInv'
  <1>1. /\ worker' \in [Queues -> BOOLEAN] /\ fetching' \in [Queues -> 0..2]
        /\ UNCHANGED <<closing, draining>> /\ NoStrayWorker' /\ SlotsKept'
        /\ \A q \in Queues : worker'[q] <=> (worker[q] \/ q = Sweep)
    BY StartWorkersEffect DEF StartSweep, Queues
  <1>2. /\ Selected(call[c].filter) \in SUBSET (Groups \cup {Maintenance})
        /\ \A group \in Groups : call[c].filter = {} \/ group \in call[c].filter
                                   => group \in Selected(call[c].filter)
    BY DEF Selected, TaskGroups
  <1>3. /\ call' = [call EXCEPT ![c].groups = Selected(call[c].filter)]
        /\ \A d \in Calls :
             /\ call'[d].filter = call[d].filter
             /\ call'[d].groups = IF d = c THEN Selected(call[c].filter) ELSE call[d].groups
    BY DEF StartSweep, LInv, TypeOK
  <1>4. /\ pc[c] = "sweep" /\ pc' = [pc EXCEPT ![c] = "groups"] /\ registered' = TRUE
        /\ UNCHANGED <<subscribed, attached, installed, discovery, waiting, alone,
                       job, held, awaits, faults>>
    BY DEF StartSweep, jobs
  <1>5. TypeOK'
    BY <1>1, <1>2, <1>3, <1>4 DEF LInv, TypeOK
  <1>6. /\ \A d \in Calls : d # c => pc'[d] = pc[d]
        /\ pc'[c] = "groups"
        /\ c \in Starting /\ Stopping' = Stopping /\ Starting' = Starting
    BY <1>4 DEF Starting, Stopping, LInv, TypeOK
  <1>7. /\ DrainingRuns' /\ ListenersKnown' /\ OnlyShutdownsClose' /\ SweepFound'
        /\ Alone'
    BY <1>1, <1>3, <1>4, <1>6 DEF LInv, DrainingRuns, ListenersKnown, OnlyShutdownsClose,
       SweepFound, Alone
  <1>8. ShutdownWaits'
    BY <1>4, <1>6 DEF LInv, ShutdownWaits, Alone, Stopping
  <1>9. StartStays'
    BY <1>1, <1>4, <1>6 DEF LInv, StartStays, Queues, Starting
  <1>10. GroupsSelected'
    BY <1>2, <1>3, <1>6 DEF LInv, GroupsSelected
  <1>11. QED
    BY <1>1, <1>5, <1>7, <1>8, <1>9, <1>10 DEF LInv

\* The selected groups get their workers, and the start returns.
LEMMA StartGroupsStep ==
    ASSUME LInv, NEW c \in Calls, StartGroups(c)
    PROVE  LInv'
  <1>1. /\ worker' \in [Queues -> BOOLEAN] /\ fetching' \in [Queues -> 0..2]
        /\ UNCHANGED <<closing, draining>> /\ NoStrayWorker' /\ SlotsKept'
        /\ \A q \in Queues : worker'[q] <=> (worker[q] \/ q \in QueuesOf(call[c].groups))
    BY StartWorkersEffect, QueuesOfType DEF StartGroups
  <1>2. /\ pc[c] = "groups" /\ pc' = [pc EXCEPT ![c] = "done"]
        /\ call' = [call EXCEPT ![c] = NoCall]
        /\ alone' = [alone EXCEPT ![c] = FALSE]
        /\ waiting' = [waiting EXCEPT ![c] = {}]
        /\ UNCHANGED <<registered, subscribed, attached, installed, discovery, job, held,
                       awaits, faults>>
    BY DEF StartGroups, Settle, server, jobs
  <1>3. TypeOK'
    <2>1. NoCall \in CallRecords
      BY DEF NoCall, CallRecords
    <2>2. QED
      BY <1>1, <1>2, <2>1 DEF LInv, TypeOK, CallRecords
  <1>4. /\ \A d \in Calls : d # c => /\ pc'[d] = pc[d] /\ call'[d] = call[d]
                                     /\ alone'[d] = alone[d] /\ waiting'[d] = waiting[d]
        /\ pc'[c] = "done" /\ ~alone'[c] /\ c \in Starting
    BY <1>2 DEF LInv, TypeOK, Starting
  <1>5. DrainingRuns' /\ ListenersKnown' /\ OnlyShutdownsClose' /\ GroupsSelected'
    BY <1>1, <1>2, <1>4 DEF LInv, DrainingRuns, ListenersKnown, OnlyShutdownsClose,
       GroupsSelected
  <1>6. SweepFound'
    BY <1>2, <1>4 DEF LInv, SweepFound
  <1>7. Alone'
    BY <1>4 DEF LInv, Alone, Starting, Stopping
  <1>8. ShutdownWaits'
    BY <1>2, <1>4 DEF LInv, ShutdownWaits, Alone, Stopping
  <1>9. StartStays'
    BY <1>1, <1>4 DEF LInv, StartStays, Queues, Starting
  <1>10. QED
    BY <1>1, <1>3, <1>5, <1>6, <1>7, <1>8, <1>9 DEF LInv

-----------------------------------------------------------------------------
(* The steps of stop.                                                      *)

\* A stop that begins ends the solitude of the starts beside it.
LEMMA BeginStopStep ==
    ASSUME LInv, NEW c \in Calls, BeginStop(c)
    PROVE  LInv'
  <1>1. PICK f \in SUBSET Names :
          /\ call' = [call EXCEPT ![c] =
                [filter |-> f, groups |-> Selected(f) \ {Maintenance}, sweep |-> registered]]
          /\ StopWorkers(c, QueuesOf(Selected(f) \ {Maintenance}), {})
    BY LifecycleAssumption DEF BeginStop
  <1>2. /\ worker' = worker /\ awaits' = awaits
        /\ closing' \in [Queues -> BOOLEAN] /\ fetching' \in [Queues -> 0..2]
        /\ draining' \subseteq Batched
        /\ job' \in [Tasks -> {"none", "waiting", "active"}]
        /\ held' \in [Tasks -> 0..MinSize]
        /\ waiting' \in [Calls -> SUBSET (Queues \cup {Discovery})]
        /\ \A q \in Queues : closing[q] => closing'[q]
        /\ NoStrayWorker' /\ SlotsKept' /\ DrainingRuns'
        /\ waiting'[c] = {q \in QueuesOf(Selected(f) \ {Maintenance}) : worker[q]}
        /\ \A d \in Calls \ {c} : waiting'[d] = waiting[d]
    <2>1. Stopped(c, QueuesOf(Selected(f) \ {Maintenance}), {})
      BY <1>1, QueuesOfType, StopWorkersEffect
    <2>2. QED
      BY <2>1 DEF Stopped
  <1>3. Selected(f) \ {Maintenance} \in SUBSET (Groups \cup {Maintenance})
    BY DEF Selected, TaskGroups
  <1>4. /\ pc[c] = "new" /\ pc' = [pc EXCEPT ![c] = "stopGroups"]
        /\ alone' = [d \in Calls |-> IF d = c THEN Starting = {}
                                     ELSE alone[d] /\ d \notin Starting]
        /\ UNCHANGED <<registered, subscribed, attached, installed, discovery, faults>>
    BY DEF BeginStop, Begins, server
  <1>5. TypeOK'
    <2>1. call' \in [Calls -> CallRecords]
      BY <1>1, <1>3 DEF LInv, TypeOK, CallRecords
    <2>2. alone' \in [Calls -> BOOLEAN]
      BY <1>4 DEF LInv, TypeOK
    <2>3. QED
      BY <1>2, <1>4, <2>1, <2>2 DEF LInv, TypeOK, CallRecords
  <1>6. /\ \A d \in Calls : d # c => pc'[d] = pc[d] /\ call'[d] = call[d]
        /\ pc'[c] = "stopGroups" /\ c \notin Starting
        /\ call'[c] = [filter |-> f, groups |-> Selected(f) \ {Maintenance}, sweep |-> registered]
        /\ Starting' = Starting /\ Stopping' = Stopping \cup {c}
        /\ \A d \in Calls : alone'[d] =>
              IF d = c THEN Starting = {} ELSE alone[d] /\ d \notin Starting
    <2>1. \A d \in Calls : pc'[d] = IF d = c THEN "stopGroups" ELSE pc[d]
      BY <1>4 DEF LInv, TypeOK
    <2>2. /\ \A d \in Calls : d # c => call'[d] = call[d]
          /\ call'[c] = [filter |-> f, groups |-> Selected(f) \ {Maintenance},
                         sweep |-> registered]
      BY <1>1 DEF LInv, TypeOK
    <2>3. \A d \in Calls : alone'[d] =>
              IF d = c THEN Starting = {} ELSE alone[d] /\ d \notin Starting
      BY <1>4
    <2>4. QED
      BY <1>4, <2>1, <2>2, <2>3 DEF Starting, Stopping
  <1>7. ListenersKnown' /\ OnlyShutdownsClose' /\ GroupsSelected'
    BY <1>4, <1>6 DEF LInv, ListenersKnown, OnlyShutdownsClose, GroupsSelected
  <1>8. SweepFound'
    BY <1>2, <1>4, <1>6 DEF LInv, SweepFound
  <1>9. Alone'
    BY <1>6 DEF LInv, Alone
  <1>10. ShutdownWaits'
    <2>1. ASSUME f = {}, NEW t \in Tasks, worker[t] PROVE t \in waiting'[c]
      <3>1. GroupOf[t] \in Selected(f) \ {Maintenance}
        BY <2>1, LifecycleAssumption DEF Selected, TaskGroups
      <3>2. QED
        BY <1>2, <2>1, <3>1 DEF QueuesOf
    <2>2. \A d \in Calls : alone'[d] /\ d # c => alone[d]
      BY <1>6
    <2>3. ASSUME NEW d \in Calls, d # c, alone[d]
          PROVE  (/\ pc[d] = "stopGroups" /\ call[d].filter = {} =>
                       /\ call[d].sweep = registered
                       /\ \A t \in Tasks : worker[t] => t \in waiting[d]
                  /\ pc[d] = "stopSweep" =>
                       /\ \A t \in Tasks : ~worker[t]
                       /\ worker[Sweep] => Sweep \in waiting[d]
                  /\ pc[d] = "close" =>
                       /\ ~attached
                       /\ \A t \in Tasks : ~worker[t]
                       /\ ~worker[Sweep]
                       /\ worker[Dispatcher] => closing[Dispatcher] /\ Dispatcher \in waiting[d])'
      <3>1. closing[Dispatcher] => closing'[Dispatcher]
        BY <1>2 DEF Queues
      <3>2. QED
        BY <1>2, <1>4, <1>6, <2>3, <3>1 DEF LInv, ShutdownWaits
    <2>4. ASSUME alone'[c]
          PROVE  pc'[c] = "stopGroups" /\ call'[c].filter = {} =>
                    /\ call'[c].sweep = registered'
                    /\ \A t \in Tasks : worker'[t] => t \in waiting'[c]
      <3>1. call'[c].filter = f /\ call'[c].sweep = registered
        BY <1>6
      <3>2. QED
        BY <1>2, <1>4, <2>1, <3>1
    <2>5. QED
      BY <1>6, <2>2, <2>3, <2>4 DEF ShutdownWaits
  <1>11. StartStays'
    BY <1>2, <1>6 DEF LInv, StartStays, Starting
  <1>12. QED
    BY <1>2, <1>5, <1>7, <1>8, <1>9, <1>10, <1>11 DEF LInv

\* A shutdown goes on with the maintenance group.
LEMMA StopSweepStep ==
    ASSUME LInv, NEW c \in Calls, StopSweep(c)
    PROVE  LInv'
  <1> DEFINE qs == IF call[c].sweep THEN {Sweep} ELSE {}
  <1>1. qs \in SUBSET Queues /\ StopWorkers(c, qs, {})
    BY DEF StopSweep, Queues
  <1>2. /\ worker' = worker /\ awaits' = awaits
        /\ closing' \in [Queues -> BOOLEAN] /\ fetching' \in [Queues -> 0..2]
        /\ draining' \subseteq Batched
        /\ job' \in [Tasks -> {"none", "waiting", "active"}]
        /\ held' \in [Tasks -> 0..MinSize]
        /\ waiting' \in [Calls -> SUBSET (Queues \cup {Discovery})]
        /\ \A q \in Queues : closing[q] => closing'[q]
        /\ NoStrayWorker' /\ SlotsKept' /\ DrainingRuns'
        /\ waiting'[c] = {q \in qs : worker[q]}
        /\ \A d \in Calls \ {c} : waiting'[d] = waiting[d]
    <2> HIDE DEF qs
    <2>1. Stopped(c, qs, {})
      BY <1>1, StopWorkersEffect
    <2>2. QED
      BY <2>1 DEF Stopped
  <1>3. /\ pc[c] = "stopGroups" /\ pc' = [pc EXCEPT ![c] = "stopSweep"]
        /\ waiting[c] = {} /\ call[c].filter = {}
        /\ UNCHANGED <<registered, subscribed, attached, installed, discovery, call, alone,
                       faults>>
    BY DEF StopSweep, Full, server
  <1>4. TypeOK'
    BY <1>2, <1>3 DEF LInv, TypeOK
  <1>5. /\ \A d \in Calls : d # c => pc'[d] = pc[d]
        /\ pc'[c] = "stopSweep"
        /\ c \in Stopping /\ Stopping' = Stopping /\ Starting' = Starting
    BY <1>3 DEF Starting, Stopping, LInv, TypeOK
  <1>6. /\ ListenersKnown' /\ OnlyShutdownsClose' /\ SweepFound' /\ GroupsSelected' /\ Alone'
    BY <1>2, <1>3, <1>5 DEF LInv, ListenersKnown, OnlyShutdownsClose, SweepFound,
       GroupsSelected, Alone
  <1>7. ShutdownWaits'
    <2>1. alone[c] => /\ \A t \in Tasks : ~worker'[t]
                      /\ worker'[Sweep] => Sweep \in waiting'[c]
      <3>1. alone[c] => /\ call[c].sweep = registered
                        /\ \A t \in Tasks : ~worker[t]
        BY <1>3 DEF LInv, ShutdownWaits
      <3>2. worker[Sweep] => registered
        BY DEF LInv, SweepFound
      <3>3. QED
        BY <1>2, <3>1, <3>2
    <2>2. closing[Dispatcher] => closing'[Dispatcher]
      BY <1>2 DEF Queues
    <2>3. QED
      BY <1>2, <1>3, <1>5, <2>1, <2>2 DEF LInv, ShutdownWaits
  <1>8. StartStays'
    BY <1>2, <1>3, <1>5 DEF LInv, StartStays, Alone, Starting
  <1>9. QED
    BY <1>2, <1>4, <1>6, <1>7, <1>8 DEF LInv

\* The listeners go, and everything that is left is closed.
LEMMA CloseStep ==
    ASSUME LInv, NEW c \in Calls, Close(c)
    PROVE  LInv'
  <1>1. Closed \in SUBSET Queues
    BY QueuesOfType DEF Closed, Queues
  <1>2. /\ worker' = worker /\ awaits' = awaits
        /\ closing' \in [Queues -> BOOLEAN] /\ fetching' \in [Queues -> 0..2]
        /\ draining' \subseteq Batched
        /\ job' \in [Tasks -> {"none", "waiting", "active"}]
        /\ held' \in [Tasks -> 0..MinSize]
        /\ waiting' \in [Calls -> SUBSET (Queues \cup {Discovery})]
        /\ \A q \in Queues : closing'[q] <=> (closing[q] \/ (q \in Closed /\ worker[q]))
        /\ NoStrayWorker' /\ SlotsKept' /\ DrainingRuns'
        /\ \A q \in Closed : worker[q] => q \in waiting'[c]
        /\ \A d \in Calls \ {c} : waiting'[d] = waiting[d]
    <2> DEFINE others == IF discovery THEN {Discovery} ELSE {}
    <2>1. others \in SUBSET {Discovery} /\ StopWorkers(c, Closed, others)
      BY DEF Close
    <2> HIDE DEF others
    <2>2. Stopped(c, Closed, others)
      BY <1>1, <2>1, StopWorkersEffect
    <2>3. \A q \in Closed : worker[q] => q \in waiting'[c]
      BY <2>2 DEF Stopped
    <2>4. QED
      BY <2>2, <2>3 DEF Stopped
  <1>3. ~attached' /\ attached' \in BOOLEAN /\ installed' = 0
    <2>1. attached \in BOOLEAN /\ installed = IF attached THEN 1 ELSE 0
      BY DEF LInv, ListenersKnown, TypeOK
    <2>2. attached' = FALSE /\ installed' = IF attached THEN installed - 1 ELSE installed
      BY DEF Close
    <2>3. installed' = 0
      BY <2>1, <2>2
    <2>4. QED
      BY <2>2, <2>3
  <1>4. /\ pc[c] = "stopSweep" /\ pc' = [pc EXCEPT ![c] = "close"] /\ waiting[c] = {}
        /\ UNCHANGED <<registered, subscribed, discovery, call, alone, faults>>
    BY DEF Close
  <1>5. TypeOK'
    BY <1>2, <1>3, <1>4 DEF LInv, TypeOK
  <1>6. /\ \A d \in Calls : d # c => pc'[d] = pc[d]
        /\ pc'[c] = "close"
        /\ c \in Stopping /\ Stopping' = Stopping /\ Starting' = Starting
    BY <1>4 DEF Starting, Stopping, LInv, TypeOK
  <1>7. /\ ListenersKnown' /\ OnlyShutdownsClose' /\ SweepFound' /\ GroupsSelected' /\ Alone'
    BY <1>2, <1>3, <1>4, <1>6 DEF LInv, ListenersKnown, OnlyShutdownsClose, SweepFound,
       GroupsSelected, Alone
  <1>8. ShutdownWaits'
    <2>1. alone[c] => (\A t \in Tasks : ~worker'[t]) /\ ~worker'[Sweep]
      BY <1>2, <1>4 DEF LInv, ShutdownWaits
    <2>2. worker'[Dispatcher] => closing'[Dispatcher] /\ Dispatcher \in waiting'[c]
      BY <1>2 DEF Closed, Queues
    <2>3. closing[Dispatcher] => closing'[Dispatcher]
      BY <1>2 DEF Queues
    <2>4. QED
      BY <1>2, <1>3, <1>4, <1>6, <2>1, <2>2, <2>3 DEF LInv, ShutdownWaits
  <1>9. StartStays'
    BY <1>2, <1>4, <1>6 DEF LInv, StartStays, Alone, Starting
  <1>10. QED
    BY <1>2, <1>5, <1>7, <1>8, <1>9 DEF LInv

\* A worker has closed: the slot is free and nobody waits for it any more.
LEMMA CloseDoneStep ==
    ASSUME LInv, NEW q \in Queues, CloseDone(q)
    PROVE  LInv'
  <1>1. /\ closing' = [closing EXCEPT ![q] = FALSE]
        /\ worker' = [worker EXCEPT ![q] = FALSE]
        /\ waiting' = [c \in Calls |-> waiting[c] \ {q}]
        /\ closing[q] /\ Drained(q)
        /\ UNCHANGED <<fetching, draining, registered, subscribed, attached, installed,
                       discovery, call, pc, alone, job, held, awaits, faults>>
    BY DEF CloseDone, server, jobs
  <1>2. TypeOK'
    BY <1>1 DEF LInv, TypeOK
  <1>3. q \notin draining
    BY <1>1, LifecycleAssumption DEF Drained, LInv, TypeOK, DrainingRuns
  <1>4. /\ \A p \in Queues : /\ p # q => worker'[p] = worker[p] /\ closing'[p] = closing[p]
                             /\ worker'[p] => worker[p]
                             /\ closing'[p] => closing[p]
        /\ ~worker'[q] /\ ~closing'[q]
    BY <1>1 DEF LInv, TypeOK
  <1>5. NoStrayWorker' /\ SlotsKept' /\ DrainingRuns'
    <2>1. fetching[q] = 0
      BY <1>1, <1>3 DEF LInv, NoStrayWorker
    <2>2. Batched \subseteq Queues
      BY LifecycleAssumption DEF Queues
    <2>3. QED
      BY <1>1, <1>3, <1>4, <2>1, <2>2
         DEF LInv, NoStrayWorker, SlotsKept, DrainingRuns, TypeOK
  <1>6. /\ ListenersKnown' /\ OnlyShutdownsClose' /\ GroupsSelected' /\ Alone'
    BY <1>1 DEF LInv, ListenersKnown, OnlyShutdownsClose, GroupsSelected, Alone, Starting,
       Stopping
  <1>7. SweepFound'
    BY <1>1, <1>4 DEF LInv, SweepFound, Queues
  <1>8. ShutdownWaits'
    BY <1>1, <1>4 DEF LInv, ShutdownWaits, Queues
  <1>9. StartStays'
    <2>1. ASSUME NEW c \in Calls, alone[c], c \in Starting PROVE FALSE
      BY <1>1, <2>1 DEF LInv, StartStays
    <2>2. QED
      BY <1>1, <2>1 DEF StartStays, Starting
  <1>10. QED
    BY <1>2, <1>5, <1>6, <1>7, <1>8, <1>9 DEF LInv

\* The queue discovery has stopped: nobody starts it again.
LEMMA DiscoveryStopsStep ==
    ASSUME LInv, NEW c \in Calls, DiscoveryStops(c)
    PROVE  LInv'
  <1>1. /\ discovery' = FALSE
        /\ waiting' = [waiting EXCEPT ![c] = @ \ {Discovery}]
        /\ UNCHANGED <<worker, fetching, closing, draining, registered, subscribed, attached,
                       installed, call, pc, alone, job, held, awaits, faults>>
    BY DEF DiscoveryStops, workers, jobs
  <1>2. TypeOK'
    BY <1>1 DEF LInv, TypeOK
  <1>3. \A d \in Calls : \A q \in Queues : q \in waiting'[d] <=> q \in waiting[d]
    BY <1>1, QueuesApart DEF LInv, TypeOK
  <1>4. ShutdownWaits'
    BY <1>1, <1>3 DEF LInv, ShutdownWaits, Queues
  <1>5. QED
    BY <1>1, <1>2, <1>4 DEF LInv, NoStrayWorker, SlotsKept, DrainingRuns, ListenersKnown,
       OnlyShutdownsClose, SweepFound, Alone, StartStays, GroupsSelected, Starting, Stopping

-----------------------------------------------------------------------------
(* The steps of jobs.                                                      *)

\* Jobs come and go without touching workers or calls, and a batch that runs
\* goes on.
LEMMA JobsStep ==
    ASSUME LInv, NEW t \in Tasks, Arrive(t) \/ Take(t) \/ Collect(t) \/ StartBatch(t)
    PROVE  LInv'
  <1>1. /\ UNCHANGED <<workers, server, calls, faults>>
        /\ MinSize \in Nat /\ Batched \subseteq Tasks
    BY LifecycleAssumption DEF Arrive, Take, Collect, StartBatch
  <1>2. /\ job' \in [Tasks -> {"none", "waiting", "active"}]
        /\ awaits' \subseteq Tasks
        /\ \A u \in Tasks : job[u] = "active" => job'[u] = "active"
    BY <1>1 DEF Arrive, Take, Collect, StartBatch, LInv, TypeOK
  <1>3. held' \in [Tasks -> 0..MinSize]
    <2>1. held \in [Tasks -> 0..MinSize]
      BY DEF LInv, TypeOK
    <2>2. QED
      BY <1>1, <2>1 DEF Arrive, Take, Collect, StartBatch
  <1>4. TypeOK'
    BY <1>1, <1>2, <1>3 DEF LInv, TypeOK, workers, server, calls
  <1>5. DrainingRuns'
    BY <1>1, <1>2 DEF LInv, TypeOK, DrainingRuns, workers
  <1>6. QED
    BY <1>1, <1>4, <1>5 DEF LInv, workers, server, calls, NoStrayWorker, SlotsKept,
       ListenersKnown, OnlyShutdownsClose, SweepFound, Alone, ShutdownWaits, StartStays,
       GroupsSelected, Starting, Stopping

\* A close() that waited for the batch stops the fetching.
LEMMA FinishStep ==
    ASSUME LInv, NEW t \in Tasks, Finish(t)
    PROVE  LInv'
  <1>1. /\ job' = [job EXCEPT ![t] = "none"]
        /\ awaits' \subseteq awaits
        /\ draining' = draining \ {t}
        /\ fetching' = [fetching EXCEPT ![t] = IF t \in draining THEN @ - 1 ELSE @]
        /\ UNCHANGED <<worker, closing, registered, subscribed, attached, installed, discovery,
                       call, pc, waiting, alone, faults>>
        /\ t \in Queues /\ Batched \subseteq Tasks /\ Tasks \subseteq Queues
    BY LifecycleAssumption DEF Finish, server, calls, Queues
  <1>2. held' \in [Tasks -> 0..MinSize]
    <2>1. held \in [Tasks -> 0..MinSize] /\ MinSize \in Nat
      BY LifecycleAssumption DEF LInv, TypeOK
    <2>2. PICK late \in 0..held[t] : held' = [held EXCEPT ![t] = @ - late]
      BY DEF Finish
    <2>3. held[t] - late \in 0..MinSize
      BY <2>1, <2>2
    <2>4. QED
      BY <2>1, <2>2, <2>3
  <1>3. ASSUME NEW q \in Queues
        PROVE  /\ fetching'[q] =
                    IF worker'[q] /\ (closing'[q] => q \in draining') THEN 1 ELSE 0
    <2>1. /\ fetching[q] = IF worker[q] /\ (closing[q] => q \in draining) THEN 1 ELSE 0
          /\ q \in draining => closing[q]
          /\ closing[q] => worker[q]
      BY DEF LInv, NoStrayWorker, DrainingRuns, SlotsKept
    <2>2. fetching'[q] = IF q = t /\ t \in draining THEN fetching[q] - 1 ELSE fetching[q]
      BY <1>1 DEF LInv, TypeOK
    <2>3. QED
      BY <1>1, <2>1, <2>2
  <1>4. TypeOK'
    <2>1. fetching' \in [Queues -> 0..2]
      BY <1>1, <1>3 DEF LInv, TypeOK
    <2>2. QED
      BY <1>1, <1>2, <2>1 DEF LInv, TypeOK
  <1>5. NoStrayWorker' /\ SlotsKept' /\ DrainingRuns'
    BY <1>1, <1>3 DEF LInv, TypeOK, NoStrayWorker, SlotsKept, DrainingRuns
  <1>6. QED
    BY <1>1, <1>4, <1>5 DEF LInv, ListenersKnown, OnlyShutdownsClose, SweepFound, Alone,
       ShutdownWaits, StartStays, GroupsSelected, Starting, Stopping

-----------------------------------------------------------------------------
(* The theorems.                                                           *)

LEMMA LInvInit == Init => LInv
  <1> SUFFICES ASSUME Init PROVE LInv
    OBVIOUS
  <1>1. TypeOK
    <2>1. NoCall \in [filter : SUBSET Names, groups : SUBSET (Groups \cup {Maintenance}),
                     sweep : BOOLEAN]
      BY DEF NoCall
    <2>2. faults \in 0..MaxFaults /\ MinSize \in Nat
      BY LifecycleAssumption DEF Init
    <2>3. /\ call \in [Calls -> [filter : SUBSET Names, groups : SUBSET (Groups \cup {Maintenance}),
                                sweep : BOOLEAN]]
          /\ pc \in [Calls -> {"new", "scan", "sweep", "groups",
                               "stopGroups", "stopSweep", "close", "done"}]
          /\ waiting \in [Calls -> SUBSET (Queues \cup {Discovery})]
          /\ alone \in [Calls -> BOOLEAN]
      BY <2>1 DEF Init
    <2>4. /\ worker \in [Queues -> BOOLEAN]
          /\ fetching \in [Queues -> 0..2]
          /\ closing \in [Queues -> BOOLEAN]
          /\ draining \subseteq Batched
          /\ job \in [Tasks -> {"none", "waiting", "active"}] /\ awaits \subseteq Tasks
          /\ held \in [Tasks -> 0..MinSize]
      BY <2>2 DEF Init
    <2>5. /\ registered \in BOOLEAN /\ subscribed \in BOOLEAN /\ attached \in BOOLEAN
          /\ discovery \in BOOLEAN
      BY DEF Init
    <2>6. installed \in 0..1
      BY DEF Init
    <2>7. QED
      BY <2>2, <2>3, <2>4, <2>5, <2>6 DEF TypeOK
  <1>2. /\ NoStrayWorker /\ SlotsKept /\ DrainingRuns /\ ListenersKnown
        /\ OnlyShutdownsClose /\ SweepFound
    BY DEF Init, NoStrayWorker, SlotsKept, DrainingRuns, ListenersKnown,
       OnlyShutdownsClose, SweepFound, Queues
  <1>3. Alone /\ ShutdownWaits /\ StartStays /\ GroupsSelected
    BY DEF Init, Alone, ShutdownWaits, StartStays, GroupsSelected
  <1>4. QED
    BY <1>1, <1>2, <1>3 DEF LInv

\* The five ways for a call to settle.
LEMMA SettlesStep ==
    ASSUME LInv, NEW c \in Calls,
           \/ ScanFails(c) \/ TargetedStopDone(c) \/ DiscoveryRefused(c)
           \/ CloseRejects(c) \/ CloseReturns(c)
    PROVE  LInv'
  <1>1. Settle(c) /\ UNCHANGED <<workers, server, jobs>>
    BY DEF ScanFails, TargetedStopDone, DiscoveryRefused, CloseRejects, CloseReturns
  <1>2. faults' = faults \/ Blame
    BY DEF ScanFails, TargetedStopDone, DiscoveryRefused, CloseRejects, CloseReturns
  <1>3. faults' \in 0..MaxFaults
    BY <1>2, LifecycleAssumption DEF Blame, LInv, TypeOK
  <1>4. QED
    BY <1>1, <1>3, SettleStep

LEMMA LInvStep == LInv /\ [Next]_vars => LInv'
  <1> SUFFICES ASSUME LInv, [Next]_vars PROVE LInv'
    OBVIOUS
  <1>1. CASE \E c \in Calls :
                BeginStart(c) \/ ScanDone(c) \/ StartSweep(c) \/ StartGroups(c)
    BY <1>1, BeginStartStep, ScanDoneStep, StartSweepStep, StartGroupsStep
  <1>2. CASE \E c \in Calls :
                BeginStop(c) \/ StopSweep(c) \/ Close(c) \/ DiscoveryStops(c)
    BY <1>2, BeginStopStep, StopSweepStep, CloseStep, DiscoveryStopsStep
  <1>3. CASE \E c \in Calls :
                \/ ScanFails(c) \/ TargetedStopDone(c) \/ DiscoveryRefused(c)
                \/ CloseRejects(c) \/ CloseReturns(c)
    BY <1>3, SettlesStep
  <1>4. CASE \E q \in Queues : CloseDone(q)
    BY <1>4, CloseDoneStep
  <1>5. CASE \E t \in Tasks : Arrive(t) \/ Take(t) \/ Collect(t) \/ StartBatch(t)
    BY <1>5, JobsStep
  <1>6. CASE \E t \in Tasks : Finish(t)
    BY <1>6, FinishStep
  <1>7. CASE UNCHANGED vars
    BY <1>7 DEF vars, workers, server, calls, jobs, LInv, TypeOK, NoStrayWorker,
       SlotsKept, DrainingRuns, ListenersKnown, OnlyShutdownsClose, SweepFound, Alone,
       ShutdownWaits, StartStays, GroupsSelected, Starting, Stopping
  <1>8. QED
    BY <1>1, <1>2, <1>3, <1>4, <1>5, <1>6, <1>7 DEF Next

LEMMA LifecycleInvariance == Spec => []LInv
  <1>1. QED
    BY LInvInit, LInvStep, PTL DEF Spec

\* The variables have their types, and the server's listeners are in the
\* process at most once: Attach of server.ts removes earlier ones.
THEOREM TypesCorrect == Spec => []TypeOK
  <1>1. LInv => TypeOK
    BY DEF LInv
  <1>2. QED
    BY <1>1, LifecycleInvariance, PTL

\* No start or stop, overlapping others in whatever way, leaves a worker that
\* the slot of worker-queue.ts does not hold.
THEOREM SlotsHoldWorkers == Spec => []NoStrayWorker
  <1>1. LInv => NoStrayWorker
    BY DEF LInv
  <1>2. QED
    BY <1>1, LifecycleInvariance, PTL

\* A worker is only told to close by a shutdown, or by a stop that names its
\* group, and takes jobs until it is.
THEOREM OnlyAskedStops == Spec => TargetedStopSpares
  <1> DEFINE Asked(q) == \E c \in Stopping' :
                            \/ call'[c].filter = {}
                            \/ q \in Tasks /\ GroupOf[q] \in call'[c].filter
             Spared == \A q \in Queues : /\ fetching'[q] < fetching[q] => closing'[q]
                                         /\ closing'[q] /\ ~closing[q] => Asked(q)
  <1>1. ASSUME LInv, [Next]_vars PROVE Spared
    <2> SUFFICES ASSUME NEW q \in Queues
                 PROVE  /\ fetching'[q] < fetching[q] => closing'[q]
                        /\ closing'[q] /\ ~closing[q] => Asked(q)
      OBVIOUS
    <2>1. \A p \in Queues : fetching[p] \in 0..2
      BY <1>1 DEF LInv, TypeOK
    <2>2. ASSUME NEW qs, StartWorkers(qs)
          PROVE  ~(fetching'[q] < fetching[q]) /\ closing' = closing
      <3>1. fetching'[q] = fetching[q] + (IF q \in {p \in qs : Startable(p)} THEN 1 ELSE 0)
        BY <2>2 DEF StartWorkers
      <3>2. fetching[q] \in Nat
        BY <2>1
      <3>3. QED
        BY <2>2, <3>1, <3>2 DEF StartWorkers
    <2>3. ASSUME UNCHANGED <<fetching, closing>>
          PROVE  ~(fetching'[q] < fetching[q]) /\ closing' = closing
      BY <2>1, <2>3
    <2>4. ASSUME NEW c \in Calls, BeginStop(c)
          PROVE  /\ fetching'[q] < fetching[q] => closing'[q]
                 /\ closing'[q] /\ ~closing[q] => Asked(q)
      <3>1. PICK f \in SUBSET Names :
              /\ call' = [call EXCEPT ![c] =
                    [filter |-> f, groups |-> Selected(f) \ {Maintenance}, sweep |-> registered]]
              /\ StopWorkers(c, QueuesOf(Selected(f) \ {Maintenance}), {})
        BY <2>4, LifecycleAssumption DEF BeginStop
      <3>2. Stopped(c, QueuesOf(Selected(f) \ {Maintenance}), {})
        BY <1>1, <3>1, QueuesOfType, StopWorkersEffect
      <3>3. /\ fetching'[q] < fetching[q] => closing'[q]
            /\ closing'[q] /\ ~closing[q] => q \in QueuesOf(Selected(f) \ {Maintenance})
        BY <3>2 DEF Stopped
      <3>4. q \in QueuesOf(Selected(f) \ {Maintenance}) => q \in Tasks /\ GroupOf[q] \in Selected(f)
        BY DEF QueuesOf
      <3>5. GroupOf[q] \in Selected(f) => f = {} \/ GroupOf[q] \in f
        BY DEF Selected
      <3>6. call'[c].filter = f /\ c \in Stopping'
        BY <1>1, <2>4, <3>1 DEF BeginStop, Stopping, LInv, TypeOK
      <3>7. QED
        BY <3>3, <3>4, <3>5, <3>6
    <2>5. ASSUME NEW c \in Calls, StopSweep(c) \/ Close(c)
          PROVE  /\ fetching'[q] < fetching[q] => closing'[q]
                 /\ closing'[q] /\ ~closing[q] => Asked(q)
      <3>1. PICK qs \in SUBSET Queues, others \in SUBSET {Discovery} : StopWorkers(c, qs, others)
        <4>1. CASE StopSweep(c)
          BY <4>1 DEF StopSweep, Queues
        <4>2. CASE Close(c)
          <5>1. StopWorkers(c, Closed, IF discovery THEN {Discovery} ELSE {})
            BY <4>2 DEF Close
          <5>2. Closed \in SUBSET Queues
            BY QueuesOfType DEF Closed, Queues
          <5>3. (IF discovery THEN {Discovery} ELSE {}) \in SUBSET {Discovery}
            OBVIOUS
          <5>4. QED
            BY <5>1, <5>2, <5>3
        <4>3. QED
          BY <2>5, <4>1, <4>2
      <3>2. Stopped(c, qs, others)
        BY <1>1, <3>1, StopWorkersEffect
      <3>3. c \in Stopping' /\ call'[c].filter = {}
        BY <1>1, <2>5
           DEF StopSweep, Close, Full, Stopping, LInv, TypeOK, OnlyShutdownsClose
      <3>4. QED
        BY <3>2, <3>3 DEF Stopped
    <2>6. ASSUME NEW c \in Calls,
                 BeginStart(c) \/ ScanDone(c) \/ StartSweep(c) \/ StartGroups(c)
          PROVE  ~(fetching'[q] < fetching[q]) /\ closing' = closing
      BY <2>2, <2>6 DEF BeginStart, ScanDone, StartSweep, StartGroups
    <2>7. ASSUME NEW c \in Calls,
                 \/ ScanFails(c) \/ TargetedStopDone(c) \/ DiscoveryStops(c)
                 \/ DiscoveryRefused(c) \/ CloseRejects(c) \/ CloseReturns(c)
          PROVE  ~(fetching'[q] < fetching[q]) /\ closing' = closing
      BY <2>3, <2>7 DEF ScanFails, TargetedStopDone, DiscoveryStops, DiscoveryRefused,
         CloseRejects, CloseReturns, workers
    <2>8. ASSUME NEW p \in Queues, CloseDone(p)
          PROVE  ~(fetching'[q] < fetching[q]) /\ (closing'[q] => closing[q])
      <3>1. fetching' = fetching /\ closing' = [closing EXCEPT ![p] = FALSE]
        BY <2>8 DEF CloseDone
      <3>2. closing \in [Queues -> BOOLEAN]
        BY <1>1 DEF LInv, TypeOK
      <3>3. QED
        BY <2>1, <3>1, <3>2
    <2>9. ASSUME NEW t \in Tasks, Arrive(t) \/ Take(t) \/ Collect(t) \/ StartBatch(t)
          PROVE  ~(fetching'[q] < fetching[q]) /\ closing' = closing
      BY <2>3, <2>9 DEF Arrive, Take, Collect, StartBatch, workers
    <2>10. ASSUME NEW t \in Tasks, Finish(t)
           PROVE  /\ fetching'[q] < fetching[q] => closing'[q]
                  /\ closing' = closing
      <3>1. /\ fetching' = [fetching EXCEPT ![t] = IF t \in draining THEN @ - 1 ELSE @]
            /\ closing' = closing
        BY <2>10 DEF Finish
      <3>2. /\ t \in draining => closing[t]
            /\ fetching \in [Queues -> 0..2]
        BY <1>1 DEF LInv, DrainingRuns, TypeOK
      <3>3. QED
        BY <2>1, <3>1, <3>2
    <2>11. CASE UNCHANGED vars
      BY <2>3, <2>11 DEF vars, workers
    <2>12. QED
      BY <1>1, <2>4, <2>5, <2>6, <2>7, <2>8, <2>9, <2>10, <2>11 DEF Next
  <1>2. QED
    BY <1>1, LifecycleInvariance, PTL DEF Spec, TargetedStopSpares

\* A shutdown without a start beside it returns, whether its closes went well or
\* client.ts swallowed the error of one, with no worker of the server taking
\* jobs but the event manager's, those of all tasks closed and no listeners:
\* there is no order of other stops, jobs and failures in which one is left.
THEOREM ShutdownLeavesNothing == Spec => ShutdownStops
  <1> DEFINE Left(c) == /\ \A q \in Queues \ {Manager} :
                              /\ fetching'[q] = 0
                              /\ q # Dispatcher \/ waiting[c] = {} => ~worker'[q]
                        /\ installed' = 0
             AllStopped == \A c \in Calls : Returns(c) /\ alone[c] => Left(c)
  <1>1. ASSUME LInv, [Next]_vars PROVE AllStopped
    <2> SUFFICES ASSUME NEW c \in Calls, Returns(c), alone[c] PROVE Left(c)
      OBVIOUS
    <2>1. DiscoveryRefused(c) \/ CloseRejects(c) \/ CloseReturns(c)
      BY <1>1 DEF Returns, Next, vars, calls, LInv, TypeOK, BeginStart, Begins, ScanDone,
         ScanFails, StartSweep, StartGroups, BeginStop, StopSweep, TargetedStopDone,
         Close, DiscoveryStops, DiscoveryRefused, CloseRejects, CloseReturns, CloseDone,
         Arrive, Take, Collect, StartBatch, Finish, Settle
    <2>2. UNCHANGED <<worker, fetching, attached, installed>>
      BY <2>1 DEF DiscoveryRefused, CloseRejects, CloseReturns, workers, server
    <2>3. /\ ~attached
          /\ \A t \in Tasks : ~worker[t]
          /\ ~worker[Sweep]
          /\ worker[Dispatcher] => closing[Dispatcher] /\ Dispatcher \in waiting[c]
      BY <1>1 DEF LInv, ShutdownWaits, Returns
    <2>4. Dispatcher \notin draining
      BY <1>1, QueuesApart, LifecycleAssumption DEF LInv, TypeOK
    <2>5. ASSUME NEW q \in Queues \ {Manager}
          PROVE  fetching[q] = 0 /\ (q # Dispatcher \/ waiting[c] = {} => ~worker[q])
      BY <1>1, <2>3, <2>4 DEF LInv, NoStrayWorker, Queues
    <2>6. installed = 0
      BY <1>1, <2>3 DEF LInv, ListenersKnown
    <2>7. QED
      BY <2>2, <2>5, <2>6
  <1>2. QED
    BY <1>1, LifecycleInvariance, PTL DEF Spec, ShutdownStops

\* A start without a stop beside it returns with a worker taking jobs for every
\* task it was asked for, for the sweep and for the events.
THEOREM StartGivesWorkers == Spec => StartServes
  <1> DEFINE Served == \A c \in Calls : pc[c] = "groups" /\ pc'[c] = "done" /\ alone[c] =>
                         \A q \in Queues :
                            (q \in Tasks /\ call[c].filter # {} => GroupOf[q] \in call[c].filter)
                                => fetching'[q] = 1
  <1>1. ASSUME LInv, [Next]_vars PROVE Served
    <2> SUFFICES ASSUME NEW c \in Calls, pc[c] = "groups", pc'[c] = "done", alone[c],
                        NEW q \in Queues,
                        q \in Tasks /\ call[c].filter # {} => GroupOf[q] \in call[c].filter
                 PROVE  fetching'[q] = 1
      OBVIOUS
    <2>1. StartGroups(c)
      BY <1>1 DEF Next, vars, calls, LInv, TypeOK, BeginStart, Begins, ScanDone, ScanFails,
         StartSweep, StartGroups, BeginStop, StopSweep, TargetedStopDone, Close,
         DiscoveryStops, DiscoveryRefused, CloseRejects, CloseReturns, CloseDone, Arrive,
         Take, Collect, StartBatch, Finish, Settle
    <2>2. /\ UNCHANGED <<closing, draining>> /\ NoStrayWorker'
          /\ \A p \in Queues : worker'[p] <=> (worker[p] \/ p \in QueuesOf(call[c].groups))
      BY <1>1, <2>1, StartWorkersEffect, QueuesOfType DEF StartGroups
    <2>3. ~closing[q]
      BY <1>1 DEF LInv, StartStays, Starting
    <2>4. worker'[q]
      <3>1. CASE q \in Tasks
        <4>1. GroupOf[q] \in Groups
          BY <3>1, LifecycleAssumption
        <4>2. GroupOf[q] \in call[c].groups
          BY <1>1, <3>1, <4>1 DEF LInv, GroupsSelected
        <4>3. QED
          BY <2>2, <3>1, <4>2 DEF QueuesOf
      <3>2. CASE q \in {Manager, Dispatcher, Sweep}
        BY <1>1, <2>2, <3>2 DEF LInv, StartStays
      <3>3. QED
        BY <3>1, <3>2 DEF Queues
    <2>5. QED
      BY <2>2, <2>3, <2>4 DEF NoStrayWorker
  <1>2. QED
    BY <1>1, LifecycleInvariance, PTL DEF Spec, StartServes
=============================================================================
