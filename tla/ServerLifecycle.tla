-------------------------- MODULE ServerLifecycle --------------------------
(***************************************************************************)
(* Starting and stopping the workers of one process: start and stop of     *)
(* server.ts over startWorkers and stopWorkers of task-group.ts, the       *)
(* worker slot of worker-queue.ts and close of client.ts.                  *)
(*                                                                         *)
(* A worker queue has one slot, its worker property, which is filled until *)
(* the worker in it is closed; a closing worker takes no job and waits for *)
(* the ones it has.  Calls to start and stop run concurrently (a signal    *)
(* handler stops a server that is still starting), and every await is a    *)
(* place where another call, or a job, can take a step.  Handlers may wait *)
(* for the job of another task, as runTaskAndWait of step-executor.ts      *)
(* does.  The orphan clean-up is enabled, its default.                     *)
(*                                                                         *)
(* A task with batching collects its jobs, and a batch of them runs once   *)
(* there are minSize (worker.ts; BatchWorker has the details).  Its worker *)
(* goes on fetching while its close() waits for a batch, and is closed     *)
(* once every job it has collected is done.  Its timeout is set.  Nobody   *)
(* here waits for the result of such a task, which may never come anyway.  *)
(***************************************************************************)
EXTENDS Naturals, FiniteSets

CONSTANTS
    Groups,       \* the user's task groups
    Tasks,        \* their tasks, one worker queue each
    GroupOf,      \* the group of each task
    Asks,         \* the task whose result a task's handler waits for, or NoTask
    NoTask,
    Batched,      \* the tasks with batching
    MinSize,      \* their minSize: also a bound for the jobs collected
    Stranger,     \* a group name no group has
    Calls,        \* bound: the calls to start and stop, numbered
    Filters,      \* bound: the filters each is called with, sets of group names
    MaxFaults     \* bound: failed scans for active events, and failed closes

Maintenance == "maintenance"
Sweep       == "maintenance.orphanCleanup"
Manager     == "events.sync"
Dispatcher  == "events.dispatch"
Discovery   == "queue discovery"
Queues      == Tasks \cup {Sweep, Manager, Dispatcher}
Names       == Groups \cup {Maintenance, Stranger}

ASSUME LifecycleAssumption ==
    /\ GroupOf \in [Tasks -> Groups]
    /\ NoTask \notin Tasks
    /\ Tasks \cap {Sweep, Manager, Dispatcher, Discovery} = {}
    /\ Asks \in [Tasks -> Tasks \cup {NoTask}]
    /\ Batched \subseteq Tasks
    /\ \A t \in Tasks : t \in Batched => Asks[t] = NoTask
    /\ \A t \in Tasks : Asks[t] \notin Batched
    /\ MinSize \in Nat \ {0}
    /\ Calls \subseteq Nat
    /\ Groups \cap {Stranger, Maintenance} = {}
    /\ \A c \in Calls : Filters[c] \subseteq SUBSET Names
    /\ MaxFaults \in Nat

VARIABLES
    worker,      \* per queue: the slot is filled
    fetching,    \* per queue: its workers that take jobs
    closing,     \* per queue: the worker in the slot is closing
    draining,    \* the queues whose close() waits for a batch and still fetches
    registered,  \* the maintenance group is among taskGroups
    subscribed,  \* subscribedToActiveEvents of the dispatcher
    attached,    \* the server holds its global error listeners
    installed,   \* how many listeners of it the Node process has
    discovery,   \* the client's queue discovery is active
    call,        \* per call: what was asked, and the groups it is for
    pc,          \* per call: how far it is
    waiting,     \* per call: what it awaits the closing of
    job,         \* per task: its job, or batch
    held,        \* per task with batching: jobs collected for the next batch
    awaits,      \* tasks whose handler awaits the job of the task it asks
    faults,      \* failures so far
    alone        \* ghost, per call: no call of the other kind overlapped it

workers == <<worker, fetching, closing, draining>>
server  == <<registered, subscribed, attached, installed, discovery>>
calls   == <<call, pc, waiting, alone>>
jobs    == <<job, held, awaits>>
vars    == <<workers, server, calls, jobs, faults>>

Starting == {c \in Calls : pc[c] \in {"scan", "sweep", "groups"}}
Stopping == {c \in Calls : pc[c] \in {"stopGroups", "stopSweep", "close"}}

NoCall == [filter |-> {}, groups |-> {}, sweep |-> FALSE]

Init ==
    /\ worker     = [q \in Queues |-> FALSE]
    /\ fetching   = [q \in Queues |-> 0]
    /\ closing    = [q \in Queues |-> FALSE]
    /\ draining   = {}
    /\ registered = FALSE
    /\ subscribed = FALSE
    /\ attached   = FALSE
    /\ installed  = 0
    /\ discovery \in BOOLEAN
    /\ call       = [c \in Calls |-> NoCall]
    /\ pc         = [c \in Calls |-> "new"]
    /\ waiting    = [c \in Calls |-> {}]
    /\ alone      = [c \in Calls |-> FALSE]
    /\ job        = [t \in Tasks |-> "none"]
    /\ held       = [t \in Tasks |-> 0]
    /\ awaits     = {}
    /\ faults     = 0

Blame == faults < MaxFaults /\ faults' = faults + 1

-----------------------------------------------------------------------------
(* The filter and the worker slot.                                         *)

TaskGroups == Groups \cup (IF registered THEN {Maintenance} ELSE {})

\* Slip: one unknown name and the filter selects nothing.
SelectedOrNothing(filter) ==
    IF filter = {} THEN TaskGroups ELSE IF filter \subseteq TaskGroups THEN filter ELSE {}

\* filterGroups: no names means every group there is; unknown names are skipped.
Selected(filter) == IF filter = {} THEN TaskGroups ELSE filter \cap TaskGroups

\* filterGroupTasks without a filter: all the tasks of a group.
QueuesOf(groups) ==
    {t \in Tasks : GroupOf[t] \in groups}
        \cup (IF Maintenance \in groups THEN {Sweep} ELSE {})

\* Slip: a closing worker counts as none.
StartableWhenClosing(q) == ~worker[q] \/ closing[q]

\* startWorker finds the slot free; otherwise it returns the worker in it.
Startable(q) == ~worker[q]

StartWorkers(qs) ==
    LET new == {q \in qs : Startable(q)}
    IN  /\ worker'   = [q \in Queues |-> worker[q] \/ q \in new]
        /\ fetching' = [q \in Queues |-> fetching[q] + (IF q \in new THEN 1 ELSE 0)]
        /\ UNCHANGED <<closing, draining>>

\* The closes that a stop awaits, whatever comes of each: those of filled slots.
Filled(qs) == {q \in qs : worker[q]}

\* stopWorker up to its await, for the closes that call c awaits beside others.
\* A worker takes no more jobs, unless its close() waits for a batch: for the
\* one that runs, or for the last one, which it runs if there are jobs enough.
\* If there are some but not enough they complete at once, unhandled.  Another
\* stop may come to a worker that is closing, and its close() does the same.
StopWorkers(c, qs, others) ==
    LET busy  == Filled(qs)
        batch == {t \in busy \cap Batched : job[t] = "active" \/ held[t] = MinSize}
        first == {q \in busy : ~closing[q]}
    IN  /\ closing'  = [q \in Queues |-> closing[q] \/ q \in busy]
        /\ draining' = draining \cup (first \cap batch)
        /\ fetching' = [q \in Queues |->
                            IF q \in first \ batch THEN fetching[q] - 1 ELSE fetching[q]]
        /\ job'      = [t \in Tasks |-> IF t \in batch THEN "active" ELSE job[t]]
        /\ held'     = [t \in Tasks |->
                            IF t \in busy /\ job[t] # "active" THEN 0 ELSE held[t]]
        /\ waiting'  = [waiting EXCEPT ![c] = busy \cup others]
        /\ UNCHANGED <<worker, awaits>>


\* The worker has finished the jobs it took: every stopWorker that awaits it
\* clears the slot.
Drained(q) == q \in Tasks => job[q] # "active" /\ held[q] = 0

CloseDone(q) ==
    /\ closing[q]
    /\ Drained(q)
    /\ closing' = [closing EXCEPT ![q] = FALSE]
    /\ worker'  = [worker EXCEPT ![q] = FALSE]
    /\ waiting' = [c \in Calls |-> waiting[c] \ {q}]
    /\ UNCHANGED <<fetching, draining, server, call, pc, alone, jobs, faults>>

\* Calls begin in the order of their numbers.
Begins(c) == pc[c] = "new" /\ \A d \in Calls : d < c => pc[d] # "new"

\* A call settles, and what it knew is forgotten.
Settle(c) ==
    /\ pc'      = [pc EXCEPT ![c] = "done"]
    /\ call'    = [call EXCEPT ![c] = NoCall]
    /\ alone'   = [alone EXCEPT ![c] = FALSE]
    /\ waiting' = [waiting EXCEPT ![c] = {}]

-----------------------------------------------------------------------------
(* start                                                                   *)

\* Slip: the listeners of an earlier start stay.
AttachAgain ==
    /\ attached'  = TRUE
    /\ installed' = installed + 1

\* Listeners left over from an earlier start are removed first.
Attach ==
    /\ attached'  = TRUE
    /\ installed' = (IF attached THEN installed - 1 ELSE installed) + 1

\* Up to the first await: the listeners, and the worker of the event manager.
BeginStart(c) ==
    /\ Begins(c)
    /\ \E f \in Filters[c] : call' = [call EXCEPT ![c].filter = f]
    /\ Attach
    /\ StartWorkers({Manager})
    /\ pc'    = [pc EXCEPT ![c] = "scan"]
    /\ alone' = [d \in Calls |-> IF d = c THEN Stopping = {} /\ \A q \in Queues : ~closing[q]
                                 ELSE alone[d] /\ d \notin Stopping]
    /\ UNCHANGED <<registered, subscribed, discovery, waiting, jobs, faults>>

\* The dispatcher's worker starts once it has its first list of active events.
ScanDone(c) ==
    /\ pc[c] = "scan"
    /\ subscribed' = TRUE
    /\ StartWorkers({Dispatcher})
    /\ pc' = [pc EXCEPT ![c] = "sweep"]
    /\ UNCHANGED <<registered, attached, installed, discovery, call, waiting, alone, jobs,
                   faults>>

\* The scan fails and start rejects; what it has started stays.
ScanFails(c) ==
    /\ pc[c] = "scan"
    /\ ~subscribed
    /\ Blame
    /\ Settle(c)
    /\ UNCHANGED <<workers, server, jobs>>

\* The filter is resolved before the maintenance group is registered; its
\* workers start whatever the filter says.
StartSweep(c) ==
    /\ pc[c] = "sweep"
    /\ call' = [call EXCEPT ![c].groups = Selected(call[c].filter)]
    /\ registered' = TRUE
    /\ StartWorkers({Sweep})
    /\ pc' = [pc EXCEPT ![c] = "groups"]
    /\ UNCHANGED <<subscribed, attached, installed, discovery, waiting, alone, jobs,
                   faults>>

StartGroups(c) ==
    /\ pc[c] = "groups"
    /\ StartWorkers(QueuesOf(call[c].groups))
    /\ Settle(c)
    /\ UNCHANGED <<server, jobs, faults>>

-----------------------------------------------------------------------------
(* stop                                                                    *)

\* Slip: a stop for no group is taken for a shutdown.
FullWhenNothingMatches(filter, groups) == groups = {}

\* isFullShutdown: the filter names no group.
Full(filter, groups) == filter = {}

BeginStop(c) ==
    /\ Begins(c)
    /\ \E f \in Filters[c] :
          LET user == Selected(f) \ {Maintenance}
          IN  /\ call' = [call EXCEPT ![c] =
                             [filter |-> f, groups |-> user, sweep |-> registered]]
              /\ StopWorkers(c, QueuesOf(user), {})
    /\ pc'    = [pc EXCEPT ![c] = "stopGroups"]
    /\ alone' = [d \in Calls |-> IF d = c THEN Starting = {} ELSE alone[d] /\ d \notin Starting]
    /\ UNCHANGED <<server, faults>>

\* A targeted stop is over; a shutdown goes on with the maintenance group, if
\* there was one when it was called.
StopSweep(c) ==
    /\ pc[c] = "stopGroups"
    /\ waiting[c] = {}
    /\ Full(call[c].filter, call[c].groups)
    /\ StopWorkers(c, IF call[c].sweep THEN {Sweep} ELSE {}, {})
    /\ pc' = [pc EXCEPT ![c] = "stopSweep"]
    /\ UNCHANGED <<server, call, alone, faults>>

TargetedStopDone(c) ==
    /\ pc[c] = "stopGroups"
    /\ waiting[c] = {}
    /\ ~Full(call[c].filter, call[c].groups)
    /\ Settle(c)
    /\ UNCHANGED <<workers, server, jobs, faults>>

\* Slip: client.close leaves the dispatcher out.
ClosedGroups == QueuesOf(TaskGroups)

\* client.close: every task of every group, and the dispatcher.
Closed == QueuesOf(TaskGroups) \cup {Dispatcher}

Close(c) ==
    /\ pc[c] = "stopSweep"
    /\ waiting[c] = {}
    /\ attached'  = FALSE
    /\ installed' = IF attached THEN installed - 1 ELSE installed
    /\ StopWorkers(c, Closed, IF discovery THEN {Discovery} ELSE {})
    /\ pc' = [pc EXCEPT ![c] = "close"]
    /\ UNCHANGED <<registered, subscribed, discovery, call, alone, faults>>

\* stopQueueDiscovery, for a call that found it active.
DiscoveryStops(c) ==
    /\ pc[c] = "close"
    /\ Discovery \in waiting[c]
    /\ discovery
    /\ discovery' = FALSE
    /\ waiting'   = [waiting EXCEPT ![c] = @ \ {Discovery}]
    /\ UNCHANGED <<workers, registered, subscribed, attached, installed, call, pc, alone,
                   jobs, faults>>

\* Promise.all rejects with the first close that does, and the catch swallows
\* it: stop returns, and what it awaited goes on closing without it.  It is the
\* stopping of the discovery when another call has stopped it meanwhile ...
DiscoveryRefused(c) ==
    /\ pc[c] = "close"
    /\ Discovery \in waiting[c]
    /\ ~discovery
    /\ Settle(c)
    /\ UNCHANGED <<workers, server, jobs, faults>>

\* ... or that or a consumer queue's close, by a failure of Redis.
CloseRejects(c) ==
    /\ pc[c] = "close"
    /\ Blame
    /\ Settle(c)
    /\ UNCHANGED <<workers, server, jobs>>

CloseReturns(c) ==
    /\ pc[c] = "close"
    /\ waiting[c] = {}
    /\ Settle(c)
    /\ UNCHANGED <<workers, server, jobs, faults>>

-----------------------------------------------------------------------------
(* Jobs: at most one per task at a time, or with batching one batch.       *)

\* Somebody adds a job.  Bound: a task that others wait for has only theirs.
Arrive(t) ==
    /\ t \notin Batched
    /\ \A u \in Tasks : Asks[u] # t
    /\ job[t] = "none"
    /\ job' = [job EXCEPT ![t] = "waiting"]
    /\ UNCHANGED <<workers, server, calls, held, awaits, faults>>

\* The handler runs up to where it waits for the task it asks, if any.
Take(t) ==
    /\ job[t] = "waiting"
    /\ fetching[t] > 0
    /\ job' = [u \in Tasks |->
                  IF u = t THEN "active"
                  ELSE IF u = Asks[t] /\ job[u] = "none" THEN "waiting"
                  ELSE job[u]]
    /\ awaits' = IF Asks[t] = NoTask THEN awaits ELSE awaits \cup {t}
    /\ UNCHANGED <<workers, server, calls, held, faults>>

\* A job comes and is collected, also beside a running batch and while close()
\* waits for that.
Collect(t) ==
    /\ t \in Batched
    /\ fetching[t] > 0
    /\ held[t] < MinSize
    /\ held' = [held EXCEPT ![t] = @ + 1]
    /\ UNCHANGED <<workers, server, calls, job, awaits, faults>>

\* The size or the timer starts a batch, after close() as well as before.
StartBatch(t) ==
    /\ held[t] = MinSize
    /\ job[t] # "active"
    /\ job'  = [job EXCEPT ![t] = "active"]
    /\ held' = [held EXCEPT ![t] = 0]
    /\ UNCHANGED <<workers, server, calls, awaits, faults>>

\* Jobs that waited too long for the lock of a batch are answered with it.  A
\* close() that waited for it goes on to stop the fetching.
Finish(t) ==
    /\ job[t] = "active"
    /\ t \notin awaits
    /\ job'      = [job EXCEPT ![t] = "none"]
    /\ awaits'   = {u \in awaits : Asks[u] # t}
    /\ draining' = draining \ {t}
    /\ fetching' = [fetching EXCEPT ![t] = IF t \in draining THEN @ - 1 ELSE @]
    /\ \E late \in 0..held[t] : held' = [held EXCEPT ![t] = @ - late]
    /\ UNCHANGED <<worker, closing, server, calls, faults>>

-----------------------------------------------------------------------------
Next ==
    \/ \E c \in Calls :
          \/ BeginStart(c) \/ ScanDone(c) \/ ScanFails(c) \/ StartSweep(c) \/ StartGroups(c)
          \/ BeginStop(c) \/ StopSweep(c) \/ TargetedStopDone(c)
          \/ Close(c) \/ DiscoveryStops(c) \/ DiscoveryRefused(c)
          \/ CloseRejects(c) \/ CloseReturns(c)
    \/ \E q \in Queues : CloseDone(q)
    \/ \E t \in Tasks : Arrive(t) \/ Take(t) \/ Collect(t) \/ StartBatch(t) \/ Finish(t)

Spec == Init /\ [][Next]_vars

\* What a call does next, and what the worker of a task does with its jobs.
Proceeds(c) ==
    \/ ScanDone(c) \/ StartSweep(c) \/ StartGroups(c)
    \/ StopSweep(c) \/ TargetedStopDone(c)
    \/ Close(c) \/ DiscoveryStops(c) \/ DiscoveryRefused(c) \/ CloseReturns(c)

Works(t) == Take(t) \/ StartBatch(t) \/ Finish(t)

\* A call goes on when what it awaits has come, a closing worker closes when its
\* jobs are done, a batch that has enough jobs is started (the timer was set
\* when they came) and a handler that waits for nothing finishes.  Nothing makes
\* anyone call start or stop or add a job.  Calls and the closes they ask for
\* are finitely many, so each of them gets its turn.
Fairness ==
    /\ WF_vars(\E c \in Calls : Proceeds(c))
    /\ WF_vars(\E q \in Queues : CloseDone(q))
    /\ \A t \in Tasks : WF_vars(Works(t))

FairSpec == Spec /\ Fairness

-----------------------------------------------------------------------------
(* Properties                                                              *)

\* The types of the variables.  The server has its listeners in the process at
\* most once.
TypeOK ==
    /\ worker   \in [Queues -> BOOLEAN]
    /\ fetching \in [Queues -> 0..2]
    /\ closing  \in [Queues -> BOOLEAN]
    /\ draining \subseteq Batched
    /\ registered \in BOOLEAN /\ subscribed \in BOOLEAN /\ attached \in BOOLEAN
    /\ installed \in 0..1
    /\ discovery \in BOOLEAN
    /\ call \in [Calls -> [filter : SUBSET Names, groups : SUBSET (Groups \cup {Maintenance}),
                           sweep : BOOLEAN]]
    /\ pc \in [Calls -> {"new", "scan", "sweep", "groups",
                         "stopGroups", "stopSweep", "close", "done"}]
    /\ waiting \in [Calls -> SUBSET (Queues \cup {Discovery})]
    /\ alone \in [Calls -> BOOLEAN]
    /\ job \in [Tasks -> {"none", "waiting", "active"}]
    /\ held \in [Tasks -> 0..MinSize]
    /\ awaits \subseteq Tasks
    /\ faults \in 0..MaxFaults

\* However starts and stops interleave, a worker that takes jobs is the one in
\* the slot of its queue, so a later stop reaches it: no queue has two workers,
\* and clearing the slot when a close returns never drops a newer one.  Once it
\* is closing it only takes jobs while its close() waits for a batch.
NoStrayWorker ==
    \A q \in Queues :
        fetching[q] = IF worker[q] /\ (closing[q] => q \in draining) THEN 1 ELSE 0

Returns(c) == pc[c] = "close" /\ pc'[c] = "done"

\* When a shutdown that no start overlapped returns, nothing but the event
\* manager takes jobs, its listeners are out of the process, and the workers of
\* all tasks are closed, whatever other stops ran beside it.  The dispatcher's
\* is closed too if none of the closes it awaited was rejected; otherwise it
\* may still be finishing a job (client.ts:778, 830-833).
ShutdownStops ==
    [][\A c \in Calls : Returns(c) /\ alone[c] =>
          /\ \A q \in Queues \ {Manager} :
                /\ fetching'[q] = 0
                /\ q # Dispatcher \/ waiting[c] = {} => ~worker'[q]
          /\ installed' = 0]_vars

\* "Closes all managed TaskGroups, their Tasks, the EventDispatcher, Queues"
\* (client.ts): after a shutdown no worker of the server takes jobs any more.
ShutdownIsComplete ==
    [][\A c \in Calls : Returns(c) /\ alone[c] => \A q \in Queues : fetching'[q] = 0]_vars

\* A worker only begins to close, and only then stops taking jobs, for a call
\* that asked for it: a shutdown, or a targeted stop that names the group of its
\* task.  A filter that matches nothing stops nothing, and only a shutdown stops
\* the maintenance sweep and the dispatcher.
TargetedStopSpares ==
    [][\A q \in Queues :
          /\ fetching'[q] < fetching[q] => closing'[q]
          /\ closing'[q] /\ ~closing[q] =>
                \E c \in Stopping' :
                    \/ call'[c].filter = {}
                    \/ q \in Tasks /\ GroupOf[q] \in call'[c].filter]_vars

\* When a start that no stop overlapped returns, every task its filter asks for
\* has a worker taking jobs, and so have the sweep and the events, also after
\* earlier stops and failed starts.  (A shutdown that returned with the
\* dispatcher still closing overlaps until that is done: startWorker hands out
\* the closing worker.)
StartServes ==
    [][\A c \in Calls : pc[c] = "groups" /\ pc'[c] = "done" /\ alone[c] =>
          \A q \in Queues :
              (q \in Tasks /\ call[c].filter # {} => GroupOf[q] \in call[c].filter)
                  => fetching'[q] = 1]_vars

\* A handler awaits the job of a task that has no worker left to run it.
Deadlocked ==
    \E t \in awaits : job[Asks[t]] = "waiting" /\ fetching[Asks[t]] = 0

\* A worker that no longer fetches has collected too few jobs for a batch while
\* its close() waited for the one before: no timer and no job will start one.
Starved ==
    \E t \in Batched : /\ closing[t] /\ fetching[t] = 0
                       /\ job[t] # "active" /\ held[t] \in 1..(MinSize - 1)


=============================================================================
