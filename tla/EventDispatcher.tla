-------------------------- MODULE EventDispatcher --------------------------
(***************************************************************************)
(* Sending events: the active-event cache, send and process of             *)
(* event-dispatcher.ts, in several server processes over one Redis.        *)
(*                                                                         *)
(* A process drops an event that has no subscriber according to its cache, *)
(* a set of the events whose subscription hash exists.  It fills the cache *)
(* with a SCAN, before every send when the subscription to sync results is *)
(* disabled, otherwise once, and again, debounced, whenever a sync job is  *)
(* seen to have changed registrations.  SCAN takes several round trips: it *)
(* returns what exists all along and may return what exists for a while.   *)
(* The scans of a process run side by side over one connection, page by    *)
(* page, and end in the order in which they began.                         *)
(*                                                                         *)
(* Sync jobs are those of EventSync, reduced to their effect: they change  *)
(* hashes, and announce when they complete that they did.  One that is     *)
(* handed out again after a crash finds nothing to change and announces    *)
(* nothing.  Every process defines every task.                             *)
(***************************************************************************)
EXTENDS Naturals, Sequences

CONSTANTS
    Events,
    Tasks,
    Procs,        \* the processes that send and dispatch events
    Sends,        \* bound: the calls to send, and their event jobs
    MaxAttempts,  \* attempts of an event job
    MaxChanges,   \* bound: changes of subscriptions
    MaxFaults     \* bound: crashes and failed calls

ASSUME DispatcherAssumption ==
    /\ MaxAttempts \in Nat \ {0}
    /\ {MaxChanges, MaxFaults} \subseteq Nat

VARIABLES
    subs,        \* per event, the tasks in its hash
    changed,     \* events the running sync jobs have changed, not announced
    notices,     \* per process, the completed syncs it has not read yet
    polls,       \* the processes with disableSubscription
    cache,       \* activeEvents
    subscribed,  \* subscribedToActiveEvents
    timer,       \* setActiveEventsTimeout is pending
    scans,       \* per process, its scans under way, oldest first
    send,        \* per send: where, which event
    pc,          \* per send and its event job: how far it is
    todo,        \* per event job: dispatches under way
    missed,      \* per event job: a dispatch failed
    attempts,    \* per event job: attempts that failed
    runs,        \* per event job and task: jobs added to the task's queue
    changes,     \* changes so far
    faults,      \* faults so far
    heard,       \* ghost, per process: events whose latest change it was told
    gap          \* ghost: sends whose event had no subscriber for a while

registry == <<subs, changed, changes>>
process  == <<polls, cache, subscribed, timer, scans>>
jobs     == <<todo, missed, attempts, runs>>
ghosts   == <<heard, gap>>
vars     == <<registry, notices, process, send, pc, jobs, faults, ghosts>>

Active == {e \in Events : subs[e] # {}}

Init ==
    /\ subs       \in [Events -> SUBSET Tasks]
    /\ changed    = {}
    /\ notices    = [p \in Procs |-> <<>>]
    /\ polls      \in SUBSET Procs
    /\ cache      = [p \in Procs |-> {}]
    /\ subscribed = [p \in Procs |-> FALSE]
    /\ timer      = [p \in Procs |-> FALSE]
    /\ scans      = [p \in Procs |-> <<>>]
    /\ send       \in [Sends -> Procs \X Events]
    /\ pc         = [s \in Sends |-> "new"]
    /\ todo       = [s \in Sends |-> {}]
    /\ missed     = [s \in Sends |-> FALSE]
    /\ attempts   = [s \in Sends |-> 0]
    /\ runs       = [s \in Sends |-> [t \in Tasks |-> 0]]
    /\ changes    = 0
    /\ faults     = 0
    /\ heard      = [p \in Procs |-> {}]
    /\ gap        = {}

Proc(s)  == send[s][1]
Event(s) == send[s][2]

Fault ==
    /\ faults < MaxFaults
    /\ faults' = faults + 1

-----------------------------------------------------------------------------
(* Sync jobs, abstracted.                                                  *)

\* A task is registered for an event or unregistered.  A scan under way may
\* have passed the key before or not.
Change(e, t) ==
    /\ changes < MaxChanges
    /\ changes' = changes + 1
    /\ subs'    = [subs EXCEPT ![e] = IF t \in @ THEN @ \ {t} ELSE @ \cup {t}]
    /\ changed' = changed \cup {e}
    /\ scans'   = [p \in Procs |-> [i \in DOMAIN scans[p] |->
                      [scans[p][i] EXCEPT
                          !.must = {f \in @ : subs'[f] # {}},
                          !.may  = @ \cup {f \in Events : subs'[f] # {}}]]]
    /\ notices' = [p \in Procs |-> [i \in DOMAIN notices[p] |-> notices[p][i] \ {e}]]
    /\ heard'   = [p \in Procs |-> heard[p] \ {e}]
    /\ gap'     = gap \cup
          {s \in Sends : pc[s] \in {"scan", "check"} /\ Event(s) = e /\ subs'[e] = {}}
    /\ UNCHANGED <<polls, cache, subscribed, timer, send, pc, jobs, faults>>

\* The sync job completes: every process is told.
SyncCompletes ==
    /\ changed # {}
    /\ notices' = [p \in Procs |-> Append(notices[p], changed)]
    /\ changed' = {}
    /\ UNCHANGED <<subs, changes, process, send, pc, jobs, faults, ghosts>>

\* The worker dies first; the job is handed out again and changes nothing.
SyncCrashes ==
    /\ changed # {}
    /\ Fault
    /\ changed' = {}
    /\ UNCHANGED <<subs, changes, notices, process, send, pc, jobs, ghosts>>

-----------------------------------------------------------------------------
(* The cache.                                                              *)

\* A scan for a send, or for nobody: a debounced refresh.
Scan(for) == [for |-> for, must |-> Active, may |-> Active]
Nobody == <<>>

ScanRecord == [for : {Nobody} \cup {<<s>> : s \in Sends},
               must : SUBSET Events, may : SUBSET Events]

\* Slip: a notice is ignored while a scan is under way.
ArmTimerUnlessScanning(p) == timer' = [timer EXCEPT ![p] = @ \/ scans[p] = <<>>]

\* Without a listener, notices are lost.  With one, each starts the timer anew.
ArmTimer(p) == timer' = [timer EXCEPT ![p] = TRUE]

Hear(p) ==
    /\ notices[p] # <<>>
    /\ notices' = [notices EXCEPT ![p] = Tail(@)]
    /\ IF subscribed[p]
       THEN /\ ArmTimer(p)
            /\ heard' = [heard EXCEPT ![p] = @ \cup Head(notices[p])]
       ELSE UNCHANGED <<timer, heard>>
    /\ UNCHANGED <<registry, polls, cache, subscribed, scans, send, pc, jobs, faults, gap>>

TimerFires(p) ==
    /\ timer[p]
    /\ timer' = [timer EXCEPT ![p] = FALSE]
    /\ scans' = [scans EXCEPT ![p] = Append(@, Scan(Nobody))]
    /\ UNCHANGED <<registry, notices, polls, cache, subscribed, send, pc, jobs, faults, ghosts>>

\* Slip: the flag does not keep a send from subscribing.
AlwaysListens(p) == TRUE

\* disableSubscription is off.
Listens(p) == p \notin polls

\* The new set is built aside and assigned at the end.  The first scan of a
\* process that subscribes is followed by the listener.
FinishScan(p) ==
    /\ scans[p] # <<>>
    /\ LET scan == Head(scans[p])
       IN  /\ \E found \in SUBSET scan.may :
                 /\ scan.must \subseteq found
                 /\ cache' = [cache EXCEPT ![p] = found]
           /\ scans' = [scans EXCEPT ![p] = Tail(@)]
           /\ IF scan.for = Nobody
              THEN UNCHANGED <<subscribed, pc>>
              ELSE /\ pc' = [pc EXCEPT ![scan.for[1]] = "check"]
                   /\ subscribed' = [subscribed EXCEPT ![p] = Listens(p)]
    /\ UNCHANGED <<registry, notices, polls, timer, send, jobs, faults, ghosts>>

\* The stale cache is kept; only a send that waits for the scan is told.
ScanFails(p) ==
    /\ scans[p] # <<>>
    /\ Fault
    /\ scans' = [scans EXCEPT ![p] = Tail(@)]
    /\ heard' = [heard EXCEPT ![p] = {}]
    /\ pc' = IF Head(scans[p]).for = Nobody THEN pc
             ELSE [pc EXCEPT ![Head(scans[p]).for[1]] = "rejected"]
    /\ UNCHANGED <<registry, notices, polls, cache, subscribed, timer, send, jobs, gap>>

-----------------------------------------------------------------------------
(* send                                                                    *)

\* Slip: a send joins in on the scan of another one.
MustScanUnlessScanning(p) == ~(subscribed[p] /\ Listens(p)) /\ scans[p] = <<>>

\* Every time, or until the process has subscribed.
MustScan(p) == ~(subscribed[p] /\ Listens(p))

\* subscribeToActiveEvents, or setActiveEvents where that is disabled.
BeginSend(s) ==
    LET p == Proc(s)
    IN  /\ pc[s] = "new"
        /\ pc' = [pc EXCEPT ![s] = IF MustScan(p) THEN "scan" ELSE "check"]
        /\ scans' = IF MustScan(p) THEN [scans EXCEPT ![p] = Append(@, Scan(<<s>>))] ELSE scans
        /\ gap' = IF subs[Event(s)] = {} THEN gap \cup {s} ELSE gap
        /\ UNCHANGED <<registry, notices, polls, cache, subscribed, timer, send, jobs, faults,
                   heard>>

CheckCache(s) ==
    /\ pc[s] = "check"
    /\ pc' = [pc EXCEPT ![s] = IF Event(s) \in cache[Proc(s)] THEN "waiting" ELSE "dropped"]
    /\ gap' = gap \ {s}
    /\ UNCHANGED <<registry, notices, process, send, jobs, faults, heard>>

-----------------------------------------------------------------------------
(* process: any process takes the job.                                     *)

\* getForEvent reads the whole hash; the dispatches start together.
Targets(e) == subs[e]

TakeJob(s) ==
    /\ pc[s] = "waiting"
    /\ pc' = [pc EXCEPT ![s] = "active"]
    /\ todo' = [todo EXCEPT ![s] = Targets(Event(s))]
    /\ missed' = [missed EXCEPT ![s] = FALSE]
    /\ UNCHANGED <<registry, notices, process, send, attempts, runs, faults, ghosts>>

Dispatch(s, t) ==
    /\ t \in todo[s]
    /\ todo' = [todo EXCEPT ![s] = @ \ {t}]
    /\ runs' = [runs EXCEPT ![s][t] = @ + 1]
    /\ UNCHANGED <<registry, notices, process, send, pc, missed, attempts, faults, ghosts>>

DispatchFails(s, t) ==
    /\ t \in todo[s]
    /\ Fault
    /\ todo' = [todo EXCEPT ![s] = @ \ {t}]
    /\ missed' = [missed EXCEPT ![s] = TRUE]
    /\ UNCHANGED <<registry, notices, process, send, pc, attempts, runs, ghosts>>

\* Slip: failed dispatches are only logged.
OutcomeLogged(s, bad) == "done"

\* Promise.allSettled: the job fails if any dispatch did, and is retried whole.
Outcome(s, bad) ==
    IF ~bad THEN "done"
    ELSE IF attempts[s] + 1 < MaxAttempts THEN "waiting" ELSE "failed"

EndAttempt(s, bad) ==
    /\ pc' = [pc EXCEPT ![s] = Outcome(s, bad)]
    /\ attempts' = [attempts EXCEPT ![s] = IF bad THEN @ + 1 ELSE @]

SettleJob(s) ==
    /\ pc[s] = "active"
    /\ todo[s] = {}
    /\ EndAttempt(s, missed[s])
    /\ UNCHANGED <<registry, notices, process, send, todo, missed, runs, faults, ghosts>>

\* The subscriptions cannot be read.
LookupFails(s) ==
    /\ pc[s] = "waiting"
    /\ Fault
    /\ EndAttempt(s, TRUE)
    /\ UNCHANGED <<registry, notices, process, send, todo, missed, runs, ghosts>>

\* The worker dies, and the stalled job is handed out again.
JobStalls(s) ==
    /\ pc[s] = "active"
    /\ Fault
    /\ pc'   = [pc EXCEPT ![s] = "waiting"]
    /\ todo' = [todo EXCEPT ![s] = {}]
    /\ UNCHANGED <<registry, notices, process, send, missed, attempts, runs, ghosts>>

-----------------------------------------------------------------------------
Next ==
    \/ \E e \in Events, t \in Tasks : Change(e, t)
    \/ SyncCompletes \/ SyncCrashes
    \/ \E p \in Procs : Hear(p) \/ TimerFires(p) \/ FinishScan(p) \/ ScanFails(p)
    \/ \E s \in Sends :
          \/ BeginSend(s) \/ CheckCache(s) \/ TakeJob(s)
          \/ LookupFails(s) \/ SettleJob(s) \/ JobStalls(s)
          \/ \E t \in Tasks : Dispatch(s, t) \/ DispatchFails(s, t)

Spec == Init /\ [][Next]_vars

\* Redis answers, timers fire, calls go on and some worker takes the jobs.
Fairness ==
    /\ \A p \in Procs : WF_vars(Hear(p)) /\ WF_vars(TimerFires(p)) /\ WF_vars(FinishScan(p))
    /\ \A s \in Sends :
          /\ WF_vars(CheckCache(s)) /\ WF_vars(TakeJob(s)) /\ WF_vars(SettleJob(s))
          /\ \A t \in Tasks : WF_vars(Dispatch(s, t))

FairSpec == Spec /\ Fairness

-----------------------------------------------------------------------------
(* Properties                                                              *)

Stage == {"new", "scan", "check", "dropped", "rejected",
          "waiting", "active", "done", "failed"}

\* The types of the variables.
TypeOK ==
    /\ subs \in [Events -> SUBSET Tasks]
    /\ changed \subseteq Events
    /\ notices \in [Procs -> Seq(SUBSET Events)]
    /\ cache \in [Procs -> SUBSET Events]
    /\ subscribed \in [Procs -> BOOLEAN]
    /\ polls \subseteq {p \in Procs : ~subscribed[p]}
    /\ timer \in [Procs -> BOOLEAN]
    /\ scans \in [Procs -> Seq(ScanRecord)]
    /\ send \in [Sends -> Procs \X Events]
    /\ pc \in [Sends -> Stage]
    /\ todo \in [Sends -> SUBSET Tasks]
    /\ missed \in [Sends -> BOOLEAN]
    /\ attempts \in [Sends -> 0..MaxAttempts]
    /\ runs \in [Sends -> [Tasks -> Nat]]
    /\ heard \in [Procs -> SUBSET Events]
    /\ gap \subseteq Sends

\* A process that scans before every send drops an event only if the event had
\* no subscriber at some moment of that call, although concurrent calls share
\* the cache and assign it in turn.
DropJustified ==
    [][\A s \in Sends :
          pc[s] = "check" /\ pc'[s] = "dropped" /\ Proc(s) \in polls => s \in gap]_vars

\* Once a process was told of the latest change of an event and has come to
\* rest, its cache is right about the event: no notice is swallowed by the
\* debounce or by a scan under way, and no older scan has the last word.  A
\* scan that fails is excused: what was heard before it counts as not heard.  A
\* failed debounced refresh only logs (event-dispatcher.ts:74-76, 165-168), and
\* the cache stays as it was until the next notice.
HeardIsFresh ==
    \A p \in Procs :
        scans[p] = <<>> /\ ~timer[p]
            => \A e \in heard[p] : e \in cache[p] <=> e \in Active

\* From send to dispatch: a task that is subscribed to an event, which has had
\* subscribers ever since a send of it began to scan, gets the event, unless
\* it unsubscribes, or the scan or the last attempt of the event job fails.
\* Every process defines every task here: the code skips a subscription whose
\* task the dispatching process lacks, and its event job completes all the same
\* (event-dispatcher.ts:283-308).
SubscriberServed ==
    \A s \in Sends, t \in Tasks :
        (pc[s] = "scan" /\ s \notin gap /\ t \in subs[Event(s)])
            ~> (runs[s][t] > 0 \/ t \notin subs[Event(s)] \/ pc[s] \in {"rejected", "failed"})

=============================================================================
