----------------------------- MODULE EventSync -----------------------------
(***************************************************************************)
(* Synchronization of one task's event triggers with Redis: requestSync    *)
(* and process of event-manager.ts over register, unregister and           *)
(* getForTask of event-subscriptions.ts.                                   *)
(*                                                                         *)
(* Redis keeps, per event, a hash with one field per subscription, and per *)
(* task a set (the index) of the events it has subscriptions for.  A sync  *)
(* job compares the triggers a process wants with what the index leads it  *)
(* to and repairs the difference, one operation per trigger, all of them   *)
(* in flight together over the process's one Redis connection.  Every      *)
(* server process has a sync worker of its own on the one queue, so the    *)
(* commands of two jobs interleave as well.                                *)
(*                                                                         *)
(* Fields of other tasks are filtered out wherever a hash is read, so one  *)
(* task is enough.  The queue, and the hand-out of a stalled job to a      *)
(* worker once more, are BullMQ's and external.                            *)
(***************************************************************************)
EXTENDS Naturals, Sequences, FiniteSets

CONSTANTS
    Triggers,     \* internalIds of the task's event triggers
    Events,
    Payloads,     \* what a trigger adds to the event's data
    NoSub,        \* no subscription
    Configs,      \* the desired subscriptions processes ask for
    Workers,      \* the sync workers, one per process
    MaxRequests,  \* bound: sync jobs requested
    MaxFaults     \* bound: crashes and failed Redis calls

Sub    == Events \X Payloads
MaySub == Sub \cup {NoSub}

ASSUME SyncAssumption ==
    /\ IsFiniteSet(Triggers)
    /\ NoSub \notin Sub
    /\ NoSub \notin Payloads
    /\ Configs \subseteq [Triggers -> MaySub]
    /\ {MaxRequests, MaxFaults} \subseteq Nat

VARIABLES
    queue,      \* waiting sync jobs: their desiredSubscriptions
    stalled,    \* jobs whose worker died, not handed out again yet
    hash,       \* per event and trigger, the payload of the field
    index,      \* the task's index set
    phase,      \* what each worker does
    desired,    \* desiredSubMap of its job
    unread,     \* events of the index it has not fetched yet
    current,    \* currentlyRegisteredMap: one subscription per trigger
    op,         \* where its operation for each trigger stands
    wire,       \* the commands it has sent, by trigger, oldest first
    errors,     \* errorCount > 0
    latest,     \* the subscriptions requested last
    alone,      \* no other worker was busy since this job began
    disturbed,  \* a fault happened, or two jobs overlapped
    requests,
    faults

redis   == <<hash, index>>
jobs    == <<queue, stalled, latest, requests>>
reading == <<unread, current>>
ghost   == <<alone, disturbed>>
vars    == <<jobs, redis, phase, desired, reading, op, wire, errors, ghost,
             faults>>

Empty == [t \in Triggers |-> NoSub]
Op    == {"done", "register", "hdel", "hvals", "srem", "chained"}

\* The one type invariant of the module.
TypeOK ==
    /\ queue \in Seq(Configs)
    /\ stalled \in Seq(Configs)
    /\ hash \in [Events -> [Triggers -> Payloads \cup {NoSub}]]
    /\ index \in SUBSET Events
    /\ phase \in [Workers -> {"idle", "reading", "applying"}]
    /\ desired \in [Workers -> [Triggers -> MaySub]]
    /\ unread \in [Workers -> SUBSET Events]
    /\ current \in [Workers -> [Triggers -> MaySub]]
    /\ op \in [Workers -> [Triggers -> Op]]
    /\ wire \in [Workers -> Seq(Triggers)]
    /\ errors \in [Workers -> BOOLEAN]
    /\ latest \in [Triggers -> MaySub]
    /\ alone \in [Workers -> BOOLEAN]
    /\ disturbed \in BOOLEAN
    /\ requests \in 0..MaxRequests
    /\ faults \in 0..MaxFaults

Init ==
    /\ queue = <<>>
    /\ stalled = <<>>
    /\ hash = [e \in Events |-> Empty]
    /\ index = {}
    /\ phase = [w \in Workers |-> "idle"]
    /\ desired = [w \in Workers |-> Empty]
    /\ unread = [w \in Workers |-> {}]
    /\ current = [w \in Workers |-> Empty]
    /\ op = [w \in Workers |-> [t \in Triggers |-> "done"]]
    /\ wire = [w \in Workers |-> <<>>]
    /\ errors = [w \in Workers |-> FALSE]
    /\ latest = Empty
    /\ alone = [w \in Workers |-> FALSE]
    /\ disturbed = FALSE
    /\ requests = 0
    /\ faults = 0

----------------------------------------------------------------------------
Busy          == {w \in Workers : phase[w] # "idle"}
Subscribed(e) == {t \in Triggers : hash[e][t] # NoSub}
EventOf(sub)  == sub[1]
Differs(a, b) == a = NoSub \/ b = NoSub \/ EventOf(a) # EventOf(b)

Blame == faults < MaxFaults /\ faults' = faults + 1 /\ disturbed' = TRUE

\* The worker is done with its job.
Release(w) ==
    /\ phase' = [phase EXCEPT ![w] = "idle"]
    /\ desired' = [desired EXCEPT ![w] = Empty]
    /\ unread' = [unread EXCEPT ![w] = {}]
    /\ current' = [current EXCEPT ![w] = Empty]
    /\ op' = [op EXCEPT ![w] = [t \in Triggers |-> "done"]]
    /\ wire' = [wire EXCEPT ![w] = <<>>]
    /\ errors' = [errors EXCEPT ![w] = FALSE]
    /\ alone' = [alone EXCEPT ![w] = FALSE]

\* The reply to the oldest command of w, of operation `stage` of trigger t,
\* is handled and the operation goes on to stage `to`, whose command, if it
\* has one, is sent.
Reply(w, t, stage, to) ==
    /\ wire[w] # <<>>
    /\ t = Head(wire[w])
    /\ op[w][t] = stage
    /\ op' = [op EXCEPT ![w][t] = to]
    /\ wire' = [wire EXCEPT ![w] =
           IF to \in {"done", "chained"} THEN Tail(@) ELSE Append(Tail(@), t)]

\* Slip: the registration of the new event is not chained.
AfterUnregisterOnly(w, t) == "done"

\* What follows the unregistration of a trigger's old event: nothing, or the
\* registration that .then() chains to it.
AfterUnregister(w, t) == IF desired[w][t] = NoSub THEN "done" ELSE "chained"

\* The first commands of the operations on `work`, in the order of the code:
\* desired triggers by id, then the stale ones as the map has them.
Sendings(w, work) ==
    {s \in [1..Cardinality(work) -> work] :
        \A i, j \in DOMAIN s :
            i < j => /\ s[i] # s[j]
                     /\ desired[w][s[j]] # NoSub =>
                          desired[w][s[i]] # NoSub /\ s[i] < s[j]}

----------------------------------------------------------------------------
\* _requestEventTriggerSync of some process: the complete desired list goes
\* into a new job.  Nothing ties it to the jobs that wait already.
RequestSync(c) ==
    /\ requests < MaxRequests
    /\ requests' = requests + 1
    /\ queue' = Append(queue, c)
    /\ latest' = c
    /\ UNCHANGED <<stalled, redis, phase, desired, reading, op, wire, errors, ghost,
                   faults>>

\* A worker takes the next job and reads the index.
BeginSync(w) ==
    /\ phase[w] = "idle"
    /\ queue # <<>>
    /\ queue' = Tail(queue)
    /\ phase' = [phase EXCEPT ![w] = "reading"]
    /\ desired' = [desired EXCEPT ![w] = Head(queue)]
    /\ unread' = [unread EXCEPT ![w] = index]
    /\ alone' = [v \in Workers |-> v = w /\ Busy = {}]
    /\ disturbed' = (disturbed \/ Busy # {})
    /\ UNCHANGED <<stalled, latest, requests, redis, current, op, wire, errors,
                   faults>>

\* Slip: the map keeps the stored field without the event it came from.
ReadEventBare(w, e) ==
    /\ phase[w] = "reading"
    /\ e \in unread[w]
    /\ unread' = [unread EXCEPT ![w] = @ \ {e}]
    /\ current' = [current EXCEPT ![w] =
           [t \in Triggers |-> IF t \in Subscribed(e) THEN hash[e][t] ELSE @[t]]]
    /\ UNCHANGED <<jobs, redis, phase, desired, op, wire, errors, ghost,
                   faults>>

\* HVALS of one indexed event.  currentlyRegisteredMap is keyed by trigger: a
\* second subscription of the same trigger replaces the first.
ReadEvent(w, e) ==
    /\ phase[w] = "reading"
    /\ e \in unread[w]
    /\ unread' = [unread EXCEPT ![w] = @ \ {e}]
    /\ current' = [current EXCEPT ![w] =
           [t \in Triggers |-> IF t \in Subscribed(e) THEN <<e, hash[e][t]>>
                               ELSE @[t]]]
    /\ UNCHANGED <<jobs, redis, phase, desired, op, wire, errors, ghost, faults>>

\* Slip: a trigger that is registered counts as unchanged.
PlanUnmoved(w) ==
    LET first == [t \in Triggers |->
                    IF current[w][t] = NoSub
                    THEN IF desired[w][t] = NoSub THEN "done" ELSE "register"
                    ELSE IF desired[w][t] = NoSub THEN "hdel" ELSE "done"]
    IN  /\ phase[w] = "reading"
        /\ unread[w] = {}
        /\ phase' = [phase EXCEPT ![w] = "applying"]
        /\ op' = [op EXCEPT ![w] = first]
        /\ \E s \in Sendings(w, {t \in Triggers : first[t] # "done"}) :
               wire' = [wire EXCEPT ![w] = s]
        /\ UNCHANGED <<jobs, redis, desired, reading, errors, ghost, faults>>

\* The comparison: register what is new, move what changed its event (the
\* payload is not compared), unregister what is not desired any more.
Plan(w) ==
    LET first == [t \in Triggers |->
                    IF current[w][t] = NoSub
                    THEN IF desired[w][t] = NoSub THEN "done" ELSE "register"
                    ELSE IF Differs(desired[w][t], current[w][t]) THEN "hdel" ELSE "done"]
    IN  /\ phase[w] = "reading"
        /\ unread[w] = {}
        /\ phase' = [phase EXCEPT ![w] = "applying"]
        /\ op' = [op EXCEPT ![w] = first]
        /\ \E s \in Sendings(w, {t \in Triggers : first[t] # "done"}) :
               wire' = [wire EXCEPT ![w] = s]
        /\ UNCHANGED <<jobs, redis, desired, reading, errors, ghost, faults>>

\* register: HSET and SADD in one MULTI.
Register(w, t) ==
    /\ Reply(w, t, "register", "done")
    /\ hash' = [hash EXCEPT ![EventOf(desired[w][t])][t] = desired[w][t][2]]
    /\ index' = index \cup {EventOf(desired[w][t])}
    /\ UNCHANGED <<jobs, phase, desired, reading, errors, ghost, faults>>

\* Slip: the field's name identifies the task and not the trigger.
HDelTask(w, t) ==
    LET e == EventOf(current[w][t])
    IN  /\ Reply(w, t, "hdel", IF t \in Subscribed(e) THEN "hvals"
                               ELSE AfterUnregister(w, t))
        /\ hash' = [hash EXCEPT ![e] = Empty]
        /\ UNCHANGED <<jobs, index, phase, desired, reading, errors, ghost,
                       faults>>

\* unregister: HDEL, and no more if the field was not there ...
HDel(w, t) ==
    LET e == EventOf(current[w][t])
    IN  /\ Reply(w, t, "hdel", IF t \in Subscribed(e) THEN "hvals"
                               ELSE AfterUnregister(w, t))
        /\ hash' = [hash EXCEPT ![e][t] = NoSub]
        /\ UNCHANGED <<jobs, index, phase, desired, reading, errors, ghost,
                       faults>>

\* Slip: the task is always taken to have other subscriptions.
HValsKeeping(w, t) ==
    /\ Reply(w, t, "hvals", AfterUnregister(w, t))
    /\ UNCHANGED <<jobs, redis, phase, desired, reading, errors, ghost, faults>>

\* ... HVALS: does the task have other subscriptions for the event? ...
HVals(w, t) ==
    /\ Reply(w, t, "hvals", IF Subscribed(EventOf(current[w][t])) = {}
                            THEN "srem" ELSE AfterUnregister(w, t))
    /\ UNCHANGED <<jobs, redis, phase, desired, reading, errors, ghost, faults>>

\* ... and SREM if it had none.
SRem(w, t) ==
    /\ Reply(w, t, "srem", AfterUnregister(w, t))
    /\ index' = index \ {EventOf(current[w][t])}
    /\ UNCHANGED <<jobs, hash, phase, desired, reading, errors, ghost, faults>>

\* The chained registration is sent.  Other operations' next commands may get
\* onto the wire before it when their replies arrive together.
SendChained(w, t) ==
    /\ op[w][t] = "chained"
    /\ op' = [op EXCEPT ![w][t] = "register"]
    /\ wire' = [wire EXCEPT ![w] = Append(@, t)]
    /\ UNCHANGED <<jobs, redis, phase, desired, reading, errors, ghost, faults>>

\* allSettled: the job completes whatever the operations' results.
FinishSync(w) ==
    /\ phase[w] = "applying"
    /\ \A t \in Triggers : op[w][t] = "done"
    /\ Release(w)
    /\ UNCHANGED <<jobs, redis, disturbed, faults>>

----------------------------------------------------------------------------
(* Faults *)

\* A Redis call of one operation fails: the rest of it is dropped, the error
\* is counted and the job goes on.
OpFails(w, t) ==
    /\ \E stage \in Op : Reply(w, t, stage, "done")
    /\ Blame
    /\ errors' = [errors EXCEPT ![w] = TRUE]
    /\ UNCHANGED <<jobs, redis, phase, desired, reading, alone>>

\* The current state cannot be fetched: the job fails, with one attempt.
FetchFails(w) ==
    /\ phase[w] = "reading"
    /\ Blame
    /\ Release(w)
    /\ UNCHANGED <<jobs, redis>>

\* The process dies with its job.
Crash(w) ==
    /\ phase[w] # "idle"
    /\ Blame
    /\ stalled' = Append(stalled, desired[w])
    /\ Release(w)
    /\ UNCHANGED <<queue, latest, requests, redis>>

\* The stalled check returns the job to the head of the queue, possibly after
\* younger jobs have run.
Requeue ==
    /\ stalled # <<>>
    /\ stalled' = Tail(stalled)
    /\ queue' = <<Head(stalled)>> \o queue
    /\ UNCHANGED <<latest, requests, redis, phase, desired, reading, op, wire,
                   errors, ghost, faults>>

----------------------------------------------------------------------------
SyncStep(w) ==
    \/ BeginSync(w)
    \/ \E e \in Events : ReadEvent(w, e)
    \/ Plan(w)
    \/ \E t \in Triggers : \/ Register(w, t) \/ HDel(w, t) \/ HVals(w, t)
                           \/ SRem(w, t) \/ SendChained(w, t)
    \/ FinishSync(w)

Fault(w) ==
    FetchFails(w) \/ Crash(w) \/ \E t \in Triggers : OpFails(w, t)

Next ==
    \/ \E c \in Configs : RequestSync(c)
    \/ \E w \in Workers : SyncStep(w) \/ Fault(w)
    \/ Requeue

Spec == Init /\ [][Next]_vars

\* Live workers run their continuations and BullMQ's stalled check runs.
Fairness == WF_vars(Requeue) /\ \A w \in Workers : WF_vars(SyncStep(w))

FairSpec == Spec /\ Fairness

----------------------------------------------------------------------------
(* Properties *)

\* Nothing waits and nothing runs.
Quiet == queue = <<>> /\ stalled = <<>> /\ Busy = {}

\* Every subscription of config c is in its event's hash.
Registered(c) ==
    \A t \in Triggers : c[t] # NoSub => t \in Subscribed(EventOf(c[t]))

\* A sync job that had Redis to itself and counted no error has registered
\* every trigger its process wants with the event it wants, whatever earlier
\* jobs, crashes and races left behind.  It does not say that nothing else is
\* left, nor which payload is stored: the code compares events only.
SyncDelivers ==
    \A w \in Workers :
        /\ phase[w] = "applying"
        /\ \A t \in Triggers : op[w][t] = "done"
        /\ alone[w]
        /\ ~errors[w]
        => Registered(desired[w])

\* A subscription is only taken away by the HDEL of a job that does not want
\* it: events keep reaching a trigger while a sync that keeps the trigger runs.
OnlyUnwantedRemoved ==
    [][\A e \in Events, t \in Triggers :
         hash[e][t] # NoSub /\ hash'[e][t] = NoSub =>
             \E w \in Workers :
                 /\ phase[w] = "applying"
                 /\ op[w][t] = "hdel" /\ op'[w][t] # "hdel"
                 /\ EventOf(current[w][t]) = e
                 /\ Differs(desired[w][t], <<e, hash[e][t]>>)]_vars

\* Jobs that ran one after the other leave an index that names no event
\* without a subscription.
IndexNotStale ==
    Quiet /\ ~disturbed => \A e \in index : Subscribed(e) # {}

\* What was asked for is registered in the end, unless a fault happened or two
\* jobs overlapped: an older complete list may then be the last one applied.
EventuallyRegistered == <>[](disturbed \/ Registered(latest))
=============================================================================
