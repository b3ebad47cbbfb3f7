----------------------------- MODULE TriggerSync -----------------------------
(***************************************************************************)
(* The triggers of one task, in memory and in Redis: requestTriggerSync,   *)
(* update and removeAllTriggers of base-task.ts.                           *)
(*                                                                         *)
(* Every process that serves the task has its own list of triggers.  Cron  *)
(* and every triggers become BullMQ job schedulers, which a synchronization*)
(* repairs: read the keys, upsert what the list wants, remove the rest.    *)
(* Event triggers are handed over as a list (EventSync.tla takes it from   *)
(* there).  A worker that becomes ready synchronizes, a user may update or *)
(* remove, and nothing keeps two of these calls apart: not in one process, *)
(* whose list they share across their awaits, and not between processes.   *)
(*                                                                         *)
(* A step is the code between two awaits, or one command reaching Redis.   *)
(* A process has one connection for its requests and one for its scheduler *)
(* commands, each of which keeps their order.  A trigger is what its kind  *)
(* makes of it: a key and what repeats (pattern or interval, and payload), *)
(* an event subscription, or nothing (missing pattern, invalid interval,   *)
(* missing event).  Every pattern is one BullMQ accepts: one it cannot     *)
(* parse is not skipped here, the code upserts it and the command is       *)
(* rejected.  BullMQ's scheduler commands are external.                    *)
(***************************************************************************)
EXTENDS Naturals, Sequences

CONSTANTS
    Procs,       \* the processes that serve the task, numbered
    Calls,       \* bound: calls under way at one time, numbered
    Ids,         \* internalIds: positions in a list of triggers
    Slugs,       \* type and slug of a key: of the name, else the schedule
    Repeats,     \* pattern or interval, and payload
    Events,      \* what an event trigger subscribes to
    NoTrigger,   \* no trigger at a position, or one that is skipped
    NoScheduler,
    Lists,       \* the trigger lists processes are given
    Options,     \* default job options
    Deployed,    \* the list and options of each release of the code
    Updates,     \* the options and lists update() is called with
    Undefined,   \* an argument that is not passed
    MaxCalls,    \* bound: starts, reconnections, updates and removals
    MaxFaults    \* bound: crashes during a call and failed commands

Timed   == [slug : Slugs, repeat : Repeats]
Trigger == Timed \cup Events \cup {NoTrigger}
Empty   == [i \in Ids |-> NoTrigger]
Keys    == {k \in Ids \X Slugs : \E ts \in Lists :
                ts[k[1]] \in Timed /\ ts[k[1]].slug = k[2]}

ASSUME TriggerAssumption ==
    /\ NoTrigger \notin Timed \cup Events
    /\ Timed \cap Events = {}
    /\ NoScheduler \notin Repeats \X Options
    /\ Lists \subseteq [Ids -> Trigger]
    /\ Undefined \notin Options \cup Lists
    /\ Deployed \subseteq Lists \X Options
    /\ Updates \subseteq ((Options \cup {Undefined}) \X (Lists \cup {Undefined}))
                       \ {<<Undefined, Undefined>>}
    /\ Procs \subseteq Nat /\ Procs # {}
    /\ Calls \subseteq Nat
    /\ {MaxCalls, MaxFaults} \subseteq Nat

VARIABLES
    up,          \* the processes that run
    owed,        \* their workers that are yet to report ready
    triggers,    \* this.triggers of each process
    options,     \* this.jobsOptions
    call,        \* what each call does
    mail,        \* per process, the calls whose request is on its way
    wire,        \* and those whose scheduler commands are
    schedulers,  \* the task's job schedulers in Redis
    asked,       \* the event subscriptions requested last
    wishes,      \* what the overlapping synchronizations want or wanted
    sound,       \* none of them failed
    goal,        \* what each call was to bring about, while it runs alone
    calls,
    faults

memory == <<triggers, options>>
life   == <<up, owed>>
sent   == <<mail, wire>>
redis  == <<schedulers, asked>>
ghost  == <<wishes, sound, goal>>
bounds == <<calls, faults>>
vars   == <<life, memory, call, sent, redis, ghost, bounds>>

\* The scheduler of a key when wish w is installed.
Desired(w, k) ==
    LET trigger == w.list[k[1]]
    IN  IF trigger \in Timed /\ trigger.slug = k[2]
        THEN <<trigger.repeat, w.options>> ELSE NoScheduler
DesiredKeys(w)    == {k \in Keys : Desired(w, k) # NoScheduler}
Subscriptions(ts) == {<<i, ts[i]>> : i \in {j \in Ids : ts[j] \in Events}}

MayList    == Lists \cup {Empty}
MayOptions == Options \cup {Undefined}
Subscribed == SUBSET (Ids \X Events)

\* What a synchronization wants, and what a call that stays alone brings
\* about: the list left in memory, and what Redis is to hold.
Wish   == [list : MayList, options : MayOptions]
NoWish == [list |-> Empty, options |-> Undefined]
Goal   == [memory : MayList, redis : Wish]
NoGoal == [memory |-> Empty, redis |-> NoWish]

\* A call: where it is, what follows its synchronization, the list it will
\* assign, the subscriptions it asks for, the keys it read, the commands not
\* yet executed, what it wants, and whether it was rejected.
Idle == [at |-> "idle", proc |-> CHOOSE p \in Procs : TRUE, then |-> "end",
         list |-> Empty, subs |-> {}, existing |-> {}, batch |-> {},
         wish |-> NoWish, rejected |-> FALSE]
Call == [at : {"idle", "ask", "list", "listed", "upsert", "upserted", "remove",
               "removed"},
         proc : Procs, then : {"end", "assign", "request", "restore", "stop"},
         list : MayList, subs : Subscribed, existing : SUBSET Keys,
         batch : SUBSET Keys, wish : Wish, rejected : BOOLEAN]

\* The one type invariant of the module.
TypeOK ==
    /\ up \in SUBSET Procs
    /\ owed \in SUBSET up
    /\ triggers \in [Procs -> MayList]
    /\ options \in [Procs -> MayOptions]
    /\ \A p \in up : options[p] \in Options
    /\ call \in [Calls -> Call]
    /\ mail \in [Procs -> Seq(Calls)]
    /\ wire \in [Procs -> Seq(Calls)]
    /\ schedulers \in [Keys -> (Repeats \X Options) \cup {NoScheduler}]
    /\ asked \in Subscribed
    /\ wishes \in SUBSET Wish
    /\ sound \in BOOLEAN
    /\ goal \in [Calls -> Goal]
    /\ calls \in 0..MaxCalls
    /\ faults \in 0..MaxFaults

Init ==
    /\ up = {}
    /\ owed = {}
    /\ triggers = [p \in Procs |-> Empty]
    /\ options = [p \in Procs |-> Undefined]
    /\ call = [c \in Calls |-> Idle]
    /\ mail = [p \in Procs |-> <<>>]
    /\ wire = [p \in Procs |-> <<>>]
    /\ schedulers = [k \in Keys |-> NoScheduler]
    /\ asked = {}
    /\ wishes = {}
    /\ sound = TRUE
    /\ goal = [c \in Calls |-> NoGoal]
    /\ calls = 0
    /\ faults = 0

----------------------------------------------------------------------------
(* Calls and the periods in which synchronizations overlap *)

Running(c)   == call[c].at # "idle"
Syncing(c)   == call[c].at \notin {"idle", "ask"}
Proc(c)      == call[c].proc
NobodySyncs  == \A c \in Calls : ~Syncing(c)
Begin        == calls < MaxCalls /\ calls' = calls + 1
Blame        == faults < MaxFaults /\ faults' = faults + 1

\* A synchronization that no other one is next to starts a period.
Join ==
    /\ wishes' = IF NobodySyncs THEN {} ELSE wishes
    /\ sound' = (NobodySyncs \/ sound)

\* Call c starts: the calls under way are no longer alone, and c is if there
\* are none.  (A call takes the first free number.)
Launch(c, p, new, reached) ==
    /\ ~Running(c) /\ \A d \in Calls : d < c => Running(d)
    /\ p \in up
    /\ call' = [call EXCEPT ![c] = [new EXCEPT !.proc = p]]
    /\ goal' = [d \in Calls |-> IF d = c /\ \A e \in Calls : ~Running(e)
                                THEN reached ELSE NoGoal]

\* What the list and options of a process ask for.
Aim(p) == [list |-> triggers[p], options |-> options[p]]

Reach(kept, ts, opts) ==
    [memory |-> kept, redis |-> [list |-> ts, options |-> opts]]

Send(c, p) == wire' = [wire EXCEPT ![p] = Append(@, c)]
Post(c, p) == mail' = [mail EXCEPT ![p] = Append(@, c)]

\* requestTriggerSync asks for the event triggers it finds.
Ask(ts) == [Idle EXCEPT !.at = "ask", !.subs = Subscriptions(ts)]

----------------------------------------------------------------------------
(* Processes *)

\* The constructor takes the list and options of the code that is deployed.
\* (Processes that do not run are alike: the first of them starts.)
Start(p) ==
    /\ p \notin up /\ \A q \in Procs : q < p => q \in up
    /\ Begin
    /\ up' = up \cup {p}
    /\ owed' = owed \cup {p}
    /\ \E d \in Deployed : /\ triggers' = [triggers EXCEPT ![p] = d[1]]
                            /\ options' = [options EXCEPT ![p] = d[2]]
    /\ UNCHANGED <<call, sent, redis, ghost, faults>>

\* An orderly end, or a crash in the middle of calls: commands under way are
\* executed before it or never.
Stop(p) ==
    LET cut == {c \in Calls : Running(c) /\ Proc(c) = p}
    IN  /\ p \in up
        /\ up' = up \ {p}
        /\ owed' = owed \ {p}
        /\ triggers' = [triggers EXCEPT ![p] = Empty]
        /\ options' = [options EXCEPT ![p] = Undefined]
        /\ call' = [c \in Calls |-> IF c \in cut THEN Idle ELSE call[c]]
        /\ goal' = [c \in Calls |-> IF c \in cut THEN NoGoal ELSE goal[c]]
        /\ mail' = [mail EXCEPT ![p] = <<>>]
        /\ wire' = [wire EXCEPT ![p] = <<>>]
        /\ sound' = (sound /\ \A c \in cut : ~Syncing(c))
        /\ IF cut = {} THEN UNCHANGED faults ELSE Blame
        /\ UNCHANGED <<redis, wishes, calls>>

----------------------------------------------------------------------------
(* The calls *)

\* 'worker:ready', after the start and after each reconnection.
Ready(c, p) ==
    /\ Launch(c, p, Ask(triggers[p]),
              Reach(triggers[p], triggers[p], options[p]))
    /\ Post(c, p)
    /\ IF p \in owed THEN owed' = owed \ {p} /\ UNCHANGED calls
                     ELSE Begin /\ UNCHANGED owed
    /\ UNCHANGED <<up, memory, wire, redis, wishes, sound, faults>>

\* update(options, triggers) with options: they are synchronized with the old
\* list before a new one is assigned.
UpdateOptions(c, p, opts, ts) ==
    LET new == IF ts = Undefined THEN triggers[p] ELSE ts
    IN  /\ opts # Undefined
        /\ Begin
        /\ options' = [options EXCEPT ![p] = opts]
        /\ Launch(c, p, IF ts = Undefined
                        THEN [Idle EXCEPT !.at = "list", !.then = "request"]
                        ELSE [Idle EXCEPT !.at = "list", !.then = "assign",
                                          !.list = ts],
                  Reach(new, new, opts))
        /\ Join
        /\ Send(c, p)
        /\ UNCHANGED <<life, triggers, mail, redis, faults>>

\* update(undefined, triggers).
UpdateTriggers(c, p, ts) ==
    /\ Begin
    /\ triggers' = [triggers EXCEPT ![p] = ts]
    /\ Launch(c, p, Ask(ts), Reach(ts, ts, options[p]))
    /\ Post(c, p)
    /\ UNCHANGED <<life, options, wire, redis, wishes, sound, faults>>

Update(c, p) ==
    \E u \in Updates : \/ UpdateOptions(c, p, u[1], u[2])
                       \/ u[1] = Undefined /\ UpdateTriggers(c, p, u[2])

\* removeAllTriggers synchronizes with an empty list and puts the old one back.
RemoveAllTriggers(c, p) ==
    /\ Begin
    /\ triggers' = [triggers EXCEPT ![p] = Empty]
    /\ Launch(c, p, [Idle EXCEPT !.at = "list", !.then = "restore",
                                 !.list = triggers[p]],
              Reach(triggers[p], Empty, options[p]))
    /\ Join
    /\ Send(c, p)
    /\ UNCHANGED <<life, options, mail, redis, faults>>

----------------------------------------------------------------------------
(* One call, step by step *)

Go(c, to) == call' = [call EXCEPT ![c] = to]
End(c)    == Go(c, Idle) /\ goal' = [goal EXCEPT ![c] = NoGoal]

\* Slip: a worker that is ready leaves the schedulers to update().
AskedOnly(c) ==
    /\ call[c].at = "ask"
    /\ c = Head(mail[Proc(c)])
    /\ mail' = [mail EXCEPT ![Proc(c)] = Tail(@)]
    /\ asked' = call[c].subs
    /\ End(c)
    /\ UNCHANGED <<life, memory, wire, schedulers, wishes, sound, bounds>>

\* The manager's queue has the request.
Asked(c) ==
    /\ call[c].at = "ask"
    /\ c = Head(mail[Proc(c)])
    /\ mail' = [mail EXCEPT ![Proc(c)] = Tail(@)]
    /\ asked' = call[c].subs
    /\ IF call[c].then = "stop"
       THEN End(c) /\ UNCHANGED <<wire, wishes, sound>>
       ELSE /\ Go(c, [call[c] EXCEPT !.at = "list", !.subs = {}])
            /\ Send(c, Proc(c))
            /\ Join
            /\ UNCHANGED goal
    /\ UNCHANGED <<life, memory, schedulers, bounds>>

\* Redis answers getJobSchedulers.
Listed(c) ==
    /\ call[c].at = "list"
    /\ c = Head(wire[Proc(c)])
    /\ wire' = [wire EXCEPT ![Proc(c)] = Tail(@)]
    /\ Go(c, [call[c] EXCEPT !.at = "listed", !.existing =
                   {k \in Keys : schedulers[k] # NoScheduler}])
    /\ UNCHANGED <<life, memory, mail, redis, ghost, bounds>>

\* Commands are sent, or Promise.all has nothing to wait for.
Dispatch(c, new, sending, without) ==
    IF new.batch = {}
    THEN Go(c, [new EXCEPT !.at = without]) /\ UNCHANGED wire
    ELSE Go(c, [new EXCEPT !.at = sending]) /\ Send(c, Proc(c))

\* The list and the options are read now, after the await.
Upsert(c) ==
    LET wish == Aim(Proc(c))
    IN  /\ call[c].at = "listed"
        /\ wishes' = wishes \cup {wish}
        /\ Dispatch(c, [call[c] EXCEPT !.wish = wish, !.batch = DesiredKeys(wish)],
                    "upsert", "upserted")
        /\ UNCHANGED <<life, memory, mail, redis, sound, goal, bounds>>

\* Slip: without schedulers to upsert there is nothing to synchronize.
RemoveUnlessEmpty(c) ==
    /\ call[c].at = "upserted"
    /\ Dispatch(c, [call[c] EXCEPT !.batch =
                       IF DesiredKeys(call[c].wish) = {} THEN {}
                       ELSE call[c].existing \ DesiredKeys(call[c].wish)],
                "remove", "removed")
    /\ UNCHANGED <<life, memory, mail, redis, ghost, bounds>>

RemoveObsolete(c) ==
    /\ call[c].at = "upserted"
    /\ Dispatch(c, [call[c] EXCEPT !.batch = call[c].existing \ DesiredKeys(call[c].wish)],
                "remove", "removed")
    /\ UNCHANGED <<life, memory, mail, redis, ghost, bounds>>

Execute(c, k) ==
    schedulers' = [schedulers EXCEPT ![k] = IF call[c].at = "upsert"
                                            THEN Desired(call[c].wish, k) ELSE NoScheduler]

\* Redis executes one command of the batch; the last answer resumes the call,
\* unless Promise.all has rejected already.
Executed(c) ==
    \E k \in call[c].batch :
        LET rest == call[c].batch \ {k}
            next == IF rest # {} THEN call[c].at
                    ELSE IF call[c].at = "upsert" THEN "upserted" ELSE "removed"
        IN  /\ c = Head(wire[Proc(c)])
            /\ Execute(c, k)
            /\ IF rest = {} /\ call[c].rejected
               THEN End(c)
               ELSE Go(c, [call[c] EXCEPT !.batch = rest, !.at = next])
                    /\ UNCHANGED goal
            /\ wire' = IF rest = {} THEN [wire EXCEPT ![Proc(c)] = Tail(@)] ELSE wire
            /\ UNCHANGED <<life, memory, mail, asked, wishes, sound, bounds>>

\* Slip: the removal asks for what it has just put back.
ResumeAskingAll(c) ==
    LET p  == Proc(c)
        ts == IF call[c].then \in {"assign", "restore"} THEN call[c].list
              ELSE triggers[p]
    IN  /\ call[c].at = "removed"
        /\ triggers' = [triggers EXCEPT ![p] = ts]
        /\ IF call[c].then = "end" THEN End(c)
           ELSE /\ Go(c, [Ask(ts) EXCEPT !.proc = p, !.then =
                             IF call[c].then = "restore" THEN "stop" ELSE "end"])
                /\ UNCHANGED goal
        /\ IF call[c].then = "end" THEN UNCHANGED mail ELSE Post(c, p)
        /\ UNCHANGED <<life, options, wire, redis, wishes, sound, bounds>>

\* The synchronization is complete: update goes on to request another one with
\* the list it was given, removeAllTriggers restores the list it found and
\* requests no subscriptions.
Resume(c) ==
    LET p  == Proc(c)
        ts == IF call[c].then \in {"assign", "restore"} THEN call[c].list
              ELSE triggers[p]
    IN  /\ call[c].at = "removed"
        /\ triggers' = [triggers EXCEPT ![p] = ts]
        /\ CASE call[c].then = "end" -> End(c)
             [] call[c].then = "restore" ->
                    /\ Go(c, [Idle EXCEPT !.at = "ask", !.proc = p, !.then = "stop"])
                    /\ UNCHANGED goal
             [] OTHER -> Go(c, [Ask(ts) EXCEPT !.proc = p]) /\ UNCHANGED goal
        /\ IF call[c].then = "end" THEN UNCHANGED mail ELSE Post(c, p)
        /\ UNCHANGED <<life, options, wire, redis, wishes, sound, bounds>>

----------------------------------------------------------------------------
(* Failures: a command that has or has not reached Redis is not answered *)

RequestFails(c) ==
    /\ call[c].at = "ask"
    /\ c = Head(mail[Proc(c)])
    /\ mail' = [mail EXCEPT ![Proc(c)] = Tail(@)]
    /\ Blame
    /\ asked' \in {asked, call[c].subs}
    /\ End(c)
    /\ UNCHANGED <<life, memory, wire, schedulers, wishes, sound, calls>>

ListFails(c) ==
    /\ call[c].at = "list"
    /\ c = Head(wire[Proc(c)])
    /\ Blame
    /\ wire' = [wire EXCEPT ![Proc(c)] = Tail(@)]
    /\ End(c)
    /\ sound' = FALSE
    /\ UNCHANGED <<life, memory, mail, redis, wishes, calls>>

\* The rest of the batch was sent and is executed all the same.
CommandFails(c) ==
    \E k \in call[c].batch :
        LET rest == call[c].batch \ {k}
        IN  /\ c = Head(wire[Proc(c)])
            /\ Blame
            /\ Execute(c, k) \/ UNCHANGED schedulers
            /\ IF rest = {}
               THEN /\ End(c)
                    /\ wire' = [wire EXCEPT ![Proc(c)] = Tail(@)]
               ELSE /\ Go(c, [call[c] EXCEPT !.batch = rest, !.rejected = TRUE])
                    /\ goal' = [goal EXCEPT ![c] = NoGoal]
                    /\ UNCHANGED wire
            /\ sound' = FALSE
            /\ UNCHANGED <<life, memory, mail, asked, wishes, calls>>

----------------------------------------------------------------------------

Step(c) == \/ Asked(c) \/ Listed(c) \/ Upsert(c) \/ RemoveObsolete(c)
           \/ Executed(c) \/ Resume(c)

Fail(c) == RequestFails(c) \/ ListFails(c) \/ CommandFails(c)

Next ==
    \/ \E p \in Procs : Start(p) \/ Stop(p)
    \/ \E c \in Calls, p \in Procs :
           Ready(c, p) \/ Update(c, p) \/ RemoveAllTriggers(c, p)
    \/ \E c \in Calls : Step(c) \/ Fail(c)

Spec == Init /\ [][Next]_vars

\* Redis answers, a process runs its continuations, and a worker that has
\* started becomes ready.  (All of that is finite: that one of them goes on as
\* long as any can is enough.)
Fairness == WF_vars(\/ \E c \in Calls : Step(c)
                    \/ \E c \in Calls, p \in owed : Ready(c, p))

FairSpec == Spec /\ Fairness

----------------------------------------------------------------------------
(* Properties *)

\* Once the overlapping synchronizations of a period are over, and none of
\* them failed, every key is as one of them wanted it: a scheduler none wanted
\* is gone, whoever left it there, one that all wanted is in place, and with
\* one configuration everywhere the schedulers are exactly that.  (Where they
\* disagree the outcome may mix them, and a stale read may remove what a later
\* update installed: _synchronizeCronEverySchedulers reads the keys before its
\* first command and removes after its last.)
SyncBetween ==
    NobodySyncs /\ sound /\ wishes # {} =>
        \A k \in Keys : schedulers[k] \in {Desired(w, k) : w \in wishes}

\* A call that runs alone and is not rejected leaves list, schedulers and
\* requested subscriptions as it says, whatever failed calls and other
\* configurations left in Redis before: 'ready' installs the process's list,
\* update the new one with the new options, and removeAllTriggers empties
\* Redis and keeps the list in memory.
CallAchieves ==
    [][\A c \in Calls :
           LET aim == goal[c].redis
           IN  goal[c] # NoGoal /\ call'[c].at = "idle" /\ faults' = faults =>
                   /\ triggers'[Proc(c)] = goal[c].memory
                   /\ \A k \in Keys : schedulers'[k] = Desired(aim, k)
                   /\ asked' = Subscriptions(aim.list)]_vars

\* What is under way agrees with the list and options of process p.
Agreed(p) ==
    /\ \A q \in up : triggers[q] = triggers[p] /\ options[q] = options[p]
    /\ \A c \in Calls : Running(c) =>
           /\ call[c].then = "end"
           /\ call[c].wish \in {NoWish, Aim(p)}
           /\ call[c].at = "ask" => call[c].subs = Subscriptions(triggers[p])

\* The triggers of a new deployment are installed, and those of the one before
\* removed, by nothing more than its workers becoming ready, as long as
\* processes agree and commands are answered.
DeploymentTakesEffect ==
    \A p \in Procs :
        (p \in owed /\ Agreed(p)) ~>
            \/ p \notin up \/ ~Agreed(p) \/ faults > 0
            \/ /\ \A k \in Keys : schedulers[k] = Desired(Aim(p), k)
               /\ asked = Subscriptions(triggers[p])
=============================================================================
