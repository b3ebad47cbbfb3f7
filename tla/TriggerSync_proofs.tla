-------------------------- MODULE TriggerSync_proofs --------------------------
(***************************************************************************)
(* Theorems about TriggerSync, for any processes, calls, trigger lists and *)
(* options, and any number of calls and faults.                            *)
(***************************************************************************)
EXTENDS TriggerSync, Functions, TLAPS

\* A call belongs to a process that runs, and what it waits for is in line.
Hosting(c) ==
    /\ Running(c) => Proc(c) \in up
    /\ call[c].at = "ask" => c \in Range(mail[Proc(c)])
    /\ call[c].at \in {"list", "upsert", "remove"} => c \in Range(wire[Proc(c)])

\* A synchronization that has read the list and the options.
Wishing(c) == call[c].at \in {"upsert", "upserted", "remove", "removed"}

\* Its commands bring about what it wants, which is among the wishes of the
\* period.
Batching(c) ==
    /\ call[c].at = "upsert" => call[c].batch \subseteq DesiredKeys(call[c].wish)
    /\ call[c].at = "remove" => call[c].batch \cap DesiredKeys(call[c].wish) = {}
    /\ call[c].at \notin {"upsert", "remove"} => call[c].batch = {}
    /\ Wishing(c) => call[c].wish \in wishes /\ call[c].wish.options \in Options
    /\ call[c].rejected => Syncing(c) /\ ~sound /\ goal[c] = NoGoal

\* Key k is as one of the overlapping synchronizations wants it.
Granted(k) == \E w \in wishes : schedulers[k] = Desired(w, k)

\* Synchronization c is yet to bring key k about.
Owes(c, k) ==
    \/ call[c].at = "list"
    \/ call[c].at = "listed" /\ (schedulers[k] # NoScheduler => k \in call[c].existing)
    \/ /\ call[c].at = "upsert"
       /\ k \in call[c].batch \cup (call[c].existing \ DesiredKeys(call[c].wish))
    \/ call[c].at = "upserted" /\ k \in call[c].existing \ DesiredKeys(call[c].wish)
    \/ call[c].at = "remove" /\ k \in call[c].batch

\* A key that no command of the period has reached is still owed by every
\* synchronization, and there is one unless nothing has been wanted yet.
Owing ==
    sound =>
        \A k \in Keys :
            \/ Granted(k)
            \/ /\ wishes # {} => \E c \in Calls : Syncing(c)
               /\ \A c \in Calls : Syncing(c) => Owes(c, k)

\* How far a call that runs alone has come: what is to follow, and what
\* memory and Redis hold of its goal already.
Stage(c) ==
    LET list == goal[c].redis.list
        kept == goal[c].memory
    IN  \/ /\ call[c].then = "end"
           /\ triggers[Proc(c)] = kept /\ list = kept
           /\ IF call[c].at = "ask" THEN call[c].subs = Subscriptions(list)
                                    ELSE asked = Subscriptions(list)
           /\ Wishing(c) => call[c].wish = goal[c].redis
        \/ /\ call[c].then = "request" /\ call[c].at # "ask"
           /\ triggers[Proc(c)] = kept /\ list = kept
        \/ /\ call[c].then = "assign" /\ call[c].at # "ask"
           /\ call[c].list = kept /\ list = kept
        \/ /\ call[c].then = "restore" /\ call[c].at # "ask"
           /\ call[c].list = kept /\ list = Empty /\ triggers[Proc(c)] = Empty
           /\ Wishing(c) => call[c].wish = goal[c].redis
        \/ /\ call[c].then = "stop" /\ call[c].at = "ask"
           /\ triggers[Proc(c)] = kept /\ list = Empty /\ call[c].subs = {}
           /\ \A k \in Keys : schedulers[k] = Desired(goal[c].redis, k)

\* A call with a goal is the only one, and what it wants all that is wanted.
Purposeful(c) ==
    goal[c] # NoGoal =>
        /\ \A d \in Calls : Running(d) <=> d = c
        /\ options[Proc(c)] = goal[c].redis.options
        /\ Syncing(c) => /\ sound
                         /\ wishes = IF Wishing(c) THEN {call[c].wish} ELSE {}
        /\ Stage(c)

\* The inductive invariant.
TInv ==
    /\ TypeOK
    /\ \A c \in Calls : Hosting(c) /\ Batching(c) /\ Purposeful(c)
    /\ Owing

-----------------------------------------------------------------------------
(* Lines, keys and types *)

\* What is appended to a line is in it, with all that was.
LEMMA Appended ==
    ASSUME NEW line \in Seq(Calls), NEW c \in Calls
    PROVE  /\ Append(line, c) \in Seq(Calls)
           /\ Range(Append(line, c)) = Range(line) \cup {c}
  <1> DEFINE new == Append(line, c)
  <1>1. /\ new \in Seq(Calls) /\ DOMAIN line = 1..Len(line) /\ Len(line) \in Nat
        /\ DOMAIN new = 1..(Len(line) + 1) /\ new[Len(line) + 1] = c
        /\ \A i \in DOMAIN line : i \in DOMAIN new /\ new[i] = line[i]
        /\ \A i \in DOMAIN new : i # Len(line) + 1 => i \in DOMAIN line
    OBVIOUS
  <1> HIDE DEF new
  <1>2. Len(line) + 1 \in DOMAIN new
    BY <1>1
  <1>3. Range(new) = Range(line) \cup {c}
    BY <1>1, <1>2 DEF Range
  <1>4. QED
    BY <1>1, <1>3 DEF new

\* When its head leaves a line the others stay.
LEMMA Taken ==
    ASSUME NEW line \in Seq(Calls), NEW c, c \in Range(line), c = Head(line)
    PROVE  /\ Tail(line) \in Seq(Calls)
           /\ Range(line) \ {c} \subseteq Range(Tail(line))
  <1> DEFINE new == Tail(line)
  <1>1. line # <<>>
    BY DEF Range
  <1>2. /\ new \in Seq(Calls) /\ DOMAIN line = 1..Len(line) /\ Len(line) \in Nat
        /\ DOMAIN new = 1..(Len(line) - 1) /\ line[1] = c
        /\ \A i \in DOMAIN new : new[i] = line[i + 1]
    BY <1>1
  <1>3. ASSUME NEW i \in DOMAIN line, line[i] # c PROVE line[i] \in Range(new)
    <2>1. i # 1 /\ i \in 1..Len(line)
      BY <1>2, <1>3
    <2>2. i - 1 \in 1..(Len(line) - 1) /\ (i - 1) + 1 = i
      BY <1>2, <2>1
    <2>3. i - 1 \in DOMAIN new /\ new[i - 1] = line[i]
      BY <1>2, <2>2
    <2> HIDE DEF new
    <2>4. QED
      BY <2>3 DEF Range
  <1>4. QED
    BY <1>2, <1>3 DEF Range

\* So a request that is posted, or a command that is sent, is on its way.
LEMMA Posting ==
    ASSUME TypeOK, NEW c \in Calls, NEW p \in Procs, Post(c, p)
    PROVE  /\ mail' \in [Procs -> Seq(Calls)] /\ c \in Range(mail'[p])
           /\ \A q \in Procs : Range(mail[q]) \subseteq Range(mail'[q])
  <1>1. /\ mail[p] \in Seq(Calls) /\ mail'[p] = Append(mail[p], c)
        /\ \A q \in Procs : q # p => mail'[q] = mail[q]
        /\ mail' = [mail EXCEPT ![p] = mail'[p]]
    BY DEF TypeOK, Post
  <1>2. mail'[p] \in Seq(Calls) /\ Range(mail'[p]) = Range(mail[p]) \cup {c}
    BY <1>1, Appended
  <1>3. QED
    BY <1>1, <1>2 DEF TypeOK

LEMMA Sending ==
    ASSUME TypeOK, NEW c \in Calls, NEW p \in Procs, Send(c, p)
    PROVE  /\ wire' \in [Procs -> Seq(Calls)] /\ c \in Range(wire'[p])
           /\ \A q \in Procs : Range(wire[q]) \subseteq Range(wire'[q])
  <1>1. /\ wire[p] \in Seq(Calls) /\ wire'[p] = Append(wire[p], c)
        /\ \A q \in Procs : q # p => wire'[q] = wire[q]
        /\ wire' = [wire EXCEPT ![p] = wire'[p]]
    BY DEF TypeOK, Send
  <1>2. wire'[p] \in Seq(Calls) /\ Range(wire'[p]) = Range(wire[p]) \cup {c}
    BY <1>1, Appended
  <1>3. QED
    BY <1>1, <1>2 DEF TypeOK

\* One that arrives leaves the others on their way.
LEMMA MailArrives ==
    ASSUME TypeOK, NEW c \in Calls, NEW p \in Procs, c \in Range(mail[p]),
           c = Head(mail[p]), mail' = [mail EXCEPT ![p] = Tail(@)]
    PROVE  /\ mail' \in [Procs -> Seq(Calls)]
           /\ \A q \in Procs : Range(mail[q]) \ {c} \subseteq Range(mail'[q])
  <1>1. /\ mail[p] \in Seq(Calls) /\ mail'[p] = Tail(mail[p])
        /\ \A q \in Procs : q # p => mail'[q] = mail[q]
        /\ mail' = [mail EXCEPT ![p] = mail'[p]]
    BY DEF TypeOK
  <1>2. mail'[p] \in Seq(Calls) /\ Range(mail[p]) \ {c} \subseteq Range(mail'[p])
    BY <1>1, Taken
  <1>3. QED
    BY <1>1, <1>2 DEF TypeOK

LEMMA WireArrives ==
    ASSUME TypeOK, NEW c \in Calls, NEW p \in Procs, c \in Range(wire[p]),
           c = Head(wire[p]), wire' = [wire EXCEPT ![p] = Tail(@)]
    PROVE  /\ wire' \in [Procs -> Seq(Calls)]
           /\ \A q \in Procs : Range(wire[q]) \ {c} \subseteq Range(wire'[q])
  <1>1. /\ wire[p] \in Seq(Calls) /\ wire'[p] = Tail(wire[p])
        /\ \A q \in Procs : q # p => wire'[q] = wire[q]
        /\ wire' = [wire EXCEPT ![p] = wire'[p]]
    BY DEF TypeOK
  <1>2. wire'[p] \in Seq(Calls) /\ Range(wire[p]) \ {c} \subseteq Range(wire'[p])
    BY <1>1, Taken
  <1>3. QED
    BY <1>1, <1>2 DEF TypeOK

\* A scheduler that a wish asks for repeats with the options of the wish.
LEMMA DesiredType ==
    ASSUME NEW w \in Wish, w.options \in Options, NEW k \in Keys
    PROVE  Desired(w, k) \in (Repeats \X Options) \cup {NoScheduler}
  <1>1. w.list \in [Ids -> Trigger] /\ k[1] \in Ids
    BY TriggerAssumption DEF Wish, MayList, Empty, Trigger, Keys
  <1>2. ASSUME w.list[k[1]] \in Timed PROVE w.list[k[1]].repeat \in Repeats
    BY <1>2 DEF Timed
  <1>3. QED
    BY <1>2 DEF Desired

\* An empty list asks for nothing.
LEMMA EmptyWish ==
    ASSUME NEW w \in Wish, w.list = Empty, NEW k \in Keys
    PROVE  Desired(w, k) = NoScheduler
  <1>1. k[1] \in Ids /\ NoTrigger \notin Timed
    BY TriggerAssumption DEF Keys
  <1>2. QED
    BY <1>1 DEF Desired, Empty

LEMMA EmptySubscribes == Subscriptions(Empty) = {}
  BY TriggerAssumption DEF Subscriptions, Empty

LEMMA SubscriptionsType ==
    ASSUME NEW ts PROVE Subscriptions(ts) \in Subscribed
  BY DEF Subscriptions, Subscribed

\* The constants of the calls.
LEMMA Blank ==
    /\ Empty \in MayList /\ NoWish \in Wish /\ NoGoal \in Goal
    /\ Idle \in Call /\ Idle.at = "idle" /\ Idle.batch = {} /\ ~Idle.rejected
    /\ Idle.then = "end" /\ Idle.subs = {} /\ Idle.existing = {} /\ Idle.wish = NoWish
    /\ Idle.list = Empty
  <1>1. Empty \in MayList /\ NoWish \in Wish /\ NoGoal \in Goal
    BY DEF MayList, MayOptions, NoWish, Wish, NoGoal, Goal
  <1>2. (CHOOSE p \in Procs : TRUE) \in Procs
    BY TriggerAssumption
  <1>3. Idle \in Call
    BY <1>1, <1>2 DEF Idle, Call, Subscribed
  <1>4. QED
    BY <1>1, <1>3 DEF Idle

\* The parts of a call.
LEMMA CallParts ==
    ASSUME TypeOK, NEW c \in Calls
    PROVE  /\ call[c] \in Call /\ Proc(c) \in Procs /\ call[c].list \in MayList
           /\ call[c].subs \in Subscribed /\ call[c].existing \in SUBSET Keys
           /\ call[c].batch \in SUBSET Keys /\ call[c].wish \in Wish
           /\ call[c].rejected \in BOOLEAN
  BY DEF TypeOK, Call, Proc

\* What a process asks for is a wish.
LEMMA AimType ==
    ASSUME TypeOK, NEW p \in Procs
    PROVE  /\ Aim(p) \in Wish /\ Aim(p).list = triggers[p] /\ Aim(p).options = options[p]
           /\ p \in up => Aim(p).options \in Options
  BY DEF TypeOK, Aim, Wish

\* A goal is the list that stays in memory and the wish that Redis obeys.
LEMMA ReachType ==
    ASSUME NEW kept \in MayList, NEW ts \in MayList, NEW opts \in MayOptions
    PROVE  /\ Reach(kept, ts, opts) \in Goal /\ Reach(kept, ts, opts).memory = kept
           /\ Reach(kept, ts, opts).redis.list = ts
           /\ Reach(kept, ts, opts).redis.options = opts
  BY DEF Reach, Goal, Wish

\* Wishes with the same list and options are the same.
LEMMA SameWish ==
    ASSUME NEW v \in Wish, NEW w \in Wish, v.list = w.list, v.options = w.options
    PROVE  v = w
  BY DEF Wish

LEMMA AskType ==
    ASSUME NEW ts \in MayList
    PROVE  /\ Ask(ts) \in Call /\ Ask(ts).at = "ask" /\ Ask(ts).subs = Subscriptions(ts)
           /\ Ask(ts).then = "end" /\ Ask(ts).batch = {} /\ ~Ask(ts).rejected
  <1>1. Subscriptions(ts) \in Subscribed
    BY SubscriptionsType
  <1>2. QED
    BY <1>1, Blank DEF Ask, Call

-----------------------------------------------------------------------------
(* What changes when a call starts, goes on and ends *)

LEMMA Launching ==
    ASSUME TypeOK, NEW c \in Calls, NEW p \in Procs, NEW new \in Call,
           NEW reached \in Goal, Launch(c, p, new, reached)
    PROVE  /\ ~Running(c) /\ p \in up
           /\ call' \in [Calls -> Call] /\ goal' \in [Calls -> Goal]
           /\ call'[c].proc = p /\ call'[c].at = new.at /\ call'[c].then = new.then
           /\ call'[c].list = new.list /\ call'[c].subs = new.subs
           /\ call'[c].batch = new.batch /\ call'[c].rejected = new.rejected
           /\ \A d \in Calls : d # c => call'[d] = call[d] /\ goal'[d] = NoGoal
           /\ goal'[c] # NoGoal => goal'[c] = reached /\ \A d \in Calls : ~Running(d)
  <1>1. [new EXCEPT !.proc = p] \in Call
    BY DEF Call
  <1>2. call' = [call EXCEPT ![c] = [new EXCEPT !.proc = p]]
    BY DEF Launch
  <1>3. /\ call' \in [Calls -> Call] /\ call'[c] = [new EXCEPT !.proc = p]
        /\ \A d \in Calls : d # c => call'[d] = call[d]
    BY <1>1, <1>2 DEF TypeOK
  <1>4. goal' = [d \in Calls |-> IF d = c /\ \A e \in Calls : ~Running(e)
                                 THEN reached ELSE NoGoal]
    BY DEF Launch
  <1>5. /\ goal' \in [Calls -> Goal]
        /\ \A d \in Calls : d # c => goal'[d] = NoGoal
        /\ goal'[c] # NoGoal => goal'[c] = reached /\ \A d \in Calls : ~Running(d)
    BY <1>4, Blank
  <1>6. ~Running(c) /\ p \in up
    BY DEF Launch
  <1>7. QED
    BY <1>3, <1>5, <1>6 DEF Call

LEMMA Going ==
    ASSUME TypeOK, NEW c \in Calls, NEW to \in Call, Go(c, to)
    PROVE  /\ call' \in [Calls -> Call] /\ call'[c] = to
           /\ \A d \in Calls : d # c => call'[d] = call[d]
  BY DEF TypeOK, Go

LEMMA Ending ==
    ASSUME TypeOK, NEW c \in Calls, End(c)
    PROVE  /\ call' \in [Calls -> Call] /\ call'[c] = Idle
           /\ goal' \in [Calls -> Goal] /\ goal'[c] = NoGoal
           /\ \A d \in Calls : d # c => call'[d] = call[d] /\ goal'[d] = goal[d]
  <1>1. /\ call' \in [Calls -> Call] /\ call'[c] = Idle
        /\ \A d \in Calls : d # c => call'[d] = call[d]
    BY Going, Blank DEF End
  <1>2. /\ goal' \in [Calls -> Goal] /\ goal'[c] = NoGoal
        /\ \A d \in Calls : d # c => goal'[d] = goal[d]
    BY Blank DEF End, TypeOK
  <1>3. QED
    BY <1>1, <1>2

-----------------------------------------------------------------------------
(* What a step leaves as it is *)

\* The calls that a step does not concern stay hosted.
LEMMA HostingStays ==
    ASSUME TypeOK, NEW d \in Calls, Hosting(d), call'[d] = call[d],
           Proc(d) \in up => Proc(d) \in up',
           d \in Range(mail[Proc(d)]) => d \in Range(mail'[Proc(d)]),
           d \in Range(wire[Proc(d)]) => d \in Range(wire'[Proc(d)])
    PROVE  Hosting(d)'
  BY DEF Hosting, Running, Proc

\* Nor does their batch change, unless a period begins that they are no part of.
LEMMA BatchingStays ==
    ASSUME TypeOK, NEW d \in Calls, Batching(d), call'[d] = call[d],
           goal'[d] \in {goal[d], NoGoal},
           \/ wishes \subseteq wishes' /\ (sound' => sound)
           \/ NobodySyncs
    PROVE  Batching(d)'
  <1>1. CASE NobodySyncs
    BY <1>1 DEF Batching, NobodySyncs, Syncing, Wishing
  <1>2. CASE wishes \subseteq wishes' /\ (sound' => sound)
    BY <1>2 DEF Batching, Wishing, Syncing
  <1>3. QED
    BY <1>1, <1>2

\* While call c runs no other has a goal.
LEMMA OthersAimless ==
    ASSUME TInv, NEW c \in Calls, Running(c), NEW d \in Calls, d # c
    PROVE  goal[d] = NoGoal
  BY DEF TInv, Purposeful

LEMMA AimlessIsPurposeful ==
    ASSUME NEW d \in Calls, goal'[d] = NoGoal PROVE Purposeful(d)'
  BY DEF Purposeful

\* What an idle call owes and has to reach is nothing.
LEMMA IdleKeeps ==
    ASSUME NEW c \in Calls, call'[c] = Idle, goal'[c] = NoGoal
    PROVE  Hosting(c)' /\ Batching(c)' /\ Purposeful(c)'
  BY Blank DEF Hosting, Batching, Purposeful, Running, Wishing

\* A step that changes no scheduler and no synchronization leaves what is owed.
LEMMA OwingStays ==
    ASSUME TInv, UNCHANGED <<schedulers, wishes>>, sound' => sound,
           \A d \in Calls : Syncing(d)' => Syncing(d),
           \A d \in Calls : Syncing(d) /\ sound' => call'[d] = call[d]
    PROVE  Owing'
  <1> SUFFICES ASSUME sound', NEW k \in Keys
               PROVE  \/ Granted(k)'
                      \/ /\ wishes' # {} => \E c \in Calls : Syncing(c)'
                         /\ \A c \in Calls : Syncing(c)' => Owes(c, k)'
    BY DEF Owing
  <1>1. Granted(k) => Granted(k)'
    BY DEF Granted
  <1>2. \A c \in Calls : Syncing(c) => Syncing(c)' /\ (Owes(c, k) => Owes(c, k)')
    BY DEF Syncing, Owes
  <1>3. QED
    BY <1>1, <1>2 DEF TInv, Owing

\* A synchronization that begins owes every key.
LEMMA JoinOwes ==
    ASSUME TInv, NEW c \in Calls, Join, UNCHANGED schedulers,
           ~Syncing(c), call'[c].at = "list",
           \A d \in Calls : d # c => call'[d] = call[d]
    PROVE  Owing'
  <1> SUFFICES ASSUME sound', NEW k \in Keys
               PROVE  \/ Granted(k)'
                      \/ /\ wishes' # {} => \E d \in Calls : Syncing(d)'
                         /\ \A d \in Calls : Syncing(d)' => Owes(d, k)'
    BY DEF Owing
  <1>1. Syncing(c)' /\ Owes(c, k)'
    BY DEF Syncing, Owes
  <1>2. CASE NobodySyncs
    BY <1>1, <1>2 DEF NobodySyncs, Syncing
  <1>3. CASE ~NobodySyncs
    <2>1. wishes' = wishes /\ sound
      BY <1>3 DEF Join
    <2>2. Granted(k) => Granted(k)'
      BY <2>1 DEF Granted
    <2>3. \A d \in Calls : d # c => (Syncing(d)' <=> Syncing(d)) /\ (Owes(d, k) => Owes(d, k)')
      BY DEF Syncing, Owes
    <2>4. QED
      BY <1>1, <2>1, <2>2, <2>3 DEF TInv, Owing
  <1>4. QED
    BY <1>2, <1>3

\* A synchronization whose last command has been executed owes nothing more.
LEMMA NothingOwed ==
    ASSUME TInv, NEW c \in Calls, call[c].at = "removed", sound, NEW k \in Keys
    PROVE  Granted(k)
  BY DEF TInv, Owing, Syncing, Owes

-----------------------------------------------------------------------------
(* Processes *)

LEMMA TInvInit == Init => TInv
  <1> SUFFICES ASSUME Init PROVE TInv
    OBVIOUS
  <1> USE DEF Init
  <1>1. TypeOK
    <2>1. <<>> \in Seq(Calls) /\ 0 \in 0..MaxCalls /\ 0 \in 0..MaxFaults
      BY TriggerAssumption
    <2>2. {} \in Subscribed /\ Undefined \in MayOptions
      BY DEF Subscribed, MayOptions
    <2>3. QED
      BY <2>1, <2>2, Blank DEF TypeOK
  <1>2. \A c \in Calls : Hosting(c) /\ Batching(c) /\ Purposeful(c)
    BY Blank DEF Hosting, Batching, Purposeful, Running, Wishing
  <1>3. Owing
    BY Blank DEF Owing, Syncing
  <1>4. QED
    BY <1>1, <1>2, <1>3 DEF TInv

LEMMA StartKeeps ==
    ASSUME TInv, NEW p \in Procs, Start(p)
    PROVE  TInv'
  <1> USE DEF TInv
  <1>1. /\ p \notin up /\ up' = up \cup {p} /\ owed' = owed \cup {p}
        /\ calls < MaxCalls /\ calls' = calls + 1
        /\ UNCHANGED <<call, mail, wire, schedulers, asked, wishes, sound, goal, faults>>
    BY DEF Start, Begin, sent, redis, ghost
  <1>2. PICK d \in Deployed : /\ triggers' = [triggers EXCEPT ![p] = d[1]]
                              /\ options' = [options EXCEPT ![p] = d[2]]
    BY DEF Start
  <1>3. d[1] \in MayList /\ d[2] \in Options /\ d[2] \in MayOptions
    BY TriggerAssumption DEF MayList, MayOptions
  <1>4. TypeOK'
    <2>1. calls' \in 0..MaxCalls
      BY <1>1, TriggerAssumption DEF TypeOK
    <2>2. triggers' \in [Procs -> MayList] /\ options' \in [Procs -> MayOptions]
      BY <1>2, <1>3 DEF TypeOK
    <2>3. \A q \in up' : options'[q] \in Options
      BY <1>1, <1>2, <1>3 DEF TypeOK
    <2>4. up' \in SUBSET Procs /\ owed' \in SUBSET up'
      BY <1>1 DEF TypeOK
    <2>5. QED
      BY <1>1, <2>1, <2>2, <2>3, <2>4 DEF TypeOK
  <1>5. Owing'
    BY <1>1, OwingStays DEF Syncing
  <1>6. ASSUME NEW c \in Calls PROVE Hosting(c)' /\ Batching(c)' /\ Purposeful(c)'
    <2>1. Hosting(c)' /\ Batching(c)'
      BY <1>1, HostingStays, BatchingStays
    <2>2. Purposeful(c)'
      <3> SUFFICES ASSUME goal[c] # NoGoal PROVE Purposeful(c)'
        BY <1>1 DEF Purposeful
      <3>1. Running(c) /\ Proc(c) # p /\ Proc(c) \in Procs
        BY <1>1, CallParts DEF Purposeful, Hosting
      <3>2. triggers'[Proc(c)] = triggers[Proc(c)] /\ options'[Proc(c)] = options[Proc(c)]
        BY <1>2, <3>1 DEF TypeOK
      <3>3. QED
        BY <1>1, <3>2 DEF Purposeful, Stage, Running, Syncing, Wishing, Proc
    <2>3. QED
      BY <2>1, <2>2
  <1>7. QED
    BY <1>4, <1>5, <1>6

\* The calls of a process that stops are gone; the others have their lists.
LEMMA StopKeeps ==
    ASSUME TInv, NEW p \in Procs, Stop(p)
    PROVE  TInv'
  <1> DEFINE cut == {c \in Calls : Running(c) /\ Proc(c) = p}
  <1> USE DEF TInv
  <1>1. /\ up' = up \ {p} /\ owed' = owed \ {p}
        /\ triggers' = [triggers EXCEPT ![p] = Empty]
        /\ options' = [options EXCEPT ![p] = Undefined]
        /\ call' = [c \in Calls |-> IF c \in cut THEN Idle ELSE call[c]]
        /\ goal' = [c \in Calls |-> IF c \in cut THEN NoGoal ELSE goal[c]]
        /\ mail' = [mail EXCEPT ![p] = <<>>] /\ wire' = [wire EXCEPT ![p] = <<>>]
        /\ sound' = (sound /\ \A c \in cut : ~Syncing(c))
        /\ UNCHANGED <<schedulers, asked, wishes, calls>>
    BY DEF Stop, redis
  <1>2. faults' \in 0..MaxFaults
    BY TriggerAssumption DEF Stop, Blame, TypeOK
  <1>3. TypeOK'
    <2>1. up' \in SUBSET Procs /\ owed' \in SUBSET up'
      BY <1>1 DEF TypeOK
    <2>2. triggers' \in [Procs -> MayList] /\ options' \in [Procs -> MayOptions]
      BY <1>1, Blank DEF TypeOK, MayOptions
    <2>3. \A q \in up' : options'[q] \in Options
      BY <1>1 DEF TypeOK
    <2>4. call' \in [Calls -> Call] /\ goal' \in [Calls -> Goal]
      BY <1>1, Blank DEF TypeOK
    <2>5. mail' \in [Procs -> Seq(Calls)] /\ wire' \in [Procs -> Seq(Calls)]
      <3>1. <<>> \in Seq(Calls)
        OBVIOUS
      <3>2. QED
        BY <1>1, <3>1 DEF TypeOK
    <2>6. sound' \in BOOLEAN
      BY <1>1
    <2>7. QED
      BY <1>1, <1>2, <2>1, <2>2, <2>3, <2>4, <2>5, <2>6 DEF TypeOK
  <1>4. Owing'
    <2>1. \A d \in Calls : Syncing(d)' => Syncing(d)
      BY <1>1, Blank DEF Syncing
    <2>2. \A d \in Calls : Syncing(d) /\ sound' => call'[d] = call[d]
      BY <1>1
    <2>3. QED
      BY <1>1, <2>1, <2>2, OwingStays
  <1>5. ASSUME NEW c \in cut PROVE Hosting(c)' /\ Batching(c)' /\ Purposeful(c)'
    BY <1>1, IdleKeeps
  <1>6. ASSUME NEW c \in Calls, c \notin cut
        PROVE  Hosting(c)' /\ Batching(c)' /\ Purposeful(c)'
    <2>1. call'[c] = call[c] /\ goal'[c] = goal[c] /\ (Running(c) => Proc(c) # p)
      BY <1>1, <1>6
    <2>2. Proc(c) \in Procs
      BY CallParts
    <2>3. Hosting(c)'
      <3>1. CASE Running(c)
        <4>1. mail'[Proc(c)] = mail[Proc(c)] /\ wire'[Proc(c)] = wire[Proc(c)]
          BY <1>1, <2>1, <2>2, <3>1 DEF TypeOK
        <4>2. QED
          BY <1>1, <2>1, <3>1, <4>1, HostingStays
      <3>2. CASE ~Running(c)
        BY <2>1, <3>2 DEF Hosting, Running
      <3>3. QED
        BY <3>1, <3>2
    <2>4. Batching(c)'
      BY <1>1, <2>1, BatchingStays
    <2>5. Purposeful(c)'
      <3> SUFFICES ASSUME goal[c] # NoGoal PROVE Purposeful(c)'
        BY <2>1 DEF Purposeful
      <3>1. Running(c) /\ \A d \in Calls : Running(d) <=> d = c
        BY DEF Purposeful
      <3>2. cut = {}
        BY <1>6, <3>1
      <3>3. UNCHANGED <<call, goal, sound>>
        BY <1>1, <3>2 DEF TypeOK
      <3>4. triggers'[Proc(c)] = triggers[Proc(c)] /\ options'[Proc(c)] = options[Proc(c)]
        BY <1>1, <2>1, <2>2, <3>1 DEF TypeOK
      <3>5. QED
        BY <1>1, <3>3, <3>4 DEF Purposeful, Stage, Running, Syncing, Wishing, Proc
    <2>6. QED
      BY <2>3, <2>4, <2>5
  <1>7. QED
    BY <1>3, <1>4, <1>5, <1>6

-----------------------------------------------------------------------------
(* The calls *)

\* A call that asks for subscriptions first: 'ready', and update without
\* options.
LEMMA AskingKeeps ==
    ASSUME TInv, NEW c \in Calls, NEW p \in Procs, NEW ts \in MayList, NEW opts \in MayOptions,
           TypeOK',
           Launch(c, p, Ask(ts), Reach(ts, ts, opts)), Post(c, p),
           triggers'[p] = ts, options'[p] = opts,
           UNCHANGED <<up, wire, schedulers, asked, wishes, sound>>
    PROVE  TInv'
  <1> USE DEF TInv
  <1> DEFINE new   == Ask(ts)
             reach == Reach(ts, ts, opts)
  <1>1. /\ new \in Call /\ new.at = "ask" /\ new.subs = Subscriptions(ts)
        /\ new.then = "end" /\ new.batch = {} /\ ~new.rejected
    BY AskType
  <1>2. reach \in Goal /\ reach.memory = ts /\ reach.redis.list = ts /\ reach.redis.options = opts
    BY ReachType
  <1> HIDE DEF new, reach
  <1>3. /\ ~Running(c) /\ p \in up
        /\ call'[c].proc = p /\ call'[c].at = "ask" /\ call'[c].then = "end"
        /\ call'[c].subs = Subscriptions(ts)
        /\ call'[c].batch = {} /\ ~call'[c].rejected
        /\ \A d \in Calls : d # c => call'[d] = call[d] /\ goal'[d] = NoGoal
        /\ goal'[c] # NoGoal => goal'[c] = reach /\ \A d \in Calls : ~Running(d)
    <2>1. Launch(c, p, new, reach) /\ TypeOK
      BY DEF new, reach
    <2>2. QED
      BY <1>1, <1>2, <2>1, Launching
  <1>4. /\ c \in Range(mail'[p])
        /\ \A q \in Procs : Range(mail[q]) \subseteq Range(mail'[q])
    BY Posting
  <1>5. Hosting(c)' /\ Batching(c)'
    BY <1>3, <1>4 DEF Hosting, Batching, Running, Proc, Wishing
  <1>6. Purposeful(c)'
    BY <1>2, <1>3 DEF Purposeful, Stage, Running, Syncing, Wishing, Proc
  <1>7. ASSUME NEW d \in Calls, d # c PROVE Hosting(d)' /\ Batching(d)' /\ Purposeful(d)'
    BY <1>3, <1>4, <1>7, CallParts, HostingStays, BatchingStays, AimlessIsPurposeful
  <1>8. Owing'
    BY <1>3, OwingStays DEF Syncing, Running
  <1>9. QED
    BY <1>5, <1>6, <1>7, <1>8

\* A call that synchronizes first: update with options, and the removal.
LEMMA SyncingKeeps ==
    ASSUME TInv, NEW c \in Calls, NEW p \in Procs, NEW new \in Call, NEW reached \in Goal,
           TypeOK',
           new.at = "list", new.then \in {"assign", "request", "restore"},
           new.batch = {}, ~new.rejected,
           Launch(c, p, new, reached), Join, Send(c, p),
           reached.redis.options = options'[p],
           CASE new.then = "request" -> triggers'[p] = reached.memory
                                        /\ reached.redis.list = reached.memory
             [] new.then = "assign"  -> new.list = reached.memory
                                        /\ reached.redis.list = reached.memory
             [] OTHER -> /\ new.list = reached.memory
                         /\ reached.redis.list = Empty /\ triggers'[p] = Empty,
           UNCHANGED <<up, mail, schedulers, asked>>
    PROVE  TInv'
  <1> USE DEF TInv
  <1>3. /\ ~Running(c) /\ p \in up
        /\ call'[c].proc = p /\ call'[c].at = "list" /\ call'[c].then = new.then
        /\ call'[c].list = new.list
        /\ call'[c].batch = {} /\ ~call'[c].rejected
        /\ \A d \in Calls : d # c => call'[d] = call[d] /\ goal'[d] = NoGoal
        /\ goal'[c] # NoGoal => goal'[c] = reached /\ \A d \in Calls : ~Running(d)
    BY Launching
  <1>4. /\ c \in Range(wire'[p])
        /\ \A q \in Procs : Range(wire[q]) \subseteq Range(wire'[q])
    BY Sending
  <1>5. Hosting(c)' /\ Batching(c)'
    BY <1>3, <1>4 DEF Hosting, Batching, Running, Proc, Wishing
  <1>6. Purposeful(c)'
    <2> SUFFICES ASSUME goal'[c] # NoGoal PROVE Purposeful(c)'
      BY DEF Purposeful
    <2>1. goal'[c] = reached /\ NobodySyncs
      BY <1>3 DEF NobodySyncs, Running, Syncing
    <2>2. sound' /\ wishes' = {}
      BY <2>1 DEF Join
    <2>3. Stage(c)'
      BY <1>3, <2>1 DEF Stage, Wishing, Proc
    <2>4. \A d \in Calls : Running(d)' <=> d = c
      BY <1>3, <2>1 DEF Running
    <2>5. QED
      BY <1>3, <2>1, <2>2, <2>3, <2>4 DEF Purposeful, Syncing, Wishing, Proc
  <1>7. ASSUME NEW d \in Calls, d # c PROVE Hosting(d)' /\ Batching(d)' /\ Purposeful(d)'
    <2>1. \/ wishes \subseteq wishes' /\ (sound' => sound)
          \/ NobodySyncs
      BY DEF Join
    <2>2. Hosting(d)'
      BY <1>3, <1>4, <1>7, CallParts, HostingStays
    <2>3. Batching(d)'
      BY <1>3, <1>7, <2>1, BatchingStays
    <2>4. QED
      BY <1>3, <1>7, <2>2, <2>3, AimlessIsPurposeful
  <1>8. Owing'
    <2>1. ~Syncing(c)
      BY <1>3 DEF Syncing, Running
    <2>2. QED
      BY <1>3, <2>1, JoinOwes
  <1>9. QED
    BY <1>5, <1>6, <1>7, <1>8

LEMMA ReadyKeeps ==
    ASSUME TInv, NEW c \in Calls, NEW p \in Procs, Ready(c, p)
    PROVE  TInv'
  <1> USE DEF TInv
  <1>1. /\ triggers[p] \in MayList /\ options[p] \in MayOptions
        /\ Launch(c, p, Ask(triggers[p]), Reach(triggers[p], triggers[p], options[p]))
        /\ Post(c, p)
        /\ UNCHANGED <<up, triggers, options, wire, schedulers, asked, wishes, sound, faults>>
    BY DEF Ready, TypeOK, memory, redis
  <1>2. owed' \in SUBSET up' /\ calls' \in 0..MaxCalls
    BY <1>1, TriggerAssumption DEF Ready, Begin, TypeOK
  <1>3. call' \in [Calls -> Call] /\ goal' \in [Calls -> Goal]
    BY <1>1, Launching, AskType, ReachType
  <1>4. mail' \in [Procs -> Seq(Calls)]
    BY <1>1, Posting
  <1>5. TypeOK'
    BY <1>1, <1>2, <1>3, <1>4 DEF TypeOK
  <1>6. QED
    BY <1>1, <1>5, AskingKeeps

LEMMA UpdateTriggersKeeps ==
    ASSUME TInv, NEW c \in Calls, NEW p \in Procs, NEW ts \in Lists, UpdateTriggers(c, p, ts)
    PROVE  TInv'
  <1> USE DEF TInv
  <1>1. /\ ts \in MayList /\ options[p] \in MayOptions
        /\ triggers' = [triggers EXCEPT ![p] = ts]
        /\ Launch(c, p, Ask(ts), Reach(ts, ts, options[p]))
        /\ Post(c, p)
        /\ calls < MaxCalls /\ calls' = calls + 1
        /\ UNCHANGED <<up, owed, options, wire, schedulers, asked, wishes, sound, faults>>
    BY DEF UpdateTriggers, Begin, TypeOK, life, redis, MayList
  <1>2. triggers' \in [Procs -> MayList] /\ triggers'[p] = ts /\ calls' \in 0..MaxCalls
    BY <1>1, TriggerAssumption DEF TypeOK
  <1>3. call' \in [Calls -> Call] /\ goal' \in [Calls -> Goal]
    BY <1>1, Launching, AskType, ReachType
  <1>4. mail' \in [Procs -> Seq(Calls)]
    BY <1>1, Posting
  <1>5. TypeOK'
    BY <1>1, <1>2, <1>3, <1>4 DEF TypeOK
  <1>6. QED
    BY <1>1, <1>2, <1>5, AskingKeeps

\* What a step that begins a period, or joins one, leaves of the types.
LEMMA JoinTypes ==
    ASSUME TypeOK, NEW c \in Calls, NEW p \in Procs, Join, Send(c, p), Begin
    PROVE  /\ wishes' \in SUBSET Wish /\ sound' \in BOOLEAN
           /\ wire' \in [Procs -> Seq(Calls)] /\ calls' \in 0..MaxCalls
  <1>1. wire' \in [Procs -> Seq(Calls)]
    BY Sending
  <1>2. QED
    BY <1>1, TriggerAssumption DEF Join, Begin, TypeOK

LEMMA UpdateOptionsKeeps ==
    ASSUME TInv, NEW c \in Calls, NEW p \in Procs,
           NEW opts \in Options \cup {Undefined}, NEW ts \in Lists \cup {Undefined},
           UpdateOptions(c, p, opts, ts)
    PROVE  TInv'
  <1> DEFINE list  == IF ts = Undefined THEN triggers[p] ELSE ts
             new   == IF ts = Undefined
                      THEN [Idle EXCEPT !.at = "list", !.then = "request"]
                      ELSE [Idle EXCEPT !.at = "list", !.then = "assign", !.list = ts]
             reach == Reach(list, list, opts)
  <1> USE DEF TInv
  <1>1. /\ opts \in Options /\ opts \in MayOptions
        /\ options' = [options EXCEPT ![p] = opts]
        /\ Launch(c, p, new, reach)
        /\ Begin /\ Join /\ Send(c, p)
        /\ UNCHANGED <<up, owed, triggers, mail, schedulers, asked, faults>>
    BY DEF UpdateOptions, life, redis, MayOptions
  <1>2. list \in MayList
    BY DEF TypeOK, MayList
  <1>3. /\ reach \in Goal /\ reach.memory = list /\ reach.redis.list = list
        /\ reach.redis.options = opts
    BY <1>1, <1>2, ReachType
  <1>4. /\ new \in Call /\ new.at = "list" /\ new.batch = {} /\ ~new.rejected
        /\ new.then = IF ts = Undefined THEN "request" ELSE "assign"
        /\ ts # Undefined => new.list = ts
    BY Blank DEF Call, MayList
  <1>5. options' \in [Procs -> MayOptions] /\ options'[p] = opts
        /\ \A q \in up : options'[q] \in Options
    BY <1>1 DEF TypeOK
  <1>6. CASE ts = Undefined
    <2>1. new.then = "request" /\ triggers'[p] = reach.memory /\ reach.redis.list = reach.memory
      BY <1>1, <1>3, <1>4, <1>6
    <2> HIDE DEF new, reach, list
    <2>2. call' \in [Calls -> Call] /\ goal' \in [Calls -> Goal]
      BY <1>1, <1>3, <1>4, Launching
    <2>3. TypeOK'
      BY <1>1, <1>5, <2>2, JoinTypes DEF TypeOK
    <2>4. QED
      BY <1>1, <1>3, <1>4, <1>5, <2>1, <2>3, SyncingKeeps
  <1>7. CASE ts # Undefined
    <2>1. new.then = "assign" /\ new.list = reach.memory /\ reach.redis.list = reach.memory
      BY <1>3, <1>4, <1>7
    <2> HIDE DEF new, reach, list
    <2>2. call' \in [Calls -> Call] /\ goal' \in [Calls -> Goal]
      BY <1>1, <1>3, <1>4, Launching
    <2>3. TypeOK'
      BY <1>1, <1>5, <2>2, JoinTypes DEF TypeOK
    <2>4. QED
      BY <1>1, <1>3, <1>4, <1>5, <2>1, <2>3, SyncingKeeps
  <1>8. QED
    BY <1>6, <1>7

LEMMA UpdateKeeps ==
    ASSUME TInv, NEW c \in Calls, NEW p \in Procs, Update(c, p)
    PROVE  TInv'
  <1>1. PICK u \in Updates : \/ UpdateOptions(c, p, u[1], u[2])
                             \/ u[1] = Undefined /\ UpdateTriggers(c, p, u[2])
    BY DEF Update
  <1>2. /\ u[1] \in Options \cup {Undefined} /\ u[2] \in Lists \cup {Undefined}
        /\ u = <<u[1], u[2]>> /\ u # <<Undefined, Undefined>>
    BY TriggerAssumption
  <1>3. u[1] = Undefined => u[2] \in Lists
    BY <1>2
  <1>4. QED
    BY <1>1, <1>2, <1>3, UpdateOptionsKeeps, UpdateTriggersKeeps

LEMMA RemoveAllKeeps ==
    ASSUME TInv, NEW c \in Calls, NEW p \in Procs, RemoveAllTriggers(c, p)
    PROVE  TInv'
  <1> DEFINE new   == [Idle EXCEPT !.at = "list", !.then = "restore", !.list = triggers[p]]
             reach == Reach(triggers[p], Empty, options[p])
  <1> USE DEF TInv
  <1>1. /\ triggers[p] \in MayList /\ options[p] \in MayOptions
        /\ triggers' = [triggers EXCEPT ![p] = Empty]
        /\ Launch(c, p, new, reach)
        /\ Begin /\ Join /\ Send(c, p)
        /\ UNCHANGED <<up, owed, options, mail, schedulers, asked, faults>>
    BY DEF RemoveAllTriggers, life, redis, TypeOK
  <1>2. /\ reach \in Goal /\ reach.memory = triggers[p] /\ reach.redis.list = Empty
        /\ reach.redis.options = options[p]
    BY <1>1, Blank, ReachType
  <1>3. /\ new \in Call /\ new.at = "list" /\ new.batch = {} /\ ~new.rejected
        /\ new.then = "restore" /\ new.list = triggers[p]
    BY <1>1, Blank DEF Call
  <1>4. triggers' \in [Procs -> MayList] /\ triggers'[p] = Empty
    BY <1>1, Blank DEF TypeOK
  <1> HIDE DEF new, reach
  <1>5. call' \in [Calls -> Call] /\ goal' \in [Calls -> Goal]
    BY <1>1, <1>2, <1>3, Launching
  <1>6. TypeOK'
    BY <1>1, <1>4, <1>5, JoinTypes DEF TypeOK
  <1>7. QED
    BY <1>1, <1>2, <1>3, <1>4, <1>6, SyncingKeeps

-----------------------------------------------------------------------------
(* The steps of a call *)

\* A step of one call leaves the others as they are.
LEMMA OthersStay ==
    ASSUME TInv, NEW c \in Calls, Running(c), UNCHANGED up,
           \A d \in Calls : d # c => call'[d] = call[d] /\ goal'[d] = goal[d],
           \A q \in Procs : Range(mail[q]) \ {c} \subseteq Range(mail'[q]),
           \A q \in Procs : Range(wire[q]) \ {c} \subseteq Range(wire'[q]),
           \/ wishes \subseteq wishes' /\ (sound' => sound)
           \/ NobodySyncs
    PROVE  \A d \in Calls : d # c => Hosting(d)' /\ Batching(d)' /\ Purposeful(d)'
  <1> SUFFICES ASSUME NEW d \in Calls, d # c
               PROVE  Hosting(d)' /\ Batching(d)' /\ Purposeful(d)'
    OBVIOUS
  <1> USE DEF TInv
  <1>1. Proc(d) \in Procs /\ call'[d] = call[d] /\ goal'[d] = goal[d]
    BY CallParts
  <1>2. Hosting(d)'
    BY <1>1, HostingStays
  <1>3. Batching(d)'
    BY <1>1, BatchingStays
  <1>4. goal'[d] = NoGoal
    BY <1>1, OthersAimless
  <1>5. QED
    BY <1>2, <1>3, <1>4, AimlessIsPurposeful

\* What a synchronization owes it still owes when it goes on, or it is granted.
LEMMA OwingGoesOn ==
    ASSUME TInv, NEW c \in Calls, Syncing(c), sound' => sound, UNCHANGED schedulers,
           wishes \subseteq wishes',
           \A d \in Calls : d # c => call'[d] = call[d],
           \A k \in Keys : sound /\ Owes(c, k) => Granted(k)' \/ (Syncing(c)' /\ Owes(c, k)')
    PROVE  Owing'
  <1> SUFFICES ASSUME sound', NEW k \in Keys
               PROVE  \/ Granted(k)'
                      \/ /\ wishes' # {} => \E d \in Calls : Syncing(d)'
                         /\ \A d \in Calls : Syncing(d)' => Owes(d, k)'
    BY DEF Owing
  <1>1. Granted(k) => Granted(k)'
    BY DEF Granted
  <1>2. \A d \in Calls : d # c => (Syncing(d)' <=> Syncing(d)) /\ (Owes(d, k) => Owes(d, k)')
    BY DEF Syncing, Owes
  <1>3. CASE Granted(k)
    BY <1>1, <1>3
  <1>4. CASE ~Granted(k)
    <2>1. sound /\ \A d \in Calls : Syncing(d) => Owes(d, k)
      BY <1>4 DEF TInv, Owing
    <2>2. Granted(k)' \/ (Syncing(c)' /\ Owes(c, k)')
      BY <2>1
    <2>3. QED
      BY <1>2, <2>1, <2>2
  <1>5. QED
    BY <1>3, <1>4

\* A call that ends, after a failure of its synchronization if it was in one.
LEMMA EndKeeps ==
    ASSUME TInv, NEW c \in Calls, Running(c), End(c), TypeOK', UNCHANGED <<up, wishes>>,
           sound' => sound,
           \A q \in Procs : Range(mail[q]) \ {c} \subseteq Range(mail'[q]),
           \A q \in Procs : Range(wire[q]) \ {c} \subseteq Range(wire'[q]),
           Owing'
    PROVE  TInv'
  <1> USE DEF TInv
  <1>1. /\ call'[c] = Idle /\ goal'[c] = NoGoal
        /\ \A d \in Calls : d # c => call'[d] = call[d] /\ goal'[d] = goal[d]
    BY Ending
  <1>2. Hosting(c)' /\ Batching(c)' /\ Purposeful(c)'
    BY <1>1, IdleKeeps
  <1>3. \A d \in Calls : d # c => Hosting(d)' /\ Batching(d)' /\ Purposeful(d)'
    BY <1>1, OthersStay
  <1>4. QED
    BY <1>2, <1>3

\* The request arrives: a removal ends, any other call begins to synchronize.
LEMMA AskedKeeps ==
    ASSUME TInv, NEW c \in Calls, Asked(c)
    PROVE  TInv'
  <1> DEFINE p  == Proc(c)
             to == [call[c] EXCEPT !.at = "list", !.subs = {}]
  <1> USE DEF TInv
  <1>1. /\ call[c].at = "ask" /\ Running(c) /\ ~Syncing(c) /\ p \in up /\ p \in Procs
        /\ c \in Range(mail[p])
        /\ mail' = [mail EXCEPT ![p] = Tail(@)] /\ c = Head(mail[p])
        /\ asked' = call[c].subs /\ call[c].subs \in Subscribed
        /\ UNCHANGED <<up, owed, triggers, options, schedulers, calls, faults>>
    BY CallParts DEF Asked, Hosting, Running, Syncing, life, memory, bounds
  <1>2. /\ mail' \in [Procs -> Seq(Calls)]
        /\ \A q \in Procs : Range(mail[q]) \ {c} \subseteq Range(mail'[q])
    BY <1>1, MailArrives
  <1>3. CASE call[c].then = "stop"
    <2>1. End(c) /\ UNCHANGED <<wire, wishes, sound>>
      BY <1>3 DEF Asked
    <2>2. /\ call' \in [Calls -> Call] /\ call'[c] = Idle /\ goal' \in [Calls -> Goal]
          /\ \A d \in Calls : d # c => call'[d] = call[d]
      BY <2>1, Ending
    <2>3. TypeOK'
      BY <1>1, <1>2, <2>1, <2>2 DEF TypeOK
    <2>4. Owing'
      BY <1>1, <2>1, <2>2, Blank, OwingStays DEF Syncing
    <2>5. QED
      BY <1>1, <1>2, <2>1, <2>3, <2>4, EndKeeps
  <1>4. CASE call[c].then # "stop"
    <2>1. Go(c, to) /\ Send(c, p) /\ Join /\ UNCHANGED goal
      BY <1>4 DEF Asked
    <2>2. /\ to \in Call /\ to.at = "list" /\ to.then = call[c].then /\ to.proc = p
          /\ to.batch = {} /\ to.rejected = call[c].rejected
      <3>1. call[c] \in Call /\ call[c].batch = {}
        BY <1>1, CallParts DEF Batching
      <3>2. {} \in Subscribed
        BY DEF Subscribed
      <3>3. QED
        BY <3>1, <3>2 DEF Call, Proc
    <2>3. /\ call' \in [Calls -> Call] /\ call'[c] = to
          /\ \A d \in Calls : d # c => call'[d] = call[d]
      BY <2>1, <2>2, Going
    <2> HIDE DEF to
    <2>4. /\ wire' \in [Procs -> Seq(Calls)] /\ c \in Range(wire'[p])
          /\ \A q \in Procs : Range(wire[q]) \subseteq Range(wire'[q])
      BY <1>1, <2>1, Sending
    <2>5. /\ wishes' \in SUBSET Wish /\ sound' \in BOOLEAN
          /\ \/ wishes \subseteq wishes' /\ (sound' => sound)
             \/ NobodySyncs
      BY <2>1 DEF Join, TypeOK
    <2>6. TypeOK'
      BY <1>1, <1>2, <2>1, <2>3, <2>4, <2>5 DEF TypeOK
    <2>7. \A d \in Calls : d # c => Hosting(d)' /\ Batching(d)' /\ Purposeful(d)'
      BY <1>1, <1>2, <2>1, <2>3, <2>4, <2>5, OthersStay
    <2>8. Hosting(c)' /\ Batching(c)'
      <3>1. ~call[c].rejected
        BY <1>1 DEF Batching
      <3>2. QED
        BY <1>1, <2>2, <2>3, <2>4, <3>1 DEF Hosting, Batching, Running, Wishing, Proc
    <2>9. Purposeful(c)'
      <3> SUFFICES ASSUME goal[c] # NoGoal PROVE Purposeful(c)'
        BY <2>1 DEF Purposeful
      <3>1. /\ \A d \in Calls : Running(d) <=> d = c
            /\ options[p] = goal[c].redis.options /\ Stage(c)
        BY DEF Purposeful
      <3>2. NobodySyncs
        BY <1>1, <3>1 DEF NobodySyncs, Syncing, Running
      <3>3. sound' /\ wishes' = {}
        BY <2>1, <3>2 DEF Join
      <3>4. Stage(c)'
        <4>1. /\ call[c].then = "end"
              /\ triggers[p] = goal[c].memory /\ goal[c].redis.list = goal[c].memory
              /\ call[c].subs = Subscriptions(goal[c].redis.list)
          BY <1>1, <1>4, <3>1 DEF Stage
        <4>2. QED
          BY <1>1, <2>1, <2>2, <2>3, <4>1 DEF Stage, Wishing, Proc
      <3>5. \A d \in Calls : Running(d)' <=> d = c
        BY <2>2, <2>3, <3>1 DEF Running
      <3>6. QED
        BY <1>1, <2>1, <2>2, <2>3, <3>1, <3>3, <3>4, <3>5 DEF Purposeful, Wishing, Proc
    <2>10. Owing'
      BY <1>1, <2>1, <2>2, <2>3, JoinOwes
    <2>11. QED
      BY <2>6, <2>7, <2>8, <2>9, <2>10
  <1>5. QED
    BY <1>3, <1>4

\* A synchronization that goes on, without a command of its own being executed.
LEMMA SyncGoesOn ==
    ASSUME TInv, NEW c \in Calls, Syncing(c), NEW to \in Call,
           to.proc = Proc(c), to.then = call[c].then, to.list = call[c].list,
           to.at \notin {"idle", "ask"}, to.rejected = call[c].rejected,
           call' \in [Calls -> Call], call'[c] = to,
           \A d \in Calls : d # c => call'[d] = call[d],
           UNCHANGED <<up, owed, triggers, options, mail, schedulers, asked, sound, goal,
                       calls, faults>>,
           wire' \in [Procs -> Seq(Calls)],
           to.at \in {"list", "upsert", "remove"} => c \in Range(wire'[Proc(c)]),
           \A q \in Procs : Range(wire[q]) \ {c} \subseteq Range(wire'[q]),
           wishes' \in SUBSET Wish, wishes \subseteq wishes',
           Batching(c)',
           \A k \in Keys : sound /\ Owes(c, k) => Granted(k)' \/ Owes(c, k)',
           goal[c] # NoGoal =>
               /\ wishes' = IF Wishing(c)' THEN {to.wish} ELSE {}
               /\ Wishing(c)' => to.wish = IF Wishing(c) THEN call[c].wish ELSE Aim(Proc(c))
    PROVE  TInv'
  <1> USE DEF TInv
  <1>1. Running(c) /\ Proc(c) \in up /\ Proc(c) \in Procs
    BY CallParts DEF Syncing, Running, Hosting
  <1>2. TypeOK'
    BY DEF TypeOK
  <1>3. Hosting(c)'
    BY <1>1 DEF Hosting, Running, Proc
  <1>4. \A d \in Calls : d # c => Hosting(d)' /\ Batching(d)' /\ Purposeful(d)'
    <2>1. \A q \in Procs : Range(mail[q]) \ {c} \subseteq Range(mail'[q])
      OBVIOUS
    <2>2. QED
      BY <1>1, <2>1, OthersStay
  <1>5. Owing'
    BY OwingGoesOn DEF Syncing
  <1>6. Purposeful(c)'
    <2> SUFFICES ASSUME goal[c] # NoGoal PROVE Purposeful(c)'
      BY DEF Purposeful
    <2>1. /\ \A d \in Calls : Running(d) <=> d = c
          /\ options[Proc(c)] = goal[c].redis.options
          /\ sound /\ Stage(c)
      BY DEF Purposeful
    <2>2. \A d \in Calls : Running(d)' <=> d = c
      BY <2>1 DEF Running
    <2>3. Aim(Proc(c)).list = goal[c].redis.list => Aim(Proc(c)) = goal[c].redis
      <3>1. goal[c].redis \in Wish
        BY DEF TypeOK, Goal
      <3>2. QED
        BY <1>1, <2>1, <3>1, AimType, SameWish
    <2>4. Stage(c)'
      <3>1. call[c].at # "ask" /\ Aim(Proc(c)).list = triggers[Proc(c)]
        BY <1>1, AimType DEF Syncing
      <3>2. QED
        BY <2>1, <2>3, <3>1 DEF Stage, Proc
    <2>5. QED
      BY <2>1, <2>2, <2>4 DEF Purposeful, Proc, Wishing
  <1>7. QED
    BY <1>2, <1>3, <1>4, <1>5, <1>6

LEMMA ListedKeeps ==
    ASSUME TInv, NEW c \in Calls, Listed(c)
    PROVE  TInv'
  <1> DEFINE now == {k \in Keys : schedulers[k] # NoScheduler}
             to  == [call[c] EXCEPT !.at = "listed", !.existing = now]
  <1> USE DEF TInv
  <1>1. /\ call[c].at = "list" /\ Syncing(c) /\ Proc(c) \in Procs /\ c \in Range(wire[Proc(c)])
        /\ wire' = [wire EXCEPT ![Proc(c)] = Tail(@)] /\ c = Head(wire[Proc(c)])
        /\ Go(c, to)
        /\ UNCHANGED <<up, owed, triggers, options, mail, schedulers, asked, wishes, sound,
                       goal, calls, faults>>
    BY CallParts DEF Listed, Hosting, Syncing, life, memory, redis, ghost, bounds
  <1>2. /\ to \in Call /\ to.at = "listed" /\ to.existing = now
        /\ to.proc = Proc(c) /\ to.then = call[c].then /\ to.list = call[c].list
        /\ to.batch = call[c].batch /\ to.wish = call[c].wish
        /\ to.rejected = call[c].rejected
    BY CallParts DEF Call, Proc
  <1>3. /\ call' \in [Calls -> Call] /\ call'[c] = to
        /\ \A d \in Calls : d # c => call'[d] = call[d]
    BY <1>1, <1>2, Going
  <1>4. /\ wire' \in [Procs -> Seq(Calls)]
        /\ \A q \in Procs : Range(wire[q]) \ {c} \subseteq Range(wire'[q])
    BY <1>1, WireArrives
  <1>5. Batching(c)'
    BY <1>1, <1>2, <1>3 DEF Batching, Wishing, Syncing
  <1>6. \A k \in Keys : Owes(c, k)'
    BY <1>1, <1>2, <1>3 DEF Owes
  <1>7. goal[c] # NoGoal => wishes' = {}
    BY <1>1 DEF Purposeful, Wishing
  <1>8. ~Wishing(c)' /\ wishes' \in SUBSET Wish
    BY <1>1, <1>2, <1>3 DEF Wishing, TypeOK
  <1> HIDE DEF to
  <1>9. to.at \notin {"list", "upsert", "remove", "idle", "ask"}
    BY <1>2
  <1>10. QED
    BY <1>1, <1>2, <1>3, <1>4, <1>5, <1>6, <1>7, <1>8, <1>9, SyncGoesOn

\* The commands of a call are sent, if there are any.
LEMMA Dispatching ==
    ASSUME TypeOK, NEW c \in Calls, NEW new \in Call,
           NEW sending \in {"upsert", "remove"}, NEW without \in {"upserted", "removed"},
           Dispatch(c, new, sending, without)
    PROVE  /\ call' \in [Calls -> Call] /\ call'[c] \in Call
           /\ call'[c].at = IF new.batch = {} THEN without ELSE sending
           /\ call'[c].proc = new.proc /\ call'[c].then = new.then
           /\ call'[c].list = new.list /\ call'[c].existing = new.existing
           /\ call'[c].batch = new.batch /\ call'[c].wish = new.wish
           /\ call'[c].rejected = new.rejected
           /\ \A d \in Calls : d # c => call'[d] = call[d]
           /\ wire' \in [Procs -> Seq(Calls)]
           /\ call'[c].at = sending => c \in Range(wire'[Proc(c)])
           /\ \A q \in Procs : Range(wire[q]) \ {c} \subseteq Range(wire'[q])
  <1>1. CASE new.batch = {}
    <2> DEFINE to == [new EXCEPT !.at = without]
    <2>1. Go(c, to) /\ wire' = wire
      BY <1>1 DEF Dispatch
    <2>2. /\ to \in Call /\ to.at = without /\ to.proc = new.proc /\ to.then = new.then
          /\ to.list = new.list /\ to.existing = new.existing /\ to.batch = new.batch
          /\ to.wish = new.wish /\ to.rejected = new.rejected
      BY DEF Call
    <2> HIDE DEF to
    <2>3. /\ call' \in [Calls -> Call] /\ call'[c] = to
          /\ \A d \in Calls : d # c => call'[d] = call[d]
      BY <2>1, <2>2, Going
    <2>4. QED
      BY <1>1, <2>1, <2>2, <2>3 DEF TypeOK
  <1>2. CASE new.batch # {}
    <2> DEFINE to == [new EXCEPT !.at = sending]
    <2>1. Go(c, to) /\ Send(c, Proc(c)) /\ Proc(c) \in Procs
      BY <1>2, CallParts DEF Dispatch
    <2>2. /\ to \in Call /\ to.at = sending /\ to.proc = new.proc /\ to.then = new.then
          /\ to.list = new.list /\ to.existing = new.existing /\ to.batch = new.batch
          /\ to.wish = new.wish /\ to.rejected = new.rejected
      BY DEF Call
    <2> HIDE DEF to
    <2>3. /\ call' \in [Calls -> Call] /\ call'[c] = to
          /\ \A d \in Calls : d # c => call'[d] = call[d]
      BY <2>1, <2>2, Going
    <2>4. /\ wire' \in [Procs -> Seq(Calls)] /\ c \in Range(wire'[Proc(c)])
          /\ \A q \in Procs : Range(wire[q]) \subseteq Range(wire'[q])
      BY <2>1, Sending
    <2>5. QED
      BY <1>2, <2>2, <2>3, <2>4
  <1>3. QED
    BY <1>1, <1>2

\* What the list and the options of now ask for is wanted from now on.
LEMMA UpsertKeeps ==
    ASSUME TInv, NEW c \in Calls, Upsert(c)
    PROVE  TInv'
  <1> DEFINE wish == Aim(Proc(c))
             new  == [call[c] EXCEPT !.wish = wish, !.batch = DesiredKeys(wish)]
             to   == call'[c]
  <1> USE DEF TInv
  <1>1. /\ call[c].at = "listed" /\ Syncing(c) /\ Running(c) /\ ~Wishing(c)
        /\ Proc(c) \in Procs /\ Proc(c) \in up
        /\ wishes' = wishes \cup {wish}
        /\ Dispatch(c, new, "upsert", "upserted")
        /\ UNCHANGED <<up, owed, triggers, options, mail, schedulers, asked, sound,
                       goal, calls, faults>>
    BY CallParts DEF Upsert, Hosting, Running, Syncing, Wishing, life, memory, redis, bounds
  <1>2. wish \in Wish /\ wish.options \in Options /\ DesiredKeys(wish) \in SUBSET Keys
    BY <1>1, AimType DEF DesiredKeys
  <1>3. /\ new \in Call /\ new.wish = wish /\ new.batch = DesiredKeys(wish)
        /\ new.proc = Proc(c) /\ new.then = call[c].then /\ new.list = call[c].list
        /\ new.existing = call[c].existing /\ new.rejected = call[c].rejected
    BY <1>2, CallParts DEF Call, Proc
  <1> HIDE DEF new, wish
  <1>4. /\ call' \in [Calls -> Call] /\ to \in Call
        /\ to.at = IF DesiredKeys(wish) = {} THEN "upserted" ELSE "upsert"
        /\ to.proc = Proc(c) /\ to.then = call[c].then /\ to.list = call[c].list
        /\ to.existing = call[c].existing /\ to.batch = DesiredKeys(wish) /\ to.wish = wish
        /\ to.rejected = call[c].rejected
        /\ \A d \in Calls : d # c => call'[d] = call[d]
        /\ wire' \in [Procs -> Seq(Calls)]
        /\ to.at = "upsert" => c \in Range(wire'[Proc(c)])
        /\ \A q \in Procs : Range(wire[q]) \ {c} \subseteq Range(wire'[q])
    BY <1>1, <1>3, Dispatching
  <1> HIDE DEF to
  <1>5. Batching(c)'
    BY <1>1, <1>2, <1>4 DEF Batching, Wishing, Syncing, to
  <1>6. ASSUME NEW k \in Keys, sound, Owes(c, k) PROVE Granted(k)' \/ Owes(c, k)'
    <2>1. schedulers[k] # NoScheduler => k \in call[c].existing
      BY <1>1, <1>6 DEF Owes
    <2>2. CASE k \in DesiredKeys(wish)
      BY <1>4, <2>2 DEF Owes, to
    <2>3. CASE k \notin DesiredKeys(wish) /\ schedulers[k] # NoScheduler
      BY <1>4, <2>1, <2>3 DEF Owes, to
    <2>4. CASE k \notin DesiredKeys(wish) /\ schedulers[k] = NoScheduler
      BY <1>1, <2>4 DEF Granted, DesiredKeys
    <2>5. QED
      BY <2>2, <2>3, <2>4
  <1>7. goal[c] # NoGoal => wishes' = {wish}
    BY <1>1 DEF Purposeful
  <1>8. Wishing(c)' /\ wishes' \in SUBSET Wish
    BY <1>1, <1>2, <1>4 DEF Wishing, TypeOK, to
  <1>9. to.at \notin {"list", "remove", "idle", "ask"}
    BY <1>4
  <1>10. QED
    BY <1>1, <1>4, <1>5, <1>6, <1>7, <1>8, <1>9, SyncGoesOn DEF wish, to

\* The keys it read, but for those it wants, are to be removed.
LEMMA RemoveObsoleteKeeps ==
    ASSUME TInv, NEW c \in Calls, RemoveObsolete(c)
    PROVE  TInv'
  <1> DEFINE wish == call[c].wish
             old  == call[c].existing \ DesiredKeys(wish)
             new  == [call[c] EXCEPT !.batch = old]
             to   == call'[c]
  <1> USE DEF TInv
  <1>1. /\ call[c].at = "upserted" /\ Syncing(c) /\ Wishing(c)
        /\ Dispatch(c, new, "remove", "removed")
        /\ UNCHANGED <<up, owed, triggers, options, mail, schedulers, asked, wishes, sound,
                       goal, calls, faults>>
    BY DEF RemoveObsolete, Syncing, Wishing, life, memory, redis, bounds, ghost
  <1>2. /\ new \in Call /\ new.wish = wish /\ new.batch = old
        /\ new.proc = Proc(c) /\ new.then = call[c].then /\ new.list = call[c].list
        /\ new.existing = call[c].existing /\ new.rejected = call[c].rejected
    BY CallParts DEF Call, Proc
  <1> HIDE DEF new
  <1>3. /\ call' \in [Calls -> Call] /\ to \in Call
        /\ to.at = IF old = {} THEN "removed" ELSE "remove"
        /\ to.proc = Proc(c) /\ to.then = call[c].then /\ to.list = call[c].list
        /\ to.existing = call[c].existing /\ to.batch = old /\ to.wish = wish
        /\ to.rejected = call[c].rejected
        /\ \A d \in Calls : d # c => call'[d] = call[d]
        /\ wire' \in [Procs -> Seq(Calls)]
        /\ to.at = "remove" => c \in Range(wire'[Proc(c)])
        /\ \A q \in Procs : Range(wire[q]) \ {c} \subseteq Range(wire'[q])
    BY <1>1, <1>2, Dispatching
  <1> HIDE DEF to
  <1>4. Batching(c)'
    BY <1>1, <1>3 DEF Batching, Wishing, Syncing, to
  <1>5. \A k \in Keys : Owes(c, k) => Owes(c, k)'
    BY <1>1, <1>3 DEF Owes, to
  <1>6. goal[c] # NoGoal => wishes' = {wish}
    BY <1>1 DEF Purposeful
  <1>7. Wishing(c)' /\ wishes' \in SUBSET Wish
    BY <1>1, <1>3 DEF Wishing, TypeOK, to
  <1>8. to.at \notin {"list", "upsert", "idle", "ask"}
    BY <1>3
  <1>9. QED
    BY <1>1, <1>3, <1>4, <1>5, <1>6, <1>7, <1>8, SyncGoesOn DEF to

\* What a command makes of its key is what its synchronization wants.
LEMMA Executing ==
    ASSUME TInv, NEW c \in Calls, NEW k \in call[c].batch, Execute(c, k)
    PROVE  /\ k \in Keys /\ Wishing(c) /\ call[c].at \in {"upsert", "remove"}
           /\ schedulers' \in [Keys -> (Repeats \X Options) \cup {NoScheduler}]
           /\ schedulers'[k] = Desired(call[c].wish, k)
           /\ \A l \in Keys : l # k => schedulers'[l] = schedulers[l]
  <1> USE DEF TInv
  <1>1. /\ k \in Keys /\ call[c].at \in {"upsert", "remove"} /\ Wishing(c)
        /\ call[c].wish \in Wish /\ call[c].wish.options \in Options
    BY CallParts DEF Batching, Wishing
  <1>2. call[c].at # "upsert" => Desired(call[c].wish, k) = NoScheduler
    BY <1>1 DEF Batching, DesiredKeys
  <1>3. schedulers' = [schedulers EXCEPT ![k] = Desired(call[c].wish, k)]
    BY <1>2 DEF Execute
  <1>4. Desired(call[c].wish, k) \in (Repeats \X Options) \cup {NoScheduler}
    BY <1>1, DesiredType
  <1>5. QED
    BY <1>1, <1>3, <1>4 DEF TypeOK

LEMMA ExecutedKeeps ==
    ASSUME TInv, NEW c \in Calls, Executed(c)
    PROVE  TInv'
  <1> USE DEF TInv
  <1>0. PICK k \in call[c].batch :
           LET rest == call[c].batch \ {k}
               next == IF rest # {} THEN call[c].at
                       ELSE IF call[c].at = "upsert" THEN "upserted" ELSE "removed"
           IN  /\ c = Head(wire[Proc(c)])
               /\ Execute(c, k)
               /\ IF rest = {} /\ call[c].rejected
                  THEN End(c)
                  ELSE Go(c, [call[c] EXCEPT !.batch = rest, !.at = next])
                       /\ UNCHANGED goal
               /\ wire' = IF rest = {} THEN [wire EXCEPT ![Proc(c)] = Tail(@)] ELSE wire
               /\ UNCHANGED <<life, memory, mail, asked, wishes, sound, bounds>>
    BY DEF Executed
  <1> DEFINE wish == call[c].wish
             rest == call[c].batch \ {k}
             next == IF rest # {} THEN call[c].at
                     ELSE IF call[c].at = "upsert" THEN "upserted" ELSE "removed"
             to   == [call[c] EXCEPT !.batch = rest, !.at = next]
  <1>1. /\ k \in Keys /\ Wishing(c) /\ call[c].at \in {"upsert", "remove"}
        /\ Syncing(c) /\ Running(c)
        /\ schedulers' \in [Keys -> (Repeats \X Options) \cup {NoScheduler}]
        /\ schedulers'[k] = Desired(wish, k)
        /\ \A l \in Keys : l # k => schedulers'[l] = schedulers[l]
    BY <1>0, Executing DEF Wishing, Syncing, Running
  <1>2. /\ Proc(c) \in Procs /\ Proc(c) \in up /\ c \in Range(wire[Proc(c)])
        /\ wish \in wishes
        /\ UNCHANGED <<up, owed, triggers, options, mail, asked, wishes, sound, calls, faults>>
    BY <1>0, <1>1, CallParts DEF Hosting, Batching, life, memory, bounds
  <1>3. /\ wire' \in [Procs -> Seq(Calls)]
        /\ \A q \in Procs : Range(wire[q]) \ {c} \subseteq Range(wire'[q])
        /\ rest # {} => c \in Range(wire'[Proc(c)])
    <2>1. CASE rest = {}
      BY <1>0, <1>2, <2>1, WireArrives
    <2>2. CASE rest # {}
      BY <1>0, <1>2, <2>2 DEF TypeOK
    <2>3. QED
      BY <2>1, <2>2
  <1>4. Granted(k)'
    BY <1>1, <1>2 DEF Granted
  <1>5. ASSUME NEW l \in Keys, Granted(l) PROVE Granted(l)'
    BY <1>1, <1>2, <1>4, <1>5 DEF Granted
  <1>6. CASE rest = {} /\ call[c].rejected
    <2>1. End(c)
      BY <1>0, <1>6
    <2>2. call' \in [Calls -> Call] /\ goal' \in [Calls -> Goal]
      BY <2>1, Ending
    <2>3. TypeOK'
      BY <1>1, <1>2, <1>3, <2>2 DEF TypeOK
    <2>4. Owing'
      BY <1>2, <1>6 DEF Batching, Owing
    <2>5. \A q \in Procs : Range(mail[q]) \ {c} \subseteq Range(mail'[q])
      BY <1>2
    <2>6. QED
      BY <1>1, <1>2, <1>3, <2>1, <2>3, <2>4, <2>5, EndKeeps
  <1>7. CASE ~(rest = {} /\ call[c].rejected)
    <2>1. Go(c, to) /\ UNCHANGED goal
      BY <1>0, <1>7
    <2>2. /\ to \in Call /\ to.at = next /\ to.batch = rest
          /\ to.proc = Proc(c) /\ to.then = call[c].then /\ to.list = call[c].list
          /\ to.existing = call[c].existing /\ to.wish = wish
          /\ to.rejected = call[c].rejected
      BY <1>1, CallParts DEF Call, Proc
    <2> HIDE DEF to
    <2>3. /\ call' \in [Calls -> Call] /\ call'[c] = to
          /\ \A d \in Calls : d # c => call'[d] = call[d]
      BY <2>1, <2>2, Going
    <2>4. TypeOK'
      BY <1>1, <1>2, <1>3, <2>1, <2>3 DEF TypeOK
    <2>5. /\ next \notin {"idle", "ask", "list", "listed"}
          /\ next \in {"upsert", "remove"} => rest # {} /\ next = call[c].at
      BY <1>1
    <2> HIDE DEF next
    <2>6. Hosting(c)'
      BY <1>2, <1>3, <2>2, <2>3, <2>5 DEF Hosting, Running, Proc
    <2>7. Batching(c)'
      <3>1. next \notin {"upsert", "remove"} => rest = {}
        BY <1>1 DEF next
      <3>2. next \in {"upsert", "upserted", "remove", "removed"}
        BY <1>1 DEF next
      <3>3. Batching(c)
        OBVIOUS
      <3>4. QED
        BY <1>1, <1>2, <2>1, <2>2, <2>3, <2>5, <3>1, <3>3 DEF Batching, Wishing, Syncing
    <2>8. \A d \in Calls : d # c => Hosting(d)' /\ Batching(d)' /\ Purposeful(d)'
      <3>1. \A q \in Procs : Range(mail[q]) \ {c} \subseteq Range(mail'[q])
        BY <1>2
      <3>2. QED
        BY <1>1, <1>2, <1>3, <2>1, <2>3, <3>1, OthersStay
    <2>9. Purposeful(c)'
      <3> SUFFICES ASSUME goal[c] # NoGoal PROVE Purposeful(c)'
        BY <2>1 DEF Purposeful
      <3>1. /\ \A d \in Calls : Running(d) <=> d = c
            /\ options[Proc(c)] = goal[c].redis.options
            /\ sound /\ wishes = {wish} /\ Stage(c)
        BY <1>1 DEF Purposeful
      <3>2. \A d \in Calls : Running(d)' <=> d = c
        BY <2>2, <2>3, <2>5, <3>1 DEF Running
      <3>3. Wishing(c)'
        BY <1>1, <2>2, <2>3 DEF Wishing, next
      <3>4. Stage(c)'
        <4>1. call[c].at # "ask"
          BY <1>1
        <4>2. QED
          BY <1>1, <1>2, <2>1, <2>2, <2>3, <2>5, <3>1, <4>1 DEF Stage, Proc
      <3>5. QED
        BY <1>2, <2>1, <2>2, <2>3, <3>1, <3>2, <3>3, <3>4 DEF Purposeful, Proc
    <2>10. Owing'
      <3> SUFFICES ASSUME sound', NEW l \in Keys, ~Granted(l)'
                   PROVE  /\ \E d \in Calls : Syncing(d)'
                          /\ \A d \in Calls : Syncing(d)' => Owes(d, l)'
        BY DEF Owing
      <3>1. l # k /\ ~Granted(l) /\ sound
        BY <1>2, <1>4, <1>5
      <3>2. \A d \in Calls : Syncing(d) => Owes(d, l)
        BY <3>1 DEF Owing
      <3>3. \A d \in Calls : d # c => (Syncing(d)' <=> Syncing(d)) /\ (Owes(d, l) => Owes(d, l)')
        BY <1>1, <2>3, <3>1 DEF Syncing, Owes
      <3>4. Owes(c, l)'
        <4>1. Owes(c, l)
          BY <1>1, <3>2
        <4>2. CASE call[c].at = "upsert" /\ rest # {}
          BY <2>2, <2>3, <3>1, <4>1, <4>2 DEF Owes, next
        <4>3. CASE call[c].at = "upsert" /\ rest = {}
          BY <2>2, <2>3, <3>1, <4>1, <4>3 DEF Owes, next
        <4>4. CASE call[c].at = "remove"
          BY <2>2, <2>3, <3>1, <4>1, <4>4 DEF Owes, next
        <4>5. QED
          BY <1>1, <4>2, <4>3, <4>4
      <3>5. Syncing(c)'
        BY <2>2, <2>3, <2>5 DEF Syncing
      <3>6. QED
        BY <3>2, <3>3, <3>4, <3>5
    <2>11. QED
      BY <2>4, <2>6, <2>7, <2>8, <2>9, <2>10
  <1>8. QED
    BY <1>6, <1>7

\* The synchronization is complete: every key is as it wants it, if it is the
\* only one, and the list is what was to be assigned or restored.
LEMMA ResumeKeeps ==
    ASSUME TInv, NEW c \in Calls, Resume(c)
    PROVE  TInv'
  <1> DEFINE p  == Proc(c)
             ts == IF call[c].then \in {"assign", "restore"} THEN call[c].list
                   ELSE triggers[p]
  <1> USE DEF TInv
  <1>1. /\ call[c].at = "removed" /\ Syncing(c) /\ Running(c) /\ Wishing(c)
        /\ p \in Procs /\ p \in up
        /\ triggers' = [triggers EXCEPT ![p] = ts]
        /\ UNCHANGED <<up, owed, options, wire, schedulers, asked, wishes, sound, calls, faults>>
    BY CallParts DEF Resume, Hosting, Syncing, Running, Wishing, life, redis, bounds
  <1>2. ts \in MayList
    BY <1>1, CallParts DEF TypeOK
  <1>3. triggers' \in [Procs -> MayList] /\ triggers'[p] = ts
    BY <1>1, <1>2 DEF TypeOK
  <1>4. \A q \in Procs : Range(wire[q]) \ {c} \subseteq Range(wire'[q])
    BY <1>1
  <1>5. ASSUME \A d \in Calls : d # c => call'[d] = call[d] PROVE Owing'
    <2>1. \A k \in Keys : ~Owes(c, k)
      BY <1>1 DEF Owes
    <2>2. QED
      BY <1>1, <1>5, <2>1, OwingGoesOn
  <1>6. CASE call[c].then = "end"
    <2>1. End(c) /\ mail' = mail
      BY <1>6 DEF Resume
    <2>2. /\ call' \in [Calls -> Call] /\ goal' \in [Calls -> Goal]
          /\ \A d \in Calls : d # c => call'[d] = call[d]
      BY <2>1, Ending
    <2>3. TypeOK'
      BY <1>1, <1>3, <2>1, <2>2 DEF TypeOK
    <2>4. \A q \in Procs : Range(mail[q]) \ {c} \subseteq Range(mail'[q])
      BY <2>1
    <2>5. QED
      BY <1>1, <1>4, <1>5, <2>1, <2>2, <2>3, <2>4, EndKeeps
  <1>7. CASE call[c].then # "end"
    <2> DEFINE to == IF call[c].then = "restore"
                     THEN [Idle EXCEPT !.at = "ask", !.proc = p, !.then = "stop"]
                     ELSE [Ask(ts) EXCEPT !.proc = p]
    <2>1. Go(c, to) /\ Post(c, p) /\ UNCHANGED goal
      BY <1>7 DEF Resume
    <2>2. /\ to \in Call /\ to.at = "ask" /\ to.proc = p /\ to.batch = {} /\ ~to.rejected
          /\ call[c].then = "restore" => to.then = "stop" /\ to.subs = {}
          /\ call[c].then # "restore" => to.then = "end" /\ to.subs = Subscriptions(ts)
      <3>1. CASE call[c].then = "restore"
        BY <1>1, <3>1, Blank DEF Call
      <3>2. CASE call[c].then # "restore"
        <4> DEFINE asking == Ask(ts)
        <4>1. /\ asking \in Call /\ asking.at = "ask" /\ asking.subs = Subscriptions(ts)
              /\ asking.then = "end" /\ asking.batch = {} /\ ~asking.rejected
          BY <1>2, AskType
        <4> HIDE DEF asking, ts
        <4>2. to = [asking EXCEPT !.proc = p]
          BY <3>2 DEF asking
        <4>3. QED
          BY <1>1, <3>2, <4>1, <4>2 DEF Call
      <3>3. QED
        BY <3>1, <3>2
    <2> HIDE DEF to
    <2>3. /\ call' \in [Calls -> Call] /\ call'[c] = to
          /\ \A d \in Calls : d # c => call'[d] = call[d]
      BY <2>1, <2>2, Going
    <2>4. /\ mail' \in [Procs -> Seq(Calls)] /\ c \in Range(mail'[p])
          /\ \A q \in Procs : Range(mail[q]) \subseteq Range(mail'[q])
      BY <1>1, <2>1, Posting
    <2>5. TypeOK'
      BY <1>1, <1>3, <2>1, <2>3, <2>4 DEF TypeOK
    <2>6. Hosting(c)' /\ Batching(c)'
      BY <1>1, <2>2, <2>3, <2>4 DEF Hosting, Batching, Running, Wishing, Proc
    <2>7. \A d \in Calls : d # c => Hosting(d)' /\ Batching(d)' /\ Purposeful(d)'
      BY <1>1, <1>4, <2>1, <2>3, <2>4, OthersStay
    <2>8. Purposeful(c)'
      <3> SUFFICES ASSUME goal[c] # NoGoal PROVE Purposeful(c)'
        BY <2>1 DEF Purposeful
      <3>1. /\ \A d \in Calls : Running(d) <=> d = c
            /\ options[p] = goal[c].redis.options
            /\ sound /\ wishes = {call[c].wish} /\ Stage(c)
        BY <1>1 DEF Purposeful
      <3>2. \A d \in Calls : Running(d)' <=> d = c
        BY <2>2, <2>3, <3>1 DEF Running
      <3>3. CASE call[c].then \in {"request", "assign"}
        <4>1. ts = goal[c].memory /\ goal[c].redis.list = goal[c].memory
          BY <3>1, <3>3 DEF Stage
        <4>2. Stage(c)'
          BY <1>3, <2>1, <2>2, <2>3, <3>3, <4>1 DEF Stage, Wishing, Proc
        <4>3. QED
          BY <1>1, <2>1, <2>2, <2>3, <3>1, <3>2, <4>2 DEF Purposeful, Syncing, Proc
      <3>4. CASE call[c].then = "restore"
        <4>1. /\ ts = goal[c].memory /\ goal[c].redis.list = Empty
              /\ call[c].wish = goal[c].redis
          BY <1>1, <3>1, <3>4 DEF Stage
        <4>2. \A k \in Keys : schedulers[k] = Desired(goal[c].redis, k)
          BY <1>1, <3>1, <4>1, NothingOwed DEF Granted
        <4>3. Stage(c)'
          BY <1>1, <1>3, <2>1, <2>2, <2>3, <3>4, <4>1, <4>2 DEF Stage, Wishing, Proc
        <4>4. QED
          BY <1>1, <2>1, <2>2, <2>3, <3>1, <3>2, <4>3 DEF Purposeful, Syncing, Proc
      <3>5. QED
        BY <1>1, <1>7, <3>1, <3>3, <3>4 DEF Stage
    <2>9. QED
      BY <1>5, <2>3, <2>5, <2>6, <2>7, <2>8
  <1>8. QED
    BY <1>6, <1>7

-----------------------------------------------------------------------------
(* Failures *)

LEMMA Blaming ==
    ASSUME TypeOK, Blame PROVE faults' \in 0..MaxFaults /\ faults' # faults
  BY TriggerAssumption DEF TypeOK, Blame

LEMMA RequestFailsKeeps ==
    ASSUME TInv, NEW c \in Calls, RequestFails(c)
    PROVE  TInv'
  <1> USE DEF TInv
  <1>1. /\ call[c].at = "ask" /\ Running(c) /\ ~Syncing(c) /\ Proc(c) \in Procs
        /\ c \in Range(mail[Proc(c)]) /\ c = Head(mail[Proc(c)])
        /\ mail' = [mail EXCEPT ![Proc(c)] = Tail(@)]
        /\ asked' \in Subscribed /\ faults' \in 0..MaxFaults
        /\ End(c)
        /\ UNCHANGED <<up, owed, triggers, options, wire, schedulers, wishes, sound, calls>>
    BY CallParts, Blaming DEF RequestFails, Hosting, Running, Syncing, life, memory, TypeOK
  <1>2. /\ mail' \in [Procs -> Seq(Calls)]
        /\ \A q \in Procs : Range(mail[q]) \ {c} \subseteq Range(mail'[q])
    BY <1>1, MailArrives
  <1>3. /\ call' \in [Calls -> Call] /\ call'[c] = Idle /\ goal' \in [Calls -> Goal]
        /\ \A d \in Calls : d # c => call'[d] = call[d]
    BY <1>1, Ending
  <1>4. TypeOK'
    BY <1>1, <1>2, <1>3 DEF TypeOK
  <1>5. Owing'
    BY <1>1, <1>3, Blank, OwingStays DEF Syncing
  <1>6. QED
    BY <1>1, <1>2, <1>4, <1>5, EndKeeps

LEMMA ListFailsKeeps ==
    ASSUME TInv, NEW c \in Calls, ListFails(c)
    PROVE  TInv'
  <1> USE DEF TInv
  <1>1. /\ Running(c) /\ Proc(c) \in Procs /\ c \in Range(wire[Proc(c)])
        /\ c = Head(wire[Proc(c)])
        /\ wire' = [wire EXCEPT ![Proc(c)] = Tail(@)]
        /\ faults' \in 0..MaxFaults /\ ~sound' /\ sound' \in BOOLEAN
        /\ End(c)
        /\ UNCHANGED <<up, owed, triggers, options, mail, schedulers, asked, wishes, calls>>
    BY CallParts, Blaming DEF ListFails, Hosting, Running, life, memory, redis
  <1>2. /\ wire' \in [Procs -> Seq(Calls)]
        /\ \A q \in Procs : Range(wire[q]) \ {c} \subseteq Range(wire'[q])
        /\ \A q \in Procs : Range(mail[q]) \ {c} \subseteq Range(mail'[q])
    BY <1>1, WireArrives
  <1>3. call' \in [Calls -> Call] /\ goal' \in [Calls -> Goal]
    BY <1>1, Ending
  <1>4. TypeOK' /\ Owing'
    BY <1>1, <1>2, <1>3 DEF TypeOK, Owing
  <1>5. QED
    BY <1>1, <1>2, <1>4, EndKeeps

LEMMA CommandFailsKeeps ==
    ASSUME TInv, NEW c \in Calls, CommandFails(c)
    PROVE  TInv'
  <1> USE DEF TInv
  <1>0. PICK k \in call[c].batch :
           LET rest == call[c].batch \ {k}
           IN  /\ c = Head(wire[Proc(c)])
               /\ Blame
               /\ Execute(c, k) \/ UNCHANGED schedulers
               /\ IF rest = {}
                  THEN /\ End(c)
                       /\ wire' = [wire EXCEPT ![Proc(c)] = Tail(@)]
                  ELSE /\ Go(c, [call[c] EXCEPT !.batch = rest, !.rejected = TRUE])
                       /\ goal' = [goal EXCEPT ![c] = NoGoal]
                       /\ UNCHANGED wire
               /\ sound' = FALSE
               /\ UNCHANGED <<life, memory, mail, asked, wishes, calls>>
    BY DEF CommandFails
  <1> DEFINE rest == call[c].batch \ {k}
             to   == [call[c] EXCEPT !.batch = rest, !.rejected = TRUE]
  <1>1. call[c].at \in {"upsert", "remove"} /\ Syncing(c) /\ Running(c)
    BY CallParts DEF Batching, Syncing, Running
  <1>2. schedulers' \in [Keys -> (Repeats \X Options) \cup {NoScheduler}]
    BY <1>0, Executing DEF TypeOK
  <1>3. /\ Proc(c) \in Procs /\ Proc(c) \in up /\ c \in Range(wire[Proc(c)])
        /\ faults' \in 0..MaxFaults /\ ~sound' /\ sound' \in BOOLEAN
        /\ UNCHANGED <<up, owed, triggers, options, mail, asked, wishes, calls>>
    BY <1>0, <1>1, CallParts, Blaming DEF Hosting, life, memory
  <1>4. Owing' /\ \A q \in Procs : Range(mail[q]) \ {c} \subseteq Range(mail'[q])
    BY <1>3 DEF Owing
  <1>5. CASE rest = {}
    <2>1. End(c) /\ wire' = [wire EXCEPT ![Proc(c)] = Tail(@)] /\ c = Head(wire[Proc(c)])
      BY <1>0, <1>5
    <2>2. /\ wire' \in [Procs -> Seq(Calls)]
          /\ \A q \in Procs : Range(wire[q]) \ {c} \subseteq Range(wire'[q])
      BY <1>3, <2>1, WireArrives
    <2>3. call' \in [Calls -> Call] /\ goal' \in [Calls -> Goal]
      BY <2>1, Ending
    <2>4. TypeOK'
      BY <1>2, <1>3, <2>2, <2>3 DEF TypeOK
    <2>5. QED
      BY <1>1, <1>3, <1>4, <2>1, <2>2, <2>4, EndKeeps
  <1>6. CASE rest # {}
    <2>1. Go(c, to) /\ goal' = [goal EXCEPT ![c] = NoGoal] /\ UNCHANGED wire
      BY <1>0, <1>6
    <2>2. /\ to \in Call /\ to.at = call[c].at /\ to.batch = rest
          /\ to.proc = Proc(c) /\ to.wish = call[c].wish /\ to.rejected
      BY CallParts DEF Call, Proc
    <2> HIDE DEF to
    <2>3. /\ call' \in [Calls -> Call] /\ call'[c] = to
          /\ \A d \in Calls : d # c => call'[d] = call[d]
      BY <2>1, <2>2, Going
    <2>4. /\ goal' \in [Calls -> Goal] /\ goal'[c] = NoGoal
          /\ \A d \in Calls : d # c => goal'[d] = goal[d]
      BY <2>1, Blank DEF TypeOK
    <2>5. TypeOK'
      BY <1>2, <1>3, <2>1, <2>3, <2>4 DEF TypeOK
    <2>6. Hosting(c)'
      BY <1>1, <1>3, <2>1, <2>2, <2>3 DEF Hosting, Running, Proc
    <2>7. Batching(c)'
      BY <1>1, <1>3, <2>2, <2>3, <2>4 DEF Batching, Wishing, Syncing
    <2>8. Purposeful(c)'
      BY <2>4, AimlessIsPurposeful
    <2>9. \A d \in Calls : d # c => Hosting(d)' /\ Batching(d)' /\ Purposeful(d)'
      <3>1. \A q \in Procs : Range(wire[q]) \ {c} \subseteq Range(wire'[q])
        BY <2>1
      <3>2. QED
        BY <1>1, <1>3, <1>4, <2>3, <2>4, <3>1, OthersStay
    <2>10. QED
      BY <1>4, <2>5, <2>6, <2>7, <2>8, <2>9
  <1>7. QED
    BY <1>5, <1>6

-----------------------------------------------------------------------------
(* The theorems *)

LEMMA TInvNext == TInv /\ [Next]_vars => TInv'
  <1> SUFFICES ASSUME TInv, [Next]_vars PROVE TInv'
    OBVIOUS
  <1>1. ASSUME NEW p \in Procs, Start(p) \/ Stop(p) PROVE TInv'
    BY <1>1, StartKeeps, StopKeeps
  <1>2. ASSUME NEW c \in Calls, NEW p \in Procs,
               Ready(c, p) \/ Update(c, p) \/ RemoveAllTriggers(c, p)
        PROVE  TInv'
    BY <1>2, ReadyKeeps, UpdateKeeps, RemoveAllKeeps
  <1>3. ASSUME NEW c \in Calls, Step(c) PROVE TInv'
    BY <1>3, AskedKeeps, ListedKeeps, UpsertKeeps, RemoveObsoleteKeeps, ExecutedKeeps,
       ResumeKeeps DEF Step
  <1>4. ASSUME NEW c \in Calls, Fail(c) PROVE TInv'
    BY <1>4, RequestFailsKeeps, ListFailsKeeps, CommandFailsKeeps DEF Fail
  <1>5. CASE UNCHANGED vars
    <2>1. UNCHANGED <<up, owed, triggers, options, call, mail, wire, schedulers, asked,
                      wishes, sound, goal, calls, faults>>
      BY <1>5 DEF vars, life, memory, sent, redis, ghost, bounds
    <2>2. TypeOK'
      BY <2>1 DEF TInv, TypeOK
    <2>3. ASSUME NEW c \in Calls PROVE Hosting(c)' /\ Batching(c)' /\ Purposeful(c)'
      BY <2>1, <2>3 DEF TInv, Hosting, Batching, Purposeful, Stage, Running, Syncing, Wishing,
         Proc
    <2>4. Owing'
      BY <2>1, OwingStays DEF Syncing
    <2>5. QED
      BY <2>2, <2>3, <2>4 DEF TInv
  <1>6. QED
    BY <1>1, <1>2, <1>3, <1>4, <1>5 DEF Next

\* The invariant holds in every state.
LEMMA TInvHolds == Spec => []TInv
  BY TInvInit, TInvNext, PTL DEF Spec

\* The variables keep their types.
THEOREM TypeCorrect == Spec => []TypeOK
  <1>1. TInv => TypeOK
    BY DEF TInv
  <1>2. QED
    BY <1>1, TInvHolds, PTL

\* However many synchronizations of one task overlap, in one process or in
\* several: when they are over and none failed, every key is as one of them
\* wanted it (base-task.ts:238-342), because each of them upserts or removes
\* every key that no other has touched.
THEOREM SyncsAgree == Spec => []SyncBetween
  <1>1. TInv => SyncBetween
    <2> SUFFICES ASSUME TInv, NobodySyncs, sound, wishes # {}, NEW k \in Keys
                 PROVE  schedulers[k] \in {Desired(w, k) : w \in wishes}
      BY DEF SyncBetween
    <2>1. Granted(k)
      BY DEF TInv, Owing, NobodySyncs
    <2>2. QED
      BY <2>1 DEF Granted
  <1>2. QED
    BY <1>1, TInvHolds, PTL

\* A call that runs alone and is not rejected leaves list, schedulers and
\* requested subscriptions as it says (base-task.ts:124, 217-232, 396-461), whatever
\* Redis held before.
THEOREM CallsAchieve == Spec => CallAchieves
  <1> DEFINE Done(c) ==
          LET aim == goal[c].redis
          IN  goal[c] # NoGoal /\ call'[c].at = "idle" /\ faults' = faults =>
                  /\ triggers'[Proc(c)] = goal[c].memory
                  /\ \A k \in Keys : schedulers'[k] = Desired(aim, k)
                  /\ asked' = Subscriptions(aim.list)
  <1>1. ASSUME TInv, [Next]_vars, NEW c \in Calls PROVE Done(c)
    <2> SUFFICES ASSUME goal[c] # NoGoal, call'[c].at = "idle", faults' = faults
                 PROVE  /\ triggers'[Proc(c)] = goal[c].memory
                        /\ \A k \in Keys : schedulers'[k] = Desired(goal[c].redis, k)
                        /\ asked' = Subscriptions(goal[c].redis.list)
      OBVIOUS
    <2> USE DEF TInv
    <2>1. TypeOK /\ Running(c) /\ \A d \in Calls : Running(d) => d = c
      BY <1>1 DEF Purposeful
    <2>2. call'[c] # call[c] /\ faults \in Nat
      BY <2>1, TriggerAssumption DEF Running, TypeOK
    <2>3. ~UNCHANGED vars
      BY <2>2 DEF vars
    <2>4. ASSUME NEW p \in Procs, Start(p) \/ Stop(p) PROVE FALSE
      <3>1. CASE Start(p)
        BY <2>2, <3>1 DEF Start
      <3>2. CASE Stop(p)
        BY <2>1, <2>2, <3>2 DEF Stop, Blame, TypeOK
      <3>3. QED
        BY <2>4, <3>1, <3>2
    <2>5. ASSUME NEW d \in Calls, NEW p \in Procs,
                 Ready(d, p) \/ Update(d, p) \/ RemoveAllTriggers(d, p)
          PROVE  FALSE
      <3>1. PICK new, reached : Launch(d, p, new, reached)
        BY <2>5 DEF Ready, Update, UpdateOptions, UpdateTriggers, RemoveAllTriggers
      <3>2. d # c
        BY <2>1, <3>1 DEF Launch
      <3>3. call'[c] = call[c]
        BY <2>1, <3>1, <3>2 DEF Launch, TypeOK
      <3>4. QED
        BY <2>2, <3>3
    <2>6. ASSUME NEW d \in Calls, Fail(d) PROVE FALSE
      <3>1. Blame
        BY <2>6 DEF Fail, RequestFails, ListFails, CommandFails
      <3>2. QED
        BY <2>1, <3>1, Blaming
    <2>7. PICK d \in Calls : Step(d)
      BY <1>1, <2>3, <2>4, <2>5, <2>6 DEF Next
    <2>8. Running(d)
      <3>1. CASE Executed(d)
        BY <3>1, <1>1 DEF Executed, Batching, Running
      <3>2. CASE ~Executed(d)
        BY <2>7, <3>2 DEF Step, Asked, Listed, Upsert, RemoveObsolete, Resume, Running
      <3>3. QED
        BY <3>1, <3>2
    <2>9. d = c /\ Step(c)
      BY <2>1, <2>7, <2>8
    <2>10. CASE Asked(c)
      <3>1. call[c].at = "ask" /\ asked' = call[c].subs
            /\ UNCHANGED <<triggers, schedulers>>
        BY <2>10 DEF Asked, memory
      <3>2. call[c].then = "stop"
        <4> SUFFICES ASSUME call[c].then # "stop" PROVE FALSE
          OBVIOUS
        <4>1. Go(c, [call[c] EXCEPT !.at = "list", !.subs = {}])
          BY <2>10 DEF Asked
        <4>2. call'[c].at = "list"
          BY <2>1, <4>1 DEF Go, TypeOK, Call
        <4>3. QED
          BY <4>2
      <3>3. QED
        BY <1>1, <3>1, <3>2, EmptySubscribes DEF Purposeful, Stage
    <2>11. CASE Resume(c)
      <3>1. call[c].at = "removed" /\ UNCHANGED <<schedulers, asked>>
        BY <2>11 DEF Resume, redis
      <3>2. call[c].then = "end"
        <4> SUFFICES ASSUME call[c].then # "end" PROVE FALSE
          OBVIOUS
        <4>1. PICK to : to.at = "ask" /\ Go(c, to)
          <5>1. CASE call[c].then = "restore"
            BY <2>11, <5>1, Blank DEF Resume, Call
          <5>2. CASE call[c].then # "restore"
            <6>1. PICK ts : Go(c, [Ask(ts) EXCEPT !.proc = Proc(c)])
              BY <2>11, <5>2 DEF Resume
            <6>2. [Ask(ts) EXCEPT !.proc = Proc(c)].at = "ask"
              BY DEF Ask, Idle
            <6>3. QED
              BY <6>1, <6>2
          <5>3. QED
            BY <5>1, <5>2
        <4>2. QED
          BY <2>1, <4>1 DEF Go, TypeOK
      <3>3. /\ sound /\ wishes = {call[c].wish} /\ Stage(c) /\ Proc(c) \in Procs
        BY <1>1, <2>1, <3>1, CallParts DEF Purposeful, Syncing, Wishing
      <3>4. triggers'[Proc(c)] = triggers[Proc(c)]
        BY <2>1, <2>11, <3>2, <3>3 DEF Resume, TypeOK
      <3>5. /\ triggers[Proc(c)] = goal[c].memory /\ call[c].wish = goal[c].redis
            /\ asked = Subscriptions(goal[c].redis.list)
        BY <3>1, <3>2, <3>3 DEF Stage, Wishing
      <3>6. \A k \in Keys : schedulers[k] = Desired(goal[c].redis, k)
        BY <1>1, <3>1, <3>3, <3>5, NothingOwed DEF Granted
      <3>7. QED
        BY <3>1, <3>4, <3>5, <3>6
    <2>12. CASE Listed(c) \/ Upsert(c) \/ RemoveObsolete(c)
      <3>1. PICK to \in Call : to.at # "idle" /\ Go(c, to)
        <4>1. CASE Listed(c)
          BY <2>1, <4>1, CallParts DEF Listed, Call
        <4>2. CASE Upsert(c)
          <5>1. Aim(Proc(c)) \in Wish /\ DesiredKeys(Aim(Proc(c))) \in SUBSET Keys
            BY <2>1, CallParts, AimType DEF DesiredKeys
          <5>2. QED
            BY <2>1, <4>2, <5>1, CallParts DEF Upsert, Dispatch, Call
        <4>3. CASE RemoveObsolete(c)
          BY <2>1, <4>3, CallParts DEF RemoveObsolete, Dispatch, Call
        <4>4. QED
          BY <2>12, <4>1, <4>2, <4>3
      <3>2. QED
        BY <2>1, <3>1, Going
    <2>13. CASE Executed(c)
      <3>1. ~call[c].rejected
        BY <1>1 DEF Batching
      <3>2. PICK k \in call[c].batch :
              LET rest == call[c].batch \ {k}
              IN  Go(c, [call[c] EXCEPT !.batch = rest, !.at =
                            IF rest # {} THEN call[c].at
                            ELSE IF call[c].at = "upsert" THEN "upserted" ELSE "removed"])
        BY <2>13, <3>1 DEF Executed
      <3>3. call'[c].at # "idle"
        BY <2>1, <3>2 DEF Go, TypeOK, Call, Running
      <3>4. QED
        BY <3>3
    <2>14. QED
      BY <2>9, <2>10, <2>11, <2>12, <2>13 DEF Step
  <1>2. TInv /\ [Next]_vars => [\A c \in Calls : Done(c)]_vars
    BY <1>1
  <1>3. QED
    BY <1>2, TInvHolds, PTL DEF Spec, CallAchieves
=============================================================================
