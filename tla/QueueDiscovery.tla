--------------------------- MODULE QueueDiscovery ---------------------------
(***************************************************************************)
(* The queue discovery of one client: startQueueDiscovery and              *)
(* stopQueueDiscovery of client.ts, and the handler of keyspace            *)
(* notifications between them.                                             *)
(*                                                                         *)
(* A start opens a connection, subscribes, and scans for the queues there  *)
(* are; only then does it listen.  It reads this._queueDiscoverySubscriber *)
(* anew after every await, and isQueueDiscoveryActive, which keeps a       *)
(* second start away, is set at its very end.  A stop clears it at its     *)
(* very end.  (The constructor starts discovery when it is enabled, close  *)
(* stops it, and users call both.)                                         *)
(*                                                                         *)
(* A step is the code between two awaits, one key read by a scan, one      *)
(* notification, or one thing that happens in Redis.  Redis answers a      *)
(* command in the step that executes it; what it sends over a connection   *)
(* keeps its order.  A connection that is cut off reconnects, subscribes   *)
(* again and repeats commands, as ioredis does.                            *)
(***************************************************************************)
EXTENDS Naturals, Sequences

CONSTANTS
    Queues,      \* the names of queues
    Calls,       \* bound: calls under way at one time, numbered
    MaxStarts,   \* bound: connections that are opened
    MaxChanges,  \* bound: queues created and removed
    MaxFaults    \* bound: connections cut off and commands that fail

Conns == 1..MaxStarts
None  == 0

ASSUME DiscoveryAssumption ==
    /\ Calls \subseteq Nat
    /\ {MaxStarts, MaxChanges, MaxFaults} \subseteq Nat

VARIABLES
    queues,      \* the queues whose meta key exists
    conn,        \* the state of each connection
    inbox,       \* the notifications on their way over it
    line,        \* the calls whose command is on its way over it
    listening,   \* the connections with a pmessage handler
    subscriber,  \* _queueDiscoverySubscriber
    active,      \* _isQueueDiscoveryActive
    known,       \* _knownQueues
    call,        \* what each call does
    opened,      \* connections opened so far
    tangled,     \* calls have overlapped since the last stop that ran alone
    behind,      \* the queues whose latest change went unheard
    changes,
    faults

redis  == <<queues, changes>>
sent   == <<conn, inbox, line>>
client == <<listening, subscriber, active, known>>
ghost  == <<tangled, behind>>
vars   == <<redis, sent, client, call, opened, ghost, faults>>

\* A call: the await it is at, the connection it waits for, and the keys its
\* scan has read and found.
Idle == [at |-> "idle", on |-> None, read |-> {}, found |-> {}]
Call == [at : {"idle", "config", "psubscribe", "scan", "punsubscribe", "quit"},
         on : Conns \cup {None}, read : SUBSET Queues, found : SUBSET Queues]

Notice == Queues \X {"hset", "del"}

\* The one type invariant of the module.
TypeOK ==
    /\ queues \in SUBSET Queues
    /\ conn \in [Conns -> {"unused", "open", "subscribed", "cut", "closed"}]
    /\ inbox \in [Conns -> Seq(Notice)]
    /\ line \in [Conns -> Seq(Calls)]
    /\ listening \in SUBSET Conns
    /\ subscriber \in Conns \cup {None}
    /\ active \in BOOLEAN
    /\ active => subscriber # None
    /\ known \in SUBSET Queues
    /\ call \in [Calls -> Call]
    /\ opened \in 0..MaxStarts
    /\ tangled \in BOOLEAN
    /\ behind \in SUBSET Queues
    /\ changes \in 0..MaxChanges
    /\ faults \in 0..MaxFaults

Init ==
    /\ queues \in SUBSET Queues
    /\ conn = [n \in Conns |-> "unused"]
    /\ inbox = [n \in Conns |-> <<>>]
    /\ line = [n \in Conns |-> <<>>]
    /\ listening = {}
    /\ subscriber = None
    /\ active = FALSE
    /\ known = {}
    /\ call = [c \in Calls |-> Idle]
    /\ opened = 0
    /\ tangled = FALSE
    /\ behind = {}
    /\ changes = 0
    /\ faults = 0

----------------------------------------------------------------------------
(* Calls and connections *)

Running(c) == call[c].at # "idle"
NoCall     == \A c \in Calls : ~Running(c)
Blame      == faults < MaxFaults /\ faults' = faults + 1

\* (A call takes the first free number.)
Free(c)    == ~Running(c) /\ \A d \in Calls : d < c => Running(d)

Go(c, at, n) == call' = [call EXCEPT ![c] = [Idle EXCEPT !.at = at, !.on = n]]
End(c)       == call' = [call EXCEPT ![c] = Idle]

\* Call c takes the answer to its command from the line of its connection,
\* after the notifications Redis sent before.
Taken(c) == [line EXCEPT ![call[c].on] = Tail(@)]
Due(c, at) ==
    /\ call[c].at = at
    /\ line[call[c].on] # <<>>
    /\ c = Head(line[call[c].on])
Answered(c, at) ==
    /\ Due(c, at)
    /\ conn[call[c].on] \notin {"cut", "closed"}
    /\ inbox[call[c].on] = <<>>

\* Its next command goes to the subscriber of now; without one it throws.
Proceed(c, at) ==
    IF subscriber = None
    THEN End(c) /\ line' = Taken(c)
    ELSE /\ Go(c, at, subscriber)
         /\ line' = [Taken(c) EXCEPT ![subscriber] = Append(@, c)]

----------------------------------------------------------------------------
(* startQueueDiscovery *)

\* Slip: a start does not look whether discovery is active.
BeginStartUnguarded(c) ==
    /\ Free(c)
    /\ opened < MaxStarts
    /\ opened' = opened + 1
    /\ conn' = [conn EXCEPT ![opened'] = "open"]
    /\ subscriber' = opened'
    /\ Go(c, "config", opened')
    /\ line' = [line EXCEPT ![opened'] = <<c>>]
    /\ tangled' = (tangled \/ ~NoCall)
    /\ behind' = IF NoCall THEN {} ELSE behind
    /\ UNCHANGED <<redis, inbox, listening, active, known, faults>>

\* The new connection takes the place of the one another start may have opened.
BeginStart(c) ==
    /\ ~active
    /\ Free(c)
    /\ opened < MaxStarts
    /\ opened' = opened + 1
    /\ conn' = [conn EXCEPT ![opened'] = "open"]
    /\ subscriber' = opened'
    /\ Go(c, "config", opened')
    /\ line' = [line EXCEPT ![opened'] = <<c>>]
    /\ tangled' = (tangled \/ ~NoCall)
    /\ behind' = IF NoCall THEN {} ELSE behind
    /\ UNCHANGED <<redis, inbox, listening, active, known, faults>>

\* Notifications are switched on.
Configured(c) ==
    /\ Answered(c, "config")
    /\ Proceed(c, "psubscribe")
    /\ UNCHANGED <<redis, conn, inbox, client, opened, ghost, faults>>

\* From here on Redis notifies, and nobody listens yet.
Subscribed(c) ==
    /\ Answered(c, "psubscribe")
    /\ conn' = [conn EXCEPT ![call[c].on] = "subscribed"]
    /\ call' = [call EXCEPT ![c].at = "scan"]
    /\ line' = Taken(c)
    /\ UNCHANGED <<redis, inbox, client, opened, ghost, faults>>

\* getAllQueueNames reads one key, over the client's main connection.
ScanReads(c, q) ==
    /\ call[c].at = "scan"
    /\ q \notin call[c].read
    /\ call' = [call EXCEPT ![c].read = @ \cup {q}, ![c].found = @ \cup ({q} \cap queues)]
    /\ behind' = behind \ {q}
    /\ UNCHANGED <<redis, sent, client, opened, tangled, faults>>

\* Slip: the handler goes to the connection the start has subscribed on.
FinishStartOnOwn(c) ==
    /\ call[c].at = "scan"
    /\ call[c].read = Queues
    /\ known' = known \cup call[c].found
    /\ listening' = listening \cup {call[c].on}
    /\ active' = TRUE
    /\ End(c)
    /\ UNCHANGED <<redis, sent, subscriber, opened, ghost, faults>>

\* The scan is complete: its names are known, whatever changed meanwhile, and
\* the handler is attached to the connection of now, if there is one.
FinishStart(c) ==
    /\ call[c].at = "scan"
    /\ call[c].read = Queues
    /\ known' = known \cup call[c].found
    /\ IF subscriber = None THEN UNCHANGED <<listening, active>>
       ELSE listening' = listening \cup {subscriber} /\ active' = TRUE
    /\ End(c)
    /\ UNCHANGED <<redis, sent, subscriber, opened, ghost, faults>>

----------------------------------------------------------------------------
(* stopQueueDiscovery *)

\* (While discovery is active there is a subscriber: see TypeOK.)
BeginStop(c) ==
    /\ active
    /\ Free(c)
    /\ Go(c, "punsubscribe", subscriber)
    /\ line' = [line EXCEPT ![subscriber] = Append(@, c)]
    /\ tangled' = (tangled \/ ~NoCall)
    /\ UNCHANGED <<redis, conn, inbox, client, opened, behind, faults>>

Unsubscribed(c) ==
    /\ Answered(c, "punsubscribe")
    /\ conn' = [conn EXCEPT ![call[c].on] = "open"]
    /\ Proceed(c, "quit")
    /\ UNCHANGED <<redis, inbox, client, opened, ghost, faults>>

\* Slip: the known queues outlive the stop.
QuitKeepingKnown(c) ==
    /\ Answered(c, "quit")
    /\ conn' = [conn EXCEPT ![call[c].on] = "closed"]
    /\ subscriber' = None
    /\ active' = FALSE
    /\ End(c)
    /\ line' = Taken(c)
    /\ tangled' = \E d \in Calls \ {c} : Running(d)
    /\ UNCHANGED <<redis, inbox, listening, known, opened, behind, faults>>

\* The connection is closed, and forgotten whichever it is by now.
Quit(c) ==
    /\ Answered(c, "quit")
    /\ conn' = [conn EXCEPT ![call[c].on] = "closed"]
    /\ subscriber' = None
    /\ active' = FALSE
    /\ known' = {}
    /\ End(c)
    /\ line' = Taken(c)
    /\ tangled' = \E d \in Calls \ {c} : Running(d)
    /\ UNCHANGED <<redis, inbox, listening, opened, behind, faults>>

----------------------------------------------------------------------------
(* Notifications *)

\* A queue that is constructed writes its meta key; one that is obliterated
\* has it deleted.  While the subscriber is cut off nobody notices.
Publish(q, what) ==
    /\ changes < MaxChanges
    /\ changes' = changes + 1
    /\ inbox' = [n \in Conns |-> IF conn[n] = "subscribed"
                                 THEN Append(inbox[n], <<q, what>>) ELSE inbox[n]]
    /\ behind' = IF subscriber # None /\ conn[subscriber] = "cut"
                 THEN behind \cup {q} ELSE behind
    /\ UNCHANGED <<conn, line, client, call, opened, tangled, faults>>

Create(q) == queues' = queues \cup {q} /\ Publish(q, "hset")
Remove(q) == q \in queues /\ queues' = queues \ {q} /\ Publish(q, "del")

\* The handler of connection n is given a notification.  It emits queueCreated
\* or queueRemoved if that is news.  Without a handler nothing happens.
Notified(n) ==
    LET q    == Head(inbox[n])[1]
        what == Head(inbox[n])[2]
    IN  /\ inbox[n] # <<>>
        /\ inbox' = [inbox EXCEPT ![n] = Tail(@)]
        /\ IF n \in listening
           THEN /\ known' = IF what = "hset" THEN known \cup {q} ELSE known \ {q}
                /\ behind' = behind \ {q}
           ELSE /\ behind' = IF n = subscriber THEN behind \cup {q} ELSE behind
                /\ UNCHANGED known
        /\ UNCHANGED <<redis, conn, line, listening, subscriber, active, call,
                       opened, tangled, faults>>

----------------------------------------------------------------------------
(* Failures *)

Quitting(n) == \E c \in Calls : call[c].at = "quit" /\ call[c].on = n

\* The connection breaks.  One that is quitting is not opened again.
Cut(n) ==
    /\ conn[n] = "subscribed" \/ (Quitting(n) /\ conn[n] = "open")
    /\ Blame
    /\ conn' = [conn EXCEPT ![n] = IF Quitting(n) THEN "closed" ELSE "cut"]
    /\ inbox' = [inbox EXCEPT ![n] = <<>>]
    /\ behind' = IF n # subscriber THEN behind
                 ELSE behind \cup {inbox[n][i][1] : i \in DOMAIN inbox[n]}
    /\ UNCHANGED <<redis, line, client, call, opened, tangled>>

Reconnect(n) ==
    /\ conn[n] = "cut"
    /\ conn' = [conn EXCEPT ![n] = "subscribed"]
    /\ UNCHANGED <<redis, inbox, line, client, call, opened, ghost, faults>>

\* A command on a connection that is closed is rejected, and so is the call.
Refused(c) ==
    /\ \E at \in {"config", "psubscribe", "punsubscribe", "quit"} : Due(c, at)
    /\ conn[call[c].on] = "closed"
    /\ End(c)
    /\ line' = Taken(c)
    /\ UNCHANGED <<redis, conn, inbox, client, opened, ghost, faults>>

\* Redis refuses a command (CONFIG may be forbidden), its retries are used up,
\* or the scan ends with an error.  The connection stays.
CommandFails(c) ==
    /\ \/ \E at \in {"config", "psubscribe", "punsubscribe"} :
              Answered(c, at) /\ line' = Taken(c)
       \/ call[c].at = "scan" /\ UNCHANGED line
    /\ Blame
    /\ End(c)
    /\ UNCHANGED <<redis, conn, inbox, client, opened, ghost>>

----------------------------------------------------------------------------

Next ==
    \/ \E c \in Calls :
           \/ BeginStart(c) \/ Configured(c) \/ Subscribed(c)
           \/ \E q \in Queues : ScanReads(c, q)
           \/ FinishStart(c)
           \/ BeginStop(c) \/ Unsubscribed(c) \/ Quit(c)
           \/ Refused(c) \/ CommandFails(c)
    \/ \E q \in Queues : Create(q) \/ Remove(q)
    \/ \E n \in Conns : Notified(n) \/ Cut(n) \/ Reconnect(n)

Spec == Init /\ [][Next]_vars

----------------------------------------------------------------------------
(* Properties *)

\* Whatever starts and stops overlap: when they have returned and no command
\* failed, discovery is active exactly if there is a subscriber, which is
\* subscribed, or reconnecting, and has the handler.  (client.ts:840-914 reads
\* the subscriber after each of four awaits, stop, 919-944, after two.)
ActiveListens ==
    NoCall /\ faults = 0 =>
        /\ active <=> subscriber # None
        /\ active => subscriber \in listening /\ conn[subscriber] = "subscribed"

\* getKnownQueueNames is what Redis has, once the notifications are read, but
\* for queues whose change nobody heard: between subscription and handler, or
\* while the connection was cut off.  A stop and a start anew leave nothing
\* old behind.  (For a start no other call overlapped: one that is still
\* scanning adds what it found earlier.)
KnownCurrent ==
    active /\ ~tangled /\ conn[subscriber] = "subscribed" /\ inbox[subscriber] = <<>> =>
        known \ behind = queues \ behind

\* After a stop no queueCreated or queueRemoved is emitted, however many
\* connections overlapping starts have opened: only the one that the stop
\* closes has a handler.
SilentAfterStop ==
    [][\A n \in Conns : inbox'[n] # inbox[n] /\ known' # known => active]_vars
=============================================================================
