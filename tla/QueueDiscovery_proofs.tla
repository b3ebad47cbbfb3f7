------------------------ MODULE QueueDiscovery_proofs ------------------------
(***************************************************************************)
(* Theorems about QueueDiscovery, for any queues and any number of calls,  *)
(* connections, changes and faults.                                        *)
(***************************************************************************)
EXTENDS QueueDiscovery, TLAPS

\* A call waits for, or has subscribed on, a connection that was opened.
Placed ==
    \A c \in Calls : IF Running(c) THEN call[c].on \in 1..opened
                                   ELSE call[c].on = None

\* The connections not opened yet are untouched.
Fresh ==
    /\ subscriber <= opened
    /\ \A n \in Conns : n > opened => conn[n] = "unused"

\* Only a connection that is subscribed has notifications on their way.
Hushed == \A n \in Conns : conn[n] # "subscribed" => inbox[n] = <<>>

\* A stop whose connection is not closed has discovery active, and stops the
\* subscriber: no start can have replaced it.
StopsHold ==
    \A c \in Calls :
        call[c].at \in {"punsubscribe", "quit"} /\ conn[call[c].on] # "closed" =>
            active /\ call[c].on = subscriber

\* Of the connections with a handler all but the subscriber are closed.
OneListens ==
    \A n \in listening : conn[n] # "closed" => active /\ n = subscriber

\* A call looks after the subscriber: the start that opened it, on its way to
\* the handler, or the stop that closes it.
Tending(c) ==
    /\ call[c].on = subscriber
    /\ \/ call[c].at \in {"config", "psubscribe", "quit"}
       \/ call[c].at = "scan" /\ conn[subscriber] = "subscribed"

\* The subscriber listens, or some call looks after it.
Tended ==
    subscriber # None /\ faults = 0 =>
        /\ conn[subscriber] # "closed"
        /\ \/ active /\ subscriber \in listening /\ conn[subscriber] = "subscribed"
           \/ \E c \in Calls : Tending(c)

\* The inductive invariant.
DInv ==
    /\ TypeOK
    /\ Placed
    /\ Fresh
    /\ Hushed
    /\ StopsHold
    /\ OneListens
    /\ Tended

-----------------------------------------------------------------------------

LEMMA DInvInit == Init => DInv
  <1> SUFFICES ASSUME Init PROVE DInv
    OBVIOUS
  <1> USE DiscoveryAssumption DEF Init
  <1>1. Idle \in Call /\ Idle.at = "idle" /\ Idle.on = None
    BY DEF Idle, Call
  <1>2. TypeOK
    <2>1. <<>> \in Seq(Notice) /\ <<>> \in Seq(Calls)
      OBVIOUS
    <2>2. 0 \in 0..MaxStarts /\ 0 \in 0..MaxChanges /\ 0 \in 0..MaxFaults
      OBVIOUS
    <2>3. QED
      BY <1>1, <2>1, <2>2 DEF TypeOK, None
  <1>3. Placed /\ Fresh /\ Hushed /\ StopsHold /\ OneListens /\ Tended
    BY <1>1 DEF Placed, Fresh, Hushed, StopsHold, OneListens, Tended, Running, Conns, None
  <1>4. QED
    BY <1>2, <1>3 DEF DInv

\* The parts of what a call does.
LEMMA CallParts ==
    ASSUME TypeOK, NEW c \in Calls
    PROVE  /\ call[c].on \in Conns \cup {None}
           /\ call[c].read \in SUBSET Queues /\ call[c].found \in SUBSET Queues
           /\ opened \in Nat /\ opened \in 0..MaxStarts /\ subscriber \in Nat
  BY DiscoveryAssumption DEF TypeOK, Call, Conns, None

\* What a call does next, when it has sent a command.
LEMMA Going ==
    ASSUME TypeOK, NEW c \in Calls, NEW n \in Conns,
           NEW at \in {"config", "psubscribe", "punsubscribe", "quit"}, Go(c, at, n)
    PROVE  /\ call' \in [Calls -> Call]
           /\ call'[c].at = at /\ call'[c].on = n /\ call'[c].read = {} /\ call'[c].found = {}
           /\ \A d \in Calls : d # c => call'[d] = call[d]
  BY DEF TypeOK, Go, Idle, Call

\* A call that has ended does nothing.
LEMMA Ending ==
    ASSUME TypeOK, NEW c \in Calls, End(c)
    PROVE  /\ call' \in [Calls -> Call]
           /\ call'[c].at = "idle" /\ call'[c].on = None /\ call'[c].read = {} /\ call'[c].found = {}
           /\ \A d \in Calls : d # c => call'[d] = call[d]
  BY DEF TypeOK, End, Idle, Call

\* A line from which an answer is taken is still a line.
LEMMA LineTaken ==
    ASSUME TypeOK, NEW c \in Calls, call[c].on \in Conns, line[call[c].on] # <<>>
    PROVE  Taken(c) \in [Conns -> Seq(Calls)]
  <1>1. Tail(line[call[c].on]) \in Seq(Calls)
    BY DEF TypeOK
  <1>2. QED
    BY <1>1 DEF TypeOK, Taken

\* A call that has been answered ends, or sends its next command.
LEMMA Proceeding ==
    ASSUME TypeOK, NEW c \in Calls, NEW at \in {"psubscribe", "quit"},
           call[c].on \in Conns, line[call[c].on] # <<>>, Proceed(c, at)
    PROVE  /\ line' \in [Conns -> Seq(Calls)]
           /\ call' \in [Calls -> Call]
           /\ \/ subscriber = None /\ call'[c].at = "idle" /\ call'[c].on = None
              \/ subscriber # None /\ call'[c].at = at /\ call'[c].on = subscriber
           /\ call'[c].read = {} /\ call'[c].found = {}
           /\ \A d \in Calls : d # c => call'[d] = call[d]
  <1>1. Taken(c) \in [Conns -> Seq(Calls)]
    BY LineTaken
  <1>2. CASE subscriber = None
    BY <1>1, <1>2, Ending DEF Proceed
  <1>3. CASE subscriber # None
    <2>1. subscriber \in Conns
      BY <1>3 DEF TypeOK
    <2>2. Append(Taken(c)[subscriber], c) \in Seq(Calls)
      BY <1>1, <2>1
    <2>3. line' \in [Conns -> Seq(Calls)]
      BY <1>1, <1>3, <2>1, <2>2 DEF Proceed
    <2>4. QED
      BY <1>3, <2>1, <2>3, Going DEF Proceed
  <1>4. QED
    BY <1>2, <1>3

-----------------------------------------------------------------------------
(* The steps of a start *)

LEMMA BeginStartKeeps ==
    ASSUME DInv, NEW c \in Calls, BeginStart(c)
    PROVE  DInv'
  <1> DEFINE n == opened'
  <1> USE DiscoveryAssumption DEF DInv
  <1>1. /\ n \in Conns /\ n = opened + 1 /\ n # None /\ opened \in Nat
        /\ n \in 1..n /\ n \in 0..MaxStarts
        /\ conn[n] = "unused"
        /\ ~active /\ call[c].on = None
    BY DEF BeginStart, Free, TypeOK, Fresh, Placed, Conns, None
  <1>2. /\ conn' = [conn EXCEPT ![n] = "open"]
        /\ subscriber' = n
        /\ line' = [line EXCEPT ![n] = <<c>>]
        /\ Go(c, "config", n)
        /\ tangled' \in BOOLEAN /\ behind' \in SUBSET Queues
        /\ UNCHANGED <<queues, changes, inbox, listening, active, known, faults>>
    BY DEF BeginStart, redis, TypeOK
  <1>3. /\ call' \in [Calls -> Call]
        /\ call'[c].at = "config" /\ call'[c].on = n
        /\ \A d \in Calls : d # c => call'[d] = call[d]
    BY <1>1, <1>2, Going
  <1>4. TypeOK'
    BY <1>1, <1>2, <1>3 DEF TypeOK
  <1>5. Placed'
    BY <1>1, <1>3 DEF Placed, Running
  <1>6. Fresh'
    BY <1>1, <1>2 DEF TypeOK, Fresh, Conns
  <1>7. Hushed'
    BY <1>1, <1>2 DEF TypeOK, Hushed, Conns
  <1>8. StopsHold'
    <2> SUFFICES ASSUME NEW d \in Calls, call'[d].at \in {"punsubscribe", "quit"},
                        conn'[call'[d].on] # "closed"
                 PROVE  FALSE
      BY DEF StopsHold
    <2>1. d # c /\ call'[d] = call[d] /\ call[d].on \in 1..opened
      BY <1>3 DEF Placed, Running
    <2>2. call[d].on # n /\ conn'[call[d].on] = conn[call[d].on]
      BY <1>1, <1>2, <2>1 DEF TypeOK, Conns
    <2>3. QED
      BY <1>1, <2>1, <2>2 DEF StopsHold
  <1>9. OneListens'
    BY <1>1, <1>2 DEF TypeOK, OneListens
  <1>10. Tended'
    BY <1>1, <1>2, <1>3 DEF TypeOK, Tended, Tending
  <1>11. QED
    BY <1>4, <1>5, <1>6, <1>7, <1>8, <1>9, <1>10

LEMMA ConfiguredKeeps ==
    ASSUME DInv, NEW c \in Calls, Configured(c)
    PROVE  DInv'
  <1> USE DiscoveryAssumption DEF DInv
  <1>1. /\ call[c].at = "config" /\ call[c].on \in Conns
        /\ conn[call[c].on] # "closed" /\ line[call[c].on] # <<>>
        /\ UNCHANGED <<redis, conn, inbox, client, opened, ghost, faults>>
    BY DEF Configured, Answered, Due, TypeOK, Placed, Conns, Running
  <1>2. /\ line' \in [Conns -> Seq(Calls)]
        /\ call' \in [Calls -> Call]
        /\ \/ subscriber = None /\ call'[c].at = "idle" /\ call'[c].on = None
           \/ subscriber # None /\ call'[c].at = "psubscribe" /\ call'[c].on = subscriber
        /\ \A d \in Calls : d # c => call'[d] = call[d]
    BY <1>1, Proceeding DEF Configured
  <1>4. TypeOK'
    BY <1>1, <1>2 DEF TypeOK, redis, client, ghost
  <1>5. Placed'
    <2>1. subscriber # None => subscriber \in 1..opened
      BY CallParts DEF Fresh, None
    <2>2. QED
      BY <1>1, <1>2, <2>1 DEF Placed, Running, client
  <1>6. Fresh' /\ Hushed'
    BY <1>1 DEF Fresh, Hushed, client
  <1>7. StopsHold'
    BY <1>1, <1>2 DEF StopsHold, client
  <1>8. OneListens'
    BY <1>1 DEF OneListens, client
  <1>9. Tended'
    BY <1>1, <1>2 DEF Tended, Tending, client
  <1>10. QED
    BY <1>4, <1>5, <1>6, <1>7, <1>8, <1>9

LEMMA SubscribedKeeps ==
    ASSUME DInv, NEW c \in Calls, Subscribed(c)
    PROVE  DInv'
  <1> DEFINE n == call[c].on
  <1> USE DiscoveryAssumption DEF DInv
  <1>1. /\ call[c].at = "psubscribe" /\ n \in Conns
        /\ conn[n] # "closed" /\ conn[n] # "cut" /\ inbox[n] = <<>> /\ line[n] # <<>>
        /\ conn' = [conn EXCEPT ![n] = "subscribed"]
        /\ UNCHANGED <<redis, inbox, client, opened, ghost, faults>>
    BY DEF Subscribed, Answered, Due, TypeOK, Placed, Conns, Running
  <1>2. line' \in [Conns -> Seq(Calls)]
    BY <1>1, LineTaken DEF Subscribed
  <1>3. /\ call' \in [Calls -> Call]
        /\ call'[c].at = "scan" /\ call'[c].on = n
        /\ \A d \in Calls : d # c => call'[d] = call[d]
    BY DEF Subscribed, TypeOK, Call
  <1>4. TypeOK'
    BY <1>1, <1>2, <1>3 DEF TypeOK, redis, client, ghost
  <1>5. Placed'
    BY <1>1, <1>3 DEF Placed, Running
  <1>6. Fresh'
    <2>1. n <= opened
      BY <1>1, CallParts DEF Placed, Running
    <2>2. opened' = opened /\ subscriber' <= opened
      BY <1>1, CallParts DEF Fresh, client
    <2>3. ASSUME NEW m \in Conns, m > opened PROVE conn'[m] = "unused"
      <3>1. m # n /\ m \in Nat
        BY <1>1, <2>1, <2>3, CallParts DEF Conns
      <3>2. QED
        BY <1>1, <2>3, <3>1 DEF TypeOK, Fresh
    <2>4. QED
      BY <2>2, <2>3 DEF Fresh
  <1>7. Hushed'
    BY <1>1 DEF TypeOK, Hushed
  <1>8. StopsHold'
    <2> SUFFICES ASSUME NEW d \in Calls, call'[d].at \in {"punsubscribe", "quit"},
                        conn'[call'[d].on] # "closed"
                 PROVE  active /\ call'[d].on = subscriber
      BY <1>1 DEF StopsHold, client
    <2>1. CASE d = c
      BY <1>3, <2>1
    <2>2. CASE d # c
      <3>1. call'[d] = call[d] /\ call[d].on \in Conns
        BY <1>3, <2>2, CallParts DEF Placed, Running, Conns
      <3>2. conn[call[d].on] # "closed"
        BY <1>1, <3>1 DEF TypeOK
      <3>3. QED
        BY <3>1, <3>2 DEF StopsHold
    <2>3. QED
      BY <2>1, <2>2
  <1>9. OneListens'
    BY <1>1 DEF TypeOK, OneListens, client
  <1>10. Tended'
    BY <1>1, <1>3 DEF TypeOK, Tended, Tending, client
  <1>11. QED
    BY <1>4, <1>5, <1>6, <1>7, <1>8, <1>9, <1>10

LEMMA ScanReadsKeeps ==
    ASSUME DInv, NEW c \in Calls, NEW q \in Queues, ScanReads(c, q)
    PROVE  DInv'
  <1> USE DiscoveryAssumption DEF DInv
  <1>1. /\ call[c].at = "scan"
        /\ call' \in [Calls -> Call]
        /\ call'[c].at = "scan" /\ call'[c].on = call[c].on
        /\ \A d \in Calls : d # c => call'[d] = call[d]
        /\ behind' \in SUBSET Queues
        /\ UNCHANGED <<redis, sent, client, opened, tangled, faults>>
    <2>1. call \in [Calls -> Call] /\ behind \in SUBSET Queues
      BY DEF TypeOK
    <2>2. /\ call[c].read \cup {q} \in SUBSET Queues
          /\ call[c].found \cup ({q} \cap queues) \in SUBSET Queues
      BY CallParts
    <2>3. /\ call[c].at = "scan"
          /\ call' = [call EXCEPT ![c].read = @ \cup {q},
                                   ![c].found = @ \cup ({q} \cap queues)]
          /\ behind' = behind \ {q}
          /\ UNCHANGED <<redis, sent, client, opened, tangled, faults>>
      BY DEF ScanReads
    <2>4. call' \in [Calls -> Call]
      <3> DEFINE r == [call[c] EXCEPT !.read = @ \cup {q},
                                      !.found = @ \cup ({q} \cap queues)]
      <3>1. call[c] \in Call
        BY <2>1
      <3>2. r \in Call
        BY <2>2, <3>1 DEF Call
      <3>3. call' = [call EXCEPT ![c] = r]
        BY <2>1, <2>3
      <3>4. QED
        BY <2>1, <3>2, <3>3
    <2>5. /\ call'[c].at = "scan" /\ call'[c].on = call[c].on
          /\ \A d \in Calls : d # c => call'[d] = call[d]
      BY <2>1, <2>3 DEF Call
    <2>6. QED
      BY <2>1, <2>3, <2>4, <2>5
  <1>2. TypeOK'
    BY <1>1 DEF TypeOK, redis, sent, client
  <1>3. Placed' /\ Fresh' /\ Hushed' /\ OneListens'
    BY <1>1 DEF Placed, Running, Fresh, Hushed, OneListens, sent, client
  <1>4. StopsHold'
    BY <1>1 DEF StopsHold, sent, client
  <1>5. Tended'
    BY <1>1 DEF Tended, Tending, sent, client
  <1>6. QED
    BY <1>2, <1>3, <1>4, <1>5

LEMMA FinishStartKeeps ==
    ASSUME DInv, NEW c \in Calls, FinishStart(c)
    PROVE  DInv'
  <1> USE DiscoveryAssumption DEF DInv
  <1>1. /\ call[c].at = "scan" /\ call[c].found \in SUBSET Queues
        /\ call' \in [Calls -> Call]
        /\ call'[c].at = "idle" /\ call'[c].on = None
        /\ \A d \in Calls : d # c => call'[d] = call[d]
        /\ known' = known \cup call[c].found
        /\ UNCHANGED <<redis, sent, subscriber, opened, ghost, faults>>
    BY CallParts, Ending DEF FinishStart
  <1>2. IF subscriber = None THEN UNCHANGED <<listening, active>>
        ELSE listening' = listening \cup {subscriber} /\ active' = TRUE
    BY DEF FinishStart
  <1>3. TypeOK'
    BY <1>1, <1>2 DEF TypeOK, redis, sent, ghost
  <1>4. Placed' /\ Fresh' /\ Hushed'
    BY <1>1 DEF TypeOK, Placed, Running, Fresh, Hushed, sent
  <1>5. StopsHold'
    BY <1>1, <1>2 DEF TypeOK, StopsHold, sent
  <1>6. OneListens'
    BY <1>1, <1>2 DEF TypeOK, OneListens, sent
  <1>7. Tended'
    BY <1>1, <1>2 DEF TypeOK, Tended, Tending, sent
  <1>8. QED
    BY <1>3, <1>4, <1>5, <1>6, <1>7

-----------------------------------------------------------------------------
(* The steps of a stop *)

LEMMA BeginStopKeeps ==
    ASSUME DInv, NEW c \in Calls, BeginStop(c)
    PROVE  DInv'
  <1> USE DiscoveryAssumption DEF DInv
  <1>1. /\ call[c].at = "idle" /\ call[c].on = None
        /\ active /\ subscriber \in Conns /\ subscriber # None
        /\ UNCHANGED <<redis, conn, inbox, client, opened, behind, faults>>
    BY DEF BeginStop, Free, Running, TypeOK, Placed
  <1>2. /\ call' \in [Calls -> Call]
        /\ call'[c].at = "punsubscribe" /\ call'[c].on = subscriber
        /\ \A d \in Calls : d # c => call'[d] = call[d]
    BY <1>1, Going DEF BeginStop
  <1>3. TypeOK'
    <2>1. Append(line[subscriber], c) \in Seq(Calls)
      BY <1>1 DEF TypeOK
    <2>2. line' \in [Conns -> Seq(Calls)] /\ tangled' \in BOOLEAN
      BY <1>1, <2>1 DEF TypeOK, BeginStop
    <2>3. QED
      BY <1>1, <1>2, <2>2 DEF TypeOK, redis, client
  <1>4. Placed'
    BY <1>1, <1>2, CallParts DEF Placed, Running, Fresh, Conns, client
  <1>5. Fresh' /\ Hushed'
    BY <1>1 DEF Fresh, Hushed, client
  <1>6. StopsHold' /\ OneListens'
    BY <1>1, <1>2 DEF StopsHold, OneListens, client
  <1>7. Tended'
    BY <1>1, <1>2 DEF Tended, Tending, client
  <1>8. QED
    BY <1>3, <1>4, <1>5, <1>6, <1>7

\* The stop goes on to close the subscriber, which it looks after from here.
LEMMA UnsubscribedKeeps ==
    ASSUME DInv, NEW c \in Calls, Unsubscribed(c)
    PROVE  DInv'
  <1> DEFINE n == call[c].on
  <1> USE DiscoveryAssumption DEF DInv
  <1>1. /\ call[c].at = "punsubscribe" /\ n \in Conns
        /\ conn[n] # "closed" /\ inbox[n] = <<>> /\ line[n] # <<>>
        /\ conn' = [conn EXCEPT ![n] = "open"]
        /\ UNCHANGED <<redis, inbox, client, opened, ghost, faults>>
    BY DEF Unsubscribed, Answered, Due, TypeOK, Placed, Conns, Running
  <1>2. active /\ subscriber = n /\ subscriber # None
    BY <1>1 DEF StopsHold, TypeOK
  <1>3. /\ line' \in [Conns -> Seq(Calls)]
        /\ call' \in [Calls -> Call]
        /\ call'[c].at = "quit" /\ call'[c].on = n
        /\ \A d \in Calls : d # c => call'[d] = call[d]
    BY <1>1, <1>2, Proceeding DEF Unsubscribed
  <1>4. TypeOK'
    BY <1>1, <1>3 DEF TypeOK, redis, client, ghost
  <1>5. Placed'
    BY <1>1, <1>3 DEF Placed, Running
  <1>6. Fresh'
    <2>1. n <= opened
      BY <1>1, CallParts DEF Placed, Running
    <2>2. opened' = opened /\ subscriber' <= opened
      BY <1>1, CallParts DEF Fresh, client
    <2>3. ASSUME NEW m \in Conns, m > opened PROVE conn'[m] = "unused"
      <3>1. m # n /\ m \in Nat
        BY <1>1, <2>1, <2>3, CallParts DEF Conns
      <3>2. QED
        BY <1>1, <2>3, <3>1 DEF TypeOK, Fresh
    <2>4. QED
      BY <2>2, <2>3 DEF Fresh
  <1>7. Hushed'
    BY <1>1 DEF TypeOK, Hushed
  <1>8. StopsHold'
    <2> SUFFICES ASSUME NEW d \in Calls, call'[d].at \in {"punsubscribe", "quit"},
                        conn'[call'[d].on] # "closed"
                 PROVE  active /\ call'[d].on = subscriber
      BY <1>1 DEF StopsHold, client
    <2>1. CASE d = c
      BY <1>2, <1>3, <2>1
    <2>2. CASE d # c
      <3>1. call'[d] = call[d] /\ call[d].on \in Conns
        <4>1. call'[d] = call[d] /\ Running(d)
          BY <1>3, <2>2 DEF Running
        <4>2. QED
          BY <4>1, CallParts DEF Placed, Conns
      <3>2. conn[call[d].on] # "closed"
        BY <1>1, <3>1 DEF TypeOK
      <3>3. QED
        BY <3>1, <3>2 DEF StopsHold
    <2>3. QED
      BY <2>1, <2>2
  <1>9. OneListens'
    BY <1>1, <1>2 DEF TypeOK, OneListens, client
  <1>10. Tended'
    BY <1>1, <1>2, <1>3 DEF TypeOK, Tended, Tending, client
  <1>11. QED
    BY <1>4, <1>5, <1>6, <1>7, <1>8, <1>9, <1>10

\* It closes the one connection whose handler may still be called.
LEMMA QuitKeeps ==
    ASSUME DInv, NEW c \in Calls, Quit(c)
    PROVE  DInv'
  <1> DEFINE n == call[c].on
  <1> USE DiscoveryAssumption DEF DInv
  <1>1. /\ call[c].at = "quit" /\ n \in Conns
        /\ conn[n] # "closed" /\ inbox[n] = <<>> /\ line[n] # <<>>
        /\ conn' = [conn EXCEPT ![n] = "closed"]
        /\ subscriber' = None /\ active' = FALSE /\ known' = {}
        /\ UNCHANGED <<redis, inbox, listening, opened, behind, faults>>
    BY DEF Quit, Answered, Due, TypeOK, Placed, Conns, Running
  <1>2. active /\ subscriber = n
    BY <1>1 DEF StopsHold
  <1>3. /\ line' \in [Conns -> Seq(Calls)]
        /\ call' \in [Calls -> Call]
        /\ call'[c].at = "idle" /\ call'[c].on = None
        /\ \A d \in Calls : d # c => call'[d] = call[d]
    BY <1>1, Ending, LineTaken DEF Quit
  <1>4. TypeOK'
    <2>1. tangled' \in BOOLEAN
      BY DEF Quit
    <2>2. QED
      BY <1>1, <1>3, <2>1 DEF TypeOK, redis
  <1>5. Placed'
    BY <1>1, <1>3 DEF Placed, Running
  <1>6. Fresh'
    <2>1. n <= opened
      BY <1>1, CallParts DEF Placed, Running
    <2>2. opened' = opened /\ subscriber' <= opened
      BY <1>1, CallParts DEF None
    <2>3. ASSUME NEW m \in Conns, m > opened PROVE conn'[m] = "unused"
      <3>1. m # n /\ m \in Nat
        BY <1>1, <2>1, <2>3, CallParts DEF Conns
      <3>2. QED
        BY <1>1, <2>3, <3>1 DEF TypeOK, Fresh
    <2>4. QED
      BY <2>2, <2>3 DEF Fresh
  <1>7. Hushed'
    BY <1>1 DEF TypeOK, Hushed
  <1>8. StopsHold'
    <2> SUFFICES ASSUME NEW d \in Calls, call'[d].at \in {"punsubscribe", "quit"},
                        conn'[call'[d].on] # "closed"
                 PROVE  FALSE
      BY DEF StopsHold
    <2>1. d # c /\ call'[d] = call[d] /\ call[d].on \in Conns
      BY <1>3, CallParts DEF Placed, Running, Conns
    <2>2. call[d].on # n /\ conn'[call[d].on] = conn[call[d].on]
      BY <1>1, <2>1 DEF TypeOK
    <2>3. QED
      BY <1>2, <2>1, <2>2 DEF StopsHold
  <1>9. OneListens'
    BY <1>1, <1>2 DEF TypeOK, OneListens
  <1>10. Tended'
    BY <1>1 DEF Tended
  <1>11. QED
    BY <1>4, <1>5, <1>6, <1>7, <1>8, <1>9, <1>10
-----------------------------------------------------------------------------
(* Redis, notifications and failures *)

LEMMA PublishKeeps ==
    ASSUME DInv, NEW q \in Queues, Create(q) \/ Remove(q)
    PROVE  DInv'
  <1> USE DiscoveryAssumption DEF DInv
  <1>1. PICK what \in {"hset", "del"} : Publish(q, what)
    BY DEF Create, Remove
  <1>2. UNCHANGED <<conn, line, client, call, opened, tangled, faults>>
    BY <1>1 DEF Publish
  <1>3. /\ inbox' \in [Conns -> Seq(Notice)]
        /\ \A n \in Conns : conn[n] # "subscribed" => inbox'[n] = inbox[n]
    <2>1. \A n \in Conns : Append(inbox[n], <<q, what>>) \in Seq(Notice)
      BY DEF TypeOK, Notice
    <2>2. QED
      BY <1>1, <2>1 DEF Publish, TypeOK
  <1>4. TypeOK'
    <2>1. queues' \in SUBSET Queues
      BY DEF Create, Remove, TypeOK
    <2>2. changes' \in 0..MaxChanges /\ behind' \in SUBSET Queues
      BY <1>1 DEF Publish, TypeOK
    <2>3. QED
      BY <1>2, <1>3, <2>1, <2>2 DEF TypeOK, client
  <1>5. Placed' /\ Fresh' /\ StopsHold'
    BY <1>2 DEF Placed, Running, Fresh, StopsHold, client
  <1>6. Hushed'
    BY <1>2, <1>3 DEF Hushed
  <1>7. OneListens' /\ Tended'
    BY <1>2 DEF OneListens, Tended, Tending, client
  <1>8. QED
    BY <1>4, <1>5, <1>6, <1>7

LEMMA NotifiedKeeps ==
    ASSUME DInv, NEW n \in Conns, Notified(n)
    PROVE  DInv'
  <1> USE DiscoveryAssumption DEF DInv
  <1>1. /\ inbox[n] # <<>>
        /\ inbox' = [inbox EXCEPT ![n] = Tail(@)]
        /\ UNCHANGED <<queues, changes, conn, line, listening, subscriber, active,
                       call, opened, tangled, faults>>
    BY DEF Notified, redis
  <1>2. TypeOK'
    <2>1. inbox[n] \in Seq(Notice)
      BY DEF TypeOK
    <2>2. Tail(inbox[n]) \in Seq(Notice) /\ Head(inbox[n]) \in Notice
      BY <1>1, <2>1
    <2>3. inbox' \in [Conns -> Seq(Notice)]
      BY <1>1, <2>2 DEF TypeOK
    <2>4. Head(inbox[n])[1] \in Queues
      BY <2>2 DEF Notice
    <2>5. known' \in SUBSET Queues /\ behind' \in SUBSET Queues
      BY <2>4 DEF Notified, TypeOK
    <2>6. QED
      BY <1>1, <2>3, <2>5 DEF TypeOK
  <1>3. Placed' /\ Fresh' /\ StopsHold'
    BY <1>1 DEF Placed, Running, Fresh, StopsHold
  <1>4. Hushed'
    BY <1>1 DEF TypeOK, Hushed
  <1>5. OneListens' /\ Tended'
    BY <1>1 DEF OneListens, Tended, Tending
  <1>6. QED
    BY <1>2, <1>3, <1>4, <1>5

LEMMA CutKeeps ==
    ASSUME DInv, NEW n \in Conns, Cut(n)
    PROVE  DInv'
  <1> USE DiscoveryAssumption DEF DInv
  <1>1. /\ conn[n] \in {"subscribed", "open"}
        /\ conn' = [conn EXCEPT ![n] = conn'[n]]
        /\ conn'[n] \in {"cut", "closed"}
        /\ inbox' = [inbox EXCEPT ![n] = <<>>]
        /\ UNCHANGED <<redis, line, client, call, opened, tangled>>
    BY DEF Cut, TypeOK
  <1>2. faults' \in 0..MaxFaults /\ faults' # 0
    BY DEF Cut, Blame, TypeOK
  <1>3. TypeOK'
    <2>1. behind' \in SUBSET Queues
      <3>1. inbox[n] \in Seq(Notice)
        BY DEF TypeOK
      <3>2. \A i \in DOMAIN inbox[n] : inbox[n][i] \in Notice
        BY <3>1
      <3>3. {inbox[n][i][1] : i \in DOMAIN inbox[n]} \subseteq Queues
        BY <3>2 DEF Notice
      <3>4. QED
        BY <3>3 DEF Cut, TypeOK
    <2>2. inbox' \in [Conns -> Seq(Notice)]
      <3>1. <<>> \in Seq(Notice)
        OBVIOUS
      <3>2. QED
        BY <1>1, <3>1 DEF TypeOK
    <2>3. conn' \in [Conns -> {"unused", "open", "subscribed", "cut", "closed"}]
      BY <1>1 DEF TypeOK
    <2>4. QED
      BY <1>1, <1>2, <2>1, <2>2, <2>3 DEF TypeOK, redis, client
  <1>4. Placed'
    BY <1>1 DEF Placed, Running
  <1>5. Fresh'
    BY <1>1 DEF TypeOK, Fresh, client
  <1>6. Hushed'
    BY <1>1 DEF TypeOK, Hushed
  <1>7. StopsHold'
    <2> SUFFICES ASSUME NEW d \in Calls, call[d].at \in {"punsubscribe", "quit"},
                        conn'[call[d].on] # "closed"
                 PROVE  active /\ call[d].on = subscriber
      BY <1>1 DEF StopsHold, client
    <2>1. call[d].on \in Conns
      BY CallParts DEF Placed, Running, Conns
    <2>2. conn[call[d].on] # "closed"
      BY <1>1, <2>1 DEF TypeOK
    <2>3. QED
      BY <2>2 DEF StopsHold
  <1>8. OneListens'
    BY <1>1 DEF TypeOK, OneListens, client
  <1>9. Tended'
    BY <1>2 DEF Tended
  <1>10. QED
    BY <1>3, <1>4, <1>5, <1>6, <1>7, <1>8, <1>9

LEMMA ReconnectKeeps ==
    ASSUME DInv, NEW n \in Conns, Reconnect(n)
    PROVE  DInv'
  <1> USE DiscoveryAssumption DEF DInv
  <1>1. /\ conn[n] = "cut"
        /\ conn' = [conn EXCEPT ![n] = "subscribed"]
        /\ UNCHANGED <<redis, inbox, line, client, call, opened, ghost, faults>>
    BY DEF Reconnect
  <1>2. TypeOK' /\ Placed'
    BY <1>1 DEF TypeOK, Placed, Running, redis, client, ghost
  <1>3. Fresh' /\ Hushed'
    BY <1>1 DEF TypeOK, Fresh, Hushed, client
  <1>4. StopsHold'
    <2> SUFFICES ASSUME NEW d \in Calls, call[d].at \in {"punsubscribe", "quit"},
                        conn'[call[d].on] # "closed"
                 PROVE  active /\ call[d].on = subscriber
      BY <1>1 DEF StopsHold, client
    <2>1. call[d].on \in Conns
      BY CallParts DEF Placed, Running, Conns
    <2>2. conn[call[d].on] # "closed"
      BY <1>1, <2>1 DEF TypeOK
    <2>3. QED
      BY <2>2 DEF StopsHold
  <1>5. OneListens' /\ Tended'
    BY <1>1 DEF TypeOK, OneListens, Tended, Tending, client
  <1>6. QED
    BY <1>2, <1>3, <1>4, <1>5

\* Without a fault a call that is refused is not one that looks after the
\* subscriber, which is not closed.
LEMMA RefusedKeeps ==
    ASSUME DInv, NEW c \in Calls, Refused(c)
    PROVE  DInv'
  <1> USE DiscoveryAssumption DEF DInv
  <1>1. /\ call[c].at # "idle" /\ call[c].on \in Conns
        /\ conn[call[c].on] = "closed" /\ line[call[c].on] # <<>>
        /\ UNCHANGED <<redis, conn, inbox, client, opened, ghost, faults>>
    BY DEF Refused, Due, TypeOK, Placed, Conns, Running
  <1>2. /\ line' \in [Conns -> Seq(Calls)]
        /\ call' \in [Calls -> Call]
        /\ call'[c].at = "idle" /\ call'[c].on = None
        /\ \A d \in Calls : d # c => call'[d] = call[d]
    BY <1>1, Ending, LineTaken DEF Refused
  <1>3. TypeOK'
    BY <1>1, <1>2 DEF TypeOK, redis, client, ghost
  <1>4. Placed' /\ Fresh' /\ Hushed'
    BY <1>1, <1>2 DEF Placed, Running, Fresh, Hushed, client
  <1>5. StopsHold' /\ OneListens'
    BY <1>1, <1>2 DEF StopsHold, OneListens, client
  <1>6. Tended'
    BY <1>1, <1>2 DEF Tended, Tending, client
  <1>7. QED
    BY <1>3, <1>4, <1>5, <1>6

LEMMA CommandFailsKeeps ==
    ASSUME DInv, NEW c \in Calls, CommandFails(c)
    PROVE  DInv'
  <1> USE DiscoveryAssumption DEF DInv
  <1>1. /\ call[c].at # "idle" /\ call[c].on \in Conns
        /\ UNCHANGED <<redis, conn, inbox, client, opened, ghost>>
    BY DEF CommandFails, Answered, Due, TypeOK, Placed, Conns, Running
  <1>2. faults' \in 0..MaxFaults /\ faults' # 0
    BY DEF CommandFails, Blame, TypeOK
  <1>3. line' \in [Conns -> Seq(Calls)]
    BY <1>1, LineTaken DEF CommandFails, Answered, Due, TypeOK
  <1>4. /\ call' \in [Calls -> Call]
        /\ call'[c].at = "idle" /\ call'[c].on = None
        /\ \A d \in Calls : d # c => call'[d] = call[d]
    BY Ending DEF CommandFails
  <1>5. TypeOK'
    BY <1>1, <1>2, <1>3, <1>4 DEF TypeOK, redis, client, ghost
  <1>6. Placed' /\ Fresh' /\ Hushed'
    BY <1>1, <1>4 DEF Placed, Running, Fresh, Hushed, client
  <1>7. StopsHold' /\ OneListens'
    BY <1>1, <1>4 DEF StopsHold, OneListens, client
  <1>8. Tended'
    BY <1>2 DEF Tended
  <1>9. QED
    BY <1>5, <1>6, <1>7, <1>8

-----------------------------------------------------------------------------
(* All steps *)

LEMMA DInvNext == DInv /\ [Next]_vars => DInv'
  <1> SUFFICES ASSUME DInv, [Next]_vars PROVE DInv'
    OBVIOUS
  <1>1. ASSUME NEW c \in Calls,
               \/ BeginStart(c) \/ Configured(c) \/ Subscribed(c)
               \/ \E q \in Queues : ScanReads(c, q)
               \/ FinishStart(c)
        PROVE  DInv'
    BY <1>1, BeginStartKeeps, ConfiguredKeeps, SubscribedKeeps, ScanReadsKeeps,
       FinishStartKeeps
  <1>2. ASSUME NEW c \in Calls,
               \/ BeginStop(c) \/ Unsubscribed(c) \/ Quit(c)
               \/ Refused(c) \/ CommandFails(c)
        PROVE  DInv'
    BY <1>2, BeginStopKeeps, UnsubscribedKeeps, QuitKeeps, RefusedKeeps,
       CommandFailsKeeps
  <1>3. ASSUME NEW q \in Queues, Create(q) \/ Remove(q) PROVE DInv'
    BY <1>3, PublishKeeps
  <1>4. ASSUME NEW n \in Conns, Notified(n) \/ Cut(n) \/ Reconnect(n) PROVE DInv'
    BY <1>4, NotifiedKeeps, CutKeeps, ReconnectKeeps
  <1>5. CASE UNCHANGED vars
    BY <1>5 DEF vars, redis, sent, client, ghost, DInv, TypeOK, Placed, Running, Fresh,
       Hushed, StopsHold, OneListens, Tended, Tending
  <1>6. QED
    BY <1>1, <1>2, <1>3, <1>4, <1>5 DEF Next

\* The invariant holds in every state of discovery.
LEMMA DInvHolds == Spec => []DInv
  BY DInvInit, DInvNext, PTL DEF Spec

-----------------------------------------------------------------------------
(* What discovery knows, and what the notifications on their way tell it *)

\* A notification about queue q is on its way over connection n.
Pending(n, q) == \E i \in DOMAIN inbox[n] : inbox[n][i][1] = q

\* The i-th notification on its way over n is the last one about its queue.
Newest(n, i) ==
    \A j \in DOMAIN inbox[n] : j > i => inbox[n][j][1] # inbox[n][i][1]

\* What the last notification about a queue says is so.
Truthful ==
    \A n \in Conns : \A i \in DOMAIN inbox[n] :
        Newest(n, i) => (inbox[n][i][2] = "hset" <=> inbox[n][i][1] \in queues)

\* A call that does not scan has read nothing, and a scan finds what it read.
Bare ==
    \A c \in Calls :
        /\ call[c].found \subseteq call[c].read
        /\ call[c].at # "scan" => call[c].read = {}

\* A start that no other call overlaps works on the subscriber, which is not
\* closed, and finds discovery inactive and nothing known.
Starting(c) ==
    /\ ~active /\ call[c].on = subscriber /\ subscriber # None
    /\ conn[subscriber] \in
         IF call[c].at = "scan" THEN {"subscribed", "cut"} ELSE {"open"}

Alone ==
    ~tangled =>
        /\ \A c, d \in Calls : Running(c) /\ Running(d) => c = d
        /\ ~active => known = {}
        /\ \A c \in Calls :
             call[c].at \in {"config", "psubscribe", "scan"} => Starting(c)

\* Queue q is known if it exists: to discovery, and to the scan that read it.
Shown(q) ==
    /\ active /\ conn[subscriber] \in {"subscribed", "cut"} =>
           (q \in known <=> q \in queues)
    /\ \A c \in Calls : call[c].at = "scan" /\ q \in call[c].read =>
           (q \in call[c].found <=> q \in queues)

\* So is every queue without a notification on its way and without a change
\* that went unheard.
View ==
    ~tangled /\ subscriber # None =>
        \A q \in Queues : q \in behind \/ Pending(subscriber, q) \/ Shown(q)

KInv == Bare /\ Truthful /\ Alone /\ View

LEMMA KInvInit == Init => KInv
  <1> SUFFICES ASSUME Init PROVE KInv
    OBVIOUS
  <1> USE DEF Init
  <1>1. Idle.at = "idle" /\ Idle.read = {} /\ Idle.found = {}
    BY DEF Idle
  <1>2. Bare /\ Truthful /\ Alone /\ View
    BY <1>1 DEF Bare, Truthful, Alone, View, Running
  <1>3. QED
    BY <1>2 DEF KInv

\* A step of a call that changes neither what is known nor what is to be known,
\* and subscribes no connection of an active discovery, leaves the view.
LEMMA ViewStays ==
    ASSUME DInv, KInv,
           UNCHANGED <<queues, inbox, known, active, subscriber, behind>>,
           tangled => tangled',
           \A d \in Calls : call'[d].at = "scan" => call'[d] = call[d] \/ call'[d].read = {},
           active /\ conn'[subscriber] \in {"subscribed", "cut"} =>
               conn[subscriber] \in {"subscribed", "cut"}
    PROVE  Truthful' /\ View'
  <1>1. Truthful'
    BY DEF KInv, Truthful, Newest
  <1>2. ASSUME NEW q \in Queues, Shown(q) PROVE Shown(q)'
    BY <1>2 DEF Shown
  <1>3. ASSUME NEW q \in Queues, Pending(subscriber, q) PROVE Pending(subscriber, q)'
    BY <1>3 DEF Pending
  <1>4. View'
    BY <1>2, <1>3 DEF KInv, View
  <1>5. QED
    BY <1>1, <1>4

\* A call that ends, or sends its next command, leaves a start that no other
\* overlaps alone.
LEMMA AloneStays ==
    ASSUME DInv, KInv, NEW c \in Calls, Running(c),
           UNCHANGED <<known, active, subscriber, tangled>>,
           \A d \in Calls : d # c => call'[d] = call[d],
           ~tangled /\ call'[c].at \in {"config", "psubscribe", "scan"} => Starting(c)'
    PROVE  Alone'
  <1> SUFFICES ASSUME ~tangled PROVE Alone'
    BY DEF Alone
  <1>1. \A d \in Calls : d # c => ~Running(d) /\ ~Running(d)'
    BY DEF KInv, Alone, Running
  <1>2. \A d, e \in Calls : Running(d)' /\ Running(e)' => d = e
    BY <1>1
  <1>3. ASSUME NEW d \in Calls, call'[d].at \in {"config", "psubscribe", "scan"}
        PROVE  Starting(d)'
    <2>1. Running(d)'
      BY <1>3 DEF Running
    <2>2. QED
      BY <1>1, <1>3, <2>1
  <1>4. QED
    BY <1>2, <1>3 DEF KInv, Alone

\* The other calls keep what they have read, and call c has read nothing.
LEMMA BareStays ==
    ASSUME KInv, NEW c \in Calls, \A d \in Calls : d # c => call'[d] = call[d],
           call'[c].found \subseteq call'[c].read,
           call'[c].at # "scan" => call'[c].read = {}
    PROVE  Bare'
  BY DEF KInv, Bare

-----------------------------------------------------------------------------

LEMMA BeginStartKnows ==
    ASSUME DInv, KInv, NEW c \in Calls, BeginStart(c)
    PROVE  KInv'
  <1> DEFINE n == opened'
  <1> USE DiscoveryAssumption DEF DInv
  <1>1. n \in Conns /\ n # None /\ ~active /\ opened \in Nat
    BY DEF BeginStart, TypeOK, Conns, None
  <1>2. /\ conn' = [conn EXCEPT ![n] = "open"] /\ subscriber' = n
        /\ Go(c, "config", n)
        /\ tangled' = (tangled \/ ~NoCall)
        /\ UNCHANGED <<queues, inbox, active, known>>
    BY DEF BeginStart, redis
  <1>3. /\ call'[c].at = "config" /\ call'[c].on = n
        /\ call'[c].read = {} /\ call'[c].found = {}
        /\ \A d \in Calls : d # c => call'[d] = call[d]
    BY <1>1, <1>2, Going
  <1>4. Bare'
    BY <1>3, BareStays
  <1>5. Truthful'
    BY <1>2 DEF KInv, Truthful, Newest
  <1>6. CASE tangled'
    BY <1>4, <1>5, <1>6 DEF KInv, Alone, View
  <1>7. CASE ~tangled'
    <2>1. ~tangled /\ \A d \in Calls : d # c => call'[d].at = "idle"
      BY <1>2, <1>3, <1>7 DEF NoCall, Running
    <2>2. conn'[n] = "open"
      BY <1>1, <1>2 DEF TypeOK
    <2>3. known' = {}
      BY <1>1, <1>2, <2>1 DEF KInv, Alone
    <2>4. Alone'
      BY <1>1, <1>2, <1>3, <2>1, <2>2, <2>3 DEF Alone, Starting, Running
    <2>5. View'
      BY <1>1, <1>2, <1>3, <2>1 DEF View, Shown
    <2>6. QED
      BY <1>4, <1>5, <2>4, <2>5 DEF KInv
  <1>8. QED
    BY <1>6, <1>7

LEMMA ConfiguredKnows ==
    ASSUME DInv, KInv, NEW c \in Calls, Configured(c)
    PROVE  KInv'
  <1> USE DiscoveryAssumption DEF DInv
  <1>1. /\ call[c].at = "config" /\ call[c].on \in Conns /\ line[call[c].on] # <<>>
        /\ UNCHANGED <<queues, conn, inbox, known, active, subscriber, behind, tangled>>
    BY DEF Configured, Answered, Due, TypeOK, Placed, Conns, Running, redis, client, ghost
  <1>2. /\ \/ subscriber = None /\ call'[c].at = "idle"
           \/ subscriber # None /\ call'[c].at = "psubscribe" /\ call'[c].on = subscriber
        /\ call'[c].read = {} /\ call'[c].found = {}
        /\ \A d \in Calls : d # c => call'[d] = call[d]
    BY <1>1, Proceeding DEF Configured
  <1>3. Truthful' /\ View'
    BY <1>1, <1>2, ViewStays
  <1>4. ~tangled /\ call'[c].at \in {"config", "psubscribe", "scan"} => Starting(c)'
    BY <1>1, <1>2 DEF KInv, Alone, Starting
  <1>5. Alone'
    BY <1>1, <1>2, <1>4, AloneStays DEF Running
  <1>6. QED
    BY <1>2, <1>3, <1>5, BareStays DEF KInv

LEMMA SubscribedKnows ==
    ASSUME DInv, KInv, NEW c \in Calls, Subscribed(c)
    PROVE  KInv'
  <1> USE DiscoveryAssumption DEF DInv
  <1>1. /\ call[c].at = "psubscribe" /\ call[c].on \in Conns
        /\ conn' = [conn EXCEPT ![call[c].on] = "subscribed"]
        /\ UNCHANGED <<queues, inbox, known, active, subscriber, behind, tangled>>
    BY DEF Subscribed, Answered, Due, TypeOK, Placed, Conns, Running, redis, client, ghost
  <1>2. /\ call'[c].at = "scan" /\ call'[c].on = call[c].on
        /\ call'[c].read = {} /\ call'[c].found = {}
        /\ \A d \in Calls : d # c => call'[d] = call[d]
    BY <1>1 DEF Subscribed, TypeOK, Call, KInv, Bare
  <1>3. CASE tangled
    <2>1. Truthful'
      BY <1>1 DEF KInv, Truthful, Newest
    <2>2. QED
      BY <1>1, <1>2, <1>3, <2>1, BareStays DEF KInv, Alone, View
  <1>4. CASE ~tangled
    <2>1. ~active /\ call[c].on = subscriber /\ subscriber # None
      BY <1>1, <1>4 DEF KInv, Alone, Starting
    <2>2. conn'[subscriber] = "subscribed"
      BY <1>1, <2>1 DEF TypeOK
    <2>3. Truthful' /\ View'
      BY <1>1, <1>2, <2>1, ViewStays
    <2>4. Starting(c)'
      BY <1>1, <1>2, <2>1, <2>2 DEF Starting
    <2>5. Alone'
      BY <1>1, <1>2, <2>4, AloneStays DEF Running
    <2>6. QED
      BY <1>2, <2>3, <2>5, BareStays DEF KInv
  <1>5. QED
    BY <1>3, <1>4

\* What the scan reads of a queue is so, whatever was unheard before.
LEMMA ScanReadsKnows ==
    ASSUME DInv, KInv, NEW c \in Calls, NEW q \in Queues, ScanReads(c, q)
    PROVE  KInv'
  <1> USE DiscoveryAssumption DEF DInv
  <1>1. /\ call[c].at = "scan" /\ behind' = behind \ {q}
        /\ UNCHANGED <<queues, conn, inbox, known, active, subscriber, tangled>>
    BY DEF ScanReads, redis, client, sent
  <1>2. /\ call'[c].at = "scan" /\ call'[c].on = call[c].on
        /\ call'[c].read = call[c].read \cup {q}
        /\ call'[c].found = call[c].found \cup ({q} \cap queues)
        /\ \A d \in Calls : d # c => call'[d] = call[d]
    BY DEF ScanReads, TypeOK, Call
  <1>3. Bare' /\ Truthful'
    <2>1. call'[c].found \subseteq call'[c].read
      BY <1>2 DEF KInv, Bare
    <2>2. QED
      BY <1>1, <1>2, <2>1, BareStays DEF KInv, Truthful, Newest
  <1>4. ~tangled => Starting(c)'
    BY <1>1, <1>2 DEF KInv, Alone, Starting
  <1>5. Alone'
    BY <1>1, <1>2, <1>4, AloneStays DEF Running
  <1>6. View'
    <2> SUFFICES ASSUME ~tangled, subscriber # None, NEW r \in Queues
                 PROVE  r \in behind' \/ Pending(subscriber, r)' \/ Shown(r)'
      BY <1>1 DEF View
    <2>1. ~active /\ \A d \in Calls : d # c => call'[d].at # "scan"
      BY <1>1, <1>2 DEF KInv, Alone, Starting, Running
    <2>2. Pending(subscriber, r)' = Pending(subscriber, r)
      BY <1>1 DEF Pending
    <2>3. CASE r # q
      <3>1. r \in behind \/ Pending(subscriber, r) \/ Shown(r)
        BY DEF KInv, View
      <3>2. Shown(r) => Shown(r)'
        BY <1>1, <1>2, <2>1, <2>3 DEF Shown
      <3>3. QED
        BY <1>1, <2>2, <2>3, <3>1, <3>2
    <2>4. CASE r = q
      <3>1. q \notin call[c].found
        BY DEF ScanReads, KInv, Bare
      <3>2. QED
        BY <1>1, <1>2, <2>1, <2>4, <3>1 DEF Shown
    <2>5. QED
      BY <2>3, <2>4
  <1>7. QED
    BY <1>3, <1>5, <1>6 DEF KInv

\* What the scan found is all that is known, however the handler comes late.
LEMMA FinishStartKnows ==
    ASSUME DInv, KInv, NEW c \in Calls, FinishStart(c)
    PROVE  KInv'
  <1> USE DiscoveryAssumption DEF DInv
  <1>1. /\ call[c].at = "scan" /\ call[c].read = Queues
        /\ known' = known \cup call[c].found
        /\ subscriber # None => active' = TRUE
        /\ UNCHANGED <<queues, conn, inbox, subscriber, behind, tangled>>
    BY DEF FinishStart, redis, sent, ghost
  <1>2. /\ call'[c].at = "idle" /\ call'[c].read = {} /\ call'[c].found = {}
        /\ \A d \in Calls : d # c => call'[d] = call[d]
    BY Ending DEF FinishStart
  <1>3. Bare' /\ Truthful'
    BY <1>1, <1>2, BareStays DEF KInv, Truthful, Newest
  <1>4. CASE tangled
    BY <1>1, <1>3, <1>4 DEF KInv, Alone, View
  <1>5. CASE ~tangled
    <2>1. /\ ~active /\ subscriber # None /\ known = {} /\ active'
          /\ conn[subscriber] \in {"subscribed", "cut"}
      BY <1>1, <1>5 DEF KInv, Alone, Starting
    <2>2. \A d \in Calls : call'[d].at = "idle"
      BY <1>1, <1>2, <1>5 DEF KInv, Alone, Running
    <2>3. Alone'
      BY <2>1, <2>2 DEF Alone, Running
    <2>4. ASSUME NEW q \in Queues PROVE q \in behind' \/ Pending(subscriber, q)' \/ Shown(q)'
      <3>1. q \in behind \/ Pending(subscriber, q) \/ Shown(q)
        BY <1>5, <2>1 DEF KInv, View
      <3>2. Pending(subscriber, q)' = Pending(subscriber, q)
        BY <1>1 DEF Pending
      <3>3. Shown(q) => Shown(q)'
        BY <1>1, <2>1, <2>2 DEF Shown
      <3>4. QED
        BY <1>1, <3>1, <3>2, <3>3
    <2>5. View'
      BY <1>1, <2>4 DEF View
    <2>6. QED
      BY <1>3, <2>3, <2>5 DEF KInv
  <1>6. QED
    BY <1>4, <1>5

LEMMA BeginStopKnows ==
    ASSUME DInv, KInv, NEW c \in Calls, BeginStop(c)
    PROVE  KInv'
  <1> USE DiscoveryAssumption DEF DInv
  <1>1. /\ active /\ subscriber \in Conns
        /\ Go(c, "punsubscribe", subscriber)
        /\ tangled' = (tangled \/ ~NoCall)
        /\ UNCHANGED <<queues, conn, inbox, known, active, subscriber, behind>>
    BY DEF BeginStop, TypeOK, redis, client
  <1>2. /\ call'[c].at = "punsubscribe" /\ call'[c].read = {} /\ call'[c].found = {}
        /\ \A d \in Calls : d # c => call'[d] = call[d]
    BY <1>1, Going
  <1>3. Truthful' /\ View'
    BY <1>1, <1>2, ViewStays
  <1>4. Alone'
    <2> SUFFICES ASSUME ~tangled' PROVE Alone'
      BY DEF Alone
    <2>1. \A d \in Calls : d # c => call'[d].at = "idle"
      BY <1>1, <1>2 DEF NoCall, Running
    <2>2. QED
      BY <1>1, <1>2, <2>1 DEF Alone, Running
  <1>5. QED
    BY <1>2, <1>3, <1>4, BareStays DEF KInv

LEMMA UnsubscribedKnows ==
    ASSUME DInv, KInv, NEW c \in Calls, Unsubscribed(c)
    PROVE  KInv'
  <1> USE DiscoveryAssumption DEF DInv
  <1>1. /\ call[c].at = "punsubscribe" /\ call[c].on \in Conns /\ line[call[c].on] # <<>>
        /\ conn[call[c].on] # "closed"
        /\ conn' = [conn EXCEPT ![call[c].on] = "open"]
        /\ UNCHANGED <<queues, inbox, known, active, subscriber, behind, tangled>>
    BY DEF Unsubscribed, Answered, Due, TypeOK, Placed, Conns, Running, redis, client, ghost
  <1>2. /\ call'[c].at \in {"idle", "quit"} /\ call'[c].read = {} /\ call'[c].found = {}
        /\ \A d \in Calls : d # c => call'[d] = call[d]
    BY <1>1, Proceeding DEF Unsubscribed
  <1>3. active /\ conn'[subscriber] \in {"subscribed", "cut"} =>
            conn[subscriber] \in {"subscribed", "cut"}
    BY <1>1 DEF TypeOK
  <1>4. Truthful' /\ View'
    BY <1>1, <1>2, <1>3, ViewStays
  <1>5. Alone'
    BY <1>1, <1>2, AloneStays DEF Running
  <1>6. QED
    BY <1>2, <1>4, <1>5, BareStays DEF KInv

\* A stop leaves nothing known and no subscriber.
LEMMA QuitKnows ==
    ASSUME DInv, KInv, NEW c \in Calls, Quit(c)
    PROVE  KInv'
  <1> USE DiscoveryAssumption DEF DInv
  <1>1. /\ subscriber' = None /\ known' = {}
        /\ tangled' = \E d \in Calls \ {c} : Running(d)
        /\ UNCHANGED <<queues, inbox>>
    BY DEF Quit, redis
  <1>2. /\ call'[c].at = "idle" /\ call'[c].read = {} /\ call'[c].found = {}
        /\ \A d \in Calls : d # c => call'[d] = call[d]
    BY Ending DEF Quit
  <1>3. Bare' /\ Truthful' /\ View'
    BY <1>1, <1>2, BareStays DEF KInv, Truthful, Newest, View
  <1>4. Alone'
    BY <1>1, <1>2 DEF Alone, Running
  <1>5. QED
    BY <1>3, <1>4 DEF KInv

LEMMA RejectedKnows ==
    ASSUME DInv, KInv, NEW c \in Calls, Refused(c) \/ CommandFails(c)
    PROVE  KInv'
  <1> USE DiscoveryAssumption DEF DInv
  <1>1. /\ Running(c)
        /\ UNCHANGED <<queues, conn, inbox, known, active, subscriber, behind, tangled>>
    BY DEF Refused, CommandFails, Answered, Due, Running, redis, client, ghost
  <1>2. /\ call'[c].at = "idle" /\ call'[c].read = {} /\ call'[c].found = {}
        /\ \A d \in Calls : d # c => call'[d] = call[d]
    BY Ending DEF Refused, CommandFails
  <1>3. Truthful' /\ View'
    BY <1>1, <1>2, ViewStays
  <1>4. Alone'
    BY <1>1, <1>2, AloneStays
  <1>5. QED
    BY <1>2, <1>3, <1>4, BareStays DEF KInv

-----------------------------------------------------------------------------

\* A notification that is published last is the newest about its queue, and
\* the others are about the queues that do not change.
LEMMA PublishKnows ==
    ASSUME DInv, KInv, NEW p \in Queues, Create(p) \/ Remove(p)
    PROVE  KInv'
  <1> USE DiscoveryAssumption DEF DInv
  <1>1. PICK what \in {"hset", "del"} :
            /\ Publish(p, what)
            /\ what = "hset" <=> p \in queues'
            /\ \A q \in Queues : q # p => (q \in queues' <=> q \in queues)
    BY DEF Create, Remove
  <1>2. UNCHANGED <<conn, known, active, subscriber, call, tangled>>
    BY <1>1 DEF Publish, client
  <1>3. ASSUME NEW n \in Conns, conn[n] = "subscribed"
        PROVE  /\ inbox[n] \in Seq(Notice) /\ inbox'[n] = Append(inbox[n], <<p, what>>)
               /\ Len(inbox[n]) \in Nat
               /\ DOMAIN inbox[n] = 1..Len(inbox[n])
               /\ DOMAIN inbox'[n] = 1..(Len(inbox[n]) + 1)
               /\ inbox'[n][Len(inbox[n]) + 1] = <<p, what>>
               /\ \A i \in DOMAIN inbox[n] : inbox'[n][i] = inbox[n][i]
    BY <1>1, <1>3 DEF Publish, TypeOK
  <1>4. ASSUME NEW n \in Conns, conn[n] # "subscribed"
        PROVE  inbox'[n] = inbox[n] /\ inbox[n] = <<>>
    BY <1>1, <1>4 DEF Publish, Hushed
  <1>5. Bare'
    BY <1>2 DEF KInv, Bare
  <1>6. Truthful'
    <2> SUFFICES ASSUME NEW n \in Conns, NEW i \in DOMAIN inbox'[n], Newest(n, i)'
                 PROVE  inbox'[n][i][2] = "hset" <=> inbox'[n][i][1] \in queues'
      BY DEF Truthful
    <2>1. conn[n] = "subscribed"
      BY <1>4
    <2>2. CASE i = Len(inbox[n]) + 1
      BY <1>1, <1>3, <2>1, <2>2
    <2>3. CASE i # Len(inbox[n]) + 1
      <3>1. i \in 1..Len(inbox[n]) /\ i < Len(inbox[n]) + 1
        BY <1>3, <2>1, <2>3
      <3>2. inbox[n][i] \in Notice
        BY <1>3, <2>1, <3>1
      <3>3. inbox[n][i][1] \in Queues
        BY <3>2 DEF Notice
      <3>4. Len(inbox[n]) + 1 \in DOMAIN inbox'[n]
        BY <1>3, <2>1
      <3>5. inbox[n][i][1] # p
        BY <1>3, <2>1, <3>1, <3>4 DEF Newest
      <3>6. Newest(n, i)
        BY <1>3, <2>1, <3>1 DEF Newest
      <3>7. inbox[n][i][2] = "hset" <=> inbox[n][i][1] \in queues
        BY <1>3, <2>1, <3>1, <3>6 DEF KInv, Truthful
      <3>8. QED
        BY <1>1, <1>3, <2>1, <3>1, <3>3, <3>5, <3>7
    <2>4. QED
      BY <2>2, <2>3
  <1>7. Alone'
    BY <1>2 DEF KInv, Alone, Starting, Running
  <1>8. View'
    <2> SUFFICES ASSUME ~tangled, subscriber # None, NEW q \in Queues
                 PROVE  q \in behind' \/ Pending(subscriber, q)' \/ Shown(q)'
      BY <1>2 DEF View
    <2> DEFINE n == subscriber
    <2>1. n \in Conns /\ behind \subseteq behind'
      BY <1>1 DEF TypeOK, Publish
    <2>2. CASE q # p
      <3>1. q \in behind \/ Pending(n, q) \/ Shown(q)
        BY DEF KInv, View
      <3>2. Shown(q) => Shown(q)'
        BY <1>1, <1>2, <2>2 DEF Shown
      <3>3. ASSUME NEW i \in DOMAIN inbox[n], inbox[n][i][1] = q PROVE Pending(n, q)'
        <4>1. conn[n] = "subscribed"
          BY <1>4, <2>1
        <4>2. i \in DOMAIN inbox'[n] /\ inbox'[n][i] = inbox[n][i]
          BY <1>3, <2>1, <4>1
        <4>3. QED
          BY <1>2, <3>3, <4>2 DEF Pending
      <3>4. QED
        BY <2>1, <3>1, <3>2, <3>3 DEF Pending
    <2>3. CASE q = p /\ conn[n] = "subscribed"
      <3>1. Len(inbox[n]) + 1 \in DOMAIN inbox'[n] /\ inbox'[n][Len(inbox[n]) + 1][1] = p
        BY <1>3, <2>1, <2>3
      <3>2. QED
        BY <1>2, <2>3, <3>1 DEF Pending
    <2>4. CASE q = p /\ conn[n] = "cut"
      BY <1>1, <2>4 DEF Publish
    <2>5. CASE q = p /\ conn[n] \notin {"subscribed", "cut"}
      BY <1>2, <2>5 DEF Shown, KInv, Alone, Starting
    <2>6. QED
      BY <2>2, <2>3, <2>4, <2>5
  <1>9. QED
    BY <1>5, <1>6, <1>7, <1>8 DEF KInv

\* The handler is told what the newest notification says, after the others.
LEMMA NotifiedKnows ==
    ASSUME DInv, KInv, NEW n \in Conns, Notified(n)
    PROVE  KInv'
  <1> DEFINE h == Head(inbox[n])[1]
             w == Head(inbox[n])[2]
             s == inbox[n]
  <1> USE DiscoveryAssumption DEF DInv
  <1>1. /\ inbox[n] # <<>>
        /\ inbox' = [inbox EXCEPT ![n] = Tail(@)]
        /\ UNCHANGED <<queues, conn, active, subscriber, call, tangled>>
    BY DEF Notified, redis
  <1>2. /\ s \in Seq(Notice) /\ Len(s) \in Nat /\ Len(s) >= 1 /\ 1 \in DOMAIN s
        /\ DOMAIN s = 1..Len(s) /\ inbox'[n] = Tail(s) /\ DOMAIN inbox'[n] = 1..(Len(s) - 1)
        /\ \A i \in DOMAIN inbox'[n] : i + 1 \in DOMAIN s /\ inbox'[n][i] = s[i + 1]
        /\ Head(s) = s[1]
    BY <1>1 DEF TypeOK
  <1>3. h \in Queues /\ h = s[1][1] /\ w = s[1][2]
    <2>1. s[1] \in Notice
      BY <1>2
    <2>2. QED
      BY <1>2, <2>1 DEF Notice
  <1>4. \A m \in Conns : m # n => inbox'[m] = inbox[m]
    BY <1>1 DEF TypeOK
  <1>5. Bare' /\ Truthful'
    <2>1. Bare'
      BY <1>1 DEF KInv, Bare
    <2>2. ASSUME NEW m \in Conns, NEW i \in DOMAIN inbox'[m], Newest(m, i)'
          PROVE  inbox'[m][i][2] = "hset" <=> inbox'[m][i][1] \in queues'
      <3>1. CASE m # n
        BY <1>1, <1>4, <2>2, <3>1 DEF KInv, Truthful, Newest
      <3>2. CASE m = n
        <4>1. ASSUME NEW j \in DOMAIN s, j > i + 1 PROVE s[j][1] # s[i + 1][1]
          <5>1. j - 1 \in DOMAIN inbox'[n] /\ j - 1 > i /\ (j - 1) + 1 = j
            <6>1. i \in 1..(Len(s) - 1) /\ j \in 1..Len(s)
              BY <1>2, <3>2
            <6>2. j - 1 \in 1..(Len(s) - 1) /\ j - 1 > i /\ (j - 1) + 1 = j
              BY <1>2, <4>1, <6>1
            <6>3. QED
              BY <1>2, <6>2
          <5>2. inbox'[n][j - 1] = s[j] /\ inbox'[n][i] = s[i + 1]
            BY <1>2, <3>2, <5>1
          <5>3. QED
            BY <2>2, <3>2, <5>1, <5>2 DEF Newest
        <4>2. i + 1 \in DOMAIN s /\ inbox'[n][i] = s[i + 1]
          BY <1>2, <3>2
        <4>3. Newest(n, i + 1)
          BY <4>1 DEF Newest
        <4>4. s[i + 1][2] = "hset" <=> s[i + 1][1] \in queues
          BY <4>2, <4>3 DEF KInv, Truthful
        <4>5. QED
          BY <1>1, <3>2, <4>2, <4>4
      <3>3. QED
        BY <3>1, <3>2
    <2>3. QED
      BY <2>1, <2>2 DEF Truthful
  <1>6. n \in listening => active /\ n = subscriber
    BY <1>1 DEF Hushed, OneListens
  <1>7. Alone'
    <2>1. known' # known => active
      BY <1>6 DEF Notified
    <2>2. QED
      BY <1>1, <2>1 DEF KInv, Alone, Starting, Running
  <1>8. View'
    <2> SUFFICES ASSUME ~tangled, subscriber # None, NEW q \in Queues
                 PROVE  q \in behind' \/ Pending(subscriber, q)' \/ Shown(q)'
      BY <1>1 DEF View
    <2>1. q \in behind \/ Pending(subscriber, q) \/ Shown(q)
      BY DEF KInv, View
    <2>2. subscriber \in Conns
      BY DEF TypeOK
    <2>3. CASE n # subscriber
      <3>1. behind' = behind /\ known' = known
        BY <1>6, <2>3 DEF Notified
      <3>2. Pending(subscriber, q)' = Pending(subscriber, q)
        BY <1>1, <1>4, <2>2, <2>3 DEF Pending
      <3>3. Shown(q) => Shown(q)'
        BY <1>1, <3>1 DEF Shown
      <3>4. QED
        BY <2>1, <3>1, <3>2, <3>3
    <2>4. CASE n = subscriber /\ q # h
      <3>1. /\ q \in behind => q \in behind'
            /\ q \in known' <=> q \in known
        BY <2>4 DEF Notified
      <3>2. ASSUME NEW i \in DOMAIN s, s[i][1] = q PROVE Pending(n, q)'
        <4>1. i # 1
          BY <1>3, <2>4, <3>2
        <4>2. i - 1 \in DOMAIN inbox'[n] /\ (i - 1) + 1 = i
          BY <1>2, <4>1
        <4>3. inbox'[n][i - 1] = s[i]
          BY <1>2, <4>2
        <4>4. QED
          BY <3>2, <4>2, <4>3 DEF Pending
      <3>3. Shown(q) => Shown(q)'
        BY <1>1, <3>1 DEF Shown
      <3>4. QED
        BY <1>1, <2>1, <2>4, <3>1, <3>2, <3>3 DEF Pending
    <2>5. CASE n = subscriber /\ q = h /\ n \notin listening
      BY <2>5 DEF Notified
    <2>6. CASE n = subscriber /\ q = h /\ n \in listening
      <3>1. active /\ (q \in known' <=> w = "hset")
        <4>1. w \in {"hset", "del"}
          <5>1. s[1] \in Notice
            BY <1>2
          <5>2. QED
            BY <1>3, <5>1 DEF Notice
        <4>2. QED
          BY <1>6, <2>6 DEF Notified
      <3>2. CASE Newest(n, 1)
        <4>1. q \in known' <=> q \in queues
          BY <1>2, <1>3, <2>6, <3>1, <3>2 DEF KInv, Truthful
        <4>2. \A d \in Calls : call[d].at # "scan"
          BY <3>1 DEF KInv, Alone, Starting
        <4>3. QED
          BY <1>1, <4>1, <4>2 DEF Shown
      <3>3. CASE ~Newest(n, 1)
        <4>1. PICK j \in DOMAIN s : j > 1 /\ s[j][1] = q
          BY <1>3, <2>6, <3>3 DEF Newest
        <4>2. j - 1 \in DOMAIN inbox'[n] /\ (j - 1) + 1 = j
          BY <1>2, <4>1
        <4>3. inbox'[n][j - 1] = s[j]
          BY <1>2, <4>2
        <4>4. QED
          BY <1>1, <2>6, <4>1, <4>2, <4>3 DEF Pending
      <3>4. QED
        BY <3>2, <3>3
    <2>7. QED
      BY <2>3, <2>4, <2>5, <2>6
  <1>9. QED
    BY <1>5, <1>7, <1>8 DEF KInv

\* What was on its way over the subscriber goes unheard.
LEMMA CutKnows ==
    ASSUME DInv, KInv, NEW n \in Conns, Cut(n)
    PROVE  KInv'
  <1> USE DiscoveryAssumption DEF DInv
  <1>1. /\ inbox' = [inbox EXCEPT ![n] = <<>>]
        /\ conn' = [conn EXCEPT ![n] = conn'[n]]
        /\ IF Quitting(n) THEN conn'[n] = "closed"
                          ELSE conn'[n] = "cut" /\ conn[n] = "subscribed"
        /\ UNCHANGED <<queues, known, active, subscriber, call, tangled>>
    BY DEF Cut, TypeOK, redis, client
  <1>2. Bare'
    BY <1>1 DEF KInv, Bare
  <1>3. Truthful'
    <2> SUFFICES ASSUME NEW m \in Conns, NEW i \in DOMAIN inbox'[m], Newest(m, i)'
                 PROVE  inbox'[m][i][2] = "hset" <=> inbox'[m][i][1] \in queues'
      BY DEF Truthful
    <2>1. m # n /\ inbox'[m] = inbox[m]
      BY <1>1 DEF TypeOK
    <2>2. QED
      BY <1>1, <2>1 DEF KInv, Truthful, Newest
  <1>4. Alone'
    <2> SUFFICES ASSUME ~tangled, NEW c \in Calls,
                        call[c].at \in {"config", "psubscribe", "scan"}
                 PROVE  Starting(c)'
      BY <1>1 DEF KInv, Alone, Running
    <2>1. Starting(c) /\ subscriber \in Conns
      BY DEF KInv, Alone, Starting, TypeOK
    <2>2. ~Quitting(n)
      BY DEF KInv, Alone, Running, Quitting
    <2>3. conn[n] = "subscribed" /\ conn'[n] = "cut"
      BY <1>1, <2>2
    <2>4. QED
      BY <1>1, <2>1, <2>3 DEF Starting, TypeOK
  <1>5. View'
    <2> SUFFICES ASSUME ~tangled, subscriber # None, NEW q \in Queues
                 PROVE  q \in behind' \/ Pending(subscriber, q)' \/ Shown(q)'
      BY <1>1 DEF View
    <2>1. q \in behind \/ Pending(subscriber, q) \/ Shown(q)
      BY DEF KInv, View
    <2>2. subscriber \in Conns /\ behind \subseteq behind'
      BY DEF TypeOK, Cut
    <2>3. conn'[subscriber] \in {"subscribed", "cut"} =>
              conn[subscriber] \in {"subscribed", "cut"}
      BY <1>1, <2>2 DEF TypeOK
    <2>4. Shown(q) => Shown(q)'
      BY <1>1, <2>3 DEF Shown
    <2>5. CASE n # subscriber
      <3>1. Pending(subscriber, q)' = Pending(subscriber, q)
        BY <1>1, <2>2, <2>5 DEF Pending, TypeOK
      <3>2. QED
        BY <2>1, <2>2, <2>4, <3>1
    <2>6. CASE n = subscriber
      <3>1. Pending(n, q) => q \in behind'
        BY <2>6 DEF Pending, Cut
      <3>2. QED
        BY <2>1, <2>2, <2>4, <2>6, <3>1
    <2>7. QED
      BY <2>5, <2>6
  <1>6. QED
    BY <1>2, <1>3, <1>4, <1>5 DEF KInv

LEMMA ReconnectKnows ==
    ASSUME DInv, KInv, NEW n \in Conns, Reconnect(n)
    PROVE  KInv'
  <1> USE DiscoveryAssumption DEF DInv
  <1>1. /\ conn[n] = "cut" /\ conn' = [conn EXCEPT ![n] = "subscribed"]
        /\ UNCHANGED <<queues, inbox, known, active, subscriber, behind, call, tangled>>
    BY DEF Reconnect, redis, client, ghost
  <1>2. conn'[subscriber] \in {"subscribed", "cut"} /\ subscriber # None =>
            conn[subscriber] \in {"subscribed", "cut"}
    BY <1>1 DEF TypeOK
  <1>3. active => subscriber # None
    BY DEF TypeOK
  <1>4. Truthful' /\ View'
    BY <1>1, <1>2, <1>3, ViewStays
  <1>5. Alone'
    <2> SUFFICES ASSUME ~tangled, NEW c \in Calls,
                        call[c].at \in {"config", "psubscribe", "scan"}
                 PROVE  Starting(c)'
      BY <1>1 DEF KInv, Alone, Running
    <2>1. Starting(c) /\ subscriber \in Conns
      BY DEF KInv, Alone, Starting, TypeOK
    <2>2. QED
      BY <1>1, <2>1 DEF Starting, TypeOK
  <1>6. QED
    BY <1>1, <1>4, <1>5 DEF KInv, Bare

LEMMA KInvNext == DInv /\ KInv /\ [Next]_vars => KInv'
  <1> SUFFICES ASSUME DInv, KInv, [Next]_vars PROVE KInv'
    OBVIOUS
  <1>1. ASSUME NEW c \in Calls,
               \/ BeginStart(c) \/ Configured(c) \/ Subscribed(c)
               \/ \E q \in Queues : ScanReads(c, q)
               \/ FinishStart(c)
        PROVE  KInv'
    BY <1>1, BeginStartKnows, ConfiguredKnows, SubscribedKnows, ScanReadsKnows,
       FinishStartKnows
  <1>2. ASSUME NEW c \in Calls,
               \/ BeginStop(c) \/ Unsubscribed(c) \/ Quit(c)
               \/ Refused(c) \/ CommandFails(c)
        PROVE  KInv'
    BY <1>2, BeginStopKnows, UnsubscribedKnows, QuitKnows, RejectedKnows
  <1>3. ASSUME NEW q \in Queues, Create(q) \/ Remove(q) PROVE KInv'
    BY <1>3, PublishKnows
  <1>4. ASSUME NEW n \in Conns, Notified(n) \/ Cut(n) \/ Reconnect(n) PROVE KInv'
    BY <1>4, NotifiedKnows, CutKnows, ReconnectKnows
  <1>5. CASE UNCHANGED vars
    BY <1>5 DEF vars, redis, sent, client, ghost, KInv, Bare, Truthful, Newest, Alone,
       Starting, Running, View, Shown, Pending
  <1>6. QED
    BY <1>1, <1>2, <1>3, <1>4, <1>5 DEF Next

LEMMA KInvHolds == Spec => []KInv
  BY DInvHolds, KInvInit, KInvNext, PTL DEF Spec

-----------------------------------------------------------------------------
(* The theorems *)

\* The variables keep their types.
THEOREM DiscoveryTypeCorrect == Spec => []TypeOK
  <1>1. DInv => TypeOK
    BY DEF DInv
  <1>2. QED
    BY <1>1, DInvHolds, PTL

\* When starts and stops that overlapped in any way have returned and no
\* command failed, discovery is active exactly if there is a subscriber, which
\* is subscribed and has the handler (client.ts:840-914): a call that has
\* returned looks after no connection.
THEOREM DiscoveryActiveListens == Spec => []ActiveListens
  <1>1. DInv => ActiveListens
    <2> SUFFICES ASSUME DInv, NoCall, faults = 0
                 PROVE  /\ active <=> subscriber # None
                        /\ active => /\ subscriber \in listening
                                     /\ conn[subscriber] = "subscribed"
      BY DEF ActiveListens
    <2>1. ASSUME subscriber # None, NEW c \in Calls, Tending(c) PROVE FALSE
      BY <2>1 DEF DInv, Placed, NoCall, Tending
    <2>2. subscriber # None =>
              active /\ subscriber \in listening /\ conn[subscriber] = "subscribed"
      BY <2>1 DEF DInv, Tended
    <2>3. active => subscriber # None
      BY DEF DInv, TypeOK
    <2>4. QED
      BY <2>2, <2>3
  <1>2. QED
    BY <1>1, DInvHolds, PTL

\* A notification changes the known queues, and so emits queueCreated or
\* queueRemoved, only while discovery is active (client.ts:880, 888): of the
\* connections that have a handler only the subscriber's is not closed.
THEOREM DiscoverySilentAfterStop == Spec => SilentAfterStop
  <1>1. ASSUME DInv, [Next]_vars, NEW n \in Conns,
               inbox'[n] # inbox[n], known' # known
        PROVE  active
    <2>1. PICK m \in Conns : Notified(m)
      BY <1>1 DEF Next, BeginStart, Configured, Subscribed, ScanReads, FinishStart,
         BeginStop, Unsubscribed, Quit, Refused, CommandFails, Create, Remove, Publish,
         Cut, Reconnect, vars, redis, sent, client
    <2>2. m \in listening /\ inbox[m] # <<>>
      BY <1>1, <2>1 DEF Notified
    <2>3. conn[m] = "subscribed"
      BY <1>1, <2>2 DEF DInv, Hushed
    <2>4. QED
      BY <1>1, <2>2, <2>3 DEF DInv, OneListens
  <1>2. QED
    <2>1. DInv /\ [Next]_vars =>
              [\A n \in Conns : inbox'[n] # inbox[n] /\ known' # known => active]_vars
      BY <1>1
    <2>2. QED
      BY <2>1, DInvHolds, PTL DEF Spec, SilentAfterStop

\* getKnownQueueNames is what Redis has, once the notifications are read, but
\* for queues whose change nobody heard, whatever was created and removed
\* between the subscription, the scan and the handler (client.ts:859-898).
THEOREM DiscoveryKnownCurrent == Spec => []KnownCurrent
  <1>1. DInv /\ KInv => KnownCurrent
    <2> SUFFICES ASSUME DInv, KInv, active, ~tangled, conn[subscriber] = "subscribed",
                        inbox[subscriber] = <<>>
                 PROVE  known \ behind = queues \ behind
      BY DEF KnownCurrent
    <2>1. subscriber # None /\ known \subseteq Queues /\ queues \subseteq Queues
      BY DEF DInv, TypeOK
    <2>2. \A q \in Queues : ~Pending(subscriber, q)
      BY DEF Pending
    <2>3. \A q \in Queues : q \in behind \/ (q \in known <=> q \in queues)
      BY <2>1, <2>2 DEF KInv, View, Shown
    <2>4. QED
      BY <2>1, <2>3
  <1>2. QED
    BY <1>1, DInvHolds, KInvHolds, PTL
=============================================================================
