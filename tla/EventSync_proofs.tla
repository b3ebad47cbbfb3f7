--------------------------- MODULE EventSync_proofs ---------------------------
(***************************************************************************)
(* Theorems about EventSync, for any triggers, events, processes, requests *)
(* and faults.                                                             *)
(***************************************************************************)
EXTENDS EventSync, FiniteSetTheorems, SequenceTheorems, TLAPS

\* A worker that is not applying anything has no command under way, and one
\* without a job remembers nothing.
Resting ==
    \A w \in Workers :
        /\ phase[w] # "applying" => wire[w] = <<>> /\ \A t \in Triggers : op[w][t] = "done"
        /\ phase[w] = "idle" => \A t \in Triggers : current[w][t] = NoSub

\* A job at work wants what some process asked for.
Asked == \A w \in Workers : phase[w] # "idle" => desired[w] \in Configs

\* An operation that unregisters has a subscription its job does not want, one
\* that registers a subscription its job wants.
Stages ==
    \A w \in Workers, t \in Triggers :
        /\ op[w][t] \in {"hdel", "hvals", "srem"} =>
               current[w][t] # NoSub /\ Differs(desired[w][t], current[w][t])
        /\ op[w][t] \in {"register", "chained"} => desired[w][t] # NoSub

\* The ghost `alone` is what it says.
AloneTruly ==
    \A w \in Workers : alone[w] => \A v \in Workers \ {w} : phase[v] = "idle"

\* A subscription of trigger t is in the hash of its event.
Held(t, sub) == sub # NoSub => hash[EventOf(sub)][t] # NoSub

\* Why an undisturbed job delivers: what it has read is there, and what it
\* wants and does not work on is there.
Delivering ==
    \A w \in Workers : alone[w] => \A t \in Triggers :
        /\ phase[w] = "reading" => Held(t, current[w][t])
        /\ phase[w] = "applying" /\ ~errors[w] /\ op[w][t] = "done" => Held(t, desired[w][t])

\* An operation is about to ask whether event e still has subscriptions, or
\* to take it out of the index.
Checking(e) ==
    \E w \in Workers, t \in Triggers :
        op[w][t] \in {"hvals", "srem"} /\ EventOf(current[w][t]) = e

\* An event of the index has a subscription, or somebody checks.
IndexLooked ==
    ~disturbed => \A e \in index :
        (\E t \in Triggers : hash[e][t] # NoSub) \/ Checking(e)

\* The inductive invariant.
SInv ==
    /\ TypeOK
    /\ Resting
    /\ Asked
    /\ Stages
    /\ AloneTruly
    /\ Delivering
    /\ IndexLooked

-----------------------------------------------------------------------------
(* Lemmas *)

\* A subscription is an event and a payload.
LEMMA Subscription ==
    ASSUME NEW sub \in MaySub, sub # NoSub
    PROVE  EventOf(sub) \in Events /\ sub[2] \in Payloads /\ sub[2] # NoSub
  BY SyncAssumption DEF MaySub, Sub, EventOf

\* What a worker knows about a trigger.
LEMMA Knowledge ==
    ASSUME TypeOK, NEW w \in Workers, NEW t \in Triggers
    PROVE  /\ desired[w][t] \in MaySub /\ current[w][t] \in MaySub /\ op[w][t] \in Op
           /\ \A e \in Events : hash[e][t] \in Payloads \cup {NoSub}
  BY DEF TypeOK

\* A list of first commands is a sequence of triggers.
LEMMA SendingsType ==
    ASSUME NEW w \in Workers, NEW work \in SUBSET Triggers, NEW s \in Sendings(w, work)
    PROVE  s \in Seq(Triggers)
  <1>1. Cardinality(work) \in Nat
    BY SyncAssumption, FS_Subset, FS_CardinalityType
  <1>2. s \in [1..Cardinality(work) -> Triggers]
    BY DEF Sendings
  <1>3. QED
    BY <1>1, <1>2

\* A reply moves one operation of a worker that is applying its plan.
LEMMA ReplyEffect ==
    ASSUME TypeOK, Resting, NEW w \in Workers, NEW t \in Triggers, NEW stage \in Op,
           NEW to \in Op, Reply(w, t, stage, to)
    PROVE  /\ phase[w] = "applying"
           /\ op[w][t] = stage
           /\ op' \in [Workers -> [Triggers -> Op]]
           /\ op'[w][t] = to
           /\ \A v \in Workers, u \in Triggers : v # w \/ u # t => op'[v][u] = op[v][u]
           /\ wire' \in [Workers -> Seq(Triggers)]
           /\ \A v \in Workers \ {w} : wire'[v] = wire[v]
  <1>1. phase[w] = "applying" /\ op[w][t] = stage
    BY DEF Reply, Resting
  <1>2. /\ op' \in [Workers -> [Triggers -> Op]]
        /\ op'[w][t] = to
        /\ \A v \in Workers, u \in Triggers : v # w \/ u # t => op'[v][u] = op[v][u]
    BY DEF Reply, TypeOK
  <1>3. /\ wire' \in [Workers -> Seq(Triggers)]
        /\ \A v \in Workers \ {w} : wire'[v] = wire[v]
    <2>1. wire[w] \in Seq(Triggers) /\ wire[w] # <<>>
      BY DEF TypeOK, Reply
    <2>2. Tail(wire[w]) \in Seq(Triggers) /\ Append(Tail(wire[w]), t) \in Seq(Triggers)
      BY <2>1, HeadTailProperties, AppendProperties
    <2>3. QED
      BY <2>2 DEF Reply, TypeOK
  <1>4. QED
    BY <1>1, <1>2, <1>3
\* A worker that is released has forgotten everything.
LEMMA ReleaseEffect ==
    ASSUME TypeOK, NEW w \in Workers, Release(w)
    PROVE  /\ phase' \in [Workers -> {"idle", "reading", "applying"}]
           /\ desired' \in [Workers -> [Triggers -> MaySub]]
           /\ unread' \in [Workers -> SUBSET Events]
           /\ current' \in [Workers -> [Triggers -> MaySub]]
           /\ op' \in [Workers -> [Triggers -> Op]]
           /\ wire' \in [Workers -> Seq(Triggers)]
           /\ errors' \in [Workers -> BOOLEAN]
           /\ alone' \in [Workers -> BOOLEAN]
           /\ phase'[w] = "idle" /\ wire'[w] = <<>> /\ ~alone'[w]
           /\ \A t \in Triggers : current'[w][t] = NoSub /\ op'[w][t] = "done"
           /\ \A v \in Workers \ {w} :
                  /\ phase'[v] = phase[v] /\ desired'[v] = desired[v]
                  /\ current'[v] = current[v] /\ op'[v] = op[v] /\ wire'[v] = wire[v]
                  /\ errors'[v] = errors[v] /\ alone'[v] = alone[v]
  BY DEF Release, TypeOK, Empty, MaySub, Op

\* A release touches neither hash nor index: what is left of the invariant
\* holds if the operations were done, or else a fault has been recorded.
LEMMA ReleaseKeeps ==
    ASSUME SInv, NEW w \in Workers, Release(w), UNCHANGED redis, TypeOK',
           disturbed' = TRUE \/ (disturbed' = disturbed /\ \A t \in Triggers : op[w][t] = "done")
    PROVE  SInv'
  <1> USE DEF SInv
  <1>1. /\ phase'[w] = "idle" /\ wire'[w] = <<>> /\ ~alone'[w]
        /\ \A t \in Triggers : current'[w][t] = NoSub /\ op'[w][t] = "done"
        /\ \A v \in Workers \ {w} :
               /\ phase'[v] = phase[v] /\ desired'[v] = desired[v]
               /\ current'[v] = current[v] /\ op'[v] = op[v] /\ wire'[v] = wire[v]
               /\ errors'[v] = errors[v] /\ alone'[v] = alone[v]
    BY ReleaseEffect
  <1>2. Resting'
    BY <1>1 DEF Resting
  <1>3. Stages'
    BY <1>1 DEF Stages, Differs
  <1>a. Asked'
    BY <1>1 DEF Asked
  <1>4. AloneTruly'
    BY <1>1 DEF AloneTruly
  <1>5. Delivering'
    BY <1>1 DEF Delivering, Held, redis
  <1>6. IndexLooked'
    <2> SUFFICES ASSUME ~disturbed', NEW e \in index,
                        \A t \in Triggers : hash[e][t] = NoSub
                 PROVE  Checking(e)'
      BY DEF IndexLooked, redis
    <2>1. PICK v \in Workers, t \in Triggers :
              op[v][t] \in {"hvals", "srem"} /\ EventOf(current[v][t]) = e
      BY DEF IndexLooked, Checking
    <2>2. v # w
      BY <2>1
    <2>3. QED
      BY <1>1, <2>1, <2>2 DEF Checking
  <1>7. QED
    BY <1>2, <1>3, <1>4, <1>5, <1>6, <1>a

\* A reply that leaves hash and index alone keeps the invariant, if what was
\* checked is still checked, or has a subscription, or a fault is recorded.
LEMMA ReplyKeeps ==
    ASSUME SInv, NEW w \in Workers, NEW t \in Triggers, NEW stage \in Op, NEW to \in Op,
           Reply(w, t, stage, to), UNCHANGED <<redis, phase, desired, current, alone>>,
           TypeOK',
           to \in {"hdel", "hvals", "srem"} => stage \in {"hdel", "hvals", "srem"},
           to \in {"register", "chained"} => desired[w][t] # NoSub,
           errors'[w] \/ (to = "done" => stage = "done" \/ desired[w][t] = NoSub),
           \A v \in Workers \ {w} : errors'[v] = errors[v],
           errors[w] => errors'[w],
           \/ disturbed'
           \/ /\ disturbed' = disturbed
              /\ stage \in {"hvals", "srem"} =>
                     \/ to \in {"hvals", "srem"}
                     \/ \E u \in Triggers : hash[EventOf(current[w][t])][u] # NoSub
    PROVE  SInv'
  <1> USE DEF SInv
  <1>1. /\ phase[w] = "applying" /\ op[w][t] = stage /\ op'[w][t] = to
        /\ \A v \in Workers, u \in Triggers : v # w \/ u # t => op'[v][u] = op[v][u]
        /\ \A v \in Workers \ {w} : wire'[v] = wire[v]
    BY ReplyEffect
  <1>2. Resting'
    BY <1>1 DEF Resting
  <1>3. Stages'
    BY <1>1 DEF Stages
  <1>a. Asked'
    BY DEF Asked
  <1>4. AloneTruly'
    BY DEF AloneTruly
  <1>5. Delivering'
    <2> SUFFICES ASSUME NEW v \in Workers, alone[v], NEW u \in Triggers
                 PROVE  /\ phase[v] = "reading" => Held(u, current[v][u])
                        /\ phase[v] = "applying" /\ ~errors'[v] /\ op'[v][u] = "done"
                               => Held(u, desired[v][u])
      BY DEF Delivering, Held, redis
    <2>1. CASE v = w /\ u = t
      BY <1>1, <2>1 DEF Delivering, Held
    <2>2. CASE v # w \/ u # t
      BY <1>1, <2>2 DEF Delivering
    <2>3. QED
      BY <2>1, <2>2
  <1>6. IndexLooked'
    <2> SUFFICES ASSUME ~disturbed', NEW e \in index,
                        \A u \in Triggers : hash[e][u] = NoSub
                 PROVE  Checking(e)'
      BY DEF IndexLooked, redis
    <2>1. PICK v \in Workers, u \in Triggers :
              op[v][u] \in {"hvals", "srem"} /\ EventOf(current[v][u]) = e
      BY DEF IndexLooked, Checking
    <2>2. op'[v][u] \in {"hvals", "srem"}
      BY <1>1, <2>1
    <2>3. QED
      BY <2>1, <2>2 DEF Checking
  <1>7. QED
    BY <1>2, <1>3, <1>4, <1>5, <1>6, <1>a

-----------------------------------------------------------------------------
(* The invariant is inductive *)

\* In the beginning there is nothing to be wrong about.
LEMMA SInvInit == Init => SInv
  <1> SUFFICES ASSUME Init PROVE SInv
    OBVIOUS
  <1>1. TypeOK
    <2>1. <<>> \in Seq(Configs) /\ <<>> \in Seq(Triggers)
      OBVIOUS
    <2>2. 0 \in 0..MaxRequests /\ 0 \in 0..MaxFaults
      BY SyncAssumption
    <2>3. Empty \in [Triggers -> MaySub] /\ Empty \in [Triggers -> Payloads \cup {NoSub}]
      BY DEF Empty, MaySub
    <2>4. /\ [w \in Workers |-> Empty] \in [Workers -> [Triggers -> MaySub]]
          /\ [e \in Events |-> Empty] \in [Events -> [Triggers -> Payloads \cup {NoSub}]]
      BY <2>3
    <2>5. /\ [w \in Workers |-> [t \in Triggers |-> "done"]] \in [Workers -> [Triggers -> Op]]
          /\ [w \in Workers |-> <<>>] \in [Workers -> Seq(Triggers)]
      BY <2>1 DEF Op
    <2>6. QED
      BY <2>1, <2>2, <2>3, <2>4, <2>5 DEF Init, TypeOK
  <1>2. Resting
    BY DEF Init, Resting, Empty
  <1>3. Asked /\ Stages
    BY DEF Init, Asked, Stages
  <1>4. AloneTruly /\ Delivering /\ IndexLooked
    BY DEF Init, AloneTruly, Delivering, IndexLooked
  <1>5. QED
    BY <1>1, <1>2, <1>3, <1>4 DEF SInv

LEMMA RequestSyncKeeps ==
    ASSUME SInv, NEW c \in Configs, RequestSync(c)
    PROVE  SInv'
  <1>1. UNCHANGED <<stalled, hash, index, phase, desired, unread, current, op, wire, errors,
                    alone, disturbed, faults>>
    BY DEF RequestSync, redis, reading, ghost
  <1>2. TypeOK'
    <2>1. c \in [Triggers -> MaySub]
      BY SyncAssumption
    <2>2. Append(queue, c) \in Seq(Configs)
      BY AppendProperties DEF SInv, TypeOK
    <2>3. requests + 1 \in 0..MaxRequests
      BY SyncAssumption DEF SInv, TypeOK, RequestSync
    <2>4. QED
      BY <1>1, <2>1, <2>2, <2>3 DEF SInv, TypeOK, RequestSync
  <1>3. QED
    BY <1>1, <1>2 DEF SInv, Resting, Asked, Stages, AloneTruly, Delivering,
                      IndexLooked, Held, Checking

LEMMA BeginSyncKeeps ==
    ASSUME SInv, NEW w \in Workers, BeginSync(w)
    PROVE  SInv'
  <1> USE DEF SInv
  <1>1. UNCHANGED <<stalled, latest, requests, hash, index, current, op, wire, errors, faults>>
    BY DEF BeginSync, redis
  <1>2. Head(queue) \in [Triggers -> MaySub] /\ Tail(queue) \in Seq(Configs)
        /\ Head(queue) \in Configs
    BY SyncAssumption, HeadTailProperties DEF BeginSync, TypeOK
  <1>3. TypeOK'
    BY <1>1, <1>2 DEF BeginSync, TypeOK
  <1>4. /\ phase[w] = "idle" /\ phase'[w] = "reading"
        /\ \A v \in Workers \ {w} : phase'[v] = phase[v] /\ desired'[v] = desired[v] /\ ~alone'[v]
        /\ alone'[w] => Busy = {}
        /\ disturbed => disturbed'
    BY DEF BeginSync, TypeOK
  <1>5. Resting'
    BY <1>1, <1>4 DEF Resting
  <1>6. Stages'
    BY <1>1, <1>4 DEF Stages, Resting
  <1>a. Asked'
    BY <1>2, <1>4 DEF Asked, BeginSync, TypeOK
  <1>7. AloneTruly'
    BY <1>4 DEF AloneTruly, Busy
  <1>8. Delivering'
    BY <1>1, <1>4 DEF Delivering, Held, Resting
  <1>9. IndexLooked'
    BY <1>1, <1>4 DEF IndexLooked, Checking
  <1>10. QED
    BY <1>3, <1>5, <1>6, <1>7, <1>8, <1>9, <1>a

LEMMA ReadEventKeeps ==
    ASSUME SInv, NEW w \in Workers, NEW e \in Events, ReadEvent(w, e)
    PROVE  SInv'
  <1> USE DEF SInv
  <1>1. UNCHANGED <<queue, stalled, latest, requests, hash, index, phase, desired, op, wire,
                    errors, alone, disturbed, faults>>
    BY DEF ReadEvent, jobs, redis, ghost
  <1>2. /\ phase[w] = "reading"
        /\ current' \in [Workers -> [Triggers -> MaySub]]
        /\ \A t \in Triggers :
               current'[w][t] = IF t \in Subscribed(e) THEN <<e, hash[e][t]>> ELSE current[w][t]
        /\ \A v \in Workers \ {w} : current'[v] = current[v]
    <2>1. \A t \in Triggers : t \in Subscribed(e) => <<e, hash[e][t]>> \in MaySub
      BY DEF TypeOK, Subscribed, MaySub, Sub
    <2>2. [t \in Triggers |-> IF t \in Subscribed(e) THEN <<e, hash[e][t]>>
                              ELSE current[w][t]] \in [Triggers -> MaySub]
      BY <2>1 DEF TypeOK
    <2>3. QED
      BY <2>2 DEF ReadEvent, TypeOK
  <1>3. TypeOK'
    BY <1>1, <1>2 DEF TypeOK, ReadEvent
  <1>4. \A t \in Triggers : op[w][t] = "done"
    BY <1>2 DEF Resting
  <1>5. Resting'
    BY <1>1, <1>2 DEF Resting
  <1>6. Stages'
    BY <1>1, <1>2, <1>4 DEF Stages
  <1>a. Asked'
    BY <1>1 DEF Asked
  <1>7. AloneTruly'
    BY <1>1 DEF AloneTruly
  <1>8. Delivering'
    <2> SUFFICES ASSUME NEW v \in Workers, alone[v], NEW t \in Triggers
                 PROVE  /\ phase[v] = "reading" => Held(t, current'[v][t])
                        /\ phase[v] = "applying" /\ ~errors[v] /\ op[v][t] = "done"
                               => Held(t, desired[v][t])
      BY <1>1 DEF Delivering, Held
    <2>1. t \in Subscribed(e) => Held(t, <<e, hash[e][t]>>)
      BY DEF Held, Subscribed, EventOf
    <2>2. QED
      BY <1>2, <2>1 DEF Delivering
  <1>9. IndexLooked'
    <2> SUFFICES ASSUME ~disturbed, NEW d \in index, \A t \in Triggers : hash[d][t] = NoSub
                 PROVE  Checking(d)'
      BY <1>1 DEF IndexLooked
    <2>1. PICK v \in Workers, t \in Triggers :
              op[v][t] \in {"hvals", "srem"} /\ EventOf(current[v][t]) = d
      BY DEF IndexLooked, Checking
    <2>2. v # w
      BY <1>4, <2>1
    <2>3. QED
      BY <1>1, <1>2, <2>1, <2>2 DEF Checking
  <1>10. QED
    BY <1>3, <1>5, <1>6, <1>7, <1>8, <1>9, <1>a

\* The plan is right about every trigger: what it leaves alone is where it
\* should be, what it moves differs, what it registers is wanted.
LEMMA PlanKeeps ==
    ASSUME SInv, NEW w \in Workers, Plan(w)
    PROVE  SInv'
  <1> USE DEF SInv
  <1> DEFINE first == [t \in Triggers |->
                    IF current[w][t] = NoSub
                    THEN IF desired[w][t] = NoSub THEN "done" ELSE "register"
                    ELSE IF Differs(desired[w][t], current[w][t]) THEN "hdel" ELSE "done"]
  <1>1. UNCHANGED <<queue, stalled, latest, requests, hash, index, desired, unread, current,
                    errors, alone, disturbed, faults>>
    BY DEF Plan, jobs, redis, reading, ghost
  <1>2. /\ phase[w] = "reading"
        /\ phase' = [phase EXCEPT ![w] = "applying"]
        /\ op' = [op EXCEPT ![w] = first]
    BY DEF Plan
  <1>3. PICK s \in Sendings(w, {t \in Triggers : first[t] # "done"}) :
            wire' = [wire EXCEPT ![w] = s]
    BY DEF Plan
  <1>4. s \in Seq(Triggers)
    <2>1. {t \in Triggers : first[t] # "done"} \in SUBSET Triggers
      OBVIOUS
    <2>2. QED
      BY <1>3, <2>1, SendingsType
  <1>5. \A t \in Triggers :
            /\ first[t] \in {"done", "hdel", "register"}
            /\ first[t] = "done" => ~Differs(desired[w][t], current[w][t]) \/ desired[w][t] = NoSub
            /\ first[t] = "hdel" => current[w][t] # NoSub /\ Differs(desired[w][t], current[w][t])
            /\ first[t] = "register" => desired[w][t] # NoSub
    BY DEF Differs
  <1> HIDE DEF first
  <1>6. first \in [Triggers -> Op]
    BY <1>5 DEF first, Op
  <1>7. TypeOK'
    BY <1>1, <1>2, <1>3, <1>4, <1>6 DEF TypeOK
  <1>8. /\ phase'[w] = "applying" /\ op'[w] = first
        /\ \A v \in Workers \ {w} : phase'[v] = phase[v] /\ op'[v] = op[v] /\ wire'[v] = wire[v]
    BY <1>2, <1>3 DEF TypeOK
  <1>9. Resting'
    BY <1>1, <1>8 DEF Resting
  <1>10. Stages'
    BY <1>1, <1>5, <1>8 DEF Stages
  <1>a. Asked'
    BY <1>1, <1>2, <1>8 DEF Asked
  <1>11. AloneTruly'
    BY <1>1, <1>2, <1>8 DEF AloneTruly
  <1>12. Delivering'
    <2> SUFFICES ASSUME NEW v \in Workers, alone[v], NEW t \in Triggers
                 PROVE  /\ phase'[v] = "reading" => Held(t, current[v][t])
                        /\ phase'[v] = "applying" /\ ~errors[v] /\ op'[v][t] = "done"
                               => Held(t, desired[v][t])
      BY <1>1 DEF Delivering, Held
    <2>1. CASE v = w
      <3>1. Held(t, current[w][t])
        BY <1>2, <2>1 DEF Delivering
      <3>2. first[t] = "done" => Held(t, desired[w][t])
        BY <1>5, <3>1 DEF Held, Differs
      <3>3. QED
        BY <1>8, <2>1, <3>1, <3>2
    <2>2. CASE v # w
      BY <1>8, <2>2 DEF Delivering
    <2>3. QED
      BY <2>1, <2>2
  <1>13. IndexLooked'
    <2> SUFFICES ASSUME ~disturbed, NEW d \in index, \A t \in Triggers : hash[d][t] = NoSub
                 PROVE  Checking(d)'
      BY <1>1 DEF IndexLooked
    <2>1. PICK v \in Workers, t \in Triggers :
              op[v][t] \in {"hvals", "srem"} /\ EventOf(current[v][t]) = d
      BY DEF IndexLooked, Checking
    <2>2. v # w
      BY <1>2, <2>1 DEF Resting
    <2>3. QED
      BY <1>1, <1>8, <2>1, <2>2 DEF Checking
  <1>14. QED
    BY <1>7, <1>9, <1>10, <1>11, <1>12, <1>13, <1>a

\* A job that wants a subscription elsewhere goes on registering it when the
\* old one is gone.
LEMMA AfterwardsType ==
    ASSUME NEW w \in Workers, NEW t \in Triggers
    PROVE  /\ AfterUnregister(w, t) \in Op
           /\ AfterUnregister(w, t) \in {"done", "chained"}
           /\ AfterUnregister(w, t) = "done" => desired[w][t] = NoSub
           /\ AfterUnregister(w, t) = "chained" => desired[w][t] # NoSub
  BY DEF AfterUnregister, Op

LEMMA RegisterKeeps ==
    ASSUME SInv, NEW w \in Workers, NEW t \in Triggers, Register(w, t)
    PROVE  SInv'
  <1> USE DEF SInv
  <1>1. UNCHANGED <<queue, stalled, latest, requests, phase, desired, unread, current, errors,
                    alone, disturbed, faults>>
    BY DEF Register, jobs, reading, ghost
  <1>2. /\ phase[w] = "applying" /\ op[w][t] = "register" /\ op'[w][t] = "done"
        /\ op' \in [Workers -> [Triggers -> Op]]
        /\ \A v \in Workers, u \in Triggers : v # w \/ u # t => op'[v][u] = op[v][u]
        /\ wire' \in [Workers -> Seq(Triggers)]
        /\ \A v \in Workers \ {w} : wire'[v] = wire[v]
    BY ReplyEffect DEF Register, Op
  <1> DEFINE e == EventOf(desired[w][t])
  <1>3. e \in Events /\ desired[w][t][2] \in Payloads /\ desired[w][t][2] # NoSub
    BY <1>2, Subscription, Knowledge DEF Stages
  <1>4. /\ hash' \in [Events -> [Triggers -> Payloads \cup {NoSub}]]
        /\ hash'[e][t] # NoSub
        /\ \A d \in Events, u \in Triggers : hash[d][u] # NoSub => hash'[d][u] # NoSub
        /\ index' = index \cup {e}
    BY <1>3 DEF Register, TypeOK
  <1> HIDE DEF e
  <1>5. TypeOK'
    BY <1>1, <1>2, <1>3, <1>4 DEF TypeOK
  <1>6. Resting'
    <2> SUFFICES ASSUME NEW v \in Workers
                 PROVE  /\ phase[v] # "applying" => /\ wire'[v] = <<>>
                                                   /\ \A u \in Triggers : op'[v][u] = "done"
                        /\ phase[v] = "idle" => \A u \in Triggers : current[v][u] = NoSub
      BY <1>1 DEF Resting
    <2>1. CASE v = w
      BY <1>2, <2>1
    <2>2. CASE v # w
      <3>1. wire'[v] = wire[v] /\ \A u \in Triggers : op'[v][u] = op[v][u]
        BY <1>2, <2>2
      <3>2. QED
        BY <3>1 DEF Resting
    <2>3. QED
      BY <2>1, <2>2
  <1>7. Stages'
    BY <1>1, <1>2 DEF Stages
  <1>a. Asked'
    BY <1>1 DEF Asked
  <1>8. AloneTruly'
    BY <1>1 DEF AloneTruly
  <1>9. Delivering'
    <2> SUFFICES ASSUME NEW v \in Workers, alone[v], NEW u \in Triggers
                 PROVE  /\ phase[v] = "reading" => Held(u, current[v][u])'
                        /\ phase[v] = "applying" /\ ~errors[v] /\ op'[v][u] = "done"
                               => Held(u, desired[v][u])'
      BY <1>1 DEF Delivering
    <2>1. \A sub \in MaySub : Held(u, sub) => (sub # NoSub => hash'[EventOf(sub)][u] # NoSub)
      BY <1>4, Subscription DEF Held
    <2>2. current[v][u] \in MaySub /\ desired[v][u] \in MaySub
      BY Knowledge
    <2>3. CASE v = w /\ u = t
      BY <1>1, <1>2, <1>4, <2>3 DEF Held, e
    <2>4. CASE v # w \/ u # t
      <3>1. op'[v][u] = op[v][u]
        BY <1>2, <2>4
      <3>2. /\ phase[v] = "reading" => Held(u, current[v][u])
            /\ phase[v] = "applying" /\ ~errors[v] /\ op[v][u] = "done"
                   => Held(u, desired[v][u])
        BY DEF Delivering
      <3>3. Held(u, current[v][u]) => Held(u, current[v][u])'
        BY <1>1, <2>1, <2>2 DEF Held
      <3>4. Held(u, desired[v][u]) => Held(u, desired[v][u])'
        BY <1>1, <2>1, <2>2 DEF Held
      <3>5. QED
        BY <3>1, <3>2, <3>3, <3>4
    <2>5. QED
      BY <2>3, <2>4
  <1>10. IndexLooked'
    <2> SUFFICES ASSUME ~disturbed, NEW d \in index', \A u \in Triggers : hash'[d][u] = NoSub
                 PROVE  Checking(d)'
      BY <1>1 DEF IndexLooked
    <2>1. d \in index /\ d \in Events /\ d # e
      BY <1>3, <1>4 DEF TypeOK
    <2>2. PICK v \in Workers, u \in Triggers :
              op[v][u] \in {"hvals", "srem"} /\ EventOf(current[v][u]) = d
      BY <1>4, <2>1 DEF IndexLooked, Checking
    <2>3. op'[v][u] = op[v][u]
      BY <1>2, <2>2
    <2>4. QED
      BY <1>1, <2>2, <2>3 DEF Checking
  <1>11. QED
    BY <1>5, <1>6, <1>7, <1>8, <1>9, <1>10, <1>a

LEMMA HDelKeeps ==
    ASSUME SInv, NEW w \in Workers, NEW t \in Triggers, HDel(w, t)
    PROVE  SInv'
  <1> USE DEF SInv
  <1> DEFINE e  == EventOf(current[w][t])
             to == IF t \in Subscribed(e) THEN "hvals" ELSE AfterUnregister(w, t)
  <1>1. UNCHANGED <<queue, stalled, latest, requests, index, phase, desired, unread, current,
                    errors, alone, disturbed, faults>>
    BY DEF HDel, jobs, reading, ghost
  <1>2. to \in Op /\ (to = "done" => desired[w][t] = NoSub) /\ to \notin {"hdel", "srem", "register"}
        /\ (to = "chained" => desired[w][t] # NoSub)
        /\ (hash[e][t] # NoSub => to = "hvals")
    BY AfterwardsType DEF Op, Subscribed
  <1>3. Reply(w, t, "hdel", to) /\ hash' = [hash EXCEPT ![e][t] = NoSub]
    BY DEF HDel
  <1> HIDE DEF to
  <1>4. /\ phase[w] = "applying" /\ op[w][t] = "hdel" /\ op'[w][t] = to
        /\ op' \in [Workers -> [Triggers -> Op]]
        /\ \A v \in Workers, u \in Triggers : v # w \/ u # t => op'[v][u] = op[v][u]
        /\ wire' \in [Workers -> Seq(Triggers)]
        /\ \A v \in Workers \ {w} : wire'[v] = wire[v]
    BY <1>2, <1>3, ReplyEffect DEF Op
  <1>5. e \in Events /\ current[w][t] # NoSub
        /\ Differs(desired[w][t], current[w][t])
    BY <1>4, Subscription, Knowledge DEF Stages
  <1>6. /\ hash' \in [Events -> [Triggers -> Payloads \cup {NoSub}]]
        /\ hash'[e][t] = NoSub
        /\ \A d \in Events, u \in Triggers : d # e \/ u # t => hash'[d][u] = hash[d][u]
    BY <1>3, <1>5 DEF TypeOK
  <1> HIDE DEF e
  <1>7. TypeOK'
    BY <1>1, <1>4, <1>6 DEF TypeOK
  <1>8. Resting'
    <2> SUFFICES ASSUME NEW v \in Workers
                 PROVE  /\ phase[v] # "applying" => /\ wire'[v] = <<>>
                                                   /\ \A u \in Triggers : op'[v][u] = "done"
                        /\ phase[v] = "idle" => \A u \in Triggers : current[v][u] = NoSub
      BY <1>1 DEF Resting
    <2>1. CASE v = w
      BY <1>4, <2>1
    <2>2. CASE v # w
      <3>1. wire'[v] = wire[v] /\ \A u \in Triggers : op'[v][u] = op[v][u]
        BY <1>4, <2>2
      <3>2. QED
        BY <3>1 DEF Resting
    <2>3. QED
      BY <2>1, <2>2
  <1>9. Stages'
    BY <1>1, <1>2, <1>4, <1>5 DEF Stages
  <1>a. Asked'
    BY <1>1 DEF Asked
  <1>10. AloneTruly'
    BY <1>1 DEF AloneTruly
  <1>11. Delivering'
    <2> SUFFICES ASSUME NEW v \in Workers, alone[v], NEW u \in Triggers
                 PROVE  /\ phase[v] = "reading" => Held(u, current[v][u])'
                        /\ phase[v] = "applying" /\ ~errors[v] /\ op'[v][u] = "done"
                               => Held(u, desired[v][u])'
      BY <1>1 DEF Delivering
    <2>1. v = w
      BY <1>4 DEF AloneTruly
    <2>2. desired[v][u] \in MaySub
      BY Knowledge
    <2>3. CASE u = t
      BY <1>1, <1>2, <1>4, <2>1, <2>3 DEF Held
    <2>4. CASE u # t
      <3>1. op'[v][u] = op[v][u]
        BY <1>4, <2>4
      <3>2. phase[v] = "applying" /\ ~errors[v] /\ op[v][u] = "done" => Held(u, desired[v][u])
        BY DEF Delivering
      <3>3. desired[v][u] # NoSub =>
                hash'[EventOf(desired[v][u])][u] = hash[EventOf(desired[v][u])][u]
        BY <1>6, <2>2, <2>4, Subscription
      <3>4. QED
        BY <1>1, <1>4, <2>1, <3>1, <3>2, <3>3 DEF Held
    <2>5. QED
      BY <2>3, <2>4
  <1>12. IndexLooked'
    <2> SUFFICES ASSUME ~disturbed, NEW d \in index, \A u \in Triggers : hash'[d][u] = NoSub
                 PROVE  Checking(d)'
      BY <1>1 DEF IndexLooked
    <2>1. CASE d = e /\ hash[e][t] # NoSub
      BY <1>1, <1>2, <1>4, <2>1 DEF Checking, e
    <2>2. CASE d # e \/ hash[e][t] = NoSub
      <3>1. d \in Events
        BY DEF TypeOK
      <3>2. \A u \in Triggers : hash[d][u] = NoSub
        BY <1>6, <2>2, <3>1
      <3>3. PICK v \in Workers, u \in Triggers :
                op[v][u] \in {"hvals", "srem"} /\ EventOf(current[v][u]) = d
        BY <3>2 DEF IndexLooked, Checking
      <3>4. op'[v][u] = op[v][u]
        BY <1>4, <3>3
      <3>5. QED
        BY <1>1, <3>3, <3>4 DEF Checking
    <2>3. QED
      BY <2>1, <2>2
  <1>13. QED
    BY <1>7, <1>8, <1>9, <1>10, <1>11, <1>12, <1>a

LEMMA HValsKeeps ==
    ASSUME SInv, NEW w \in Workers, NEW t \in Triggers, HVals(w, t)
    PROVE  SInv'
  <1> USE DEF SInv
  <1> DEFINE to == IF Subscribed(EventOf(current[w][t])) = {} THEN "srem"
                   ELSE AfterUnregister(w, t)
  <1>1. UNCHANGED <<queue, stalled, latest, requests, hash, index, phase, desired, unread,
                    current, errors, alone, disturbed, faults>>
    BY DEF HVals, jobs, redis, reading, ghost
  <1>2. /\ to \in Op
        /\ to \in {"srem", "done", "chained"}
        /\ to = "done" => desired[w][t] = NoSub
        /\ to = "chained" => desired[w][t] # NoSub
        /\ to = "srem" \/ \E u \in Triggers : hash[EventOf(current[w][t])][u] # NoSub
    BY AfterwardsType DEF Op, Subscribed
  <1>3. Reply(w, t, "hvals", to)
    BY DEF HVals
  <1> HIDE DEF to
  <1>4. TypeOK'
    <2>1. op' \in [Workers -> [Triggers -> Op]] /\ wire' \in [Workers -> Seq(Triggers)]
      BY <1>2, <1>3, ReplyEffect DEF Op
    <2>2. QED
      BY <1>1, <2>1 DEF TypeOK
  <1>5. QED
    <2>1. "hvals" \in Op
      BY DEF Op
    <2>2. UNCHANGED <<redis, phase, desired, current, alone>>
      BY <1>1 DEF redis
    <2>3. QED
      BY <1>1, <1>2, <1>3, <1>4, <2>1, <2>2, ReplyKeeps

\* The event leaves the index when the operation that takes it out is done:
\* for all other events nothing has changed.
LEMMA SRemKeeps ==
    ASSUME SInv, NEW w \in Workers, NEW t \in Triggers, SRem(w, t)
    PROVE  SInv'
  <1> USE DEF SInv
  <1> DEFINE to == AfterUnregister(w, t)
  <1>1. UNCHANGED <<queue, stalled, latest, requests, hash, phase, desired, unread,
                    current, errors, alone, disturbed, faults>>
    BY DEF SRem, jobs, reading, ghost
  <1>2. /\ to \in Op
        /\ to \in {"done", "chained"}
        /\ to = "done" => desired[w][t] = NoSub
        /\ to = "chained" => desired[w][t] # NoSub
    BY AfterwardsType
  <1>3. Reply(w, t, "srem", to) /\ index' = index \ {EventOf(current[w][t])}
    BY DEF SRem
  <1> HIDE DEF to
  <1>4. /\ phase[w] = "applying" /\ op[w][t] = "srem" /\ op'[w][t] = to
        /\ op' \in [Workers -> [Triggers -> Op]]
        /\ \A v \in Workers, u \in Triggers : v # w \/ u # t => op'[v][u] = op[v][u]
        /\ wire' \in [Workers -> Seq(Triggers)]
        /\ \A v \in Workers \ {w} : wire'[v] = wire[v]
    BY <1>2, <1>3, ReplyEffect DEF Op
  <1>5. TypeOK'
    BY <1>1, <1>3, <1>4 DEF TypeOK
  <1>6. Resting'
    <2> SUFFICES ASSUME NEW v \in Workers
                 PROVE  /\ phase[v] # "applying" => /\ wire'[v] = <<>>
                                                   /\ \A u \in Triggers : op'[v][u] = "done"
                        /\ phase[v] = "idle" => \A u \in Triggers : current[v][u] = NoSub
      BY <1>1 DEF Resting
    <2>1. CASE v = w
      BY <1>4, <2>1
    <2>2. CASE v # w
      <3>1. wire'[v] = wire[v] /\ \A u \in Triggers : op'[v][u] = op[v][u]
        BY <1>4, <2>2
      <3>2. QED
        BY <3>1 DEF Resting
    <2>3. QED
      BY <2>1, <2>2
  <1>7. Asked'
    BY <1>1 DEF Asked
  <1>8. Stages'
    BY <1>1, <1>2, <1>4 DEF Stages
  <1>9. AloneTruly'
    BY <1>1 DEF AloneTruly
  <1>10. Delivering'
    <2> SUFFICES ASSUME NEW v \in Workers, alone[v], NEW u \in Triggers
                 PROVE  /\ phase[v] = "reading" => Held(u, current[v][u])
                        /\ phase[v] = "applying" /\ ~errors[v] /\ op'[v][u] = "done"
                               => Held(u, desired[v][u])
      BY <1>1 DEF Delivering, Held
    <2>1. CASE v = w /\ u = t
      BY <1>2, <1>4, <2>1 DEF Held
    <2>2. CASE v # w \/ u # t
      BY <1>4, <2>2 DEF Delivering
    <2>3. QED
      BY <2>1, <2>2
  <1>11. IndexLooked'
    <2> SUFFICES ASSUME ~disturbed, NEW d \in index, d # EventOf(current[w][t]),
                        \A u \in Triggers : hash[d][u] = NoSub
                 PROVE  Checking(d)'
      BY <1>1, <1>3 DEF IndexLooked
    <2>1. PICK v \in Workers, u \in Triggers :
              op[v][u] \in {"hvals", "srem"} /\ EventOf(current[v][u]) = d
      BY DEF IndexLooked, Checking
    <2>2. v # w \/ u # t
      BY <2>1
    <2>3. op'[v][u] = op[v][u]
      BY <1>4, <2>2
    <2>4. QED
      BY <1>1, <2>1, <2>3 DEF Checking
  <1>12. QED
    BY <1>5, <1>6, <1>7, <1>8, <1>9, <1>10, <1>11

LEMMA SendChainedKeeps ==
    ASSUME SInv, NEW w \in Workers, NEW t \in Triggers, SendChained(w, t)
    PROVE  SInv'
  <1> USE DEF SInv
  <1>1. UNCHANGED <<queue, stalled, latest, requests, hash, index, phase, desired, unread,
                    current, errors, alone, disturbed, faults>>
    BY DEF SendChained, jobs, redis, reading, ghost
  <1>2. Append(wire[w], t) \in Seq(Triggers)
    BY AppendProperties DEF TypeOK
  <1>3. /\ phase[w] = "applying" /\ op[w][t] = "chained" /\ op'[w][t] = "register"
        /\ op' \in [Workers -> [Triggers -> Op]]
        /\ \A v \in Workers, u \in Triggers : v # w \/ u # t => op'[v][u] = op[v][u]
    BY DEF SendChained, Resting, TypeOK, Op
  <1>4. /\ wire' \in [Workers -> Seq(Triggers)]
        /\ \A v \in Workers \ {w} : wire'[v] = wire[v]
    BY <1>2 DEF SendChained, TypeOK
  <1>5. TypeOK'
    BY <1>1, <1>3, <1>4 DEF TypeOK
  <1>6. Resting'
    <2> SUFFICES ASSUME NEW v \in Workers
                 PROVE  /\ phase[v] # "applying" => /\ wire'[v] = <<>>
                                                   /\ \A u \in Triggers : op'[v][u] = "done"
                        /\ phase[v] = "idle" => \A u \in Triggers : current[v][u] = NoSub
      BY <1>1 DEF Resting
    <2>1. CASE v = w
      BY <1>3, <2>1
    <2>2. CASE v # w
      <3>1. wire'[v] = wire[v] /\ \A u \in Triggers : op'[v][u] = op[v][u]
        BY <1>3, <1>4, <2>2
      <3>2. QED
        BY <3>1 DEF Resting
    <2>3. QED
      BY <2>1, <2>2
  <1>7. Asked'
    BY <1>1 DEF Asked
  <1>8. Stages'
    BY <1>1, <1>3 DEF Stages
  <1>9. AloneTruly'
    BY <1>1 DEF AloneTruly
  <1>10. Delivering'
    <2> SUFFICES ASSUME NEW v \in Workers, alone[v], NEW u \in Triggers
                 PROVE  /\ phase[v] = "reading" => Held(u, current[v][u])
                        /\ phase[v] = "applying" /\ ~errors[v] /\ op'[v][u] = "done"
                               => Held(u, desired[v][u])
      BY <1>1 DEF Delivering, Held
    <2>1. CASE v = w /\ u = t
      BY <1>3, <2>1
    <2>2. CASE v # w \/ u # t
      BY <1>3, <2>2 DEF Delivering
    <2>3. QED
      BY <2>1, <2>2
  <1>11. IndexLooked'
    <2> SUFFICES ASSUME ~disturbed, NEW d \in index, \A u \in Triggers : hash[d][u] = NoSub
                 PROVE  Checking(d)'
      BY <1>1 DEF IndexLooked
    <2>1. PICK v \in Workers, u \in Triggers :
              op[v][u] \in {"hvals", "srem"} /\ EventOf(current[v][u]) = d
      BY DEF IndexLooked, Checking
    <2>2. v # w \/ u # t
      BY <1>3, <2>1
    <2>3. op'[v][u] = op[v][u]
      BY <1>3, <2>2
    <2>4. QED
      BY <1>1, <2>1, <2>3 DEF Checking
  <1>12. QED
    BY <1>5, <1>6, <1>7, <1>8, <1>9, <1>10, <1>11

\* What a fault spends.
LEMMA BlameEffect ==
    ASSUME TypeOK, Blame
    PROVE  faults' \in 0..MaxFaults /\ disturbed' = TRUE
  BY SyncAssumption DEF TypeOK, Blame

LEMMA FinishSyncKeeps ==
    ASSUME SInv, NEW w \in Workers, FinishSync(w)
    PROVE  SInv'
  <1>1. UNCHANGED <<queue, stalled, latest, requests, hash, index, disturbed, faults>>
    BY DEF FinishSync, jobs, redis
  <1>2. Release(w) /\ \A t \in Triggers : op[w][t] = "done"
    BY DEF FinishSync
  <1>3. TypeOK'
    BY <1>1, <1>2, ReleaseEffect DEF SInv, TypeOK
  <1>4. UNCHANGED redis
    BY <1>1 DEF redis
  <1>5. QED
    BY <1>1, <1>2, <1>3, <1>4, ReleaseKeeps

LEMMA FetchFailsKeeps ==
    ASSUME SInv, NEW w \in Workers, FetchFails(w)
    PROVE  SInv'
  <1>1. UNCHANGED <<queue, stalled, latest, requests, hash, index>>
    BY DEF FetchFails, jobs, redis
  <1>2. Release(w) /\ faults' \in 0..MaxFaults /\ disturbed' = TRUE
    BY BlameEffect DEF FetchFails, SInv
  <1>3. TypeOK'
    BY <1>1, <1>2, ReleaseEffect DEF SInv, TypeOK
  <1>4. UNCHANGED redis
    BY <1>1 DEF redis
  <1>5. QED
    BY <1>2, <1>3, <1>4, ReleaseKeeps

LEMMA CrashKeeps ==
    ASSUME SInv, NEW w \in Workers, Crash(w)
    PROVE  SInv'
  <1>1. UNCHANGED <<queue, latest, requests, hash, index>>
    BY DEF Crash, redis
  <1>2. Release(w) /\ faults' \in 0..MaxFaults /\ disturbed' = TRUE
    BY BlameEffect DEF Crash, SInv
  <1>3. stalled' \in Seq(Configs)
    BY AppendProperties DEF Crash, SInv, Asked, TypeOK
  <1>4. TypeOK'
    BY <1>1, <1>2, <1>3, ReleaseEffect DEF SInv, TypeOK
  <1>5. UNCHANGED redis
    BY <1>1 DEF redis
  <1>6. QED
    BY <1>2, <1>4, <1>5, ReleaseKeeps

LEMMA OpFailsKeeps ==
    ASSUME SInv, NEW w \in Workers, NEW t \in Triggers, OpFails(w, t)
    PROVE  SInv'
  <1>1. UNCHANGED <<queue, stalled, latest, requests, hash, index, phase, desired, unread,
                    current, alone>>
    BY DEF OpFails, jobs, redis, reading
  <1>2. faults' \in 0..MaxFaults /\ disturbed' = TRUE
    BY BlameEffect DEF OpFails, SInv
  <1>3. PICK stage \in Op : Reply(w, t, stage, "done")
    BY DEF OpFails
  <1>4. /\ errors' \in [Workers -> BOOLEAN]
        /\ errors'[w] /\ \A v \in Workers \ {w} : errors'[v] = errors[v]
    BY DEF OpFails, SInv, TypeOK
  <1>5. "done" \in Op
    BY DEF Op
  <1>6. TypeOK'
    <2>1. op' \in [Workers -> [Triggers -> Op]] /\ wire' \in [Workers -> Seq(Triggers)]
      BY <1>3, <1>5, ReplyEffect DEF SInv
    <2>2. QED
      BY <1>1, <1>2, <1>4, <2>1 DEF SInv, TypeOK
  <1>7. UNCHANGED <<redis, phase, desired, current, alone>>
    BY <1>1 DEF redis
  <1>8. QED
    BY <1>2, <1>3, <1>4, <1>5, <1>6, <1>7, ReplyKeeps

LEMMA RequeueKeeps ==
    ASSUME SInv, Requeue
    PROVE  SInv'
  <1>1. UNCHANGED <<latest, requests, hash, index, phase, desired, unread, current, op, wire,
                    errors, alone, disturbed, faults>>
    BY DEF Requeue, redis, reading, ghost
  <1>2. Head(stalled) \in Configs /\ Tail(stalled) \in Seq(Configs)
    BY HeadTailProperties DEF Requeue, SInv, TypeOK
  <1>3. <<Head(stalled)>> \o queue \in Seq(Configs)
    BY <1>2, ConcatProperties DEF SInv, TypeOK
  <1>4. TypeOK'
    BY <1>1, <1>2, <1>3 DEF Requeue, SInv, TypeOK
  <1>5. QED
    BY <1>1, <1>4 DEF SInv, Resting, Asked, Stages, AloneTruly, Delivering,
                      IndexLooked, Held, Checking

\* Every step keeps the invariant.
LEMMA SInvNext == SInv /\ [Next]_vars => SInv'
  <1> SUFFICES ASSUME SInv, [Next]_vars
               PROVE  SInv'
    OBVIOUS
  <1>1. ASSUME NEW c \in Configs, RequestSync(c)
        PROVE  SInv'
    BY <1>1, RequestSyncKeeps
  <1>2. ASSUME NEW w \in Workers, SyncStep(w)
        PROVE  SInv'
    <2>1. CASE BeginSync(w)
      BY <2>1, BeginSyncKeeps
    <2>2. ASSUME NEW e \in Events, ReadEvent(w, e)
          PROVE  SInv'
      BY <2>2, ReadEventKeeps
    <2>3. CASE Plan(w)
      BY <2>3, PlanKeeps
    <2>4. ASSUME NEW t \in Triggers,
                 Register(w, t) \/ HDel(w, t) \/ HVals(w, t) \/ SRem(w, t) \/ SendChained(w, t)
          PROVE  SInv'
      BY <2>4, RegisterKeeps, HDelKeeps, HValsKeeps, SRemKeeps, SendChainedKeeps
    <2>5. CASE FinishSync(w)
      BY <2>5, FinishSyncKeeps
    <2>6. QED
      BY <1>2, <2>1, <2>2, <2>3, <2>4, <2>5 DEF SyncStep
  <1>3. ASSUME NEW w \in Workers, Fault(w)
        PROVE  SInv'
    BY <1>3, FetchFailsKeeps, CrashKeeps, OpFailsKeeps DEF Fault
  <1>4. CASE Requeue
    BY <1>4, RequeueKeeps
  <1>5. CASE UNCHANGED vars
    BY <1>5 DEF vars, jobs, redis, reading, ghost, SInv, TypeOK, Resting, Asked, Stages,
                AloneTruly, Delivering, IndexLooked, Held, Checking
  <1>6. QED
    BY <1>1, <1>2, <1>3, <1>4, <1>5 DEF Next

LEMMA SInvAlways == Spec => []SInv
  BY SInvInit, SInvNext, PTL DEF Spec

-----------------------------------------------------------------------------
(* Theorems *)

\* Every variable keeps its type: in particular no operation ever looks for
\* the event of a subscription it does not have, and a job that is handed out
\* again is one that was requested (event-manager.ts:107-280).
THEOREM TypeCorrect == Spec => []TypeOK
  <1>1. SInv => TypeOK
    BY DEF SInv
  <1>2. QED
    BY <1>1, SInvAlways, PTL

\* A sync job that had Redis to itself and counted no error has registered all
\* that its process wants, whatever jobs, crashes and failed calls before it
\* left in the hashes and in the index: what the job left alone was there when
\* it read it, what it moved is registered again, and nobody else touched it
\* (process, event-manager.ts:107-280).
THEOREM Delivers == Spec => []SyncDelivers
  <1>1. SInv => SyncDelivers
    <2> SUFFICES ASSUME SInv, NEW w \in Workers, phase[w] = "applying",
                        \A t \in Triggers : op[w][t] = "done", alone[w], ~errors[w]
                 PROVE  Registered(desired[w])
      BY DEF SyncDelivers
    <2>1. \A t \in Triggers : Held(t, desired[w][t])
      BY DEF SInv, Delivering
    <2>2. QED
      BY <2>1 DEF Registered, Held, Subscribed
  <1>2. QED
    BY <1>1, SInvAlways, PTL

\* While jobs follow one another and nothing fails, an event stays in the
\* task's index only as long as the task has a subscription for it, or an
\* operation is still to look: the last of several unregistrations finds the
\* hash empty and takes the event out (unregister,
\* event-subscriptions.ts:147-205).
THEOREM IndexFollows == Spec => []IndexNotStale
  <1>1. SInv => IndexNotStale
    <2> SUFFICES ASSUME SInv, Quiet, ~disturbed, NEW e \in index
                 PROVE  Subscribed(e) # {}
      BY DEF IndexNotStale
    <2>1. \A w \in Workers, t \in Triggers : op[w][t] = "done"
      BY DEF SInv, Resting, Quiet, Busy
    <2>2. QED
      BY <2>1 DEF SInv, IndexLooked, Checking, Subscribed
  <1>2. QED
    BY <1>1, SInvAlways, PTL

\* The step that ends the HDEL of worker w for trigger t and event e, whose job
\* does not want the subscription.
Unregisters(w, e, t) ==
    /\ phase[w] = "applying"
    /\ op[w][t] = "hdel" /\ op'[w][t] # "hdel"
    /\ EventOf(current[w][t]) = e
    /\ Differs(desired[w][t], <<e, hash[e][t]>>)

\* Only HDEL takes a subscription away, and the job that sent it does not want
\* it: not there, or not for that event.
LEMMA RemovedUnwanted ==
    ASSUME SInv, [Next]_vars, NEW e \in Events, NEW t \in Triggers,
           hash[e][t] # NoSub, hash'[e][t] = NoSub
    PROVE  \E w \in Workers : Unregisters(w, e, t)
  <1> USE DEF SInv
  <1>1. ASSUME NEW w \in Workers, NEW u \in Triggers, Register(w, u)
        PROVE  FALSE
    <2>1. op[w][u] = "register"
      BY <1>1 DEF Register, Reply
    <2>2. /\ EventOf(desired[w][u]) \in Events
          /\ desired[w][u][2] # NoSub
      BY <2>1, Subscription, Knowledge DEF Stages
    <2>3. hash' = [hash EXCEPT ![EventOf(desired[w][u])][u] = desired[w][u][2]]
      BY <1>1 DEF Register
    <2>4. QED
      BY <2>2, <2>3 DEF TypeOK
  <1>2. ASSUME NEW w \in Workers, NEW u \in Triggers, HDel(w, u)
        PROVE  Unregisters(w, e, t)
    <2>1. op[w][u] = "hdel"
      BY <1>2 DEF HDel, Reply
    <2>2. Differs(desired[w][u], current[w][u]) /\ current[w][u] # NoSub
      BY <2>1 DEF Stages
    <2>3. EventOf(current[w][u]) \in Events
      BY <2>2, Subscription, Knowledge
    <2>4. u = t /\ EventOf(current[w][u]) = e
      BY <1>2, <2>3 DEF HDel, TypeOK
    <2>5. phase[w] = "applying" /\ op'[w][u] # "hdel"
      <3>1. AfterUnregister(w, u) \in {"done", "chained"}
        BY DEF AfterUnregister
      <3>2. PICK to \in Op : to # "hdel" /\ Reply(w, u, "hdel", to)
        BY <1>2, <3>1 DEF HDel, Op
      <3>3. QED
        BY <3>2, ReplyEffect DEF Op
    <2>6. Differs(desired[w][t], <<e, hash[e][t]>>)
      BY <2>2, <2>4 DEF Differs, EventOf
    <2>7. QED
      BY <2>1, <2>4, <2>5, <2>6 DEF Unregisters
  <1>3. CASE UNCHANGED hash
    BY <1>3
  <1>4. QED
    <2>1. ASSUME NEW w \in Workers, NEW u \in Triggers,
                 HVals(w, u) \/ SRem(w, u) \/ SendChained(w, u) \/ OpFails(w, u)
          PROVE  UNCHANGED hash
      BY <2>1 DEF HVals, SRem, SendChained, OpFails, redis
    <2>2. ASSUME NEW w \in Workers, FinishSync(w) \/ FetchFails(w) \/ Crash(w) \/ Plan(w)
                                        \/ BeginSync(w)
          PROVE  UNCHANGED hash
      BY <2>2 DEF FinishSync, FetchFails, Crash, Plan, BeginSync, redis
    <2>3. ASSUME NEW w \in Workers, NEW d \in Events, ReadEvent(w, d)
          PROVE  UNCHANGED hash
      BY <2>3 DEF ReadEvent, redis
    <2>4. ASSUME NEW c \in Configs, RequestSync(c)
          PROVE  UNCHANGED hash
      BY <2>4 DEF RequestSync, redis
    <2>5. CASE Requeue \/ UNCHANGED vars
      BY <2>5, <1>3 DEF Requeue, vars, redis
    <2>6. CASE Next
      BY <2>6, <1>1, <1>2, <1>3, <2>1, <2>2, <2>3, <2>4, <2>5 DEF Next, SyncStep, Fault
    <2>7. QED
      BY <2>5, <2>6

\* A sync never takes away a subscription that the job which sent the HDEL
\* keeps: while a trigger is moved or a stale one removed, events go on
\* reaching the others (event-manager.ts:196-265).
THEOREM NothingWantedRemoved == Spec => OnlyUnwantedRemoved
  <1>1. SInv /\ [Next]_vars =>
            [\A e \in Events, t \in Triggers :
                 hash[e][t] # NoSub /\ hash'[e][t] = NoSub =>
                     \E w \in Workers :
                         /\ phase[w] = "applying"
                         /\ op[w][t] = "hdel" /\ op'[w][t] # "hdel"
                         /\ EventOf(current[w][t]) = e
                         /\ Differs(desired[w][t], <<e, hash[e][t]>>)]_vars
    BY RemovedUnwanted DEF Unregisters
  <1>2. QED
    BY <1>1, SInvAlways, PTL DEF Spec, OnlyUnwantedRemoved
=============================================================================
