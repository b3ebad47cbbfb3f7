------------------------ MODULE EventDispatcher_proofs ------------------------
(***************************************************************************)
(* Theorems about EventDispatcher, for any events, tasks, processes, sends,*)
(* attempts, changes and faults.                                           *)
(***************************************************************************)
EXTENDS EventDispatcher, SequenceTheorems, TLAPS

\* The job of a send that has not failed has an attempt left.
Trying == \A s \in Sends : pc[s] # "failed" => attempts[s] < MaxAttempts

\* A scan says about event e what is so now: no change came between.
Exact(scan, e) ==
    /\ e \in scan.must <=> subs[e] # {}
    /\ e \in scan.may <=> subs[e] # {}

\* What a process was told and has begun to act upon: the scan that will have
\* the last word saw the change, and when it is over the cache has it.
Fresh ==
    \A p \in Procs : ~timer[p] => \A e \in heard[p] :
        IF scans[p] = <<>> THEN e \in cache[p] <=> subs[e] # {}
        ELSE Exact(scans[p][Len(scans[p])], e)

\* A scan for a send is its process's, the only one, and the send waits for it.
OwnScans ==
    \A p \in Procs : \A i \in DOMAIN scans[p] : \A s \in Sends :
        scans[p][i].for = <<s>> =>
            /\ Proc(s) = p
            /\ pc[s] = "scan"
            /\ \A j \in DOMAIN scans[p] : scans[p][j].for = <<s>> => j = i

\* An event that has had subscribers since the send began is in all scans from
\* the send's own on, and in the cache from its end on.
Polling ==
    \A s \in Sends : s \notin gap =>
        /\ pc[s] \in {"scan", "check"} => subs[Event(s)] # {}
        /\ \A i, k \in DOMAIN scans[Proc(s)] :
               scans[Proc(s)][i].for = <<s>> /\ i <= k => Event(s) \in scans[Proc(s)][k].must
        /\ pc[s] = "check" /\ Proc(s) \in polls =>
               /\ Event(s) \in cache[Proc(s)]
               /\ \A k \in DOMAIN scans[Proc(s)] : Event(s) \in scans[Proc(s)][k].must

\* The inductive invariant.
DInv ==
    /\ TypeOK
    /\ Trying
    /\ Fresh
    /\ OwnScans
    /\ Polling

-----------------------------------------------------------------------------
(* Lemmas about sequences *)

LEMMA Appended ==
    ASSUME NEW S, NEW q \in Seq(S), NEW x \in S
    PROVE  /\ Append(q, x) \in Seq(S)
           /\ Append(q, x) # <<>>
           /\ Len(Append(q, x)) = Len(q) + 1
           /\ Len(q) \in Nat
           /\ DOMAIN q = 1..Len(q)
           /\ DOMAIN Append(q, x) = 1..(Len(q) + 1)
           /\ \A i \in 1..Len(q) : Append(q, x)[i] = q[i]
           /\ Append(q, x)[Len(q) + 1] = x
  OBVIOUS

LEMMA Tailed ==
    ASSUME NEW S, NEW q \in Seq(S), q # <<>>
    PROVE  /\ Tail(q) \in Seq(S)
           /\ Head(q) \in S
           /\ Head(q) = q[1]
           /\ Len(q) \in Nat /\ Len(q) >= 1
           /\ DOMAIN q = 1..Len(q)
           /\ Len(Tail(q)) = Len(q) - 1
           /\ DOMAIN Tail(q) = 1..(Len(q) - 1)
           /\ \A i \in 1..(Len(q) - 1) : Tail(q)[i] = q[i + 1]
           /\ Tail(q) = <<>> <=> Len(q) = 1
  <1>1. Len(q) \in Nat /\ Len(q) >= 1 /\ DOMAIN q = 1..Len(q)
    OBVIOUS
  <1>2. Head(q) = q[1] /\ Head(q) \in S /\ Tail(q) \in Seq(S)
    OBVIOUS
  <1>3. Len(Tail(q)) = Len(q) - 1 /\ \A i \in 1..(Len(q) - 1) : Tail(q)[i] = q[i + 1]
    OBVIOUS
  <1>4. DOMAIN Tail(q) = 1..(Len(q) - 1)
    BY <1>2, <1>3
  <1>5. Tail(q) = <<>> <=> Len(q) = 1
    BY <1>1, <1>2, <1>3
  <1>6. QED
    BY <1>1, <1>2, <1>3, <1>4, <1>5

\* A sequence whose elements are replaced.
LEMMA Mapped ==
    ASSUME NEW S, NEW T, NEW q \in Seq(S), NEW g \in [DOMAIN q -> T]
    PROVE  g \in Seq(T) /\ Len(g) = Len(q) /\ DOMAIN g = DOMAIN q /\ (g = <<>> <=> q = <<>>)
  <1>1. DOMAIN q = 1..Len(q) /\ Len(q) \in Nat
    OBVIOUS
  <1>2. g \in [1..Len(q) -> T]
    BY <1>1
  <1>3. g \in Seq(T) /\ Len(g) = Len(q)
    BY <1>1, <1>2
  <1>4. QED
    BY <1>1, <1>3

-----------------------------------------------------------------------------
(* The invariant is inductive *)

LEMMA DInvInit == Init => DInv
  <1> SUFFICES ASSUME Init PROVE DInv
    OBVIOUS
  <1>1. TypeOK
    <2>1. <<>> \in Seq(SUBSET Events) /\ <<>> \in Seq(ScanRecord)
      OBVIOUS
    <2>2. 0 \in 0..MaxAttempts
      BY DispatcherAssumption
    <2>3. polls \subseteq {p \in Procs : ~subscribed[p]}
      BY DEF Init
    <2>4. QED
      BY <2>1, <2>2, <2>3 DEF Init, TypeOK, Stage
  <1>2. Trying
    BY DispatcherAssumption DEF Init, Trying
  <1>3. Fresh /\ OwnScans /\ Polling
    <2>1. \A p \in Procs : scans[p] = <<>> /\ DOMAIN scans[p] = {}
      BY DEF Init
    <2>2. send \in [Sends -> Procs \X Events]
      BY DEF Init
    <2>3. \A s \in Sends : Proc(s) \in Procs
      BY <2>2 DEF Proc
    <2>4. QED
      BY <2>1, <2>3 DEF Init, Fresh, OwnScans, Polling
  <1>4. QED
    BY <1>1, <1>2, <1>3 DEF DInv

\* A send happens in a process, for an event.
LEMMA SendParts ==
    ASSUME TypeOK, NEW s \in Sends
    PROVE  Proc(s) \in Procs /\ Event(s) \in Events
  BY DEF TypeOK, Proc, Event

\* What a scan found out so far.
LEMMA ScanParts ==
    ASSUME TypeOK, NEW p \in Procs
    PROVE  /\ scans[p] \in Seq(ScanRecord)
           /\ Len(scans[p]) \in Nat
           /\ DOMAIN scans[p] = 1..Len(scans[p])
           /\ \A i \in DOMAIN scans[p] : scans[p][i] \in ScanRecord
  BY DEF TypeOK

\* A subscription comes or goes: nobody has heard of it, and a scan under way
\* may see either.  The other events are as they were.
LEMMA ChangeKeeps ==
    ASSUME DInv, NEW e \in Events, NEW t \in Tasks, Change(e, t)
    PROVE  DInv'
  <1> USE DEF DInv
  <1>1. UNCHANGED <<polls, cache, subscribed, timer, send, pc, todo, missed, attempts, runs, faults>>
    BY DEF Change, jobs
  <1>2. subs' \in [Events -> SUBSET Tasks] /\ \A f \in Events \ {e} : subs'[f] = subs[f]
    BY DEF Change, TypeOK
  <1>3. ASSUME NEW p \in Procs
        PROVE  /\ scans'[p] \in Seq(ScanRecord)
               /\ Len(scans'[p]) = Len(scans[p])
               /\ DOMAIN scans'[p] = DOMAIN scans[p]
               /\ scans'[p] = <<>> <=> scans[p] = <<>>
               /\ \A i \in DOMAIN scans[p] :
                      /\ scans'[p][i].for = scans[p][i].for
                      /\ scans'[p][i].must = {f \in scans[p][i].must : subs'[f] # {}}
                      /\ scans'[p][i].may = scans[p][i].may \cup {f \in Events : subs'[f] # {}}
    <2>1. scans'[p] = [i \in DOMAIN scans[p] |->
              [scans[p][i] EXCEPT !.must = {f \in @ : subs'[f] # {}},
                                  !.may  = @ \cup {f \in Events : subs'[f] # {}}]]
      BY DEF Change
    <2>2. ASSUME NEW i \in DOMAIN scans[p]
          PROVE  /\ scans'[p][i] \in ScanRecord
                 /\ scans'[p][i].for = scans[p][i].for
                 /\ scans'[p][i].must = {f \in scans[p][i].must : subs'[f] # {}}
                 /\ scans'[p][i].may = scans[p][i].may \cup {f \in Events : subs'[f] # {}}
      <3>1. scans[p][i] \in ScanRecord
        BY <2>2, ScanParts
      <3>2. scans'[p][i] = [scans[p][i] EXCEPT
                !.must = {f \in scans[p][i].must : subs'[f] # {}},
                !.may  = scans[p][i].may \cup {f \in Events : subs'[f] # {}}]
        BY <2>1, <2>2
      <3> DEFINE must == {f \in scans[p][i].must : subs'[f] # {}}
                 may  == scans[p][i].may \cup {f \in Events : subs'[f] # {}}
      <3>3. must \in SUBSET Events /\ may \in SUBSET Events
        BY <3>1 DEF ScanRecord
      <3> HIDE DEF must, may
      <3>4. scans'[p][i] = [scans[p][i] EXCEPT !.must = must, !.may = may]
        BY <3>2 DEF must, may
      <3>5. /\ scans'[p][i] \in ScanRecord
            /\ scans'[p][i].for = scans[p][i].for
            /\ scans'[p][i].must = must
            /\ scans'[p][i].may = may
        BY <3>1, <3>3, <3>4 DEF ScanRecord
      <3>6. QED
        BY <3>5 DEF must, may
    <2>3. scans'[p] = [i \in DOMAIN scans[p] |-> scans'[p][i]]
      BY <2>1
    <2>4. scans[p] \in Seq(ScanRecord)
      BY ScanParts
    <2> HIDE DEF DInv
    <2>5. scans'[p] \in [DOMAIN scans[p] -> ScanRecord]
      BY <2>2, <2>3
    <2>6. /\ scans'[p] \in Seq(ScanRecord)
          /\ Len(scans'[p]) = Len(scans[p])
          /\ DOMAIN scans'[p] = DOMAIN scans[p]
          /\ scans'[p] = <<>> <=> scans[p] = <<>>
      BY <2>4, <2>5, Mapped
    <2>7. QED
      BY <2>2, <2>6
  <1>4. notices' \in [Procs -> Seq(SUBSET Events)]
    <2> SUFFICES ASSUME NEW p \in Procs
                 PROVE  notices'[p] \in Seq(SUBSET Events)
      BY DEF Change
    <2>1. notices'[p] = [i \in DOMAIN notices[p] |-> notices[p][i] \ {e}]
      BY DEF Change
    <2>2. notices'[p] = [i \in DOMAIN notices[p] |-> notices'[p][i]]
      BY <2>1
    <2>3. notices[p] \in Seq(SUBSET Events)
      BY DEF TypeOK
    <2>4. \A i \in DOMAIN notices[p] : notices'[p][i] \in SUBSET Events
      BY <2>1, <2>3
    <2> HIDE DEF DInv
    <2>5. notices'[p] \in [DOMAIN notices[p] -> SUBSET Events]
      BY <2>2, <2>4
    <2>6. QED
      BY <2>3, <2>5, Mapped
  <1>5. TypeOK'
    <2>1. scans' \in [Procs -> Seq(ScanRecord)]
      BY <1>3 DEF Change
    <2>2. changed' \subseteq Events /\ heard' \in [Procs -> SUBSET Events] /\ gap' \subseteq Sends
      BY DEF Change, TypeOK
    <2>3. QED
      BY <1>1, <1>2, <1>4, <2>1, <2>2 DEF TypeOK
  <1>6. Trying'
    BY <1>1 DEF Trying
  <1>7. Fresh'
    <2> SUFFICES ASSUME NEW p \in Procs, ~timer[p], NEW f \in heard'[p]
                 PROVE  IF scans'[p] = <<>> THEN f \in cache[p] <=> subs'[f] # {}
                        ELSE Exact(scans[p][Len(scans[p])], f)'
      BY <1>1 DEF Fresh
    <2>1. f \in heard[p] /\ f # e /\ f \in Events
      BY DEF Change, TypeOK
    <2>2. CASE scans[p] = <<>>
      BY <1>2, <1>3, <2>1, <2>2 DEF Fresh
    <2>3. CASE scans[p] # <<>>
      <3>1. Exact(scans[p][Len(scans[p])], f)
        BY <2>1, <2>3 DEF Fresh
      <3>2. Len(scans[p]) \in DOMAIN scans[p]
        BY <2>3, ScanParts
      <3>3. QED
        BY <1>2, <1>3, <2>1, <2>3, <3>1, <3>2 DEF Exact
    <2>4. QED
      BY <2>2, <2>3
  <1>8. OwnScans'
    BY <1>1, <1>3 DEF OwnScans, Proc
  <1>9. Polling'
    <2> SUFFICES ASSUME NEW s \in Sends, s \notin gap'
                 PROVE  /\ pc[s] \in {"scan", "check"} => subs'[Event(s)] # {}
                        /\ \A i, k \in DOMAIN scans'[Proc(s)] :
                               scans'[Proc(s)][i].for = <<s>> /\ i <= k =>
                                   Event(s) \in scans'[Proc(s)][k].must
                        /\ pc[s] = "check" /\ Proc(s) \in polls =>
                               /\ Event(s) \in cache[Proc(s)]
                               /\ \A k \in DOMAIN scans'[Proc(s)] :
                                      Event(s) \in scans'[Proc(s)][k].must
      BY <1>1 DEF Polling, Proc, Event
    <2>1. s \notin gap /\ (pc[s] \in {"scan", "check"} /\ Event(s) = e => subs'[e] # {})
      BY DEF Change
    <2>2. Proc(s) \in Procs /\ Event(s) \in Events
      BY SendParts
    <2>3. pc[s] \in {"scan", "check"} => subs'[Event(s)] # {}
      BY <1>2, <2>1, <2>2 DEF Polling
    <2>4. ASSUME NEW i \in DOMAIN scans[Proc(s)], NEW k \in DOMAIN scans[Proc(s)], i <= k,
                 scans[Proc(s)][i].for = <<s>>
          PROVE  Event(s) \in scans'[Proc(s)][k].must
      <3>1. pc[s] = "scan"
        BY <2>2, <2>4 DEF OwnScans
      <3>2. Event(s) \in scans[Proc(s)][k].must
        BY <2>1, <2>4 DEF Polling
      <3>3. QED
        BY <1>3, <2>2, <2>3, <3>1, <3>2
    <2>5. ASSUME pc[s] = "check", Proc(s) \in polls
          PROVE  /\ Event(s) \in cache[Proc(s)]
                 /\ \A k \in DOMAIN scans[Proc(s)] : Event(s) \in scans'[Proc(s)][k].must
      BY <1>3, <2>1, <2>2, <2>3, <2>5 DEF Polling
    <2>6. QED
      BY <1>3, <2>2, <2>3, <2>4, <2>5
  <1>10. QED
    BY <1>5, <1>6, <1>7, <1>8, <1>9

\* A scan that begins says what is so.
LEMMA NewScan ==
    ASSUME TypeOK, NEW for, for = Nobody \/ \E s \in Sends : for = <<s>>
    PROVE  /\ Scan(for) \in ScanRecord
           /\ Scan(for).for = for
           /\ \A e \in Events : Exact(Scan(for), e)
  BY DEF Scan, ScanRecord, Active, Exact

LEMMA Appending ==
    ASSUME TypeOK, NEW p \in Procs, NEW r \in ScanRecord,
           scans' = [scans EXCEPT ![p] = Append(@, r)]
    PROVE  /\ scans' \in [Procs -> Seq(ScanRecord)]
           /\ Len(scans'[p]) = Len(scans[p]) + 1
           /\ DOMAIN scans'[p] = 1..(Len(scans[p]) + 1)
           /\ scans'[p] # <<>>
           /\ \A i \in 1..Len(scans[p]) : scans'[p][i] = scans[p][i]
           /\ scans'[p][Len(scans[p]) + 1] = r
           /\ \A q \in Procs \ {p} : scans'[q] = scans[q]
  <1>1. scans[p] \in Seq(ScanRecord) /\ scans \in [Procs -> Seq(ScanRecord)]
    BY DEF TypeOK
  <1>2. scans'[p] = Append(scans[p], r) /\ \A q \in Procs \ {p} : scans'[q] = scans[q]
    BY <1>1
  <1>3. Append(scans[p], r) \in Seq(ScanRecord)
    BY <1>1, Appended
  <1>4. scans' \in [Procs -> Seq(ScanRecord)]
    BY <1>1, <1>3
  <1>5. QED
    BY <1>1, <1>2, <1>4, Appended

LEMMA Dropping ==
    ASSUME TypeOK, NEW p \in Procs, scans[p] # <<>>,
           scans' = [scans EXCEPT ![p] = Tail(@)]
    PROVE  /\ scans' \in [Procs -> Seq(ScanRecord)]
           /\ Head(scans[p]) = scans[p][1]
           /\ Head(scans[p]) \in ScanRecord
           /\ Len(scans[p]) \in Nat /\ Len(scans[p]) >= 1
           /\ Len(scans'[p]) = Len(scans[p]) - 1
           /\ DOMAIN scans'[p] = 1..(Len(scans[p]) - 1)
           /\ scans'[p] = <<>> <=> Len(scans[p]) = 1
           /\ \A i \in 1..(Len(scans[p]) - 1) : scans'[p][i] = scans[p][i + 1]
           /\ \A q \in Procs \ {p} : scans'[q] = scans[q]
  <1>1. scans[p] \in Seq(ScanRecord) /\ scans \in [Procs -> Seq(ScanRecord)]
    BY DEF TypeOK
  <1>2. scans'[p] = Tail(scans[p]) /\ \A q \in Procs \ {p} : scans'[q] = scans[q]
    BY <1>1
  <1>3. Tail(scans[p]) \in Seq(ScanRecord)
    BY <1>1, Tailed
  <1>4. scans' \in [Procs -> Seq(ScanRecord)]
    BY <1>1, <1>3
  <1>5. QED
    BY <1>1, <1>2, <1>4, Tailed

\* A debounced refresh begins after all it was told of.
LEMMA TimerFiresKeeps ==
    ASSUME DInv, NEW p \in Procs, TimerFires(p)
    PROVE  DInv'
  <1> USE DEF DInv
  <1> DEFINE r == Scan(Nobody)
             n == Len(scans[p])
  <1>1. UNCHANGED <<subs, changed, changes, notices, polls, cache, subscribed, send, pc, todo,
                    missed, attempts, runs, faults, heard, gap>>
    BY DEF TimerFires, registry, jobs, ghosts
  <1>2. r \in ScanRecord /\ r.for = Nobody /\ \A e \in Events : Exact(r, e)
    BY NewScan
  <1>3. scans' = [scans EXCEPT ![p] = Append(@, r)] /\ timer' = [timer EXCEPT ![p] = FALSE]
    BY DEF TimerFires
  <1> HIDE DEF r
  <1>4. /\ scans' \in [Procs -> Seq(ScanRecord)]
        /\ Len(scans'[p]) = n + 1
        /\ DOMAIN scans'[p] = 1..(n + 1)
        /\ scans'[p] # <<>>
        /\ \A i \in 1..n : scans'[p][i] = scans[p][i]
        /\ scans'[p][n + 1] = r
        /\ \A q \in Procs \ {p} : scans'[q] = scans[q]
    BY <1>2, <1>3, Appending
  <1>5. n \in Nat /\ DOMAIN scans[p] = 1..n
    BY ScanParts
  <1> HIDE DEF n
  <1>6. TypeOK'
    BY <1>1, <1>3, <1>4 DEF TypeOK
  <1>7. Trying'
    BY <1>1 DEF Trying
  <1>8. Fresh'
    <2> SUFFICES ASSUME NEW q \in Procs, ~timer'[q], NEW e \in heard[q]
                 PROVE  IF scans'[q] = <<>> THEN e \in cache[q] <=> subs[e] # {}
                        ELSE Exact(scans'[q][Len(scans'[q])], e)
      BY <1>1 DEF Fresh, Exact
    <2>1. CASE q = p
      BY <1>2, <1>4, <2>1 DEF TypeOK
    <2>2. CASE q # p
      BY <1>3, <1>4, <2>2 DEF Fresh, TypeOK
    <2>3. QED
      BY <2>1, <2>2
  <1>9. \A s \in Sends : r.for # <<s>>
    BY <1>2 DEF Nobody
  <1>10. OwnScans'
    <2> SUFFICES ASSUME NEW q \in Procs, NEW i \in DOMAIN scans'[q], NEW s \in Sends,
                        scans'[q][i].for = <<s>>
                 PROVE  /\ Proc(s) = q
                        /\ pc[s] = "scan"
                        /\ \A j \in DOMAIN scans'[q] : scans'[q][j].for = <<s>> => j = i
      BY <1>1 DEF OwnScans, Proc
    <2>1. CASE q = p
      <3>1. i \in 1..n /\ \A j \in DOMAIN scans'[p] : scans'[p][j].for = <<s>> => j \in 1..n
        BY <1>4, <1>5, <1>9, <2>1
      <3>2. QED
        BY <1>4, <1>5, <2>1, <3>1 DEF OwnScans
    <2>2. CASE q # p
      <3>1. scans'[q] = scans[q]
        BY <1>4, <2>2
      <3>2. QED
        BY <3>1 DEF OwnScans
    <2>3. QED
      BY <2>1, <2>2
  <1>11. Polling'
    <2> SUFFICES ASSUME NEW s \in Sends, s \notin gap
                 PROVE  /\ pc[s] \in {"scan", "check"} => subs[Event(s)] # {}
                        /\ \A i, k \in DOMAIN scans'[Proc(s)] :
                               scans'[Proc(s)][i].for = <<s>> /\ i <= k =>
                                   Event(s) \in scans'[Proc(s)][k].must
                        /\ pc[s] = "check" /\ Proc(s) \in polls =>
                               /\ Event(s) \in cache[Proc(s)]
                               /\ \A k \in DOMAIN scans'[Proc(s)] :
                                      Event(s) \in scans'[Proc(s)][k].must
      BY <1>1 DEF Polling, Proc, Event
    <2>1. pc[s] \in {"scan", "check"} => Event(s) \in r.must /\ subs[Event(s)] # {}
      BY <1>2, SendParts DEF Polling, Exact
    <2>2. CASE Proc(s) # p
      BY <1>4, <2>2, SendParts DEF Polling
    <2>3. CASE Proc(s) = p
      <3>1. ASSUME NEW i \in DOMAIN scans'[p], NEW k \in DOMAIN scans'[p], i <= k,
                   scans'[p][i].for = <<s>>
            PROVE  Event(s) \in scans'[p][k].must
        <4>1. i \in 1..n /\ scans[p][i].for = <<s>>
          BY <1>4, <1>5, <1>9, <3>1
        <4>2. pc[s] = "scan"
          BY <1>5, <4>1 DEF OwnScans
        <4>3. CASE k \in 1..n
          BY <1>4, <1>5, <2>3, <3>1, <4>1, <4>3 DEF Polling
        <4>4. CASE k = n + 1
          BY <1>4, <2>1, <4>2, <4>4
        <4>5. QED
          BY <1>4, <1>5, <4>3, <4>4
      <3>2. ASSUME pc[s] = "check", p \in polls
            PROVE  /\ Event(s) \in cache[p]
                   /\ \A k \in DOMAIN scans'[p] : Event(s) \in scans'[p][k].must
        <4>1. Event(s) \in cache[p] /\ \A k \in 1..n : Event(s) \in scans[p][k].must
          BY <1>5, <2>3, <3>2 DEF Polling
        <4>2. QED
          BY <1>4, <1>5, <2>1, <3>2, <4>1
      <3>3. QED
        BY <2>1, <2>3, <3>1, <3>2
    <2>4. QED
      BY <2>2, <2>3
  <1>12. QED
    BY <1>6, <1>7, <1>8, <1>10, <1>11

\* A scan for the send begins, or the cache will do.
LEMMA BeginSendKeeps ==
    ASSUME DInv, NEW s \in Sends, BeginSend(s)
    PROVE  DInv'
  <1> USE DEF DInv
  <1> DEFINE p == Proc(s)
             r == Scan(<<s>>)
             n == Len(scans[p])
  <1>1. UNCHANGED <<subs, changed, changes, notices, polls, cache, subscribed, timer, send, todo,
                    missed, attempts, runs, faults, heard>>
    BY DEF BeginSend, registry, jobs
  <1>2. /\ pc[s] = "new"
        /\ pc'[s] = IF MustScan(p) THEN "scan" ELSE "check"
        /\ \A u \in Sends \ {s} : pc'[u] = pc[u]
        /\ pc' \in [Sends -> Stage]
    BY DEF BeginSend, TypeOK, Stage
  <1>3. /\ s \notin gap' => s \notin gap /\ subs[Event(s)] # {}
        /\ \A u \in Sends \ {s} : u \in gap' <=> u \in gap
        /\ gap' \subseteq Sends
    BY DEF BeginSend, TypeOK
  <1>4. p \in Procs /\ p \in polls => MustScan(p)
    BY DEF MustScan, Listens
  <1>5. p \in Procs
    BY SendParts
  <1>6. Trying'
    BY <1>1, <1>2 DEF Trying
  <1>7. \A q \in Procs : \A i \in DOMAIN scans[q] : scans[q][i].for # <<s>>
    BY <1>2 DEF OwnScans
  <1>8. CASE ~MustScan(p)
    <2>1. scans' = scans
      BY <1>8 DEF BeginSend
    <2>2. TypeOK'
      BY <1>1, <1>2, <1>3, <2>1 DEF TypeOK
    <2>3. Fresh'
      BY <1>1, <2>1 DEF Fresh, Exact
    <2>4. OwnScans'
      BY <1>1, <1>2, <1>7, <2>1 DEF OwnScans, Proc
    <2>5. Polling'
      <3> SUFFICES ASSUME NEW u \in Sends, u \notin gap'
                   PROVE  /\ pc'[u] \in {"scan", "check"} => subs[Event(u)] # {}
                          /\ \A i, k \in DOMAIN scans[Proc(u)] :
                                 scans[Proc(u)][i].for = <<u>> /\ i <= k =>
                                     Event(u) \in scans[Proc(u)][k].must
                          /\ pc'[u] = "check" /\ Proc(u) \in polls =>
                                 /\ Event(u) \in cache[Proc(u)]
                                 /\ \A k \in DOMAIN scans[Proc(u)] :
                                        Event(u) \in scans[Proc(u)][k].must
        BY <1>1, <2>1 DEF Polling, Proc, Event
      <3>1. CASE u = s
        BY <1>3, <1>4, <1>5, <1>7, <1>8, <3>1
      <3>2. CASE u # s
        BY <1>2, <1>3, <3>2 DEF Polling
      <3>3. QED
        BY <3>1, <3>2
    <2>6. QED
      BY <1>6, <2>2, <2>3, <2>4, <2>5
  <1>9. CASE MustScan(p)
    <2>1. r \in ScanRecord /\ r.for = <<s>> /\ \A e \in Events : Exact(r, e)
      BY NewScan
    <2>2. scans' = [scans EXCEPT ![p] = Append(@, r)] /\ pc'[s] = "scan"
      BY <1>2, <1>9 DEF BeginSend
    <2> HIDE DEF r
    <2>3. /\ scans' \in [Procs -> Seq(ScanRecord)]
          /\ Len(scans'[p]) = n + 1
          /\ DOMAIN scans'[p] = 1..(n + 1)
          /\ scans'[p] # <<>>
          /\ \A i \in 1..n : scans'[p][i] = scans[p][i]
          /\ scans'[p][n + 1] = r
          /\ \A q \in Procs \ {p} : scans'[q] = scans[q]
      BY <1>5, <2>1, <2>2, Appending
    <2>4. n \in Nat /\ DOMAIN scans[p] = 1..n
      BY <1>5, ScanParts
    <2> HIDE DEF n, p
    <2>5. TypeOK'
      BY <1>1, <1>2, <1>3, <2>3 DEF TypeOK
    <2>6. Fresh'
      <3> SUFFICES ASSUME NEW q \in Procs, ~timer[q], NEW e \in heard[q]
                   PROVE  IF scans'[q] = <<>> THEN e \in cache[q] <=> subs[e] # {}
                          ELSE Exact(scans'[q][Len(scans'[q])], e)
        BY <1>1 DEF Fresh, Exact
      <3>1. CASE q = p
        BY <2>1, <2>3, <3>1 DEF TypeOK
      <3>2. CASE q # p
        BY <2>3, <3>2 DEF Fresh
      <3>3. QED
        BY <3>1, <3>2
    <2>7. OwnScans'
      <3> SUFFICES ASSUME NEW q \in Procs, NEW i \in DOMAIN scans'[q], NEW u \in Sends,
                          scans'[q][i].for = <<u>>
                   PROVE  /\ Proc(u) = q
                          /\ pc'[u] = "scan"
                          /\ \A j \in DOMAIN scans'[q] : scans'[q][j].for = <<u>> => j = i
        BY <1>1 DEF OwnScans, Proc
      <3>1. CASE q = p /\ u = s
        BY <1>5, <1>7, <2>1, <2>2, <2>3, <2>4, <3>1 DEF p
      <3>2. CASE q = p /\ u # s
        <4>1. r.for # <<u>>
          BY <2>1, <3>2
        <4>2. i \in 1..n /\ \A j \in DOMAIN scans'[p] : scans'[p][j].for = <<u>> => j \in 1..n
          BY <2>3, <2>4, <3>2, <4>1
        <4>3. scans[p][i].for = <<u>> /\ i \in DOMAIN scans[p]
          BY <2>3, <2>4, <3>2, <4>2
        <4>4. /\ Proc(u) = p
              /\ pc[u] = "scan"
              /\ \A j \in DOMAIN scans[p] : scans[p][j].for = <<u>> => j = i
          BY <1>5, <4>3 DEF OwnScans
        <4>5. QED
          BY <1>2, <2>3, <2>4, <3>2, <4>2, <4>4
      <3>3. CASE q # p
        <4>1. scans'[q] = scans[q]
          BY <2>3, <3>3
        <4>2. u # s
          BY <1>7, <4>1
        <4>3. QED
          BY <1>2, <4>1, <4>2 DEF OwnScans
      <3>4. QED
        BY <3>1, <3>2, <3>3
    <2>8. Polling'
      <3> SUFFICES ASSUME NEW u \in Sends, u \notin gap'
                   PROVE  /\ pc'[u] \in {"scan", "check"} => subs[Event(u)] # {}
                          /\ \A i, k \in DOMAIN scans'[Proc(u)] :
                                 scans'[Proc(u)][i].for = <<u>> /\ i <= k =>
                                     Event(u) \in scans'[Proc(u)][k].must
                          /\ pc'[u] = "check" /\ Proc(u) \in polls =>
                                 /\ Event(u) \in cache[Proc(u)]
                                 /\ \A k \in DOMAIN scans'[Proc(u)] :
                                        Event(u) \in scans'[Proc(u)][k].must
        BY <1>1 DEF Polling, Proc, Event
      <3>1. CASE u = s
        <4>1. Event(s) \in r.must /\ subs[Event(s)] # {}
          BY <1>3, <2>1, <3>1, SendParts DEF Exact
        <4>2. \A i \in DOMAIN scans'[p] : scans'[p][i].for = <<s>> => i = n + 1
          BY <1>5, <1>7, <2>3, <2>4
        <4>3. \A i, k \in DOMAIN scans'[p] :
                  scans'[p][i].for = <<s>> /\ i <= k => k = n + 1
          BY <2>3, <2>4, <4>2
        <4>4. QED
          BY <2>2, <2>3, <3>1, <4>1, <4>3 DEF p
      <3>2. CASE u # s /\ Proc(u) = p
        <4>1. pc'[u] = pc[u] /\ u \notin gap
          BY <1>2, <1>3, <3>2
        <4>2. pc[u] \in {"scan", "check"} => Event(u) \in r.must /\ subs[Event(u)] # {}
          BY <2>1, <4>1, SendParts DEF Polling, Exact
        <4>3. ASSUME NEW i \in DOMAIN scans'[p], NEW k \in DOMAIN scans'[p], i <= k,
                     scans'[p][i].for = <<u>>
              PROVE  Event(u) \in scans'[p][k].must
          <5>1. r.for # <<u>>
            BY <2>1, <3>2
          <5>2. i \in 1..n /\ scans[p][i].for = <<u>>
            BY <2>3, <2>4, <4>3, <5>1
          <5>3. pc[u] = "scan"
            BY <1>5, <2>4, <5>2 DEF OwnScans
          <5>4. CASE k \in 1..n
            BY <2>3, <2>4, <3>2, <4>1, <4>3, <5>2, <5>4 DEF Polling
          <5>5. CASE k = n + 1
            BY <2>3, <4>2, <5>3, <5>5
          <5>6. QED
            BY <2>3, <2>4, <5>4, <5>5
        <4>4. ASSUME pc[u] = "check", p \in polls
              PROVE  /\ Event(u) \in cache[p]
                     /\ \A k \in DOMAIN scans'[p] : Event(u) \in scans'[p][k].must
          <5>1. Event(u) \in cache[p] /\ \A k \in 1..n : Event(u) \in scans[p][k].must
            BY <2>4, <3>2, <4>1, <4>4 DEF Polling
          <5>2. QED
            BY <2>3, <2>4, <4>2, <4>4, <5>1
        <4>5. QED
          BY <3>2, <4>1, <4>2, <4>3, <4>4
      <3>3. CASE u # s /\ Proc(u) # p
        BY <1>2, <1>3, <2>3, <3>3, SendParts DEF Polling
      <3>4. QED
        BY <3>1, <3>2, <3>3
    <2>9. QED
      BY <1>6, <2>5, <2>6, <2>7, <2>8
  <1>10. QED
    BY <1>8, <1>9

\* The send that a scan is for.
LEMMA OwnScan ==
    ASSUME OwnScans, NEW p \in Procs, NEW i \in DOMAIN scans[p], NEW s \in Sends,
           scans[p][i].for = <<s>>
    PROVE  /\ Proc(s) = p
           /\ pc[s] = "scan"
           /\ \A j \in DOMAIN scans[p] : scans[p][j].for = <<s>> => j = i
  BY DEF OwnScans

\* The oldest scan of a process is over: the cache is what it found, or it
\* failed and nothing counts as heard; a send that waited for it goes on.
LEMMA ScanOver ==
    ASSUME DInv, NEW p \in Procs, scans[p] # <<>>, TypeOK',
           scans' = [scans EXCEPT ![p] = Tail(@)],
           UNCHANGED <<subs, polls, timer, send, gap, attempts>>,
           NEW stage \in {"check", "rejected"},
           \/ scans[p][1].for = Nobody /\ pc' = pc
           \/ \E s \in Sends : /\ scans[p][1].for = <<s>>
                               /\ pc' = [pc EXCEPT ![s] = stage],
           \A q \in Procs \ {p} : cache'[q] = cache[q] /\ heard'[q] = heard[q],
           \/ /\ heard' = heard
              /\ scans[p][1].must \subseteq cache'[p]
              /\ cache'[p] \subseteq scans[p][1].may
           \/ heard'[p] = {} /\ cache' = cache /\ stage = "rejected"
    PROVE  DInv'
  <1> USE DEF DInv
  <1> DEFINE n == Len(scans[p])
  <1>1. /\ n \in Nat /\ n >= 1
        /\ Len(scans'[p]) = n - 1
        /\ DOMAIN scans'[p] = 1..(n - 1)
        /\ scans'[p] = <<>> <=> n = 1
        /\ \A i \in 1..(n - 1) : scans'[p][i] = scans[p][i + 1]
        /\ \A q \in Procs \ {p} : scans'[q] = scans[q]
    BY Dropping
  <1>2. DOMAIN scans[p] = 1..n
    BY ScanParts
  <1> HIDE DEF n
  <1>3. ASSUME NEW s \in Sends
        PROVE  \/ scans[p][1].for = <<s>> /\ pc'[s] = stage
               \/ scans[p][1].for # <<s>> /\ pc'[s] = pc[s]
    <2>1. CASE scans[p][1].for = Nobody /\ pc' = pc
      BY <2>1 DEF Nobody
    <2>2. ASSUME NEW u \in Sends, scans[p][1].for = <<u>>, pc' = [pc EXCEPT ![u] = stage]
          PROVE  \/ scans[p][1].for = <<s>> /\ pc'[s] = stage
                 \/ scans[p][1].for # <<s>> /\ pc'[s] = pc[s]
      <3>1. <<u>> = <<s>> <=> u = s
        OBVIOUS
      <3>2. QED
        BY <2>2, <3>1 DEF TypeOK
    <2>3. QED
      BY <2>1, <2>2
  <1>a. /\ subs' = subs /\ polls' = polls /\ timer' = timer
        /\ send' = send /\ gap' = gap /\ attempts' = attempts
    OBVIOUS
  <1>c. \A s \in Sends : Proc(s)' = Proc(s) /\ Event(s)' = Event(s)
    BY <1>a DEF Proc, Event
  <1>b. 1 \in DOMAIN scans[p]
    BY <1>1, <1>2
  <1>4. Trying'
    <2> SUFFICES ASSUME NEW s \in Sends, pc'[s] # "failed"
                 PROVE  attempts[s] < MaxAttempts
      BY <1>a DEF Trying
    <2>1. pc[s] # "failed"
      BY <1>3, <1>b DEF OwnScans
    <2>2. QED
      BY <2>1 DEF Trying
  <1>5. Fresh'
    <2> SUFFICES ASSUME NEW q \in Procs, ~timer[q], NEW e \in heard'[q]
                 PROVE  IF scans'[q] = <<>> THEN e \in cache'[q] <=> subs[e] # {}
                        ELSE Exact(scans'[q][Len(scans'[q])], e)
      BY DEF Fresh, Exact
    <2>1. CASE q # p
      BY <1>1, <2>1 DEF Fresh
    <2>2. CASE q = p
      <3>1. /\ e \in heard[p]
            /\ scans[p][1].must \subseteq cache'[p]
            /\ cache'[p] \subseteq scans[p][1].may
        BY <2>2
      <3>2. Exact(scans[p][n], e)
        BY <2>2, <3>1 DEF Fresh, n
      <3>3. CASE n = 1
        BY <1>1, <2>2, <3>1, <3>2, <3>3 DEF Exact
      <3>4. CASE n # 1
        <4>1. scans'[p][n - 1] = scans[p][n]
          BY <1>1, <3>4
        <4>2. QED
          BY <1>1, <2>2, <3>2, <3>4, <4>1
      <3>5. QED
        BY <3>3, <3>4
    <2>3. QED
      BY <2>1, <2>2
  <1>6. OwnScans'
    <2> SUFFICES ASSUME NEW q \in Procs, NEW i \in DOMAIN scans'[q], NEW s \in Sends,
                        scans'[q][i].for = <<s>>
                 PROVE  /\ Proc(s) = q
                        /\ pc'[s] = "scan"
                        /\ \A j \in DOMAIN scans'[q] : scans'[q][j].for = <<s>> => j = i
      BY DEF OwnScans, Proc
    <2>1. CASE q = p
      <3>1. i \in 1..(n - 1) /\ i + 1 \in 1..n /\ scans[p][i + 1].for = <<s>>
        BY <1>1, <2>1
      <3>2. /\ Proc(s) = p
            /\ pc[s] = "scan"
            /\ \A j \in 1..n : scans[p][j].for = <<s>> => j = i + 1
        <4>1. i + 1 \in DOMAIN scans[p]
          BY <1>2, <3>1
        <4>2. /\ Proc(s) = p
              /\ pc[s] = "scan"
              /\ \A j \in DOMAIN scans[p] : scans[p][j].for = <<s>> => j = i + 1
          <5>1. scans[p][i + 1].for = <<s>>
            BY <3>1
          <5> DEFINE k == i + 1
          <5>2. k \in DOMAIN scans[p] /\ scans[p][k].for = <<s>>
            BY <4>1, <5>1
          <5> HIDE DEF k
          <5>3. /\ Proc(s) = p
                /\ pc[s] = "scan"
                /\ \A j \in DOMAIN scans[p] : scans[p][j].for = <<s>> => j = k
            BY <5>2, OwnScan
          <5>4. QED
            BY <5>3 DEF k
        <4>3. QED
          BY <1>2, <4>2
      <3>3. scans[p][1].for # <<s>>
        BY <1>1, <3>1, <3>2
      <3>4. ASSUME NEW j \in 1..(n - 1), scans'[p][j].for = <<s>>
            PROVE  j = i
        <4>1. j + 1 \in 1..n /\ scans[p][j + 1].for = <<s>>
          BY <1>1, <3>4
        <4>2. QED
          BY <1>1, <3>1, <3>2, <4>1
      <3>5. QED
        BY <1>1, <1>3, <2>1, <3>2, <3>3, <3>4
    <2>2. CASE q # p
      <3>1. scans'[q] = scans[q]
        BY <1>1, <2>2
      <3>2. i \in DOMAIN scans[q] /\ scans[q][i].for = <<s>>
        BY <3>1
      <3>3. /\ Proc(s) = q
            /\ pc[s] = "scan"
            /\ \A j \in DOMAIN scans[q] : scans[q][j].for = <<s>> => j = i
        BY <3>2 DEF OwnScans
      <3>4. scans[p][1].for # <<s>>
        BY <1>b, <2>2, <3>3 DEF OwnScans
      <3>5. QED
        BY <1>3, <3>1, <3>3, <3>4
    <2>3. QED
      BY <2>1, <2>2
  <1>7. Polling'
    <2> SUFFICES ASSUME NEW s \in Sends, s \notin gap
                 PROVE  /\ pc'[s] \in {"scan", "check"} => subs[Event(s)] # {}
                        /\ \A i, k \in DOMAIN scans'[Proc(s)] :
                               scans'[Proc(s)][i].for = <<s>> /\ i <= k =>
                                   Event(s) \in scans'[Proc(s)][k].must
                        /\ pc'[s] = "check" /\ Proc(s) \in polls =>
                               /\ Event(s) \in cache'[Proc(s)]
                               /\ \A k \in DOMAIN scans'[Proc(s)] :
                                      Event(s) \in scans'[Proc(s)][k].must
      BY <1>a, <1>c DEF Polling
    <2>1. /\ pc[s] \in {"scan", "check"} => subs[Event(s)] # {}
          /\ \A i, k \in DOMAIN scans[Proc(s)] :
                 scans[Proc(s)][i].for = <<s>> /\ i <= k => Event(s) \in scans[Proc(s)][k].must
          /\ pc[s] = "check" /\ Proc(s) \in polls =>
                 /\ Event(s) \in cache[Proc(s)]
                 /\ \A k \in DOMAIN scans[Proc(s)] : Event(s) \in scans[Proc(s)][k].must
      BY DEF Polling
    <2>2. CASE scans[p][1].for = <<s>>
      <3>1. Proc(s) = p /\ pc[s] = "scan" /\ pc'[s] = stage
        BY <1>1, <1>2, <1>3, <2>2 DEF OwnScans
      <3>2. \A k \in 1..n : Event(s) \in scans[p][k].must
        BY <1>1, <1>2, <2>1, <2>2, <3>1
      <3>3. \A k \in 1..(n - 1) : Event(s) \in scans'[p][k].must
        <4> TAKE k \in 1..(n - 1)
        <4>1. k + 1 \in 1..n /\ scans'[p][k] = scans[p][k + 1]
          BY <1>1
        <4>2. QED
          BY <3>2, <4>1
      <3>4. stage = "check" => Event(s) \in cache'[p]
        <4>1. Event(s) \in scans[p][1].must
          <5>1. 1 \in 1..n
            BY <1>1
          <5>2. QED
            BY <3>2, <5>1
        <4>2. stage = "check" => scans[p][1].must \subseteq cache'[p]
          OBVIOUS
        <4>3. QED
          BY <4>1, <4>2
      <3>5. QED
        BY <1>1, <2>1, <3>1, <3>3, <3>4
    <2>3. CASE scans[p][1].for # <<s>> /\ Proc(s) = p
      <3>1. pc'[s] = pc[s]
        BY <1>3, <2>3
      <3>2. ASSUME NEW i \in 1..(n - 1), NEW k \in 1..(n - 1), scans'[p][i].for = <<s>>, i <= k
            PROVE  Event(s) \in scans'[p][k].must
        <4>1. /\ i + 1 \in 1..n /\ k + 1 \in 1..n /\ i + 1 <= k + 1
              /\ scans[p][i + 1].for = <<s>> /\ scans'[p][k] = scans[p][k + 1]
          BY <1>1, <3>2
        <4>2. QED
          BY <1>2, <2>1, <2>3, <4>1
      <3>3. ASSUME pc[s] = "check", p \in polls
            PROVE  /\ Event(s) \in cache'[p]
                   /\ \A k \in 1..(n - 1) : Event(s) \in scans'[p][k].must
        <4>1. Event(s) \in cache[p] /\ \A k \in 1..n : Event(s) \in scans[p][k].must
          BY <1>2, <2>1, <2>3, <3>3
        <4>2. \A k \in 1..(n - 1) : k + 1 \in 1..n /\ scans'[p][k] = scans[p][k + 1]
          BY <1>1
        <4>3. Event(s) \in cache'[p]
          BY <1>1, <4>1
        <4>4. QED
          BY <4>1, <4>2, <4>3
      <3>4. QED
        <4>1. DOMAIN scans'[Proc(s)] = 1..(n - 1) /\ Proc(s) = p
          BY <1>1, <2>3
        <4>2. pc'[s] \in {"scan", "check"} => subs[Event(s)] # {}
          BY <2>1, <3>1
        <4>3. \A i, k \in 1..(n - 1) :
                  scans'[p][i].for = <<s>> /\ i <= k => Event(s) \in scans'[p][k].must
          BY <3>2
        <4>4. pc'[s] = "check" /\ p \in polls =>
                  /\ Event(s) \in cache'[p]
                  /\ \A k \in 1..(n - 1) : Event(s) \in scans'[p][k].must
          BY <3>1, <3>3
        <4>5. QED
          BY <4>1, <4>2, <4>3, <4>4
    <2>4. CASE scans[p][1].for # <<s>> /\ Proc(s) # p
      <3>1. pc'[s] = pc[s] /\ scans'[Proc(s)] = scans[Proc(s)] /\ cache'[Proc(s)] = cache[Proc(s)]
        BY <1>1, <1>3, <2>4, SendParts
      <3>2. QED
        BY <2>1, <3>1
    <2>5. QED
      BY <2>2, <2>3, <2>4
  <1>8. QED
    BY <1>4, <1>5, <1>6, <1>7

LEMMA FinishScanKeeps ==
    ASSUME DInv, NEW p \in Procs, FinishScan(p)
    PROVE  DInv'
  <1> USE DEF DInv
  <1>1. UNCHANGED <<subs, changed, changes, notices, polls, timer, send, todo, missed, attempts,
                    runs, faults, heard, gap>>
    BY DEF FinishScan, registry, jobs, ghosts
  <1>2. scans[p] # <<>> /\ scans' = [scans EXCEPT ![p] = Tail(@)]
    BY DEF FinishScan
  <1>3. /\ scans' \in [Procs -> Seq(ScanRecord)]
        /\ Head(scans[p]) = scans[p][1] /\ scans[p][1] \in ScanRecord
    BY <1>2, Dropping
  <1>4. PICK found \in SUBSET scans[p][1].may :
            scans[p][1].must \subseteq found /\ cache' = [cache EXCEPT ![p] = found]
    BY <1>3 DEF FinishScan
  <1>5. /\ cache' \in [Procs -> SUBSET Events]
        /\ cache'[p] = found
        /\ \A q \in Procs \ {p} : cache'[q] = cache[q]
    BY <1>3, <1>4 DEF TypeOK, ScanRecord
  <1>6. \/ scans[p][1].for = Nobody /\ pc' = pc /\ subscribed' = subscribed
        \/ \E s \in Sends : /\ scans[p][1].for = <<s>>
                            /\ pc' = [pc EXCEPT ![s] = "check"]
                            /\ subscribed' = [subscribed EXCEPT ![p] = Listens(p)]
    <2>1. CASE scans[p][1].for = Nobody
      BY <1>3, <2>1 DEF FinishScan
    <2>2. CASE scans[p][1].for # Nobody
      <3>1. PICK s \in Sends : scans[p][1].for = <<s>>
        BY <1>3, <2>2 DEF ScanRecord
      <3>2. Head(scans[p]).for # Nobody /\ Head(scans[p]).for[1] = s
        <4>1. <<s>>[1] = s
          OBVIOUS
        <4>2. QED
          BY <1>3, <2>2, <3>1, <4>1
      <3>3. QED
        BY <3>1, <3>2 DEF FinishScan
    <2>3. QED
      BY <2>1, <2>2
  <1>7. TypeOK'
    <2>1. pc' \in [Sends -> Stage]
      BY <1>6 DEF TypeOK, Stage
    <2>2. subscribed' \in [Procs -> BOOLEAN] /\ polls \subseteq {q \in Procs : ~subscribed'[q]}
      BY <1>6 DEF TypeOK, Listens
    <2>3. QED
      BY <1>1, <1>3, <1>5, <2>1, <2>2 DEF TypeOK
  <1> HIDE DEF DInv
  <1>8. QED
    BY <1>1, <1>2, <1>4, <1>5, <1>6, <1>7, ScanOver

LEMMA ScanFailsKeeps ==
    ASSUME DInv, NEW p \in Procs, ScanFails(p)
    PROVE  DInv'
  <1> USE DEF DInv
  <1>1. UNCHANGED <<subs, changed, changes, notices, polls, cache, subscribed, timer, send, todo,
                    missed, attempts, runs, gap>>
    BY DEF ScanFails, registry, jobs
  <1>2. scans[p] # <<>> /\ scans' = [scans EXCEPT ![p] = Tail(@)]
    BY DEF ScanFails
  <1>3. /\ scans' \in [Procs -> Seq(ScanRecord)]
        /\ Head(scans[p]) = scans[p][1] /\ scans[p][1] \in ScanRecord
    BY <1>2, Dropping
  <1>4. /\ heard' \in [Procs -> SUBSET Events]
        /\ heard'[p] = {}
        /\ \A q \in Procs \ {p} : heard'[q] = heard[q]
    BY DEF ScanFails, TypeOK
  <1>5. \/ scans[p][1].for = Nobody /\ pc' = pc
        \/ \E s \in Sends : /\ scans[p][1].for = <<s>>
                            /\ pc' = [pc EXCEPT ![s] = "rejected"]
    <2>1. CASE scans[p][1].for = Nobody
      BY <1>3, <2>1 DEF ScanFails
    <2>2. CASE scans[p][1].for # Nobody
      <3>1. PICK s \in Sends : scans[p][1].for = <<s>>
        BY <1>3, <2>2 DEF ScanRecord
      <3>2. Head(scans[p]).for # Nobody /\ Head(scans[p]).for[1] = s
        <4>1. <<s>>[1] = s
          OBVIOUS
        <4>2. QED
          BY <1>3, <2>2, <3>1, <4>1
      <3>3. QED
        BY <3>1, <3>2 DEF ScanFails
    <2>3. QED
      BY <2>1, <2>2
  <1>6. TypeOK'
    <2>1. pc' \in [Sends -> Stage]
      BY <1>5 DEF TypeOK, Stage
    <2>2. QED
      BY <1>1, <1>3, <1>4, <2>1 DEF TypeOK
  <1> HIDE DEF DInv
  <1>7. QED
    BY <1>1, <1>2, <1>4, <1>5, <1>6, ScanOver

\* Each notice starts the timer: nothing is claimed before the scan it leads to.
LEMMA HearKeeps ==
    ASSUME DInv, NEW p \in Procs, Hear(p)
    PROVE  DInv'
  <1> USE DEF DInv
  <1>1. UNCHANGED <<subs, changed, changes, polls, cache, subscribed, scans, send, pc, todo,
                    missed, attempts, runs, faults, gap>>
    BY DEF Hear, registry, jobs
  <1>2. Head(notices[p]) \in SUBSET Events /\ Tail(notices[p]) \in Seq(SUBSET Events)
    BY Tailed DEF Hear, TypeOK
  <1>3. /\ timer' \in [Procs -> BOOLEAN]
        /\ heard' \in [Procs -> SUBSET Events]
        /\ \A q \in Procs : ~timer'[q] => ~timer[q] /\ heard'[q] = heard[q]
    <2>1. CASE subscribed[p]
      <3>1. /\ timer' = [timer EXCEPT ![p] = TRUE]
            /\ heard' = [heard EXCEPT ![p] = @ \cup Head(notices[p])]
        BY <2>1 DEF Hear, ArmTimer
      <3>2. /\ timer' \in [Procs -> BOOLEAN]
            /\ timer'[p] = TRUE
            /\ \A q \in Procs \ {p} : timer'[q] = timer[q]
        BY <3>1 DEF TypeOK
      <3>3. heard[p] \cup Head(notices[p]) \in SUBSET Events
        BY <1>2 DEF TypeOK
      <3>4. /\ heard' \in [Procs -> SUBSET Events]
            /\ \A q \in Procs \ {p} : heard'[q] = heard[q]
        BY <3>1, <3>3 DEF TypeOK
      <3>5. QED
        BY <3>2, <3>4
    <2>2. CASE ~subscribed[p]
      BY <2>2 DEF Hear, TypeOK
    <2>3. QED
      BY <2>1, <2>2
  <1>4. TypeOK'
    <2>1. notices' \in [Procs -> Seq(SUBSET Events)]
      BY <1>2 DEF Hear, TypeOK
    <2>2. QED
      BY <1>1, <1>3, <2>1 DEF TypeOK
  <1>5. Fresh'
    BY <1>1, <1>3 DEF Fresh, Exact
  <1>6. Trying' /\ OwnScans' /\ Polling'
    BY <1>1 DEF Trying, OwnScans, Polling, Proc, Event
  <1>7. QED
    BY <1>4, <1>5, <1>6

\* What the sync jobs and the processes do elsewhere is of no concern to the
\* caches.
LEMMA ElsewhereKeeps ==
    ASSUME DInv, TypeOK',
           UNCHANGED <<subs, polls, cache, timer, scans, send, pc, attempts, heard, gap>>
    PROVE  DInv'
  BY DEF DInv, Trying, Fresh, Exact, OwnScans, Polling, Proc, Event

LEMMA SyncKeeps ==
    ASSUME DInv, SyncCompletes \/ SyncCrashes
    PROVE  DInv'
  <1>1. UNCHANGED <<subs, polls, cache, subscribed, timer, scans, send, pc, todo, missed, attempts,
                    runs, heard, gap>>
    BY DEF SyncCompletes, SyncCrashes, process, jobs, ghosts
  <1>2. notices' \in [Procs -> Seq(SUBSET Events)]
    <2>1. CASE SyncCompletes
      <3>1. \A p \in Procs : Append(notices[p], changed) \in Seq(SUBSET Events)
        BY Appended DEF DInv, TypeOK
      <3>2. QED
        BY <2>1, <3>1 DEF SyncCompletes
    <2>2. CASE SyncCrashes
      BY <2>2 DEF SyncCrashes, DInv, TypeOK
    <2>3. QED
      BY <2>1, <2>2
  <1>3. changed' = {}
    BY DEF SyncCompletes, SyncCrashes
  <1>4. TypeOK'
    BY <1>1, <1>2, <1>3 DEF DInv, TypeOK
  <1>5. QED
    BY <1>1, <1>4, ElsewhereKeeps

LEMMA CheckCacheKeeps ==
    ASSUME DInv, NEW s \in Sends, CheckCache(s)
    PROVE  DInv'
  <1> USE DEF DInv
  <1>1. UNCHANGED <<subs, changed, changes, notices, polls, cache, subscribed, timer, scans, send,
                    todo, missed, attempts, runs, faults, heard>>
    BY DEF CheckCache, registry, process, jobs
  <1>2. /\ pc[s] = "check"
        /\ pc'[s] \in {"waiting", "dropped"}
        /\ \A u \in Sends \ {s} : pc'[u] = pc[u]
        /\ pc' \in [Sends -> Stage]
        /\ gap' = gap \ {s}
    BY DEF CheckCache, TypeOK, Stage
  <1>3. TypeOK'
    BY <1>1, <1>2 DEF TypeOK
  <1>4. Trying'
    BY <1>1, <1>2 DEF Trying
  <1>5. Fresh'
    BY <1>1 DEF Fresh, Exact
  <1>6. \A q \in Procs : \A i \in DOMAIN scans[q] : scans[q][i].for # <<s>>
    BY <1>2 DEF OwnScans
  <1>7. OwnScans'
    BY <1>1, <1>2, <1>6 DEF OwnScans, Proc
  <1>8. Polling'
    <2> SUFFICES ASSUME NEW u \in Sends, u \notin gap'
                 PROVE  /\ pc'[u] \in {"scan", "check"} => subs[Event(u)] # {}
                        /\ \A i, k \in DOMAIN scans[Proc(u)] :
                               scans[Proc(u)][i].for = <<u>> /\ i <= k =>
                                   Event(u) \in scans[Proc(u)][k].must
                        /\ pc'[u] = "check" /\ Proc(u) \in polls =>
                               /\ Event(u) \in cache[Proc(u)]
                               /\ \A k \in DOMAIN scans[Proc(u)] :
                                      Event(u) \in scans[Proc(u)][k].must
      BY <1>1 DEF Polling, Proc, Event
    <2>1. CASE u = s
      BY <1>2, <1>6, <2>1, SendParts
    <2>2. CASE u # s
      BY <1>2, <2>2 DEF Polling
    <2>3. QED
      BY <2>1, <2>2
  <1>9. QED
    BY <1>3, <1>4, <1>5, <1>7, <1>8

\* The event job goes its way after the send.
LEMMA JobKeeps ==
    ASSUME DInv, TypeOK', Trying', NEW s \in Sends,
           UNCHANGED <<subs, polls, cache, timer, scans, send, heard, gap>>,
           pc[s] \notin {"scan", "check"}, pc'[s] \notin {"scan", "check"},
           \A u \in Sends \ {s} : pc'[u] = pc[u]
    PROVE  DInv'
  <1> USE DEF DInv
  <1>1. Fresh'
    BY DEF Fresh, Exact
  <1>2. OwnScans'
    BY DEF OwnScans, Proc
  <1>3. Polling'
    BY DEF Polling, Proc, Event
  <1>4. QED
    BY <1>1, <1>2, <1>3

\* A job that fails for want of attempts has used them all.
LEMMA EndAttemptEffect ==
    ASSUME DInv, NEW s \in Sends, NEW bad \in BOOLEAN, EndAttempt(s, bad), pc[s] # "failed"
    PROVE  /\ pc' \in [Sends -> Stage]
           /\ attempts' \in [Sends -> 0..MaxAttempts]
           /\ pc'[s] \in {"done", "waiting", "failed"}
           /\ \A u \in Sends \ {s} : pc'[u] = pc[u]
           /\ Trying'
  <1>1. attempts[s] \in 0..MaxAttempts /\ attempts[s] < MaxAttempts /\ MaxAttempts \in Nat
    BY DispatcherAssumption DEF DInv, TypeOK, Trying
  <1>2. Outcome(s, bad) \in {"done", "waiting", "failed"}
    BY DEF Outcome
  <1>3. /\ pc' \in [Sends -> Stage]
        /\ pc'[s] = Outcome(s, bad)
        /\ \A u \in Sends \ {s} : pc'[u] = pc[u]
    BY <1>2 DEF EndAttempt, DInv, TypeOK, Stage
  <1>4. /\ attempts' \in [Sends -> 0..MaxAttempts]
        /\ attempts'[s] = IF bad THEN attempts[s] + 1 ELSE attempts[s]
        /\ \A u \in Sends \ {s} : attempts'[u] = attempts[u]
    BY <1>1 DEF EndAttempt, DInv, TypeOK
  <1>5. pc'[s] # "failed" => attempts'[s] < MaxAttempts
    BY <1>1, <1>3, <1>4 DEF Outcome
  <1>6. Trying'
    BY <1>3, <1>4, <1>5 DEF Trying, DInv
  <1>7. QED
    BY <1>2, <1>3, <1>4, <1>6

LEMMA JobStepKeeps ==
    ASSUME DInv, NEW s \in Sends,
           \/ TakeJob(s) \/ LookupFails(s) \/ SettleJob(s) \/ JobStalls(s)
    PROVE  DInv'
  <1>1. UNCHANGED <<subs, changed, changes, notices, polls, cache, subscribed, timer, scans, send,
                    runs, heard, gap>>
    BY DEF TakeJob, LookupFails, SettleJob, JobStalls, registry, process, ghosts
  <1>2. pc[s] \in {"waiting", "active"}
    BY DEF TakeJob, LookupFails, SettleJob, JobStalls
  <1>3. todo' \in [Sends -> SUBSET Tasks] /\ missed' \in [Sends -> BOOLEAN]
    <2>1. Targets(Event(s)) \subseteq Tasks
      BY SendParts DEF DInv, TypeOK, Targets
    <2>2. QED
      <3>1. CASE TakeJob(s)
        BY <2>1, <3>1 DEF TakeJob, DInv, TypeOK
      <3>2. CASE JobStalls(s)
        BY <3>2 DEF JobStalls, DInv, TypeOK
      <3>3. CASE LookupFails(s) \/ SettleJob(s)
        BY <3>3 DEF LookupFails, SettleJob, DInv, TypeOK
      <3>4. QED
        BY <3>1, <3>2, <3>3
  <1>4. /\ pc' \in [Sends -> Stage]
        /\ attempts' \in [Sends -> 0..MaxAttempts]
        /\ pc'[s] \in {"done", "waiting", "failed", "active"}
        /\ \A u \in Sends \ {s} : pc'[u] = pc[u]
        /\ Trying'
    <2>1. CASE TakeJob(s) \/ JobStalls(s)
      <3>1. /\ pc' \in [Sends -> Stage]
            /\ pc'[s] \in {"waiting", "active"}
            /\ \A u \in Sends \ {s} : pc'[u] = pc[u]
            /\ attempts' = attempts
        BY <2>1 DEF TakeJob, JobStalls, DInv, TypeOK, Stage
      <3>2. Trying'
        BY <1>2, <3>1 DEF Trying, DInv
      <3>3. QED
        BY <3>1, <3>2 DEF DInv, TypeOK
    <2>2. CASE LookupFails(s)
      BY <1>2, <2>2, EndAttemptEffect DEF LookupFails
    <2>3. CASE SettleJob(s)
      <3>1. missed[s] \in BOOLEAN
        BY DEF DInv, TypeOK
      <3>2. QED
        BY <1>2, <2>3, <3>1, EndAttemptEffect DEF SettleJob
    <2>4. QED
      BY <2>1, <2>2, <2>3
  <1>5. TypeOK'
    BY <1>1, <1>3, <1>4 DEF DInv, TypeOK
  <1>6. QED
    BY <1>1, <1>2, <1>4, <1>5, JobKeeps

LEMMA DispatchKeeps ==
    ASSUME DInv, NEW s \in Sends, NEW t \in Tasks, Dispatch(s, t) \/ DispatchFails(s, t)
    PROVE  DInv'
  <1>1. UNCHANGED <<subs, changed, changes, notices, polls, cache, subscribed, timer, scans, send,
                    pc, attempts, heard, gap>>
    BY DEF Dispatch, DispatchFails, registry, process, ghosts
  <1>2. /\ todo' \in [Sends -> SUBSET Tasks]
        /\ missed' \in [Sends -> BOOLEAN]
        /\ runs' \in [Sends -> [Tasks -> Nat]]
    <2>1. CASE Dispatch(s, t)
      <3>1. runs[s][t] + 1 \in Nat
        BY DEF DInv, TypeOK
      <3>2. todo[s] \ {t} \in SUBSET Tasks
        BY DEF DInv, TypeOK
      <3>3. runs' \in [Sends -> [Tasks -> Nat]]
        BY <2>1, <3>1 DEF Dispatch, DInv, TypeOK
      <3>4. QED
        BY <2>1, <3>2, <3>3 DEF Dispatch, DInv, TypeOK
    <2>2. CASE DispatchFails(s, t)
      BY <2>2 DEF DispatchFails, DInv, TypeOK
    <2>3. QED
      BY <2>1, <2>2
  <1>3. TypeOK'
    BY <1>1, <1>2 DEF DInv, TypeOK
  <1>4. QED
    BY <1>1, <1>3, ElsewhereKeeps

\* Every step keeps the invariant.
LEMMA DInvNext == DInv /\ [Next]_vars => DInv'
  <1> SUFFICES ASSUME DInv, [Next]_vars
               PROVE  DInv'
    OBVIOUS
  <1>1. ASSUME NEW e \in Events, NEW t \in Tasks, Change(e, t)
        PROVE  DInv'
    BY <1>1, ChangeKeeps
  <1>2. CASE SyncCompletes \/ SyncCrashes
    BY <1>2, SyncKeeps
  <1>3. ASSUME NEW p \in Procs, Hear(p) \/ TimerFires(p) \/ FinishScan(p) \/ ScanFails(p)
        PROVE  DInv'
    BY <1>3, HearKeeps, TimerFiresKeeps, FinishScanKeeps, ScanFailsKeeps
  <1>4. ASSUME NEW s \in Sends, BeginSend(s) \/ CheckCache(s)
        PROVE  DInv'
    BY <1>4, BeginSendKeeps, CheckCacheKeeps
  <1>5. ASSUME NEW s \in Sends, TakeJob(s) \/ LookupFails(s) \/ SettleJob(s) \/ JobStalls(s)
        PROVE  DInv'
    BY <1>5, JobStepKeeps
  <1>6. ASSUME NEW s \in Sends, NEW t \in Tasks, Dispatch(s, t) \/ DispatchFails(s, t)
        PROVE  DInv'
    BY <1>6, DispatchKeeps
  <1>7. CASE UNCHANGED vars
    <2>1. TypeOK'
      BY <1>7 DEF vars, registry, process, jobs, ghosts, DInv, TypeOK
    <2>2. QED
      BY <1>7, <2>1, ElsewhereKeeps DEF vars, registry, process, jobs, ghosts
  <1>8. QED
    BY <1>1, <1>2, <1>3, <1>4, <1>5, <1>6, <1>7 DEF Next

LEMMA DInvAlways == Spec => []DInv
  BY DInvInit, DInvNext, PTL DEF Spec

-----------------------------------------------------------------------------
(* Theorems *)

\* Every variable keeps its type: a job that is retried never has more failed
\* attempts than it was given, and a process that must not subscribe to the
\* sync queue never has (event-dispatcher.ts:81-123, 244-300).
THEOREM TypeCorrect == Spec => []TypeOK
  <1>1. DInv => TypeOK
    BY DEF DInv
  <1>2. QED
    BY <1>1, DInvAlways, PTL

\* A process whose timer and scans have come to rest is right about every
\* event of whose latest change it was told: the last scan to assign the cache
\* began after the notice, and nothing has changed since
\* (event-dispatcher.ts:73-175).
THEOREM Freshness == Spec => []HeardIsFresh
  <1>1. DInv => HeardIsFresh
    BY DEF DInv, TypeOK, Fresh, HeardIsFresh, Active
  <1>2. QED
    BY <1>1, DInvAlways, PTL

\* A send that scans first drops its event only if nobody was subscribed at
\* some moment of the call: its own scan, and every scan that may assign the
\* shared cache between the end of that one and the look into the cache, began
\* within the call (event-dispatcher.ts:139-242).
THEOREM DropsJustified == Spec => DropJustified
  <1>1. DInv /\ [Next]_vars =>
            [\A s \in Sends :
                pc[s] = "check" /\ pc'[s] = "dropped" /\ Proc(s) \in polls => s \in gap]_vars
    <2> SUFFICES ASSUME DInv, Next, NEW s \in Sends, pc[s] = "check", pc'[s] = "dropped",
                        Proc(s) \in polls, s \notin gap
                 PROVE  FALSE
      OBVIOUS
    <2>1. Event(s) \in cache[Proc(s)]
      BY DEF DInv, Polling
    <2>2. ASSUME NEW u \in Sends, BeginSend(u) \/ CheckCache(u)
          PROVE  FALSE
      BY <2>1, <2>2 DEF BeginSend, CheckCache, DInv, TypeOK
    <2>3. ASSUME NEW u \in Sends,
                 TakeJob(u) \/ LookupFails(u) \/ SettleJob(u) \/ JobStalls(u)
          PROVE  FALSE
      <3>1. u # s
        BY <2>3 DEF TakeJob, LookupFails, SettleJob, JobStalls
      <3>2. pc'[s] = pc[s]
        BY <2>3, <3>1 DEF TakeJob, LookupFails, SettleJob, JobStalls, EndAttempt, DInv, TypeOK
      <3>3. QED
        BY <3>2
    <2>4. ASSUME NEW p \in Procs, FinishScan(p) \/ ScanFails(p)
          PROVE  FALSE
      <3>1. scans[p] # <<>> /\ scans[p][1] = Head(scans[p]) /\ Head(scans[p]) \in ScanRecord
        BY <2>4, Tailed DEF FinishScan, ScanFails, DInv, TypeOK
      <3>2. 1 \in DOMAIN scans[p]
        BY <3>1, Tailed DEF DInv, TypeOK
      <3>3. Head(scans[p]).for # <<s>>
        BY <3>1, <3>2 DEF DInv, OwnScans
      <3>4. Head(scans[p]).for # Nobody =>
                Head(scans[p]).for[1] \in Sends /\ Head(scans[p]).for[1] # s
        BY <3>1, <3>3 DEF ScanRecord
      <3>5. pc'[s] = pc[s]
        BY <2>4, <3>4 DEF FinishScan, ScanFails, DInv, TypeOK
      <3>6. QED
        BY <3>5
    <2>5. pc' # pc
      OBVIOUS
    <2>6. ~(\E p \in Procs : Hear(p) \/ TimerFires(p))
      BY <2>5 DEF Hear, TimerFires
    <2>7. ~(\E e \in Events, t \in Tasks : Change(e, t)) /\ ~SyncCompletes /\ ~SyncCrashes
      BY <2>5 DEF Change, SyncCompletes, SyncCrashes
    <2>8. ~(\E u \in Sends, t \in Tasks : Dispatch(u, t) \/ DispatchFails(u, t))
      BY <2>5 DEF Dispatch, DispatchFails
    <2>9. QED
      BY <2>2, <2>3, <2>4, <2>6, <2>7, <2>8 DEF Next
  <1>2. QED
    BY <1>1, DInvAlways, PTL DEF Spec, DropJustified
=============================================================================
