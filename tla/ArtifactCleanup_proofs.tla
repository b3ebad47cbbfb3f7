------------------------ MODULE ArtifactCleanup_proofs ------------------------
(***************************************************************************)
(* Theorems about ArtifactCleanup, for any jobs and parents, any choice of *)
(* large values, of step tasks and of jobs of an older release, any        *)
(* retention window, any number of faults and of add() calls with the same *)
(* id.                                                                     *)
(***************************************************************************)
EXTENDS ArtifactCleanup, TLAPS

-----------------------------------------------------------------------------
(* The inductive invariant *)

\* An attempt belongs to an active job; before the add() of an id there is
\* nothing under it, and a record that is gone refers to nothing.
Life(j) ==
    /\ run[j] # "idle" <=> job[j] = "active"
    /\ adds[j] = 0 => /\ job[j] = "none" /\ add[j] = "idle"
                      /\ index[j] = {} /\ steps[j] = 0 /\ meta[j].age = Unset
    /\ IF job[j] = "none" THEN refs[j] = {} ELSE owner[j] # 0

\* A blob is there before a record refers to it.
Resolving(j) ==
    /\ refs[j] \subseteq blob[j]
    /\ job[j] # "none" /\ add[j] \in {"put", "tracked"} => "payload" \in blob[j]
    /\ run[j] \in {"put", "tracked"} => "returnValue" \in blob[j]

\* The metadata names the parent whose record is to hold, or holds, the
\* reference, unless an older release reported the job.
Referring(j) ==
    /\ run[j] = "tracked" \/ j \in processed \ unrecorded =>
           meta[j].age # Unset /\ (Parent[j] # NoJob => meta[j].referrer = Parent[j])
    /\ j \in processed => Exists(Parent[j])
    /\ j \in processed \ unrecorded => "returnValue" \in blob[j]

\* createdAt is never older than the return value's reference.
Aging(j) == meta[j].age # Unset => meta[j].age <= kept[j]

\* No blob without an index entry; the first call of add() is over before the
\* window of what it stored begins to run out.
Covering(j) ==
    /\ j \notin leaked => \A k \in blob[j] :
           \/ k \in index[j]
           \/ k = "payload" /\ add[j] = "put"
           \/ k = "returnValue" /\ run[j] = "put"
    /\ add[j] # "idle" /\ adds[j] = 1 => meta[j].age \in {0, Unset}

\* All that must be right about one job.  A job that was overtaken is promised
\* nothing.
Sound(j) ==
    /\ Life(j)
    /\ j \notin overtaken => Resolving(j)
    /\ j \notin overtaken => Referring(j)
    /\ Aging(j)
    /\ Window > 0 /\ j \notin overtaken => Covering(j)

\* The retention window of a return value is over, or there is none.
Expired(j) == kept[j] >= Window \/ "returnValue" \notin blob[j]

\* Past classifyBatch the job of a cleaner is gone, and no further add() of its
\* id is under way ...
KnowsGone(c) ==
    c.at \notin {"find steps", "find blobs"} =>
        job[c.of] = "none" /\ (add[c.of] # "idle" => adds[c.of] = 1)

\* ... past the look at the referrer nobody refers to its return value ...
KnowsReferrer(c) ==
    c.of \in processed \ unrecorded =>
        /\ c.at \notin {"stamp", "reread", "members", "delete"}
        /\ c.at = "referrer" => c.meta.age # Unset /\ c.meta.referrer = Parent[c.of]

\* ... past the look at its age the window is over ...
KnowsAge(c) ==
    /\ c.at = "referrer" /\ c.meta.age # Unset => c.meta.age <= kept[c.of]
    /\ c.at = "reread" /\ meta[c.of].age = Unset => Expired(c.of)
    /\ c.at \in {"members", "delete"} => Expired(c.of)

\* ... and what it is about to delete is all there is and will be.
KnowsAll(c) ==
    /\ add[c.of] # "idle" =>
           /\ c.at \notin {"members", "delete"}
           /\ c.at = "referrer" => c.meta.age \in {0, Unset}
           /\ c.at = "reread" => meta[c.of].age # Unset
    /\ c.at = "delete" => index[c.of] \subseteq c.keys

\* All that must be right about what a cleaner of job j remembers.
KnowsJob(c) ==
    /\ KnowsGone(c)
    /\ KnowsReferrer(c)
    /\ KnowsAge(c)
    /\ Window > 0 => KnowsAll(c)

\* It is about a job that was added, and right unless that was overtaken.
Knows(c) ==
    c.at # "idle" =>
        /\ c.of \in Jobs /\ adds[c.of] # 0
        /\ c.of \notin overtaken => KnowsJob(c)

\* The inductive invariant.
AInv ==
    /\ TypeOK
    /\ \A j \in Jobs : Sound(j)
    /\ \A a \in Cleaner : Knows(clean[a])

-----------------------------------------------------------------------------
(* Lemmas *)

\* A step leaves everything of one job as it was.
Same(j) ==
    /\ job'[j] = job[j] /\ owner'[j] = owner[j] /\ adds'[j] = adds[j]
    /\ refs'[j] = refs[j]
    /\ blob'[j] = blob[j] /\ index'[j] = index[j] /\ meta'[j] = meta[j]
    /\ steps'[j] = steps[j] /\ add'[j] = add[j] /\ run'[j] = run[j]
    /\ kept'[j] = kept[j] /\ (j \in leaked' <=> j \in leaked)
    /\ j \in processed' => j \in processed
    /\ (j \in unrecorded' <=> j \in unrecorded)
    /\ j \in overtaken => j \in overtaken'

LEMMA SameSound ==
    ASSUME NEW j \in Jobs, Sound(j), Same(j),
           j \in processed' => (Exists(Parent[j]) => Exists(Parent[j])')
    PROVE  Sound(j)'
  <1>1. Life(j)'
    BY DEF Sound, Life, Same
  <1>2. (j \notin overtaken' => Resolving(j)')
    BY DEF Sound, Resolving, Same
  <1>3. (j \notin overtaken' => Referring(j)')
    BY DEF Sound, Referring, Same
  <1>4. Aging(j)'
    BY DEF Sound, Aging, Same
  <1>5. Window > 0 /\ j \notin overtaken' => Covering(j)'
    BY DEF Sound, Covering, Same
  <1>6. QED
    BY <1>1, <1>2, <1>3, <1>4, <1>5 DEF Sound

LEMMA SameKnows ==
    ASSUME NEW c, Knows(c), Same(c.of)
    PROVE  Knows(c)'
  BY DEF Knows, KnowsJob, KnowsGone, KnowsReferrer, KnowsAge, KnowsAll, Expired, Same

\* What one job does leaves the others and their cleaners alone.
LEMMA JobStep ==
    ASSUME AInv, TypeOK', NEW j \in Jobs,
           \A u \in Jobs \ {j} : Same(u),
           \A u \in Jobs \ {j} : u \in processed' => (Exists(Parent[u]) => Exists(Parent[u])'),
           Sound(j)',
           \A a \in Cleaner : clean'[a] = clean[a],
           \A a \in Cleaner : clean[a].at # "idle" /\ clean[a].of = j => Knows(clean[a])'
    PROVE  AInv'
  <1>1. \A u \in Jobs : Sound(u)'
    BY SameSound DEF AInv
  <1>2. ASSUME NEW a \in Cleaner
        PROVE  Knows(clean[a])'
    <2>1. CASE clean[a].at = "idle"
      BY <2>1 DEF Knows
    <2>2. CASE clean[a].at # "idle" /\ clean[a].of = j
      BY <2>2
    <2>3. CASE clean[a].at # "idle" /\ clean[a].of # j
      <3>1. clean[a].of \in Jobs \ {j}
        BY <2>3 DEF AInv, Knows
      <3>2. QED
        BY <3>1, SameKnows DEF AInv
    <2>4. QED
      BY <2>1, <2>2, <2>3
  <1>3. QED
    BY <1>1, <1>2 DEF AInv

\* What a cleaner at work knows.
LEMMA CleanerKnows ==
    ASSUME AInv, NEW a \in Cleaner, clean[a].at # "idle"
    PROVE  /\ Knows(clean[a])
           /\ clean[a].of \in Jobs
           /\ adds[clean[a].of] # 0
           /\ clean[a].of \notin overtaken => KnowsJob(clean[a])
           /\ clean[a].at \notin {"find steps", "find blobs"} /\ clean[a].of \notin overtaken
                => job[clean[a].of] = "none"
  BY DEF AInv, Knows, KnowsJob, KnowsGone

\* A job that is not gone has no cleaner past classifyBatch.
LEMMA CleanersAway ==
    ASSUME AInv, NEW j \in Jobs, job[j] # "none", j \notin overtaken,
           NEW a \in Cleaner, clean[a].at # "idle", clean[a].of = j
    PROVE  clean[a].at \in {"find steps", "find blobs"}
  BY CleanerKnows

\* A cleaner that has only found a job claims no more than that.
LEMMA FindersKnow ==
    ASSUME NEW c, c.at \in {"find steps", "find blobs"}
    PROVE  KnowsJob(c)'
  BY DEF KnowsJob, KnowsGone, KnowsReferrer, KnowsAge, KnowsAll

\* At rest a cleaner claims nothing.
LEMMA IdleCleaning == Idle \in Cleaning /\ Knows(Idle)
  <1>1. NoMeta \in Meta
    BY CleanupAssumption DEF NoMeta, Meta, Age, Unset
  <1>2. QED
    BY <1>1 DEF Idle, Cleaning, Knows

-----------------------------------------------------------------------------
(* add() *)

LEMMA AddKeeps ==
    ASSUME AInv, NEW j \in Jobs, Add(j)
    PROVE  AInv'
  <1>1. UNCHANGED <<refs, processed, blob, index, meta, steps, run, read, clean, kept, leaked,
                    unrecorded, faults>>
    BY DEF Add, store, attempt
  <1>2. Sound(j) /\ add[j] = "idle" /\ adds[j] \in Nat
    BY DEF Add, AInv, TypeOK
  <1>3. /\ adds' = [adds EXCEPT ![j] = @ + 1]
        /\ add' \in [Jobs -> {"idle", "added", "put", "tracked"}]
        /\ add'[j] \in {"added", "idle"}
        /\ \A u \in Jobs \ {j} : add'[u] = add[u]
        /\ IF job[j] = "none"
           THEN /\ job' = [job EXCEPT ![j] = "waiting"]
                /\ owner' = [owner EXCEPT ![j] = adds'[j]]
           ELSE UNCHANGED <<job, owner>>
    BY DEF Add, AInv, TypeOK
  <1>4. /\ adds' \in [Jobs -> Nat] /\ adds'[j] = adds[j] + 1 /\ adds'[j] # 0
        /\ \A u \in Jobs \ {j} : adds'[u] = adds[u]
    BY <1>2, <1>3 DEF AInv, TypeOK
  <1>5. /\ job' \in [Jobs -> {"none", "waiting", "active", "finished"}]
        /\ owner' \in [Jobs -> Nat]
        /\ job'[j] # "none" /\ (job'[j] = "active" <=> job[j] = "active")
        /\ job[j] # "none" => job'[j] = job[j]
        /\ owner'[j] # 0
        /\ \A u \in Jobs \ {j} : job'[u] = job[u] /\ owner'[u] = owner[u]
    <2>1. CASE job[j] = "none"
      <3>1. job' = [job EXCEPT ![j] = "waiting"] /\ owner' = [owner EXCEPT ![j] = adds'[j]]
        BY <1>3, <2>1
      <3>2. adds'[j] \in Nat
        BY <1>4
      <3>3. QED
        BY <1>4, <2>1, <3>1, <3>2 DEF AInv, TypeOK
    <2>2. CASE job[j] # "none"
      BY <1>2, <1>3, <2>2 DEF AInv, TypeOK, Sound, Life
    <2>3. QED
      BY <2>1, <2>2
  <1>6. overtaken' = overtaken \cup {i \in {j} : \E a \in Cleaner : Past(a, i)}
    BY DEF Add
  <1>7. /\ overtaken' \subseteq Jobs /\ overtaken \subseteq overtaken'
        /\ \A a \in Cleaner : clean[a].of = j /\ j \notin overtaken'
                               => clean[a].at \in {"find steps", "find blobs"}
    BY <1>6 DEF AInv, TypeOK, Past
  <1>8. TypeOK'
    BY <1>1, <1>3, <1>4, <1>5, <1>7 DEF AInv, TypeOK
  <1>9. \A u \in Jobs \ {j} : Same(u)
    BY <1>1, <1>3, <1>4, <1>5, <1>7 DEF Same
  <1>10. \A u \in Jobs : Exists(Parent[u]) => Exists(Parent[u])'
    <2>1. \A u \in Jobs : job[u] # "none" => job'[u] # "none"
      BY <1>5
    <2>2. QED
      BY <2>1, CleanupAssumption DEF Exists
  <1>11. Sound(j)'
    <2>1. Life(j)'
      BY <1>1, <1>2, <1>4, <1>5 DEF Sound, Life
    <2>2. (j \notin overtaken' => Resolving(j)')
      BY <1>1, <1>2, <1>3, <1>7 DEF Sound, Resolving
    <2>3. (j \notin overtaken' => Referring(j)')
      BY <1>1, <1>2, <1>7, <1>10 DEF Sound, Referring
    <2>4. Aging(j)'
      BY <1>1, <1>2 DEF Sound, Aging
    <2>5. Window > 0 /\ j \notin overtaken' => Covering(j)'
      <3>1. adds'[j] = 1 => meta[j].age = Unset
        BY <1>2, <1>4 DEF Sound, Life
      <3>2. QED
        BY <1>1, <1>2, <1>3, <1>7, <3>1 DEF Sound, Covering
    <2>6. QED
      BY <2>1, <2>2, <2>3, <2>4, <2>5 DEF Sound
  <1>12. ASSUME NEW a \in Cleaner, clean[a].at # "idle", clean[a].of = j
         PROVE  Knows(clean[a])'
    <2>1. clean'[a] = clean[a]
      BY <1>1
    <2>2. j \notin overtaken' => clean'[a].at \in {"find steps", "find blobs"}
      BY <1>7, <1>12, <2>1
    <2>3. QED
      BY <1>4, <1>12, <2>1, <2>2
         DEF Knows, KnowsJob, KnowsGone, KnowsReferrer, KnowsAge, KnowsAll
  <1>13. QED
    BY <1>1, <1>8, <1>9, <1>10, <1>11, <1>12, JobStep

\* A blob more in the store.
LEMMA PutEffect ==
    ASSUME TypeOK, NEW j \in Jobs, NEW k \in Kind, Put(j, k)
    PROVE  /\ blob' \in [Jobs -> SUBSET Kind]
           /\ blob'[j] = blob[j] \cup {k}
           /\ \A u \in Jobs \ {j} : blob'[u] = blob[u]
  <1>1. blob[j] \cup {k} \in SUBSET Kind
    BY DEF TypeOK
  <1>2. QED
    BY <1>1 DEF TypeOK, Put

\* An index entry more, and createdAt anew.
LEMMA TrackEffect ==
    ASSUME TypeOK, NEW j \in Jobs, NEW k \in Kind, NEW referrer \in Jobs \cup {NoJob},
           Track(j, k, referrer)
    PROVE  /\ index' \in [Jobs -> SUBSET Kind]
           /\ index'[j] = index[j] \cup {k}
           /\ \A u \in Jobs \ {j} : index'[u] = index[u]
           /\ meta' \in [Jobs -> Meta]
           /\ meta'[j].age = 0
           /\ meta'[j].referrer = IF referrer = NoJob THEN meta[j].referrer ELSE referrer
           /\ \A u \in Jobs \ {j} : meta'[u] = meta[u]
           /\ 0 # Unset
  <1>1. index[j] \cup {k} \in SUBSET Kind
    BY DEF TypeOK
  <1>2. /\ index' \in [Jobs -> SUBSET Kind]
        /\ index'[j] = index[j] \cup {k}
        /\ \A u \in Jobs \ {j} : index'[u] = index[u]
    BY <1>1 DEF TypeOK, Track
  <1>3. 0 \in Age /\ 0 # Unset
    BY CleanupAssumption DEF Age, Unset
  <1> DEFINE m == [age |-> 0, referrer |-> IF referrer = NoJob THEN meta[j].referrer ELSE referrer]
  <1>4. meta[j].referrer \in Jobs \cup {NoJob}
    BY DEF TypeOK, Meta
  <1>5. m \in Meta /\ m.age = 0
        /\ m.referrer = IF referrer = NoJob THEN meta[j].referrer ELSE referrer
    BY <1>3, <1>4 DEF Meta
  <1>6. meta' = [meta EXCEPT ![j] = m]
    BY DEF Track
  <1> HIDE DEF m
  <1>7. /\ meta' \in [Jobs -> Meta]
        /\ meta'[j] = m
        /\ \A u \in Jobs \ {j} : meta'[u] = meta[u]
    BY <1>5, <1>6 DEF TypeOK
  <1>8. QED
    BY <1>2, <1>3, <1>5, <1>7

\* A step of add() that touches only the store and where the call is.
LEMMA PutPayloadKeeps ==
    ASSUME AInv, NEW j \in Jobs, PutPayload(j)
    PROVE  AInv'
  <1>1. UNCHANGED <<job, owner, refs, processed, index, meta, steps, adds, run, read, clean,
                    kept, leaked, unrecorded, overtaken, faults>>
    BY DEF PutPayload, record, attempt, ghost, excused
  <1>2. /\ blob' \in [Jobs -> SUBSET Kind]
        /\ blob'[j] = blob[j] \cup {"payload"}
        /\ \A u \in Jobs \ {j} : blob'[u] = blob[u]
    BY PutEffect DEF PutPayload, AInv, Kind
  <1>3. /\ add' \in [Jobs -> {"idle", "added", "put", "tracked"}]
        /\ add[j] = "added" /\ add'[j] = "put"
        /\ \A u \in Jobs \ {j} : add'[u] = add[u]
    BY DEF PutPayload, AInv, TypeOK
  <1>4. TypeOK'
    BY <1>1, <1>2, <1>3 DEF AInv, TypeOK
  <1>5. \A u \in Jobs \ {j} : Same(u)
    BY <1>1, <1>2, <1>3 DEF Same
  <1>6. Sound(j)'
    <2>1. Sound(j)
      BY DEF AInv
    <2>2. Life(j)'
      BY <1>1, <1>3, <2>1 DEF Sound, Life
    <2>3. (j \notin overtaken' => Resolving(j)')
      BY <1>1, <1>2, <1>3, <2>1 DEF Sound, Resolving
    <2>4. (j \notin overtaken' => Referring(j)')
      BY <1>1, <1>2, <2>1 DEF Sound, Referring, Exists
    <2>5. Aging(j)'
      BY <1>1, <2>1 DEF Sound, Aging
    <2>6. Window > 0 /\ j \notin overtaken' => Covering(j)'
      BY <1>1, <1>2, <1>3, <2>1 DEF Sound, Covering
    <2>7. QED
      BY <2>2, <2>3, <2>4, <2>5, <2>6 DEF Sound
  <1>7. ASSUME NEW a \in Cleaner, clean[a].at # "idle", clean[a].of = j
        PROVE  Knows(clean[a])'
    <2> SUFFICES ASSUME j \notin overtaken
                 PROVE  KnowsJob(clean[a])'
      BY <1>1, <1>7 DEF AInv, Knows
    <2>1. KnowsGone(clean[a]) /\ KnowsReferrer(clean[a]) /\ KnowsAge(clean[a])
          /\ (Window > 0 => KnowsAll(clean[a]))
      BY <1>7 DEF AInv, Knows, KnowsJob
    <2>2. KnowsGone(clean[a])' /\ KnowsReferrer(clean[a])'
      BY <1>1, <1>3, <1>7, <2>1 DEF KnowsGone, KnowsReferrer
    <2>3. KnowsAge(clean[a])'
      BY <1>1, <1>2, <1>7, <2>1 DEF KnowsAge, Expired
    <2>4. Window > 0 => KnowsAll(clean[a])'
      BY <1>1, <1>3, <1>7, <2>1 DEF KnowsAll
    <2>5. QED
      BY <2>2, <2>3, <2>4 DEF KnowsJob
  <1>8. \A u \in Jobs : Exists(Parent[u]) => Exists(Parent[u])'
    BY <1>1 DEF Exists
  <1>9. QED
    BY <1>1, <1>4, <1>5, <1>6, <1>7, <1>8, JobStep

LEMMA TrackPayloadKeeps ==
    ASSUME AInv, NEW j \in Jobs, TrackPayload(j)
    PROVE  AInv'
  <1>1. UNCHANGED <<job, owner, refs, processed, blob, steps, adds, run, read, clean,
                    kept, leaked, unrecorded, overtaken, faults>>
    BY DEF TrackPayload, record, attempt, ghost, excused
  <1>2. /\ index' \in [Jobs -> SUBSET Kind]
        /\ index'[j] = index[j] \cup {"payload"}
        /\ \A u \in Jobs \ {j} : index'[u] = index[u]
        /\ meta' \in [Jobs -> Meta]
        /\ meta'[j].age = 0
        /\ meta'[j].referrer = meta[j].referrer
        /\ \A u \in Jobs \ {j} : meta'[u] = meta[u]
        /\ 0 # Unset
    BY TrackEffect DEF TrackPayload, AInv, Kind
  <1>3. /\ add' \in [Jobs -> {"idle", "added", "put", "tracked"}]
        /\ add[j] = "put" /\ add'[j] = "tracked"
        /\ \A u \in Jobs \ {j} : add'[u] = add[u]
    BY DEF TrackPayload, AInv, TypeOK
  <1>4. TypeOK'
    BY <1>1, <1>2, <1>3 DEF AInv, TypeOK
  <1>5. \A u \in Jobs \ {j} : Same(u)
    BY <1>1, <1>2, <1>3 DEF Same
  <1>a. kept[j] >= 0 /\ 0 <= kept[j]
    BY CleanupAssumption DEF AInv, TypeOK
  <1>6. Sound(j)'
    <2>1. Sound(j)
      BY DEF AInv
    <2>2. Life(j)'
      BY <1>1, <1>3, <2>1 DEF Sound, Life
    <2>3. (j \notin overtaken' => Resolving(j)')
      BY <1>1, <1>3, <2>1 DEF Sound, Resolving
    <2>4. (j \notin overtaken' => Referring(j)')
      BY <1>1, <1>2, <2>1 DEF Sound, Referring, Exists
    <2>5. Aging(j)'
      BY <1>1, <1>2, <1>a DEF Aging
    <2>6. Window > 0 /\ j \notin overtaken' => Covering(j)'
      BY <1>1, <1>2, <1>3, <2>1 DEF Sound, Covering
    <2>7. QED
      BY <2>2, <2>3, <2>4, <2>5, <2>6 DEF Sound
  <1>7. ASSUME NEW a \in Cleaner, clean[a].at # "idle", clean[a].of = j
        PROVE  Knows(clean[a])'
    <2> SUFFICES ASSUME j \notin overtaken
                 PROVE  KnowsJob(clean[a])'
      BY <1>1, <1>7 DEF AInv, Knows
    <2>1. KnowsGone(clean[a]) /\ KnowsReferrer(clean[a]) /\ KnowsAge(clean[a])
          /\ (Window > 0 => KnowsAll(clean[a]))
      BY <1>7 DEF AInv, Knows, KnowsJob
    <2>2. KnowsGone(clean[a])' /\ KnowsReferrer(clean[a])'
      BY <1>1, <1>3, <1>7, <2>1 DEF KnowsGone, KnowsReferrer
    <2>3. KnowsAge(clean[a])'
      BY <1>1, <1>2, <1>7, <2>1 DEF KnowsAge, Expired
    <2>4. Window > 0 => KnowsAll(clean[a])'
      BY <1>1, <1>2, <1>3, <1>7, <2>1 DEF KnowsAll
    <2>5. QED
      BY <2>2, <2>3, <2>4 DEF KnowsJob
  <1>8. \A u \in Jobs : Exists(Parent[u]) => Exists(Parent[u])'
    BY <1>1 DEF Exists
  <1>9. QED
    BY <1>1, <1>4, <1>5, <1>6, <1>7, <1>8, JobStep

\* The call of add() is over, with the reference in the record or without.
LEMMA EndAddKeeps ==
    ASSUME AInv, NEW j \in Jobs, SetPayload(j) \/ AddFails(j)
    PROVE  AInv'
  <1>1. UNCHANGED <<job, owner, processed, blob, index, meta, steps, adds, run, read, clean, kept,
                    unrecorded, overtaken>>
    BY DEF SetPayload, AddFails, record, store, attempt, ghost, excused
  <1>2. /\ add' \in [Jobs -> {"idle", "added", "put", "tracked"}]
        /\ add[j] # "idle" /\ add'[j] = "idle"
        /\ \A u \in Jobs \ {j} : add'[u] = add[u]
    BY DEF SetPayload, AddFails, AInv, TypeOK
  <1>3. /\ refs' \in [Jobs -> SUBSET Kind]
        /\ refs'[j] = refs[j] \/ (refs'[j] = refs[j] \cup {"payload"}
                                      /\ job[j] # "none" /\ add[j] = "tracked")
        /\ \A u \in Jobs \ {j} : refs'[u] = refs[u]
    <2>1. refs[j] \cup {"payload"} \in SUBSET Kind
      BY DEF AInv, TypeOK, Kind
    <2>2. CASE SetPayload(j)
      BY <2>1, <2>2 DEF SetPayload, Exists, AInv, TypeOK
    <2>3. CASE AddFails(j)
      BY <2>3 DEF AddFails, record, AInv, TypeOK
    <2>4. QED
      BY <2>2, <2>3
  <1>4. /\ leaked' \subseteq Jobs /\ \A u \in Jobs \ {j} : u \in leaked' <=> u \in leaked
        /\ j \in leaked => j \in leaked'
        /\ faults' \in 0..MaxFaults
    BY CleanupAssumption DEF SetPayload, AddFails, ghost, excused, Blame, AInv, TypeOK
  <1>5. TypeOK'
    BY <1>1, <1>2, <1>3, <1>4 DEF AInv, TypeOK
  <1>6. \A u \in Jobs \ {j} : Same(u)
    BY <1>1, <1>2, <1>3, <1>4 DEF Same
  <1>7. Sound(j)'
    <2>1. Sound(j)
      BY DEF AInv
    <2>2. Life(j)'
      BY <1>1, <1>2, <1>3, <2>1 DEF Sound, Life
    <2>3. (j \notin overtaken' => Resolving(j)')
      BY <1>1, <1>2, <1>3, <2>1 DEF Sound, Resolving
    <2>4. (j \notin overtaken' => Referring(j)')
      BY <1>1, <2>1 DEF Sound, Referring, Exists
    <2>5. Aging(j)'
      BY <1>1, <2>1 DEF Sound, Aging
    <2>6. add[j] = "put" => j \in leaked'
      BY DEF SetPayload, AddFails
    <2>7. Window > 0 /\ j \notin overtaken' => Covering(j)'
      BY <1>1, <1>2, <1>4, <2>1, <2>6 DEF Sound, Covering
    <2>8. QED
      BY <2>2, <2>3, <2>4, <2>5, <2>7 DEF Sound
  <1>8. ASSUME NEW a \in Cleaner, clean[a].at # "idle", clean[a].of = j
        PROVE  Knows(clean[a])'
    <2>1. Knows(clean[a])
      BY DEF AInv
    <2>2. QED
      BY <1>1, <1>2, <1>8, <2>1
         DEF Knows, KnowsJob, KnowsGone, KnowsReferrer, KnowsAge, KnowsAll, Expired
  <1>9. \A u \in Jobs : Exists(Parent[u]) => Exists(Parent[u])'
    BY <1>1 DEF Exists
  <1>10. QED
    BY <1>1, <1>5, <1>6, <1>7, <1>8, <1>9, JobStep

-----------------------------------------------------------------------------
(* The attempt, and the record *)

\* While the job is there, no cleaner has got past classifyBatch.
LEMMA LiveStep ==
    ASSUME AInv, TypeOK', NEW j \in Jobs, job[j] # "none",
           \A u \in Jobs \ {j} : Same(u),
           \A u \in Jobs \ {j} : u \in processed' => (Exists(Parent[u]) => Exists(Parent[u])'),
           Sound(j)', adds' = adds, clean' = clean, overtaken' = overtaken
    PROVE  AInv'
  <1>1. ASSUME NEW a \in Cleaner, clean[a].at # "idle", clean[a].of = j
        PROVE  Knows(clean[a])'
    <2>1. adds[j] # 0 /\ (j \notin overtaken => clean[a].at \in {"find steps", "find blobs"})
      BY <1>1, CleanersAway, CleanerKnows
    <2>2. QED
      BY <1>1, <2>1 DEF Knows, KnowsJob, KnowsGone, KnowsReferrer, KnowsAge, KnowsAll
  <1>2. \A a \in Cleaner : clean'[a] = clean[a]
    OBVIOUS
  <1>3. QED
    BY <1>1, <1>2, JobStep

LEMMA PickUpKeeps ==
    ASSUME AInv, NEW j \in Jobs, PickUp(j)
    PROVE  AInv'
  <1>1. UNCHANGED <<owner, refs, processed, blob, index, meta, steps, add, adds, clean, kept,
                    leaked, unrecorded, overtaken, faults>>
    BY DEF PickUp, store, caller, ghost, excused
  <1>2. /\ job[j] = "waiting" /\ job'[j] = "active" /\ run'[j] = "fetched"
        /\ \A u \in Jobs \ {j} : job'[u] = job[u] /\ run'[u] = run[u]
        /\ job' \in [Jobs -> {"none", "waiting", "active", "finished"}]
        /\ run' \in [Jobs -> {"idle", "fetched", "running", "put", "tracked"}]
    BY DEF PickUp, AInv, TypeOK
  <1>3. read' \in [Jobs -> Reading]
    <2> DEFINE r == [read[j] EXCEPT !.ref = "payload" \in refs[j]]
    <2>1. read[j] \in [ref : BOOLEAN, steps : Nat]
      BY DEF AInv, TypeOK, Reading
    <2>2. \A b \in BOOLEAN : [read[j] EXCEPT !.ref = b] \in Reading
      BY <2>1 DEF Reading
    <2>3. read' = [read EXCEPT ![j] = r]
      BY DEF PickUp
    <2>4. ("payload" \in refs[j]) \in BOOLEAN
      OBVIOUS
    <2>5. r \in Reading
      BY ONLY <2>2, <2>4
    <2> HIDE DEF r
    <2>6. QED
      BY <2>3, <2>5 DEF AInv, TypeOK
  <1>4. TypeOK'
    BY <1>1, <1>2, <1>3 DEF AInv, TypeOK
  <1>5. \A u \in Jobs \ {j} : Same(u)
    BY <1>1, <1>2 DEF Same
  <1>6. \A u \in Jobs : Exists(Parent[u]) => Exists(Parent[u])'
    BY <1>2, CleanupAssumption DEF Exists
  <1>7. Sound(j)'
    <2>1. Sound(j) /\ run[j] = "idle"
      BY <1>2 DEF AInv, Sound, Life
    <2>2. Life(j)' /\ (j \notin overtaken' => Resolving(j)') /\ Aging(j)'
      BY <1>1, <1>2, <2>1 DEF Sound, Life, Resolving, Aging
    <2>3. (j \notin overtaken' => Referring(j)')
      BY <1>1, <1>2, <1>6, <2>1 DEF Sound, Referring
    <2>4. Window > 0 /\ j \notin overtaken' => Covering(j)'
      BY <1>1, <1>2, <2>1 DEF Sound, Covering
    <2>5. QED
      BY <2>2, <2>3, <2>4 DEF Sound
  <1>8. QED
    BY <1>1, <1>2, <1>4, <1>5, <1>6, <1>7, LiveStep

\* The attempt goes on, or ends the job because a reference does not resolve.
LEMMA HydrateKeeps ==
    ASSUME AInv, NEW j \in Jobs, Hydrate(j)
    PROVE  AInv'
  <1>1. UNCHANGED <<owner, refs, processed, blob, index, meta, steps, add, adds, clean, kept,
                    leaked, unrecorded, overtaken, faults>>
    BY DEF Hydrate, store, caller, ghost, excused
  <1>2. /\ run[j] = "fetched"
        /\ \/ job' = [job EXCEPT ![j] = "finished"] /\ run' = [run EXCEPT ![j] = "idle"]
           \/ job' = job /\ run' = [run EXCEPT ![j] = "running"]
    BY DEF Hydrate
  <1>3. job[j] = "active" /\ Sound(j)
    BY <1>2 DEF AInv, Sound, Life
  <1>4. /\ \/ job'[j] = "finished" /\ run'[j] = "idle"
           \/ job'[j] = "active" /\ run'[j] = "running"
        /\ \A u \in Jobs \ {j} : job'[u] = job[u] /\ run'[u] = run[u]
        /\ job' \in [Jobs -> {"none", "waiting", "active", "finished"}]
        /\ run' \in [Jobs -> {"idle", "fetched", "running", "put", "tracked"}]
    BY <1>2, <1>3 DEF AInv, TypeOK
  <1>5. read' \in [Jobs -> Reading]
    <2>1. Nothing \in Reading
      BY CleanupAssumption DEF Nothing, Reading
    <2>2. QED
      BY <2>1 DEF Hydrate, AInv, TypeOK, Reading
  <1>6. TypeOK'
    BY <1>1, <1>4, <1>5 DEF AInv, TypeOK
  <1>7. \A u \in Jobs \ {j} : Same(u)
    BY <1>1, <1>4 DEF Same
  <1>8. \A u \in Jobs : Exists(Parent[u]) => Exists(Parent[u])'
    BY <1>4, CleanupAssumption DEF Exists
  <1>9. Sound(j)'
    <2>1. Life(j)' /\ (j \notin overtaken' => Resolving(j)') /\ Aging(j)'
      BY <1>1, <1>3, <1>4 DEF Sound, Life, Resolving, Aging
    <2>2. (j \notin overtaken' => Referring(j)')
      BY <1>1, <1>3, <1>4, <1>8 DEF Sound, Referring
    <2>3. Window > 0 /\ j \notin overtaken' => Covering(j)'
      BY <1>1, <1>2, <1>3, <1>4 DEF Sound, Covering
    <2>4. QED
      BY <2>1, <2>2, <2>3 DEF Sound
  <1>10. QED
    BY <1>1, <1>3, <1>6, <1>7, <1>8, <1>9, LiveStep

LEMMA SaveStepKeeps ==
    ASSUME AInv, NEW j \in Jobs, SaveStep(j)
    PROVE  AInv'
  <1>1. UNCHANGED <<job, owner, refs, processed, blob, index, meta, add, adds, run, read, clean,
                    kept, leaked, unrecorded, overtaken, faults>>
    BY DEF SaveStep, record, store, caller, attempt, ghost, excused
  <1>2. run[j] = "running" /\ Sound(j)
    BY DEF SaveStep, AInv
  <1>3. job[j] = "active"
    BY <1>2 DEF Sound, Life
  <1>4. steps' \in [Jobs -> Nat] /\ \A u \in Jobs \ {j} : steps'[u] = steps[u]
    BY DEF SaveStep, AInv, TypeOK
  <1>5. TypeOK'
    BY <1>1, <1>4 DEF AInv, TypeOK
  <1>6. \A u \in Jobs \ {j} : Same(u)
    BY <1>1, <1>4 DEF Same
  <1>7. \A u \in Jobs : Exists(Parent[u]) => Exists(Parent[u])'
    BY <1>1 DEF Exists
  <1>a. adds[j] # 0
    BY <1>2, <1>3 DEF Sound, Life
  <1>8. Sound(j)'
    <2>1. Life(j)' /\ (j \notin overtaken' => Resolving(j)') /\ Aging(j)'
      BY <1>1, <1>2, <1>3, <1>a DEF Sound, Life, Resolving, Aging
    <2>2. (j \notin overtaken' => Referring(j)')
      BY <1>1, <1>2, <1>7 DEF Sound, Referring
    <2>3. Window > 0 /\ j \notin overtaken' => Covering(j)'
      BY <1>1, <1>2 DEF Sound, Covering
    <2>4. QED
      BY <2>1, <2>2, <2>3 DEF Sound
  <1>9. QED
    BY <1>1, <1>3, <1>5, <1>6, <1>7, <1>8, LiveStep

LEMMA PutResultKeeps ==
    ASSUME AInv, NEW j \in Jobs, PutResult(j)
    PROVE  AInv'
  <1>1. UNCHANGED <<job, owner, refs, processed, index, meta, steps, add, adds, read, clean,
                    kept, leaked, unrecorded, overtaken, faults>>
    BY DEF PutResult, record, caller, ghost, excused
  <1>2. run[j] = "running" /\ Sound(j)
    BY DEF PutResult, AInv
  <1>3. job[j] = "active"
    BY <1>2 DEF Sound, Life
  <1>4. /\ blob' \in [Jobs -> SUBSET Kind]
        /\ blob'[j] = blob[j] \cup {"returnValue"}
        /\ \A u \in Jobs \ {j} : blob'[u] = blob[u]
    BY PutEffect DEF PutResult, AInv, Kind
  <1>5. /\ run'[j] = "put" /\ \A u \in Jobs \ {j} : run'[u] = run[u]
        /\ run' \in [Jobs -> {"idle", "fetched", "running", "put", "tracked"}]
    BY DEF PutResult, AInv, TypeOK
  <1>6. TypeOK'
    BY <1>1, <1>4, <1>5 DEF AInv, TypeOK
  <1>7. \A u \in Jobs \ {j} : Same(u)
    BY <1>1, <1>4, <1>5 DEF Same
  <1>8. \A u \in Jobs : Exists(Parent[u]) => Exists(Parent[u])'
    BY <1>1 DEF Exists
  <1>9. Sound(j)'
    <2>1. Life(j)' /\ (j \notin overtaken' => Resolving(j)') /\ Aging(j)'
      BY <1>1, <1>2, <1>3, <1>4, <1>5 DEF Sound, Life, Resolving, Aging
    <2>2. (j \notin overtaken' => Referring(j)')
      BY <1>1, <1>2, <1>4, <1>5, <1>8 DEF Sound, Referring
    <2>3. Window > 0 /\ j \notin overtaken' => Covering(j)'
      BY <1>1, <1>2, <1>4, <1>5 DEF Sound, Covering
    <2>4. QED
      BY <2>1, <2>2, <2>3 DEF Sound
  <1>10. QED
    BY <1>1, <1>3, <1>6, <1>7, <1>8, <1>9, LiveStep

\* The metadata names the parent before the parent's record has the reference.
LEMMA TrackResultKeeps ==
    ASSUME AInv, NEW j \in Jobs, TrackResult(j)
    PROVE  AInv'
  <1>1. UNCHANGED <<job, owner, refs, processed, blob, steps, add, adds, read, clean,
                    leaked, overtaken, faults>>
    BY DEF TrackResult, record, caller
  <1>2. run[j] = "put" /\ Sound(j)
    BY DEF TrackResult, AInv
  <1>3. job[j] = "active"
    BY <1>2 DEF Sound, Life
  <1>4. Parent[j] \in Jobs \cup {NoJob}
    BY CleanupAssumption
  <1>5. /\ index' \in [Jobs -> SUBSET Kind]
        /\ index'[j] = index[j] \cup {"returnValue"}
        /\ \A u \in Jobs \ {j} : index'[u] = index[u]
        /\ meta' \in [Jobs -> Meta]
        /\ meta'[j].age = 0
        /\ Parent[j] # NoJob => meta'[j].referrer = Parent[j]
        /\ \A u \in Jobs \ {j} : meta'[u] = meta[u]
        /\ 0 # Unset
    BY <1>4, TrackEffect DEF TrackResult, AInv, Kind
  <1>6. /\ run'[j] = "tracked" /\ \A u \in Jobs \ {j} : run'[u] = run[u]
        /\ run' \in [Jobs -> {"idle", "fetched", "running", "put", "tracked"}]
    BY DEF TrackResult, AInv, TypeOK
  <1>7. 0 \in 0..Window
    BY CleanupAssumption
  <1>8. kept'[j] = 0 /\ (\A u \in Jobs \ {j} : kept'[u] = kept[u]) /\ kept' \in [Jobs -> 0..Window]
    BY <1>7 DEF TrackResult, AInv, TypeOK
  <1>u. unrecorded' = unrecorded \ {j}
    BY DEF TrackResult
  <1>9. TypeOK'
    BY <1>1, <1>5, <1>6, <1>8, <1>u DEF AInv, TypeOK
  <1>10. \A u \in Jobs \ {j} : Same(u)
    BY <1>1, <1>5, <1>6, <1>8, <1>u DEF Same
  <1>11. \A u \in Jobs : Exists(Parent[u]) => Exists(Parent[u])'
    BY <1>1 DEF Exists
  <1>12. Sound(j)'
    <2>1. adds[j] # 0
      BY <1>2, <1>3 DEF Sound, Life
    <2>2. Life(j)' /\ (j \notin overtaken' => Resolving(j)') /\ Aging(j)'
      BY <1>1, <1>2, <1>3, <1>5, <1>6, <1>8, <2>1 DEF Sound, Life, Resolving, Aging
    <2>3. (j \notin overtaken' => Referring(j)')
      BY <1>1, <1>2, <1>5, <1>11 DEF Sound, Referring, Resolving
    <2>4. Window > 0 /\ j \notin overtaken' => Covering(j)'
      BY <1>1, <1>2, <1>5, <1>6 DEF Sound, Covering
    <2>5. QED
      BY <2>2, <2>3, <2>4 DEF Sound
  <1>13. QED
    BY <1>1, <1>3, <1>9, <1>10, <1>11, <1>12, LiveStep

\* The parent is there, or nobody gets the reference.
LEMMA CompleteKeeps ==
    ASSUME AInv, NEW j \in Jobs, Complete(j)
    PROVE  AInv'
  <1>1. UNCHANGED <<owner, blob, index, meta, steps, add, adds, clean, kept, leaked, unrecorded, overtaken, faults>>
    BY DEF Complete, store, caller, ghost, excused
  <1>2. run[j] # "idle" /\ Sound(j) /\ (j \in Large => run[j] = "tracked")
        /\ (j \notin Large => run[j] = "running")
    BY DEF Complete, AInv
  <1>3. job[j] = "active"
    BY <1>2 DEF Sound, Life
  <1>4. /\ job'[j] = "finished" /\ run'[j] = "idle"
        /\ \A u \in Jobs \ {j} : job'[u] = job[u] /\ run'[u] = run[u]
        /\ job' \in [Jobs -> {"none", "waiting", "active", "finished"}]
        /\ run' \in [Jobs -> {"idle", "fetched", "running", "put", "tracked"}]
    BY DEF Complete, AInv, TypeOK
  <1>5. read' \in [Jobs -> Reading]
    <2>1. Nothing \in Reading
      BY CleanupAssumption DEF Nothing, Reading
    <2>2. QED
      BY <2>1 DEF Complete, AInv, TypeOK
  <1>6. /\ refs' \in [Jobs -> SUBSET Kind]
        /\ refs'[j] = refs[j] \/ (refs'[j] = refs[j] \cup {"returnValue"} /\ j \in Large)
        /\ \A u \in Jobs \ {j} : refs'[u] = refs[u]
    <2>1. refs[j] \cup {"returnValue"} \in SUBSET Kind
      BY DEF AInv, TypeOK, Kind
    <2>2. QED
      BY <2>1 DEF Complete, AInv, TypeOK
  <1>7. /\ processed' \in SUBSET Jobs
        /\ \A u \in Jobs \ {j} : u \in processed' => u \in processed
        /\ j \in processed' => j \in processed \/ (j \in Large /\ Exists(Parent[j]))
    BY DEF Complete, AInv, TypeOK
  <1>8. TypeOK'
    BY <1>1, <1>4, <1>5, <1>6, <1>7 DEF AInv, TypeOK
  <1>9. \A u \in Jobs \ {j} : Same(u)
    BY <1>1, <1>4, <1>6, <1>7 DEF Same
  <1>10. \A u \in Jobs : Exists(Parent[u]) => Exists(Parent[u])'
    BY <1>4, CleanupAssumption DEF Exists
  <1>11. Sound(j)'
    <2>1. Life(j)' /\ Aging(j)'
      BY <1>1, <1>2, <1>3, <1>4 DEF Sound, Life, Aging
    <2>2. (j \notin overtaken' => Resolving(j)')
      BY <1>1, <1>2, <1>3, <1>4, <1>6 DEF Sound, Resolving
    <2>3. (j \notin overtaken' => Referring(j)')
      BY <1>1, <1>2, <1>4, <1>7, <1>10 DEF Sound, Referring, Resolving
    <2>4. Window > 0 /\ j \notin overtaken' => Covering(j)'
      BY <1>1, <1>2, <1>4 DEF Sound, Covering
    <2>5. QED
      BY <2>1, <2>2, <2>3, <2>4 DEF Sound
  <1>12. QED
    BY <1>1, <1>3, <1>8, <1>9, <1>10, <1>11, LiveStep

LEMMA RunFailsKeeps ==
    ASSUME AInv, NEW j \in Jobs, RunFails(j)
    PROVE  AInv'
  <1>1. UNCHANGED <<owner, refs, processed, blob, index, meta, steps, add, adds, clean, kept,
                    unrecorded, overtaken>>
    BY DEF RunFails, store, caller, excused
  <1>2. run[j] # "idle" /\ Sound(j)
    BY DEF RunFails, AInv
  <1>3. job[j] = "active"
    BY <1>2 DEF Sound, Life
  <1>4. /\ job'[j] = "waiting" /\ run'[j] = "idle"
        /\ \A u \in Jobs \ {j} : job'[u] = job[u] /\ run'[u] = run[u]
        /\ job' \in [Jobs -> {"none", "waiting", "active", "finished"}]
        /\ run' \in [Jobs -> {"idle", "fetched", "running", "put", "tracked"}]
    BY DEF RunFails, AInv, TypeOK
  <1>5. read' \in [Jobs -> Reading]
    <2>1. Nothing \in Reading
      BY CleanupAssumption DEF Nothing, Reading
    <2>2. QED
      BY <2>1 DEF RunFails, AInv, TypeOK
  <1>6. /\ leaked' \in SUBSET Jobs
        /\ \A u \in Jobs \ {j} : u \in leaked' <=> u \in leaked
        /\ j \in leaked => j \in leaked'
        /\ run[j] = "put" => j \in leaked'
        /\ faults' \in 0..MaxFaults
    BY CleanupAssumption DEF RunFails, Blame, AInv, TypeOK
  <1>7. TypeOK'
    BY <1>1, <1>4, <1>5, <1>6 DEF AInv, TypeOK
  <1>8. \A u \in Jobs \ {j} : Same(u)
    BY <1>1, <1>4, <1>6 DEF Same
  <1>9. \A u \in Jobs : Exists(Parent[u]) => Exists(Parent[u])'
    BY <1>4, CleanupAssumption DEF Exists
  <1>10. Sound(j)'
    <2>1. Life(j)' /\ (j \notin overtaken' => Resolving(j)') /\ Aging(j)'
      BY <1>1, <1>2, <1>3, <1>4 DEF Sound, Life, Resolving, Aging
    <2>2. (j \notin overtaken' => Referring(j)')
      BY <1>1, <1>2, <1>4, <1>9 DEF Sound, Referring
    <2>3. Window > 0 /\ j \notin overtaken' => Covering(j)'
      BY <1>1, <1>2, <1>4, <1>6 DEF Sound, Covering
    <2>4. QED
      BY <2>1, <2>2, <2>3 DEF Sound
  <1>11. QED
    BY <1>1, <1>3, <1>7, <1>8, <1>9, <1>10, LiveStep

\* The record of a job that no worker holds goes.
LEMMA VanishKeeps ==
    ASSUME AInv, NEW j \in Jobs, job[j] \in {"waiting", "finished"}, Vanish(j),
           UNCHANGED <<blob, index, meta, steps, add, adds, run, read, kept, leaked, unrecorded,
                       faults>>,
           overtaken' = overtaken \/ Passing(j),
           clean' \in [Cleaner -> Cleaning],
           \A a \in Cleaner : \/ clean'[a] = clean[a]
                             \/ /\ clean'[a] = [Idle EXCEPT !.at = "steps", !.of = j]
                                /\ Passing(j)
    PROVE  AInv'
  <1>1. /\ job'[j] = "none" /\ refs'[j] = {}
        /\ \A u \in Jobs \ {j} : job'[u] = job[u] /\ refs'[u] = refs[u] /\ owner'[u] = owner[u]
        /\ job' \in [Jobs -> {"none", "waiting", "active", "finished"}]
        /\ refs' \in [Jobs -> SUBSET Kind]
        /\ processed' \in SUBSET Jobs
        /\ \A u \in Jobs : u \in processed' => u \in processed /\ Parent[u] # j
    BY DEF Vanish, Children, AInv, TypeOK
  <1>2. owner' \in [Jobs -> Nat]
    <2>1. 0 \in Nat
      BY CleanupAssumption DEF Reading
    <2>2. QED
      BY <2>1 DEF Vanish, AInv, TypeOK
  <1>o. overtaken' \subseteq Jobs /\ overtaken \subseteq overtaken'
    BY DEF Passing, AInv, TypeOK
  <1>3. TypeOK'
    BY <1>1, <1>2, <1>o DEF AInv, TypeOK
  <1>4. \A u \in Jobs \ {j} : Same(u)
    BY <1>1, <1>o DEF Same
  <1>5. \A u \in Jobs : u \in processed' => (Exists(Parent[u]) => Exists(Parent[u])')
    BY <1>1, CleanupAssumption DEF Exists
  <1>6. Sound(j)'
    <2>1. Sound(j) /\ run[j] = "idle"
      BY DEF AInv, Sound, Life
    <2>2. Life(j)' /\ (j \notin overtaken' => Resolving(j)') /\ Aging(j)'
      BY <1>1, <1>o, <2>1 DEF Sound, Life, Resolving, Aging
    <2>3. (j \notin overtaken' => Referring(j)')
      BY <1>1, <1>5, <1>o, <2>1 DEF Sound, Referring
    <2>4. Window > 0 /\ j \notin overtaken' => Covering(j)'
      BY <1>o, <2>1 DEF Sound, Covering
    <2>5. QED
      BY <2>2, <2>3, <2>4 DEF Sound
  <1>7. \A u \in Jobs : Sound(u)'
    BY <1>4, <1>5, <1>6, SameSound DEF AInv
  <1>8. adds[j] # 0 /\ adds[j] \in Nat
    BY DEF AInv, Sound, Life, TypeOK
  <1>9. ASSUME NEW a \in Cleaner
        PROVE  Knows(clean[a])'
    <2>1. CASE clean'[a] = [Idle EXCEPT !.at = "steps", !.of = j] /\ Passing(j)
      <3>1. clean'[a].at = "steps" /\ clean'[a].of = j
        BY <2>1 DEF Idle
      <3>2. j \notin overtaken' => (add[j] # "idle" => adds[j] = 1)
        BY <1>8, <2>1 DEF Passing, Readding
      <3>3. QED
        BY <1>1, <1>8, <3>1, <3>2
           DEF Knows, KnowsJob, KnowsGone, KnowsReferrer, KnowsAge, KnowsAll
    <2>2. CASE clean'[a] = clean[a] /\ clean[a].at = "idle"
      BY <2>2 DEF Knows
    <2>3. CASE clean'[a] = clean[a] /\ clean[a].at # "idle" /\ clean[a].of # j
      <3>1. clean[a].of \in Jobs \ {j} /\ Knows(clean[a])
        BY <2>3, CleanerKnows
      <3>2. Knows(clean[a])'
        BY <1>4, <2>3, <3>1, SameKnows
      <3>3. QED
        BY <3>2
    <2>4. CASE clean'[a] = clean[a] /\ clean[a].at # "idle" /\ clean[a].of = j
      <3>1. j \notin overtaken' => clean[a].at \in {"find steps", "find blobs"}
        BY <1>o, <2>4, CleanersAway
      <3>2. QED
        BY <1>8, <2>4, <3>1 DEF Knows, KnowsJob, KnowsGone, KnowsReferrer, KnowsAge, KnowsAll
    <2>5. QED
      BY <2>1, <2>2, <2>3, <2>4
  <1>10. QED
    BY <1>3, <1>7, <1>9 DEF AInv

LEMMA RecordGoesKeeps ==
    ASSUME AInv, NEW j \in Jobs, Trim(j) \/ Remove(j)
    PROVE  AInv'
  <1>1. /\ UNCHANGED <<blob, index, meta, steps, add, adds, run, read, kept, leaked,
                         unrecorded, faults>>
        /\ overtaken' = overtaken \/ Passing(j)
        /\ job[j] \in {"waiting", "finished"} /\ Vanish(j)
    BY DEF Trim, Remove, store, caller, attempt, ghost, excused
  <1>2. [Idle EXCEPT !.at = "steps", !.of = j] \in Cleaning
    BY IdleCleaning DEF Cleaning
  <1>3. \/ clean' = clean
        \/ /\ clean' = [clean EXCEPT !["removal"] = [Idle EXCEPT !.at = "steps", !.of = j]]
           /\ Passing(j)
    BY DEF Trim, Remove
  <1>4. /\ clean' \in [Cleaner -> Cleaning]
        /\ \A a \in Cleaner : \/ clean'[a] = clean[a]
                              \/ /\ clean'[a] = [Idle EXCEPT !.at = "steps", !.of = j]
                                 /\ Passing(j)
    BY <1>2, <1>3 DEF AInv, TypeOK
  <1>5. QED
    BY <1>1, <1>4, VanishKeeps

-----------------------------------------------------------------------------
(* Cleaning *)

\* A cleaner has only learned something, if not that its job is overtaken.
LEMMA LearnsAtMost ==
    ASSUME AInv, NEW a \in Cleaner, NEW r \in Cleaning,
           Knows(r) \/ (r.of \in overtaken' /\ r.of \in Jobs /\ adds[r.of] # 0),
           clean' = [clean EXCEPT ![a] = r], faults' \in 0..MaxFaults,
           UNCHANGED <<record, store, steps, caller, attempt, kept, leaked, unrecorded>>,
           overtaken \subseteq overtaken', overtaken' \subseteq Jobs
    PROVE  AInv'
  <1>1. UNCHANGED <<job, owner, refs, processed, blob, index, meta, steps, add, adds, run, read,
                    kept, leaked, unrecorded>>
    BY DEF record, store, caller, attempt
  <1>2. \A j : Same(j)
    BY <1>1 DEF Same
  <1>3. clean' \in [Cleaner -> Cleaning] /\ clean'[a] = r
        /\ \A b \in Cleaner \ {a} : clean'[b] = clean[b]
    BY DEF AInv, TypeOK
  <1>4. TypeOK'
    BY <1>1, <1>3 DEF AInv, TypeOK
  <1>5. \A j \in Jobs : Exists(Parent[j]) => Exists(Parent[j])'
    BY <1>1 DEF Exists
  <1>6. \A j \in Jobs : Sound(j)'
    BY <1>2, <1>5, SameSound DEF AInv
  <1>7. Knows(r)'
    <2>1. CASE Knows(r)
      BY <1>2, <2>1, SameKnows
    <2>2. CASE ~Knows(r)
      BY <1>1, <2>2 DEF Knows
    <2>3. QED
      BY <2>1, <2>2
  <1>8. ASSUME NEW b \in Cleaner
        PROVE  Knows(clean[b])'
    <2>1. CASE b = a
      BY <1>3, <1>7, <2>1
    <2>2. CASE b # a
      <3>1. Knows(clean[b])
        BY DEF AInv
      <3>2. Same(clean[b].of)
        BY <1>2
      <3>3. clean'[b] = clean[b]
        BY <1>3, <2>2
      <3>4. QED
        BY <3>1, <3>2, <3>3, SameKnows
    <2>3. QED
      BY <2>1, <2>2
  <1>9. QED
    BY <1>4, <1>6, <1>8 DEF AInv

\* A cleaner has only learned something.
LEMMA Learns ==
    ASSUME AInv, NEW a \in Cleaner, NEW r \in Cleaning, Knows(r),
           clean' = [clean EXCEPT ![a] = r], faults' \in 0..MaxFaults,
           UNCHANGED <<record, store, steps, caller, attempt, ghost>>
    PROVE  AInv'
  <1>1. /\ UNCHANGED <<record, store, steps, caller, attempt, kept, leaked, unrecorded>>
        /\ overtaken \subseteq overtaken' /\ overtaken' \subseteq Jobs
    BY DEF ghost, excused, AInv, TypeOK
  <1>2. QED
    BY <1>1, LearnsAtMost

\* The scan finds something under an id: that id has been added.
LEMMA FindKeeps ==
    ASSUME AInv, NEW j \in Jobs, FindSteps(j) \/ FindBlobs(j)
    PROVE  AInv'
  <1>1. adds[j] # 0
    BY DEF FindSteps, FindBlobs, AInv, Sound, Life
  <1>2. PICK what \in {"find steps", "find blobs"} : Find(j, what)
    BY DEF FindSteps, FindBlobs
  <1> DEFINE r == [Idle EXCEPT !.at = what, !.of = j]
  <1>3. r \in Cleaning /\ r.at = what /\ r.of = j
    BY IdleCleaning DEF Cleaning
  <1>4. clean' = [clean EXCEPT !["sweep"] = r]
    BY <1>2 DEF Find
  <1>5. faults' \in 0..MaxFaults /\ UNCHANGED <<record, store, steps, caller, attempt, ghost>>
    BY <1>2 DEF Find, AInv, TypeOK
  <1> HIDE DEF r
  <1>6. Knows(r)
    BY <1>1, <1>3 DEF Knows, KnowsJob, KnowsGone, KnowsReferrer, KnowsAge, KnowsAll
  <1>7. "sweep" \in Cleaner
    BY DEF Cleaner
  <1>8. QED
    BY <1>3, <1>4, <1>5, <1>6, <1>7, Learns

\* Going on to another place with nothing else learned.
LEMMA Goes ==
    ASSUME AInv, NEW a \in Cleaner, NEW to,
           Go(a, to), faults' \in 0..MaxFaults,
           to \in {"idle", "steps", "meta", "stamp", "reread", "members"},
           UNCHANGED <<record, store, steps, caller, attempt, ghost>>,
           to # "idle" => Knows([clean[a] EXCEPT !.at = to])
    PROVE  AInv'
  <1> DEFINE r == IF to = "idle" THEN Idle ELSE [clean[a] EXCEPT !.at = to]
  <1>1. clean' = [clean EXCEPT ![a] = r]
    BY DEF Go
  <1>2. r \in Cleaning
    BY IdleCleaning DEF AInv, TypeOK, Cleaning
  <1>3. Knows(r)
    BY IdleCleaning
  <1> HIDE DEF r
  <1>4. QED
    BY <1>1, <1>2, <1>3, Learns

\* What a cleaner that goes on still is.
LEMMA Gone ==
    ASSUME AInv, NEW a \in Cleaner, NEW to
    PROVE  /\ [clean[a] EXCEPT !.at = to].at = to
           /\ [clean[a] EXCEPT !.at = to].of = clean[a].of
           /\ [clean[a] EXCEPT !.at = to].meta = clean[a].meta
           /\ [clean[a] EXCEPT !.at = to].keys = clean[a].keys
  BY DEF AInv, TypeOK, Cleaning

LEMMA ClassifyKeeps ==
    ASSUME AInv, Classify
    PROVE  AInv'
  <1> DEFINE a == "sweep"
             j == clean[a].of
             gone == IF At(a, "find steps") THEN "steps" ELSE "meta"
             to == IF Exists(j) THEN "idle" ELSE gone
             r == IF to = "idle" THEN Idle ELSE [clean[a] EXCEPT !.at = to]
  <1>1. a \in Cleaner
    BY DEF Cleaner
  <1>2. /\ clean' = [clean EXCEPT ![a] = r] /\ faults' \in 0..MaxFaults
        /\ UNCHANGED <<record, store, steps, caller, attempt, kept, leaked, unrecorded>>
    BY DEF Classify, Go, Of, AInv, TypeOK
  <1>3. j \in Jobs /\ adds[j] # 0 /\ adds[j] \in Nat
    BY <1>1, CleanerKnows DEF Classify, At, AInv, TypeOK
  <1>4. overtaken \subseteq overtaken' /\ overtaken' \subseteq Jobs
    BY <1>3 DEF Classify, Passing, Of, AInv, TypeOK
  <1>5. r \in Cleaning
    BY <1>1, IdleCleaning DEF AInv, TypeOK, Cleaning
  <1>6. Knows(r) \/ (r.of \in overtaken' /\ r.of \in Jobs /\ adds[r.of] # 0)
    <2>1. CASE Exists(j)
      BY <2>1, IdleCleaning
    <2>2. CASE ~Exists(j)
      <3>1. Passing(j) /\ job[j] = "none"
        BY <1>3, <2>2, CleanupAssumption DEF Classify, Of, Exists
      <3>2. r.at \in {"steps", "meta"} /\ r.of = j
        BY <1>1, <2>2, Gone
      <3>3. j \notin overtaken' => (add[j] # "idle" => adds[j] = 1)
        BY <1>3, <3>1 DEF Passing, Readding
      <3> HIDE DEF r, to, gone, j, a
      <3>4. QED
        BY <1>3, <3>1, <3>2, <3>3
           DEF Knows, KnowsJob, KnowsGone, KnowsReferrer, KnowsAge, KnowsAll
    <2>3. QED
      BY <2>1, <2>2
  <1> HIDE DEF r, a
  <1>7. QED
    BY <1>1, <1>2, <1>4, <1>5, <1>6, LearnsAtMost

\* The metadata says who may hold the reference, and how old it is.
LEMMA ReadMetaKeeps ==
    ASSUME AInv, NEW a \in Cleaner, ReadMeta(a)
    PROVE  AInv'
  <1> DEFINE j == clean[a].of
             to == IF a = "sweep" THEN "referrer" ELSE AgeVerdict(meta[j], "referrer")
             r == [clean[a] EXCEPT !.at = to, !.meta = meta[j]]
  <1>1. /\ clean[a].at = "meta" /\ j \in Jobs /\ adds[j] # 0 /\ Sound(j)
        /\ j \notin overtaken => job[j] = "none" /\ KnowsJob(clean[a])
    BY CleanerKnows DEF ReadMeta, At, AInv
  <1>2. to \in {"idle", "stamp", "referrer"} /\ (to = "stamp" => meta[j].age = Unset)
    BY DEF AgeVerdict
  <1>3. clean' = [clean EXCEPT ![a] = IF to = "idle" THEN Idle ELSE r]
    BY DEF ReadMeta, Of
  <1>4. faults' \in 0..MaxFaults /\ UNCHANGED <<record, store, steps, caller, attempt, ghost>>
    BY DEF ReadMeta, AInv, TypeOK
  <1>5. meta[j] \in Meta /\ clean[a] \in Cleaning
    BY <1>1 DEF AInv, TypeOK
  <1>6. r.at = to /\ r.of = j /\ r.meta = meta[j] /\ (to # "idle" => r \in Cleaning)
    BY <1>2, <1>5 DEF Cleaning
  <1> HIDE DEF to, r
  <1>7. to # "idle" => Knows(r)
    <2> SUFFICES ASSUME j \notin overtaken
                 PROVE  to # "idle" => KnowsJob(r)
      BY <1>1, <1>6 DEF Knows
    <2>1. KnowsGone(r)
      BY <1>1, <1>6 DEF KnowsJob, KnowsGone
    <2>2. to # "idle" => KnowsReferrer(r)
      BY <1>1, <1>2, <1>6, CleanupAssumption DEF KnowsReferrer, Sound, Referring, Exists
    <2>3. to # "idle" => KnowsAge(r)
      BY <1>1, <1>2, <1>6 DEF KnowsAge, Sound, Aging
    <2>4. to # "idle" /\ Window > 0 => KnowsAll(r)
      BY <1>1, <1>2, <1>6 DEF KnowsJob, KnowsGone, KnowsAll, Sound, Covering
    <2>5. QED
      BY <2>1, <2>2, <2>3, <2>4 DEF KnowsJob
  <1>8. CASE to = "idle"
    <2>1. clean' = [clean EXCEPT ![a] = Idle]
      BY <1>3, <1>8
    <2>2. QED
      BY <1>4, <2>1, IdleCleaning, Learns
  <1>9. CASE to # "idle"
    <2>1. clean' = [clean EXCEPT ![a] = r]
      BY <1>3, <1>9
    <2>2. QED
      BY <1>4, <1>6, <1>7, <1>9, <2>1, Learns
  <1>10. QED
    BY <1>8, <1>9

\* Nobody holds the reference, and the window is over or unknown.
LEMMA ReadReferrerKeeps ==
    ASSUME AInv, NEW a \in Cleaner, ReadReferrer(a)
    PROVE  AInv'
  <1> DEFINE c == clean[a]
             j == c.of
             to == IF Exists(c.meta.referrer) THEN "idle" ELSE AgeVerdict(c.meta, "members")
             r == [c EXCEPT !.at = to]
  <1>1. c.at = "referrer" /\ j \in Jobs /\ adds[j] # 0 /\ Sound(j)
    BY CleanerKnows DEF ReadReferrer, At, AInv
  <1>2. j \notin overtaken =>
            KnowsGone(c) /\ KnowsReferrer(c) /\ KnowsAge(c) /\ (Window > 0 => KnowsAll(c))
    BY <1>1, CleanerKnows DEF KnowsJob
  <1>3. to \in {"idle", "stamp", "members"}
    BY DEF AgeVerdict
  <1>4. Go(a, to) /\ faults' \in 0..MaxFaults
        /\ UNCHANGED <<record, store, steps, caller, attempt, ghost>>
    BY DEF ReadReferrer, AInv, TypeOK
  <1>5. r.at = to /\ r.of = j
    BY Gone
  <1>6. ASSUME to # "idle"
        PROVE  Knows(r)
    <2> SUFFICES ASSUME j \notin overtaken
                 PROVE  KnowsJob(r)
      BY <1>1, <1>5 DEF Knows
    <2>1. KnowsGone(r)
      BY <1>1, <1>2, <1>5 DEF KnowsGone
    <2>2. j \notin processed \ unrecorded
      BY <1>1, <1>2, <1>6, CleanupAssumption DEF KnowsReferrer, Sound, Referring
    <2>3. KnowsReferrer(r)
      BY <1>5, <2>2 DEF KnowsReferrer
    <2>4. KnowsAge(r)
      <3> SUFFICES ASSUME to = "members"
                   PROVE  kept[j] >= Window
        BY <1>3, <1>5, <1>6 DEF KnowsAge, Expired
      <3>1. c.meta.age \in Age /\ kept[j] \in 0..Window /\ Window \in Nat
        BY <1>1, CleanupAssumption DEF AInv, TypeOK, Cleaning, Meta
      <3>2. ~(c.meta.age = Unset /\ Window > 0) /\ ~(c.meta.age < Window)
        BY <1>6 DEF AgeVerdict
      <3>3. c.meta.age # Unset => c.meta.age <= kept[j]
        BY <1>1, <1>2 DEF KnowsAge
      <3> HIDE DEF c, j
      <3>4. QED
        BY <3>1, <3>2, <3>3 DEF Age, Unset
    <2>5. ASSUME Window > 0
          PROVE  KnowsAll(r)
      <3>1. add[j] # "idle" => to # "members"
        BY <1>1, <1>2, <2>5 DEF KnowsAll, AgeVerdict
      <3> HIDE DEF to, r
      <3>2. QED
        BY <1>3, <1>5, <1>6, <3>1 DEF KnowsAll
    <2>6. QED
      BY <2>1, <2>3, <2>4, <2>5 DEF KnowsJob
  <1> HIDE DEF to
  <1>7. QED
    BY <1>3, <1>4, <1>6, Goes

LEMMA RereadKeeps ==
    ASSUME AInv, NEW a \in Cleaner, Reread(a)
    PROVE  AInv'
  <1> DEFINE c == clean[a]
             j == c.of
             to == IF meta[j].age # Unset THEN "idle" ELSE "members"
             r == [c EXCEPT !.at = to]
  <1>1. c.at = "reread" /\ j \in Jobs /\ adds[j] # 0
    BY CleanerKnows DEF Reread, At
  <1>2. j \notin overtaken =>
            KnowsGone(c) /\ KnowsReferrer(c) /\ KnowsAge(c) /\ (Window > 0 => KnowsAll(c))
    BY <1>1, CleanerKnows DEF KnowsJob
  <1>3. Go(a, to) /\ faults' \in 0..MaxFaults
        /\ UNCHANGED <<record, store, steps, caller, attempt, ghost>>
    BY DEF Reread, AInv, TypeOK, Of
  <1>4. r.at = to /\ r.of = j
    BY Gone
  <1>5. ASSUME to # "idle"
        PROVE  Knows(r)
    <2>1. to = "members" /\ meta[j].age = Unset
      BY <1>5
    <2> HIDE DEF to, r
    <2>2. QED
      BY <1>1, <1>2, <1>4, <2>1 DEF Knows, KnowsJob, KnowsGone, KnowsReferrer, KnowsAge, KnowsAll
  <1>6. to \in {"idle", "members"}
    OBVIOUS
  <1> HIDE DEF to
  <1>7. QED
    BY <1>3, <1>5, <1>6, Goes

LEMMA ReadMembersKeeps ==
    ASSUME AInv, NEW a \in Cleaner, ReadMembers(a)
    PROVE  AInv'
  <1> DEFINE c == clean[a]
             j == c.of
             r == [c EXCEPT !.keys = index[j], !.at = "delete"]
  <1>1. c.at = "members" /\ j \in Jobs /\ adds[j] # 0
    BY CleanerKnows DEF ReadMembers, At
  <1>2. j \notin overtaken =>
            KnowsGone(c) /\ KnowsReferrer(c) /\ KnowsAge(c) /\ (Window > 0 => KnowsAll(c))
    BY <1>1, CleanerKnows DEF KnowsJob
  <1>3. c \in Cleaning /\ index[j] \in SUBSET Kind
    BY <1>1 DEF AInv, TypeOK
  <1>4. r \in Cleaning /\ r.at = "delete" /\ r.of = j /\ r.keys = index[j]
    BY <1>3 DEF Cleaning
  <1>5. clean' = [clean EXCEPT ![a] = r]
    BY <1>3 DEF ReadMembers, Of, AInv, TypeOK
  <1>6. faults' \in 0..MaxFaults /\ UNCHANGED <<record, store, steps, caller, attempt, ghost>>
    BY DEF ReadMembers, AInv, TypeOK
  <1> HIDE DEF r
  <1>7. Knows(r)
    BY <1>1, <1>2, <1>4 DEF Knows, KnowsJob, KnowsGone, KnowsReferrer, KnowsAge, KnowsAll
  <1>8. QED
    BY <1>4, <1>5, <1>6, <1>7, Learns

\* What cannot be read, or is not understood, is left for the next sweep.
LEMMA CleanFailsKeeps ==
    ASSUME AInv, NEW a \in Cleaner, CleanFails(a)
    PROVE  AInv'
  <1>1. faults' \in 0..MaxFaults /\ UNCHANGED <<record, store, steps, caller, attempt, ghost>>
    BY CleanupAssumption DEF CleanFails, Blame, AInv, TypeOK
  <1>2. CASE Go(a, "idle")
    BY <1>1, <1>2, Goes
  <1>3. CASE At(a, "steps") /\ Go(a, "meta")
    <2> DEFINE r == [clean[a] EXCEPT !.at = "meta"]
    <2>1. /\ clean[a].at = "steps" /\ clean[a].of \in Jobs /\ adds[clean[a].of] # 0
          /\ clean[a].of \notin overtaken => KnowsGone(clean[a])
      BY <1>3, CleanerKnows DEF At, KnowsJob
    <2>2. r.at = "meta" /\ r.of = clean[a].of
      BY Gone
    <2> HIDE DEF r
    <2>3. Knows(r)
      BY <2>1, <2>2 DEF Knows, KnowsJob, KnowsGone, KnowsReferrer, KnowsAge, KnowsAll
    <2>4. QED
      BY <1>1, <1>3, <2>3, Goes DEF r
  <1>4. QED
    BY <1>2, <1>3 DEF CleanFails

\* A cleaner takes something from its job and goes on: the other jobs, and the
\* cleaners of other jobs, are left alone.
LEMMA Takes ==
    ASSUME AInv, TypeOK', NEW a \in Cleaner, NEW j \in Jobs,
           \A u \in Jobs \ {j} : Same(u),
           job' = job, processed' = processed,
           Sound(j)',
           \A b \in Cleaner \ {a} : clean'[b] = clean[b],
           \A b \in Cleaner \ {a} :
               clean[b].at # "idle" /\ clean[b].of = j => Knows(clean[b])',
           Knows(clean[a])'
    PROVE  AInv'
  <1>1. \A u \in Jobs : Exists(Parent[u]) => Exists(Parent[u])'
    BY DEF Exists
  <1>2. \A u \in Jobs : Sound(u)'
    BY <1>1, SameSound DEF AInv
  <1>3. ASSUME NEW b \in Cleaner
        PROVE  Knows(clean[b])'
    <2>1. CASE b = a
      BY <2>1
    <2>2. CASE b # a /\ clean[b].at = "idle"
      BY <2>2 DEF Knows
    <2>3. CASE b # a /\ clean[b].at # "idle" /\ clean[b].of = j
      BY <2>3
    <2>4. CASE b # a /\ clean[b].at # "idle" /\ clean[b].of # j
      <3>1. clean[b].of \in Jobs \ {j} /\ Knows(clean[b])
        BY <2>4, CleanerKnows
      <3>2. Same(clean[b].of) /\ clean'[b] = clean[b]
        BY <2>4, <3>1
      <3>3. QED
        BY <3>1, <3>2, SameKnows
    <2>5. QED
      BY <2>1, <2>2, <2>3, <2>4
  <1>4. QED
    BY <1>2, <1>3 DEF AInv

\* Where the cleaner is after a step that takes something.
LEMMA GoEffect ==
    ASSUME AInv, NEW a \in Cleaner, NEW to, Go(a, to),
           to \in {"idle", "meta", "reread"}
    PROVE  /\ clean' \in [Cleaner -> Cleaning]
           /\ \A b \in Cleaner \ {a} : clean'[b] = clean[b]
           /\ clean'[a].at = to
           /\ to # "idle" => clean'[a].of = clean[a].of
  <1> DEFINE r == IF to = "idle" THEN Idle ELSE [clean[a] EXCEPT !.at = to]
  <1>1. clean' = [clean EXCEPT ![a] = r]
    BY DEF Go
  <1>2. r \in Cleaning /\ r.at = to /\ (to # "idle" => r.of = clean[a].of)
    <2>1. CASE to = "idle"
      BY <2>1, IdleCleaning DEF Idle
    <2>2. CASE to # "idle"
      BY <2>2 DEF AInv, TypeOK, Cleaning
    <2>3. QED
      BY <2>1, <2>2
  <1> HIDE DEF r
  <1>3. QED
    BY <1>1, <1>2 DEF AInv, TypeOK

LEMMA ClearStepsKeeps ==
    ASSUME AInv, NEW a \in Cleaner, ClearSteps(a)
    PROVE  AInv'
  <1> DEFINE to == IF a = "removal" THEN "meta" ELSE "idle"
  <1>1. PICK j \in Jobs : /\ clean[a].of = j /\ clean[a].at = "steps" /\ adds[j] # 0
                          /\ Sound(j) /\ (j \notin overtaken => KnowsGone(clean[a]))
    BY CleanerKnows DEF ClearSteps, At, AInv, KnowsJob
  <1>2. UNCHANGED <<job, owner, refs, processed, blob, index, meta, add, adds, run, read,
                    kept, leaked, unrecorded, overtaken, faults>>
    BY DEF ClearSteps, record, store, caller, attempt, ghost, excused
  <1>3. steps' \in [Jobs -> Nat] /\ \A u \in Jobs \ {j} : steps'[u] = steps[u]
    <2>1. 0 \in Nat
      BY CleanupAssumption DEF Reading
    <2>2. QED
      BY <1>1, <2>1 DEF ClearSteps, Of, AInv, TypeOK
  <1>4. Go(a, to)
    BY DEF ClearSteps
  <1>5. to \in {"idle", "meta"}
    OBVIOUS
  <1> HIDE DEF to
  <1>6. /\ clean' \in [Cleaner -> Cleaning]
        /\ \A b \in Cleaner \ {a} : clean'[b] = clean[b]
        /\ clean'[a].at = to
        /\ to # "idle" => clean'[a].of = j
    BY <1>1, <1>4, <1>5, GoEffect
  <1>7. TypeOK'
    BY <1>2, <1>3, <1>6 DEF AInv, TypeOK
  <1>8. \A u \in Jobs \ {j} : Same(u)
    BY <1>2, <1>3 DEF Same
  <1>9. Sound(j)'
    BY <1>1, <1>2 DEF Sound, Life, Resolving, Referring, Aging, Covering, Exists
  <1>10. Knows(clean[a])'
    BY <1>1, <1>2, <1>5, <1>6 DEF Knows, KnowsJob, KnowsGone, KnowsReferrer, KnowsAge, KnowsAll
  <1>11. ASSUME NEW b \in Cleaner \ {a}, clean[b].at # "idle", clean[b].of = j
         PROVE  Knows(clean[b])'
    <2>1. Knows(clean[b]) /\ clean'[b] = clean[b]
      BY <1>6 DEF AInv
    <2>2. QED
      BY <1>2, <2>1 DEF Knows, KnowsJob, KnowsGone, KnowsReferrer, KnowsAge, KnowsAll, Expired
  <1>12. QED
    BY <1>1, <1>2, <1>6, <1>7, <1>8, <1>9, <1>10, <1>11, Takes

\* The window starts now.
LEMMA StampKeeps ==
    ASSUME AInv, NEW a \in Cleaner, Stamp(a)
    PROVE  AInv'
  <1>1. PICK j \in Jobs : /\ clean[a].of = j /\ clean[a].at = "stamp" /\ adds[j] # 0
                          /\ Sound(j)
                          /\ j \notin overtaken => /\ job[j] = "none" /\ KnowsGone(clean[a])
                                                  /\ j \notin processed \ unrecorded
    BY CleanerKnows DEF Stamp, At, AInv, KnowsJob, KnowsReferrer
  <1>2. UNCHANGED <<job, owner, refs, processed, blob, index, steps, add, adds, run, read,
                    kept, leaked, unrecorded, overtaken, faults>>
    BY DEF Stamp, record, caller, attempt, ghost, excused
  <1> DEFINE m == [meta[j] EXCEPT !.age = IF @ = Unset THEN 0 ELSE @]
  <1>3. 0 \in Age /\ 0 # Unset
    BY CleanupAssumption DEF Age, Unset
  <1>4. meta[j] \in Meta
    BY <1>1 DEF AInv, TypeOK
  <1>5. /\ m \in Meta /\ m.age # Unset
        /\ meta[j].age # Unset => m.age = meta[j].age
        /\ meta[j].age = Unset => m.age = 0
    BY <1>3, <1>4 DEF Meta
  <1>6. meta' = [meta EXCEPT ![j] = m]
    BY <1>1 DEF Stamp, Of, AInv, TypeOK
  <1>7. Go(a, "reread")
    BY DEF Stamp
  <1> HIDE DEF m
  <1>8. /\ meta' \in [Jobs -> Meta] /\ meta'[j] = m
        /\ \A u \in Jobs \ {j} : meta'[u] = meta[u]
    BY <1>1, <1>5, <1>6 DEF AInv, TypeOK
  <1>9. /\ clean' \in [Cleaner -> Cleaning]
        /\ \A b \in Cleaner \ {a} : clean'[b] = clean[b]
        /\ clean'[a].at = "reread"
        /\ clean'[a].of = j
    BY <1>1, <1>7, GoEffect
  <1>10. TypeOK'
    BY <1>2, <1>8, <1>9 DEF AInv, TypeOK
  <1>11. \A u \in Jobs \ {j} : Same(u)
    BY <1>2, <1>8 DEF Same
  <1>12. Sound(j)'
    <2>1. kept[j] >= 0 /\ 0 <= kept[j]
      BY <1>1, CleanupAssumption DEF AInv, TypeOK
    <2>2. Life(j)' /\ (j \notin overtaken' => Resolving(j)') /\ (j \notin overtaken' => Referring(j)')
      BY <1>1, <1>2 DEF Sound, Life, Resolving, Referring, Exists
    <2>3. Aging(j)'
      BY <1>1, <1>2, <1>5, <1>8, <2>1 DEF Sound, Aging
    <2>4. Window > 0 /\ j \notin overtaken' => Covering(j)'
      BY <1>1, <1>2, <1>5, <1>8 DEF Sound, Covering
    <2>5. QED
      BY <2>2, <2>3, <2>4 DEF Sound
  <1>13. Knows(clean[a])'
    BY <1>1, <1>2, <1>5, <1>8, <1>9
       DEF Knows, KnowsJob, KnowsGone, KnowsReferrer, KnowsAge, KnowsAll
  <1>14. ASSUME NEW b \in Cleaner \ {a}, clean[b].at # "idle", clean[b].of = j
         PROVE  Knows(clean[b])'
    <2>1. Knows(clean[b]) /\ clean'[b] = clean[b]
      BY <1>9 DEF AInv
    <2>2. QED
      BY <1>2, <1>5, <1>8, <1>14, <2>1
         DEF Knows, KnowsJob, KnowsGone, KnowsReferrer, KnowsAge, KnowsAll, Expired
  <1>15. QED
    BY <1>1, <1>2, <1>9, <1>10, <1>11, <1>12, <1>13, <1>14, Takes

\* The blobs of a job that is gone go: nobody refers to them.
LEMMA DeleteKeeps ==
    ASSUME AInv, NEW a \in Cleaner, Delete(a)
    PROVE  AInv'
  <1>1. PICK j \in Jobs : /\ clean[a].of = j /\ clean[a].at = "delete" /\ adds[j] # 0
                          /\ Sound(j)
                          /\ j \notin overtaken => /\ job[j] = "none"
                                                  /\ j \notin processed \ unrecorded
    BY CleanerKnows DEF Delete, At, AInv, KnowsJob, KnowsReferrer
  <1> DEFINE left == blob[j] \ clean[a].keys
  <1>2. j \notin overtaken => KnowsAge(clean[a]) /\ (Window > 0 => KnowsAll(clean[a]))
    BY <1>1, CleanerKnows DEF KnowsJob
  <1>3. UNCHANGED <<job, owner, refs, processed, steps, add, adds, run, read,
                    kept, leaked, unrecorded, overtaken, faults>>
    BY DEF Delete, record, caller, attempt, ghost, excused
  <1>4. NoMeta \in Meta /\ NoMeta.age = Unset
    BY CleanupAssumption DEF NoMeta, Meta, Age, Unset
  <1>5. left \in SUBSET Kind
    BY <1>1 DEF AInv, TypeOK
  <1>6. /\ blob' = [blob EXCEPT ![j] = left]
        /\ index' = [index EXCEPT ![j] = {}]
        /\ meta' = [meta EXCEPT ![j] = NoMeta]
        /\ Go(a, "idle")
    BY <1>1 DEF Delete, Of, AInv, TypeOK
  <1>7. \A k : k \in left => k \in blob[j] /\ k \notin clean[a].keys
    OBVIOUS
  <1> HIDE DEF left
  <1>8. /\ blob' \in [Jobs -> SUBSET Kind] /\ index' \in [Jobs -> SUBSET Kind]
        /\ meta' \in [Jobs -> Meta]
        /\ blob'[j] = left /\ index'[j] = {} /\ meta'[j].age = Unset
        /\ \A u \in Jobs \ {j} : blob'[u] = blob[u] /\ index'[u] = index[u] /\ meta'[u] = meta[u]
    BY <1>1, <1>4, <1>5, <1>6 DEF AInv, TypeOK
  <1>9. /\ clean' \in [Cleaner -> Cleaning]
        /\ \A b \in Cleaner \ {a} : clean'[b] = clean[b]
        /\ clean'[a].at = "idle"
    BY <1>6, GoEffect
  <1>10. TypeOK'
    BY <1>3, <1>8, <1>9 DEF AInv, TypeOK
  <1>11. \A u \in Jobs \ {j} : Same(u)
    BY <1>3, <1>8 DEF Same
  <1>12. Sound(j)'
    <2>1. j \notin overtaken => run[j] = "idle" /\ refs[j] = {}
      BY <1>1 DEF Sound, Life
    <2>2. Life(j)' /\ (j \notin overtaken' => Resolving(j)') /\ (j \notin overtaken' => Referring(j)') /\ Aging(j)'
      BY <1>1, <1>3, <1>8, <2>1 DEF Sound, Life, Resolving, Referring, Aging, Exists
    <2>3. ASSUME Window > 0, j \notin overtaken
          PROVE  Covering(j)'
      <3>1. index[j] \subseteq clean[a].keys
        BY <1>1, <1>2, <2>3 DEF KnowsAll
      <3>2. Covering(j)
        BY <1>1, <2>3 DEF Sound
      <3>3. QED
        BY <1>3, <1>7, <1>8, <3>1, <3>2 DEF Covering
    <2>4. QED
      BY <1>3, <2>2, <2>3 DEF Sound
  <1>13. Knows(clean[a])'
    BY <1>9 DEF Knows
  <1>14. ASSUME NEW b \in Cleaner \ {a}, clean[b].at # "idle", clean[b].of = j
         PROVE  Knows(clean[b])'
    <2> SUFFICES ASSUME j \notin overtaken
                 PROVE  KnowsJob(clean[b])'
      BY <1>1, <1>3, <1>9, <1>14 DEF Knows
    <2>1. KnowsJob(clean[b]) /\ clean'[b] = clean[b]
      BY <1>9, <1>14, CleanerKnows
    <2>2. Expired(j)'
      <3>1. Expired(j)
        BY <1>1, <1>2 DEF KnowsAge
      <3>2. QED
        BY <1>3, <1>7, <1>8, <3>1 DEF Expired
    <2>3. Window > 0 => add'[j] = "idle"
      BY <1>1, <1>2, <1>3 DEF KnowsAll
    <2>4. KnowsGone(clean[b])' /\ KnowsReferrer(clean[b])'
      BY <1>1, <1>3, <1>14, <2>1 DEF KnowsJob, KnowsGone, KnowsReferrer
    <2>5. KnowsAge(clean[b])'
      BY <1>3, <1>14, <2>1, <2>2 DEF KnowsJob, KnowsAge
    <2>6. Window > 0 => KnowsAll(clean[b])'
      BY <1>8, <1>14, <2>1, <2>3 DEF KnowsAll
    <2>7. QED
      BY <2>4, <2>5, <2>6 DEF KnowsJob
  <1>15. QED
    BY <1>1, <1>3, <1>9, <1>10, <1>11, <1>12, <1>13, <1>14, Takes

-----------------------------------------------------------------------------
(* Time passes *)

\* Ages and retention grow together, and stop at the window's end.
LEMMA OlderGrows ==
    ASSUME NEW n \in Age
    PROVE  /\ Older(n) \in Age /\ (Older(n) = Unset <=> n = Unset)
           /\ n \in 0..Window => Older(n) \in 0..Window
           /\ n >= Window => Older(n) >= Window
           /\ \A m \in 0..Window : n # Unset /\ n <= m => Older(n) <= Older(m)
  <1>1. Window \in Nat
    BY CleanupAssumption
  <1>2. QED
    BY <1>1 DEF Older, Age, Unset

LEMMA TickKeeps ==
    ASSUME AInv, Tick
    PROVE  AInv'
  <1>1. UNCHANGED <<job, owner, refs, processed, blob, index, steps, add, adds, run, read,
                    leaked, unrecorded, overtaken, faults>>
    BY DEF Tick, record, caller, attempt, excused
  <1>2. \A j \in Jobs : add[j] = "idle"
    BY DEF Tick
  <1>3. \A j \in Jobs : kept[j] \in Age /\ kept[j] \in 0..Window
    BY CleanupAssumption DEF AInv, TypeOK, Age, Unset
  <1>4. kept' = [j \in Jobs |-> Older(kept[j])]
    BY DEF Tick
  <1>5. ASSUME NEW j \in Jobs
        PROVE  /\ kept'[j] \in 0..Window
               /\ kept[j] >= Window => kept'[j] >= Window
               /\ \A n \in Age : n # Unset /\ n <= kept[j] => Older(n) <= kept'[j]
    <2>1. kept'[j] = Older(kept[j])
      BY <1>4
    <2>2. QED
      BY <1>3, <2>1, OlderGrows
  <1>e. \A j \in Jobs : Expired(j) => Expired(j)'
    BY <1>1, <1>5 DEF Expired
  <1>6. ASSUME NEW j \in Jobs
        PROVE  /\ meta'[j] \in Meta
               /\ meta'[j].referrer = meta[j].referrer
               /\ (meta'[j].age = Unset) <=> (meta[j].age = Unset)
               /\ meta[j].age # Unset /\ meta[j].age <= kept[j] => meta'[j].age <= kept'[j]
    <2> DEFINE n == meta[j].age
               o == Older(n)
    <2>1. meta[j] \in Meta
      BY DEF AInv, TypeOK
    <2>2. meta'[j] = [meta[j] EXCEPT !.age = o]
      BY DEF Tick
    <2>3. n \in Age
      BY <2>1 DEF Meta
    <2>4. /\ o \in Age /\ ((o = Unset) <=> (n = Unset))
          /\ n # Unset /\ n <= kept[j] => o <= kept'[j]
      BY <1>5, <2>3, OlderGrows
    <2> HIDE DEF o
    <2>5. QED
      BY <2>1, <2>2, <2>4 DEF Meta
  <1>7. ASSUME NEW a \in Cleaner
        PROVE  /\ clean'[a] \in Cleaning
               /\ clean'[a].at = clean[a].at /\ clean'[a].of = clean[a].of
               /\ clean'[a].keys = clean[a].keys
               /\ clean'[a].meta.referrer = clean[a].meta.referrer
               /\ (clean'[a].meta.age = Unset) <=> (clean[a].meta.age = Unset)
               /\ \A j \in Jobs : clean[a].meta.age # Unset /\ clean[a].meta.age <= kept[j]
                                     => clean'[a].meta.age <= kept'[j]
    <2> DEFINE n == clean[a].meta.age
               o == Older(n)
               m == [clean[a].meta EXCEPT !.age = o]
    <2>1. clean[a] \in Cleaning
      BY DEF AInv, TypeOK
    <2>2. clean[a].meta \in Meta /\ n \in Age
      BY <2>1 DEF Cleaning, Meta
    <2>3. /\ o \in Age /\ ((o = Unset) <=> (n = Unset))
          /\ \A j \in Jobs : n # Unset /\ n <= kept[j] => o <= kept'[j]
      BY <1>5, <2>2, OlderGrows
    <2>4. clean'[a] = [clean[a] EXCEPT !.meta = m]
      BY DEF Tick
    <2> HIDE DEF o
    <2>5. m \in Meta /\ m.referrer = clean[a].meta.referrer /\ m.age = o
      BY <2>2, <2>3 DEF Meta
    <2> HIDE DEF m
    <2>6. QED
      BY <2>1, <2>3, <2>4, <2>5 DEF Cleaning
  <1>8. TypeOK'
    <2>1. kept' \in [Jobs -> 0..Window]
      BY <1>4, <1>5
    <2>2. meta' \in [Jobs -> Meta]
      <3>1. meta' = [j \in Jobs |-> meta'[j]]
        BY DEF Tick
      <3>2. QED
        BY <1>6, <3>1
    <2>3. clean' \in [Cleaner -> Cleaning]
      <3>1. clean' = [a \in Cleaner |-> clean'[a]]
        BY DEF Tick
      <3>2. QED
        BY <1>7, <3>1
    <2>4. QED
      BY <1>1, <2>1, <2>2, <2>3 DEF AInv, TypeOK
  <1>9. ASSUME NEW j \in Jobs
        PROVE  Sound(j)'
    <2>1. Sound(j)
      BY DEF AInv
    <2>2. Life(j)' /\ (j \notin overtaken' => Resolving(j)')
      BY <1>1, <1>6, <2>1 DEF Sound, Life, Resolving
    <2>3. (j \notin overtaken' => Referring(j)')
      BY <1>1, <1>6, <2>1 DEF Sound, Referring, Exists
    <2>4. Aging(j)'
      <3> SUFFICES ASSUME meta'[j].age # Unset
                   PROVE  meta'[j].age <= kept'[j]
        BY DEF Aging
      <3>1. meta[j].age # Unset /\ meta[j].age <= kept[j]
        BY <1>6, <2>1 DEF Sound, Aging
      <3>2. QED
        BY <1>6, <3>1
    <2>5. Window > 0 /\ j \notin overtaken' => Covering(j)'
      BY <1>1, <1>2, <2>1 DEF Sound, Covering
    <2>6. QED
      BY <2>2, <2>3, <2>4, <2>5 DEF Sound
  <1>10. ASSUME NEW a \in Cleaner
         PROVE  Knows(clean[a])'
    <2> SUFFICES ASSUME clean[a].at # "idle"
                 PROVE  Knows(clean[a])'
      BY <1>7 DEF Knows
    <2>2. PICK j \in Jobs : j = clean[a].of /\ j = clean'[a].of /\ adds[j] # 0
      BY <1>7, CleanerKnows
    <2> SUFFICES ASSUME j \notin overtaken
                 PROVE  KnowsJob(clean[a])'
      BY <1>1, <2>2 DEF Knows
    <2>1. KnowsJob(clean[a])
      BY <2>2, CleanerKnows
    <2>3. KnowsGone(clean[a])' /\ KnowsReferrer(clean[a])'
      BY <1>1, <1>7, <2>1 DEF KnowsJob, KnowsGone, KnowsReferrer
    <2>4. KnowsAge(clean[a])'
      <3>1. ASSUME clean[a].at = "referrer", clean[a].meta.age # Unset
            PROVE  clean'[a].meta.age <= kept'[j]
        <4>1. clean[a].meta.age <= kept[j]
          BY <2>1, <2>2, <3>1 DEF KnowsJob, KnowsAge
        <4>2. QED
          BY <1>7, <3>1, <4>1
      <3>2. clean[a].at = "reread" /\ meta'[j].age = Unset => Expired(j)'
        BY <1>e, <1>6, <2>1, <2>2 DEF KnowsJob, KnowsAge
      <3>3. clean[a].at \in {"members", "delete"} => Expired(j)'
        BY <1>e, <2>1, <2>2 DEF KnowsJob, KnowsAge
      <3>4. QED
        BY <1>7, <2>2, <3>1, <3>2, <3>3 DEF KnowsAge, Expired
    <2>5. Window > 0 => KnowsAll(clean[a])'
      BY <1>1, <1>2, <1>7, <2>1, <2>2 DEF KnowsJob, KnowsAll
    <2>6. QED
      BY <2>3, <2>4, <2>5 DEF KnowsJob
  <1>11. QED
    BY <1>8, <1>9, <1>10 DEF AInv

-----------------------------------------------------------------------------
(* The invariant holds *)

\* An empty store, but for what an older release left.
LEMMA AInvInit ==
    ASSUME Init
    PROVE  AInv
  <1>1. /\ blob = refs /\ index = refs /\ adds = owner /\ leaked = {} /\ overtaken = {}
        /\ owner = [j \in Jobs |-> IF Exists(j) THEN 1 ELSE 0]
        /\ meta = [j \in Jobs |-> NoMeta] /\ steps = [j \in Jobs |-> 0]
        /\ add = [j \in Jobs |-> "idle"] /\ run = [j \in Jobs |-> "idle"]
        /\ read = [j \in Jobs |-> Nothing] /\ clean = [a \in Cleaner |-> Idle]
        /\ faults = 0
    BY DEF Init
  <1>2. PICK old \in SUBSET Legacy :
            /\ job \in [Jobs -> {"none", "waiting", "finished"}]
            /\ \A j \in Jobs : j \in old => job[j] = "finished"
            /\ refs = [j \in Jobs |-> IF j \in old THEN {"returnValue"} ELSE {}]
            /\ processed = {j \in old : Exists(Parent[j])}
            /\ unrecorded = old
            /\ kept = [j \in Jobs |-> IF j \in old THEN 0 ELSE Window]
    BY DEF Init
  <1>3. /\ 0 \in 0..Window /\ Window \in 0..Window /\ 0 \in 0..MaxFaults
        /\ {"returnValue"} \in SUBSET Kind /\ {} \in SUBSET Kind
        /\ old \subseteq Jobs
    BY CleanupAssumption DEF Kind
  <1>4. NoMeta \in Meta /\ NoMeta.age = Unset /\ Nothing \in Reading
    BY CleanupAssumption DEF NoMeta, Meta, Age, Unset, Nothing, Reading
  <1>5. TypeOK
    <2>1. /\ job \in [Jobs -> {"none", "waiting", "active", "finished"}]
          /\ owner \in [Jobs -> Nat] /\ refs \in [Jobs -> SUBSET Kind]
          /\ kept \in [Jobs -> 0..Window]
          /\ processed \subseteq Jobs /\ unrecorded \subseteq Jobs
      BY <1>1, <1>2, <1>3
    <2>2. /\ meta \in [Jobs -> Meta] /\ read \in [Jobs -> Reading]
          /\ clean \in [Cleaner -> Cleaning]
      BY <1>1, <1>4, IdleCleaning
    <2>3. QED
      BY <1>1, <1>3, <2>1, <2>2 DEF TypeOK
  <1>6. ASSUME NEW j \in Jobs
        PROVE  Sound(j)
    <2>1. /\ run[j] = "idle" /\ add[j] = "idle" /\ meta[j].age = Unset /\ steps[j] = 0
          /\ j \in processed => j \in unrecorded /\ Exists(Parent[j])
      BY <1>1, <1>2, <1>4
    <2>2. /\ job[j] # "active" /\ adds[j] = owner[j] /\ blob[j] = refs[j] /\ index[j] = refs[j]
          /\ (owner[j] = 0 <=> job[j] = "none")
          /\ (job[j] = "none" => refs[j] = {})
      BY <1>1, <1>2, CleanupAssumption DEF Exists
    <2>3. QED
      BY <2>1, <2>2 DEF Sound, Life, Resolving, Referring, Aging, Covering
  <1>7. \A a \in Cleaner : Knows(clean[a])
    BY <1>1, IdleCleaning
  <1>8. QED
    BY <1>5, <1>6, <1>7 DEF AInv

\* A step that changes nothing.
LEMMA AInvStutters ==
    ASSUME AInv, UNCHANGED vars
    PROVE  AInv'
  <1>1. "sweep" \in Cleaner
    BY DEF Cleaner
  <1>2. clean["sweep"] \in Cleaning /\ Knows(clean["sweep"]) /\ faults' \in 0..MaxFaults
    BY <1>1 DEF AInv, TypeOK, vars
  <1>3. clean' = [clean EXCEPT !["sweep"] = clean["sweep"]]
    BY <1>1 DEF AInv, TypeOK, vars
  <1>4. QED
    BY <1>1, <1>2, <1>3, Learns DEF vars

LEMMA AInvNext ==
    ASSUME AInv, [Next]_vars
    PROVE  AInv'
  <1>1. ASSUME NEW j \in Jobs, CallerStep(j) \/ AddFails(j)
        PROVE  AInv'
    BY <1>1, AddKeeps, PutPayloadKeeps, TrackPayloadKeeps, EndAddKeeps DEF CallerStep
  <1>2. ASSUME NEW j \in Jobs, RunStep(j) \/ RunFails(j)
        PROVE  AInv'
    BY <1>2, PickUpKeeps, HydrateKeeps, SaveStepKeeps, PutResultKeeps, TrackResultKeeps,
       CompleteKeeps, RunFailsKeeps DEF RunStep
  <1>3. ASSUME NEW j \in Jobs, Trim(j) \/ Remove(j)
        PROVE  AInv'
    BY <1>3, RecordGoesKeeps
  <1>4. ASSUME NEW j \in Jobs, FindSteps(j) \/ FindBlobs(j)
        PROVE  AInv'
    BY <1>4, FindKeeps
  <1>5. ASSUME NEW a \in Cleaner, CleanStep(a) \/ CleanFails(a)
        PROVE  AInv'
    BY <1>5, ClearStepsKeeps, ReadMetaKeeps, ReadReferrerKeeps, StampKeeps, RereadKeeps,
       ReadMembersKeeps, DeleteKeeps, CleanFailsKeeps DEF CleanStep
  <1>6. QED
    BY <1>1, <1>2, <1>3, <1>4, <1>5, ClassifyKeeps, TickKeeps, AInvStutters DEF Next

LEMMA InvAlways == Spec => []AInv
  BY AInvInit, AInvNext, PTL DEF Spec

-----------------------------------------------------------------------------
(* Theorems *)

\* What is taken from a job, and by whom: only a cleaner takes step state or a
\* blob, and only of a job that is gone.
LEMMA OnlyCleanersTake ==
    ASSUME AInv, [Next]_vars, NEW j \in Jobs \ overtaken
    PROVE  \/ /\ blob[j] \subseteq blob'[j]
              /\ steps[j] # 0 => steps'[j] # 0
           \/ /\ job[j] = "none"
              /\ "returnValue" \in blob[j] \ blob'[j] => kept[j] >= Window
  <1> DEFINE Kept == blob[j] \subseteq blob'[j] /\ (steps[j] # 0 => steps'[j] # 0)
  <1>1. ASSUME NEW u \in Jobs, CallerStep(u) \/ AddFails(u)
        PROVE  Kept
    <2>1. steps' = steps
      BY <1>1 DEF CallerStep, Add, PutPayload, TrackPayload, SetPayload, AddFails
    <2>2. blob' = blob \/ Put(u, "payload")
      BY <1>1 DEF CallerStep, Add, PutPayload, TrackPayload, SetPayload, AddFails, store
    <2>3. blob[j] \subseteq blob'[j]
      BY <2>2 DEF Put, AInv, TypeOK
    <2>4. QED
      BY <2>1, <2>3
  <1>2. ASSUME NEW u \in Jobs, RunStep(u) \/ RunFails(u)
        PROVE  Kept
    <2>1. steps' = steps \/ SaveStep(u)
      BY <1>2 DEF RunStep, PickUp, Hydrate, PutResult, TrackResult, Complete, RunFails
    <2>2. ASSUME SaveStep(u), steps[j] # 0
          PROVE  steps'[j] # 0
      <3>1. run[u] = "running" /\ steps' = [steps EXCEPT ![u] = owner[u]] /\ Sound(u)
        BY <2>2 DEF SaveStep, AInv
      <3>2. owner[u] # 0
        BY <3>1 DEF Sound, Life
      <3>3. QED
        BY <2>2, <3>1, <3>2 DEF AInv, TypeOK
    <2>3. blob' = blob \/ Put(u, "returnValue")
      BY <1>2 DEF RunStep, PickUp, Hydrate, SaveStep, PutResult, TrackResult, Complete, RunFails,
                  store
    <2>4. blob[j] \subseteq blob'[j]
      BY <2>3 DEF Put, AInv, TypeOK
    <2>5. QED
      BY <2>1, <2>2, <2>4
  <1>3. ASSUME NEW u \in Jobs, Trim(u) \/ Remove(u) \/ FindSteps(u) \/ FindBlobs(u)
        PROVE  Kept
    BY <1>3 DEF Trim, Remove, FindSteps, FindBlobs, Find, store
  <1>4. ASSUME NEW a \in Cleaner,
               \/ ReadMeta(a) \/ ReadReferrer(a) \/ Stamp(a) \/ Reread(a) \/ ReadMembers(a)
               \/ CleanFails(a) \/ Classify
        PROVE  Kept
    BY <1>4 DEF ReadMeta, ReadReferrer, Stamp, Reread, ReadMembers, CleanFails, Classify, store
  <1>5. ASSUME NEW a \in Cleaner, ClearSteps(a)
        PROVE  /\ blob' = blob
               /\ (steps[j] # 0 => steps'[j] # 0) \/ job[j] = "none"
    <2>1. clean[a].at = "steps" /\ (clean[a].of \notin overtaken => job[clean[a].of] = "none")
      BY <1>5, CleanerKnows DEF ClearSteps, At
    <2>2. blob' = blob /\ steps' = [steps EXCEPT ![clean[a].of] = 0]
      BY <1>5 DEF ClearSteps, Of, store
    <2>3. j # clean[a].of => steps'[j] = steps[j]
      BY <2>2 DEF AInv, TypeOK
    <2>4. QED
      BY <2>1, <2>2, <2>3
  <1>6. ASSUME NEW a \in Cleaner, Delete(a)
        PROVE  \/ Kept
               \/ /\ job[j] = "none"
                  /\ "returnValue" \in blob[j] => kept[j] >= Window
    <2>1. /\ clean[a].at = "delete"
          /\ clean[a].of \notin overtaken => job[clean[a].of] = "none" /\ Expired(clean[a].of)
      BY <1>6, CleanerKnows DEF Delete, At, KnowsJob, KnowsAge
    <2>2. steps' = steps /\ blob' = [blob EXCEPT ![clean[a].of] = @ \ clean[a].keys]
      BY <1>6 DEF Delete, Of
    <2>3. j # clean[a].of => blob'[j] = blob[j]
      BY <2>2 DEF AInv, TypeOK
    <2>4. QED
      BY <2>1, <2>2, <2>3 DEF Expired
  <1>7. CASE Tick
    BY <1>7 DEF Tick
  <1>8. CASE UNCHANGED vars
    BY <1>8 DEF vars, store
  <1>9. "sweep" \in Cleaner
    BY DEF Cleaner
  <1>10. QED
    <2> HIDE DEF Kept
    <2>1. CASE \E u \in Jobs : \/ CallerStep(u) \/ RunStep(u) \/ AddFails(u) \/ RunFails(u)
                              \/ Trim(u) \/ Remove(u) \/ FindSteps(u) \/ FindBlobs(u)
      BY <1>1, <1>2, <1>3, <2>1 DEF Kept
    <2>2. CASE Classify
      BY <1>4, <1>9, <2>2 DEF Kept
    <2>3. CASE \E a \in Cleaner : CleanStep(a) \/ CleanFails(a)
      <3>1. PICK a \in Cleaner : CleanStep(a) \/ CleanFails(a)
        BY <2>3
      <3>2. CASE ClearSteps(a) \/ Delete(a)
        BY <1>5, <1>6, <3>2 DEF Kept
      <3>3. CASE ~(ClearSteps(a) \/ Delete(a))
        BY <1>4, <3>1, <3>3 DEF CleanStep, Kept
      <3>4. QED
        BY <3>2, <3>3
    <2>4. QED
      BY <1>7, <1>8, <2>1, <2>2, <2>3 DEF Next, Kept

\* Every reference in a job record, or in the record of the parent the job
\* reported to, resolves: sweepDataBlobs and dataBlobDecision
\* (job-artifact-cleanup.ts:166-207 and 454-530) take no blob that add() or
\* moveToCompleted (queue.ts:98-111, job.ts:411-438) still refers to.
THEOREM ReferencesResolve == Spec => []RefsResolve
  <1>1. AInv => RefsResolve
    BY DEF AInv, Sound, Resolving, Referring, RefsResolve
  <1>2. QED
    BY <1>1, InvAlways, PTL

\* Whatever is in the store is found again through the index, unless a process
\* died inside externalize (base-data-store.ts:137-160): clearJob's SMEMBERS
\* and DEL (redis-data-store.ts:132-137) forget no blob they leave behind.
\* Without a window a clean-up may run between putRaw and trackJobKey.
THEOREM IndexCovers ==
    ASSUME Window > 0
    PROVE  Spec => []IndexCoversBlobs
  <1>1. AInv => IndexCoversBlobs
    BY DEF AInv, Sound, Covering, IndexCoversBlobs
  <1>2. QED
    BY <1>1, InvAlways, PTL

\* Neither the sweep nor a removal takes anything from a job that is there
\* (classifyBatch, job-artifact-cleanup.ts:381-417, and job.remove,
\* job.ts:233-251).
THEOREM CleanupSpares == Spec => SweepSpares
  <1>1. AInv /\ [Next]_vars =>
            [\A j \in Jobs \ overtaken :
                (steps[j] # 0 /\ steps'[j] = 0) \/ blob[j] \ blob'[j] # {}
                    => job[j] = "none"]_vars
    BY OnlyCleanersTake
  <1>2. QED
    BY <1>1, InvAlways, PTL DEF Spec, SweepSpares

\* A return value stays for the whole retention window, whoever is cleaning:
\* createdAt starts anew with every reference (redis-data-store.ts:75-109), and
\* dataBlobDecision looks at it (job-artifact-cleanup.ts:166-207).
THEOREM ResultsStay == Spec => ResultKept
  <1>1. AInv /\ [Next]_vars =>
            [\A j \in Jobs \ overtaken :
                "returnValue" \in blob[j] \ blob'[j] => kept[j] >= Window]_vars
    BY OnlyCleanersTake
  <1>2. QED
    BY <1>1, InvAlways, PTL DEF Spec, ResultKept
=============================================================================
