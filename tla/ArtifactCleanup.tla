--------------------------- MODULE ArtifactCleanup ---------------------------
(***************************************************************************)
(* What a job keeps outside BullMQ's job hash, and who removes it when:    *)
(* its step state (stores/) and, with the data store enabled, the blobs of *)
(* its payload and return value (data-store/, queue.ts, job.ts), removed   *)
(* by the periodic sweep or after an explicit removal                      *)
(* (utils/job-artifact-cleanup.ts).                                        *)
(*                                                                         *)
(* BullMQ drops finished jobs on its own (removeOnComplete) and tells      *)
(* nobody, so the sweep infers from several Redis reads that nobody needs  *)
(* an artifact: the job's hash, the metadata of its blobs, and the hash of *)
(* the parent that got a copy of the return value's reference.  A step     *)
(* below is the code between two Redis calls of one process.               *)
(*                                                                         *)
(* A job id may be used again: step state is named after the add() whose   *)
(* job wrote it, 0 is nothing.  No later read repeats the check that the   *)
(* job's hash is gone, so an id added again while its artifacts are being  *)
(* cleaned is at their mercy: those jobs are `overtaken`.                  *)
(* The blobs of step results live like those of payloads and are left out. *)
(* BullMQ is external.                                                     *)
(***************************************************************************)
EXTENDS Naturals, FiniteSets

CONSTANTS
    Jobs,        \* job ids of one queue
    NoJob,
    Parent,      \* the parent that starts a job, or NoJob
    Large,       \* the jobs whose values shouldExternalize accepts
    Legacy,      \* jobs that an older release may have run and left here
    Stepping,    \* the jobs of step tasks
    Window,      \* minArtifactAgeMs, in ticks
    MaxAdds,     \* bound: add() calls with each id
    MaxFaults    \* bound: crashes and failed Redis calls

ASSUME CleanupAssumption ==
    /\ NoJob \notin Jobs
    /\ Parent \in [Jobs -> Jobs \cup {NoJob}]
    /\ Large \subseteq Jobs
    /\ Legacy \subseteq Large
    /\ Stepping \subseteq Jobs
    /\ MaxAdds \in [Jobs -> Nat \ {0}]
    /\ {Window, MaxFaults} \subseteq Nat

VARIABLES
    job,        \* the job hash and its state ("none": no hash)
    owner,      \* the add() that made it
    adds,       \* add() calls so far
    refs,       \* the values of the job hash that are references
    processed,  \* children whose reference their parent's hash holds
    blob,       \* the data store
    index,      \* trackJobKey's set of a job's blobs
    meta,       \* and its hash: age of createdAt, and the referrer
    steps,      \* the step-state hash: the owner of the job that wrote it
    add,        \* where add() of an id is between two awaits
    run,        \* where the job's attempt is
    read,       \* what the attempt was given
    clean,      \* where the sweep, and a removal's clean-up, are
    kept,       \* ticks since the return value's reference was last returned
    leaked,     \* jobs that crashed between putRaw and trackJobKey
    unrecorded, \* children whose reference a parent got without a referrer
    overtaken,  \* jobs added again while their artifacts were being cleaned
    faults

record   == <<job, owner, refs, processed>>
store    == <<blob, index, meta>>
caller   == <<add, adds>>
attempt  == <<run, read>>
excused  == <<unrecorded, overtaken>>
ghost    == <<kept, leaked, excused>>
vars     == <<record, store, steps, caller, attempt, clean, ghost, faults>>

Kind     == {"payload", "returnValue"}
Unset    == Window + 1                   \* no createdAt
Age      == 0..Unset
NoMeta   == [age |-> Unset, referrer |-> NoJob]
Meta     == [age : Age, referrer : Jobs \cup {NoJob}]
Cleaner  == {"sweep", "removal"}
Idle     == [at |-> "idle", of |-> NoJob, meta |-> NoMeta, keys |-> {}]
Cleaning == [at : {"idle", "find steps", "find blobs", "steps", "meta",
                   "referrer", "stamp", "reread", "members", "delete"},
             of : Jobs \cup {NoJob}, meta : Meta, keys : SUBSET Kind]
Reading  == [ref : BOOLEAN, steps : Nat]
Nothing  == [ref |-> FALSE, steps |-> 0]

\* The one type invariant of the module.
TypeOK ==
    /\ job \in [Jobs -> {"none", "waiting", "active", "finished"}]
    /\ owner \in [Jobs -> Nat]
    /\ adds \in [Jobs -> Nat]
    /\ refs \in [Jobs -> SUBSET Kind]
    /\ processed \in SUBSET Jobs
    /\ blob \in [Jobs -> SUBSET Kind]
    /\ index \in [Jobs -> SUBSET Kind]
    /\ meta \in [Jobs -> Meta]
    /\ steps \in [Jobs -> Nat]
    /\ add \in [Jobs -> {"idle", "added", "put", "tracked"}]
    /\ run \in [Jobs -> {"idle", "fetched", "running", "put", "tracked"}]
    /\ read \in [Jobs -> Reading]
    /\ clean \in [Cleaner -> Cleaning]
    /\ kept \in [Jobs -> 0..Window]
    /\ {leaked, unrecorded, overtaken} \subseteq SUBSET Jobs
    /\ faults \in 0..MaxFaults

Exists(j) == j # NoJob /\ job[j] # "none"

\* The store starts empty but for the return values of jobs that finished
\* under a release which knew the index and not its metadata.  Their parents
\* may still be there, with the references to those values.
Init ==
    /\ \E old \in SUBSET Legacy :
           /\ job \in [Jobs -> {"none", "waiting", "finished"}]
           /\ \A j \in Jobs :
                  /\ j \in old => job[j] = "finished"
                  /\ job[j] # "none" => j \in old \cup {Parent[c] : c \in old}
           /\ refs = [j \in Jobs |-> IF j \in old THEN {"returnValue"} ELSE {}]
           /\ processed = {j \in old : Exists(Parent[j])}
           /\ unrecorded = old
           /\ kept = [j \in Jobs |-> IF j \in old THEN 0 ELSE Window]
    /\ owner = [j \in Jobs |-> IF Exists(j) THEN 1 ELSE 0]
    /\ adds = owner
    /\ blob = refs
    /\ index = refs
    /\ meta = [j \in Jobs |-> NoMeta]
    /\ steps = [j \in Jobs |-> 0]
    /\ add = [j \in Jobs |-> "idle"]
    /\ run = [j \in Jobs |-> "idle"]
    /\ read = [j \in Jobs |-> Nothing]
    /\ clean = [a \in Cleaner |-> Idle]
    /\ leaked = {}
    /\ overtaken = {}
    /\ faults = 0

Blame       == faults < MaxFaults /\ faults' = faults + 1
Storing     == Large \cup Stepping      \* the jobs that keep anything outside
Children(p) == {j \in Jobs : Parent[j] = p}

\* Cleaner a has found the hash of job j gone, or has removed it.
Past(a, j) == clean[a].of = j /\ clean[a].at \notin {"find steps", "find blobs"}

\* An add() of job j, not the first, is under way.
Readding(j) == add[j] # "idle" /\ adds[j] > 1

\* Cleaner a passes the check for job j.
Passing(j) == overtaken' = overtaken \cup {i \in {j} : Readding(i)}

----------------------------------------------------------------------------
(* externalize: putRaw, then trackJobKey, then the reference is returned *)

Put(j, k) == blob' = [blob EXCEPT ![j] = @ \cup {k}]

\* Slip: the first write of createdAt wins.
TrackFirst(j, k, referrer) ==
    /\ index' = [index EXCEPT ![j] = @ \cup {k}]
    /\ meta' = [meta EXCEPT ![j] =
           [age |-> IF @.age = Unset THEN 0 ELSE @.age,
            referrer |-> IF referrer = NoJob THEN @.referrer ELSE referrer]]

\* Slip: the parent that will hold the reference is not recorded.
TrackNoReferrer(j, k, referrer) ==
    /\ index' = [index EXCEPT ![j] = @ \cup {k}]
    /\ meta' = [meta EXCEPT ![j].age = 0]

\* One MULTI: SADD, and createdAt starts anew.
Track(j, k, referrer) ==
    /\ index' = [index EXCEPT ![j] = @ \cup {k}]
    /\ meta' = [meta EXCEPT ![j] =
           [age |-> 0,
            referrer |-> IF referrer = NoJob THEN @.referrer ELSE referrer]]

----------------------------------------------------------------------------
(* add(): the job exists, and may run, before its payload is stored *)

\* super.add.  For an id (or deduplication id) in use BullMQ makes no job and
\* answers with the existing one; add() goes on all the same.
Add(j) ==
    /\ add[j] = "idle"
    /\ adds[j] < MaxAdds[j]
    /\ Parent[j] # NoJob => job[Parent[j]] = "active"
    /\ adds' = [adds EXCEPT ![j] = @ + 1]
    /\ add' = [add EXCEPT ![j] = IF j \in Large THEN "added" ELSE "idle"]
    /\ IF job[j] = "none"
       THEN /\ job' = [job EXCEPT ![j] = "waiting"]
            /\ owner' = [owner EXCEPT ![j] = adds'[j]]
       ELSE UNCHANGED <<job, owner>>
    /\ overtaken' = overtaken \cup {i \in {j} : \E a \in Cleaner : Past(a, i)}
    /\ UNCHANGED <<refs, processed, store, steps, attempt, clean, kept, leaked,
                   unrecorded, faults>>

PutPayload(j) ==
    /\ add[j] = "added"
    /\ Put(j, "payload")
    /\ add' = [add EXCEPT ![j] = "put"]
    /\ UNCHANGED <<record, index, meta, steps, adds, attempt, clean, ghost,
                   faults>>

TrackPayload(j) ==
    /\ add[j] = "put"
    /\ Track(j, "payload", NoJob)
    /\ add' = [add EXCEPT ![j] = "tracked"]
    /\ UNCHANGED <<record, blob, steps, adds, attempt, clean, ghost, faults>>

\* setPayload puts the reference into the job's data, or fails with add()
\* because the job is gone by now.
SetPayload(j) ==
    /\ add[j] = "tracked"
    /\ add' = [add EXCEPT ![j] = "idle"]
    /\ refs' = IF Exists(j) THEN [refs EXCEPT ![j] = @ \cup {"payload"}] ELSE refs
    /\ UNCHANGED <<job, owner, processed, store, steps, adds, attempt, clean,
                   ghost, faults>>

AddFails(j) ==
    /\ add[j] # "idle"
    /\ Blame
    /\ add' = [add EXCEPT ![j] = "idle"]
    /\ leaked' = IF add[j] = "put" THEN leaked \cup {j} ELSE leaked
    /\ UNCHANGED <<record, store, steps, adds, attempt, clean, kept, excused>>

----------------------------------------------------------------------------
(* The job runs *)

PickUp(j) ==
    /\ job[j] = "waiting"
    /\ job' = [job EXCEPT ![j] = "active"]
    /\ run' = [run EXCEPT ![j] = "fetched"]
    /\ read' = [read EXCEPT ![j].ref = "payload" \in refs[j]]
    /\ UNCHANGED <<owner, refs, processed, store, steps, caller, clean, ghost,
                   faults>>

\* hydrateStoredData and hydrateStepState.  A reference that does not resolve
\* fails the job.
Hydrate(j) ==
    /\ run[j] = "fetched"
    /\ IF read[j].ref /\ "payload" \notin blob[j]
       THEN /\ job' = [job EXCEPT ![j] = "finished"]
            /\ run' = [run EXCEPT ![j] = "idle"]
            /\ read' = [read EXCEPT ![j] = Nothing]
       ELSE /\ run' = [run EXCEPT ![j] = "running"]
            /\ read' = [read EXCEPT ![j].steps = steps[j]]
            /\ UNCHANGED job
    /\ UNCHANGED <<owner, refs, processed, store, steps, caller, clean, ghost,
                   faults>>

SaveStep(j) ==
    /\ j \in Stepping
    /\ run[j] = "running"
    /\ steps[j] # owner[j]
    /\ steps' = [steps EXCEPT ![j] = owner[j]]
    /\ UNCHANGED <<record, store, caller, attempt, clean, ghost, faults>>

\* moveToCompleted externalizes the return value first ...
PutResult(j) ==
    /\ run[j] = "running"
    /\ j \in Large
    /\ Put(j, "returnValue")
    /\ run' = [run EXCEPT ![j] = "put"]
    /\ UNCHANGED <<record, index, meta, steps, caller, read, clean, ghost,
                   faults>>

TrackResult(j) ==
    /\ run[j] = "put"
    /\ Track(j, "returnValue", Parent[j])
    /\ kept' = [kept EXCEPT ![j] = 0]
    /\ unrecorded' = unrecorded \ {j}
    /\ run' = [run EXCEPT ![j] = "tracked"]
    /\ UNCHANGED <<record, blob, steps, caller, read, clean, leaked, overtaken,
                   faults>>

\* ... and BullMQ copies the reference into the parent's processed hash.  A
\* job with unfinished children is not completed.
Complete(j) ==
    /\ run[j] = IF j \in Large THEN "tracked" ELSE "running"
    /\ \A c \in Children(j) : job[c] \notin {"waiting", "active"}
    /\ job' = [job EXCEPT ![j] = "finished"]
    /\ refs' = IF j \in Large THEN [refs EXCEPT ![j] = @ \cup {"returnValue"}]
               ELSE refs
    /\ processed' = IF j \in Large /\ Exists(Parent[j]) THEN processed \cup {j}
                    ELSE processed
    /\ run' = [run EXCEPT ![j] = "idle"]
    /\ read' = [read EXCEPT ![j] = Nothing]
    /\ UNCHANGED <<owner, store, steps, caller, clean, ghost, faults>>

\* The worker dies and the job is handed out again.
RunFails(j) ==
    /\ run[j] # "idle"
    /\ Blame
    /\ job' = [job EXCEPT ![j] = "waiting"]
    /\ run' = [run EXCEPT ![j] = "idle"]
    /\ read' = [read EXCEPT ![j] = Nothing]
    /\ leaked' = IF run[j] = "put" THEN leaked \cup {j} ELSE leaked
    /\ UNCHANGED <<owner, refs, processed, store, steps, caller, clean, kept,
                   excused>>

----------------------------------------------------------------------------
(* The job record goes *)

Vanish(j) ==
    /\ job' = [job EXCEPT ![j] = "none"]
    /\ owner' = [owner EXCEPT ![j] = 0]
    /\ refs' = [refs EXCEPT ![j] = {}]
    /\ processed' = processed \ Children(j)

\* removeOnComplete and removeOnFail, inside BullMQ's Lua: nobody is told.
Trim(j) ==
    /\ job[j] = "finished"
    /\ Vanish(j)
    /\ UNCHANGED <<store, steps, caller, attempt, clean, ghost, faults>>

\* Slip: the sidecars go first, and BullMQ refuses to remove a locked job.
RemoveSidecarsFirst(j) ==
    /\ Exists(j)
    /\ clean["removal"] = Idle
    /\ clean' = [clean EXCEPT !["removal"] = [Idle EXCEPT !.at = "steps", !.of = j]]
    /\ IF job[j] # "active" THEN Vanish(j) ELSE UNCHANGED record
    /\ UNCHANGED <<store, steps, caller, attempt, ghost, faults>>

\* job.remove, queue.remove and queue.clean: clearJobArtifacts once the job is
\* gone (job.remove runs it twice, for the queue's `removed` event as well).
Remove(j) ==
    /\ job[j] \in {"waiting", "finished"}
    /\ clean["removal"] = Idle
    /\ clean' = [clean EXCEPT !["removal"] = [Idle EXCEPT !.at = "steps", !.of = j]]
    /\ Vanish(j)
    /\ Passing(j)
    /\ UNCHANGED <<store, steps, caller, attempt, kept, leaked, unrecorded, faults>>

----------------------------------------------------------------------------
(* Cleaning: the sweep takes what it finds, a removal its own job *)

Go(a, to)   == clean' = [clean EXCEPT ![a] = IF to = "idle" THEN Idle
                                             ELSE [@ EXCEPT !.at = to]]
At(a, here) == clean[a].at = here
Of(a)       == clean[a].of

Find(j, what) ==
    /\ clean["sweep"] = Idle
    /\ clean' = [clean EXCEPT !["sweep"] = [Idle EXCEPT !.at = what, !.of = j]]
    /\ UNCHANGED <<record, store, steps, caller, attempt, ghost, faults>>

\* The SCAN of step-state keys, or of data indexes, turns up job j.
FindSteps(j) == steps[j] # 0 /\ Find(j, "find steps")
FindBlobs(j) == index[j] # {} /\ Find(j, "find blobs")

\* classifyBatch: is the job hash there?
Classify ==
    /\ At("sweep", "find steps") \/ At("sweep", "find blobs")
    /\ IF Exists(Of("sweep"))
       THEN Go("sweep", "idle") /\ UNCHANGED overtaken
       ELSE /\ Go("sweep", IF At("sweep", "find steps") THEN "steps" ELSE "meta")
            /\ Passing(Of("sweep"))
    /\ UNCHANGED <<record, store, steps, caller, attempt, kept, leaked,
                   unrecorded, faults>>

ClearSteps(a) ==
    /\ At(a, "steps")
    /\ steps' = [steps EXCEPT ![Of(a)] = 0]
    /\ Go(a, IF a = "removal" THEN "meta" ELSE "idle")
    /\ UNCHANGED <<record, store, caller, attempt, ghost, faults>>

\* The part of dataBlobDecision that looks at createdAt.
AgeVerdict(m, otherwise) ==
    IF m.age = Unset /\ Window > 0 THEN "stamp"
    ELSE IF m.age < Window THEN "idle" ELSE otherwise

\* readJobMeta.  The sweep asks for the referrer next and decides then.
ReadMeta(a) ==
    /\ At(a, "meta")
    /\ LET m  == meta[Of(a)]
           to == IF a = "sweep" THEN "referrer" ELSE AgeVerdict(m, "referrer")
       IN  clean' = [clean EXCEPT ![a] = IF to = "idle" THEN Idle
                                         ELSE [@ EXCEPT !.at = to, !.meta = m]]
    /\ UNCHANGED <<record, store, steps, caller, attempt, ghost, faults>>

ReadReferrer(a) ==
    /\ At(a, "referrer")
    /\ Go(a, IF Exists(clean[a].meta.referrer) THEN "idle"
             ELSE AgeVerdict(clean[a].meta, "members"))
    /\ UNCHANGED <<record, store, steps, caller, attempt, ghost, faults>>

\* Slip: the stamp is forgotten, the entry is only deferred.
StampNothing(a) ==
    /\ At(a, "stamp")
    /\ Go(a, "idle")
    /\ UNCHANGED <<record, store, steps, caller, attempt, ghost, faults>>

\* markJobMetaSeen, by HSETNX: also where there is no index.
Stamp(a) ==
    /\ At(a, "stamp")
    /\ meta' = [meta EXCEPT ![Of(a)].age = IF @ = Unset THEN 0 ELSE @]
    /\ Go(a, "reread")
    /\ UNCHANGED <<record, blob, index, steps, caller, attempt, ghost, faults>>

Reread(a) ==
    /\ At(a, "reread")
    /\ Go(a, IF meta[Of(a)].age # Unset THEN "idle" ELSE "members")
    /\ UNCHANGED <<record, store, steps, caller, attempt, ghost, faults>>

\* clearJob: SMEMBERS, then one DEL.
ReadMembers(a) ==
    /\ At(a, "members")
    /\ clean' = [clean EXCEPT ![a].keys = index[Of(a)], ![a].at = "delete"]
    /\ UNCHANGED <<record, store, steps, caller, attempt, ghost, faults>>

\* Slip: the payload's key is taken for the only one.
DeletePayload(a) ==
    /\ At(a, "delete")
    /\ blob' = [blob EXCEPT ![Of(a)] = @ \ {"payload"}]
    /\ index' = [index EXCEPT ![Of(a)] = {}]
    /\ meta' = [meta EXCEPT ![Of(a)] = NoMeta]
    /\ Go(a, "idle")
    /\ UNCHANGED <<record, steps, caller, attempt, ghost, faults>>

Delete(a) ==
    /\ At(a, "delete")
    /\ blob' = [blob EXCEPT ![Of(a)] = @ \ clean[a].keys]
    /\ index' = [index EXCEPT ![Of(a)] = {}]
    /\ meta' = [meta EXCEPT ![Of(a)] = NoMeta]
    /\ Go(a, "idle")
    /\ UNCHANGED <<record, steps, caller, attempt, ghost, faults>>

\* A Redis call fails, or its reply is not understood: the entry is deferred.
\* After a removal the step state's failure does not skip the blobs.
CleanFails(a) ==
    /\ ~At(a, "idle")
    /\ Blame
    /\ Go(a, "idle") \/ (a = "removal" /\ At(a, "steps") /\ Go(a, "meta"))
    /\ UNCHANGED <<record, store, steps, caller, attempt, ghost>>

----------------------------------------------------------------------------
Older(n) == IF n < Window THEN n + 1 ELSE n

\* Time passes.  A tick is longer than a call of add() takes.
Tick ==
    /\ \A j \in Jobs : add[j] = "idle"
    /\ kept' = [j \in Jobs |-> Older(kept[j])]
    /\ meta' = [j \in Jobs |-> [meta[j] EXCEPT !.age = Older(@)]]
    /\ clean' = [a \in Cleaner |-> [clean[a] EXCEPT !.meta.age = Older(@)]]
    /\ <<kept, meta, clean>>' # <<kept, meta, clean>>
    /\ UNCHANGED <<record, blob, index, steps, caller, attempt, leaked, excused,
                   faults>>

CallerStep(j) == Add(j) \/ PutPayload(j) \/ TrackPayload(j) \/ SetPayload(j)

RunStep(j) ==
    \/ PickUp(j) \/ Hydrate(j) \/ SaveStep(j) \/ PutResult(j)
    \/ TrackResult(j) \/ Complete(j)

CleanStep(a) ==
    \/ ClearSteps(a) \/ ReadMeta(a) \/ ReadReferrer(a) \/ Stamp(a)
    \/ Reread(a) \/ ReadMembers(a) \/ Delete(a)

Next ==
    \/ \E j \in Jobs : \/ CallerStep(j) \/ RunStep(j)
                       \/ AddFails(j) \/ RunFails(j) \/ Trim(j) \/ Remove(j)
                       \/ FindSteps(j) \/ FindBlobs(j)
    \/ Classify
    \/ \E a \in Cleaner : CleanStep(a) \/ CleanFails(a)
    \/ Tick

Spec == Init /\ [][Next]_vars

\* The sweep runs every hour over the whole keyspace, so whatever it could
\* find again and again it finds; calls return, and time passes.
Fairness ==
    /\ \A j \in Storing : /\ SF_vars(FindSteps(j)) /\ SF_vars(FindBlobs(j))
                          /\ WF_vars(PutPayload(j) \/ TrackPayload(j) \/ SetPayload(j))
    /\ WF_vars(Classify) /\ \A a \in Cleaner : WF_vars(CleanStep(a))
    /\ WF_vars(Tick)

FairSpec == Spec /\ Fairness

----------------------------------------------------------------------------
(* Properties *)

\* Every reference that a job record, or the record of the parent it reported
\* to, holds can be resolved: neither sweep nor removal takes a blob that is
\* still referred to.  Two kinds of job are without that promise: one that was
\* overtaken, and, for the parent's copy, one an older release reported
\* without a referrer.  Its index is stamped, ages out and is deleted with the
\* blob while the parent lives (job-artifact-cleanup.ts:178-202).
RefsResolve ==
    \A j \in Jobs \ overtaken :
        /\ refs[j] \subseteq blob[j]
        /\ j \in processed \ unrecorded => "returnValue" \in blob[j]

\* A return value's blob lives for the retention window at least, counted from
\* when externalize last returned its reference: a late reader of the
\* `completed` event finds it, whatever attempts came before.
ResultKept ==
    [][\A j \in Jobs \ overtaken :
         "returnValue" \in blob[j] \ blob'[j] => kept[j] >= Window]_vars

\* No blob without an index entry that leads to it, unless a process died
\* between the two writes of externalize, or the job was overtaken.
IndexCoversBlobs ==
    \A j \in Jobs \ (leaked \cup overtaken) : \A k \in blob[j] :
        \/ k \in index[j]
        \/ k = "payload" /\ add[j] = "put"
        \/ k = "returnValue" /\ run[j] = "put"

\* Artifacts are only taken from jobs that are gone ("it only deletes
\* artifacts whose job hash is confirmed absent", maintenance.ts:26), in
\* whatever order runs, removals, the sweep and later add() calls with the
\* same id come.  The one way to lose them is to be overtaken: the absence
\* was confirmed some Redis calls before the deletion.
SweepSpares ==
    [][\A j \in Jobs \ overtaken :
         (steps[j] # 0 /\ steps'[j] = 0) \/ blob[j] \ blob'[j] # {}
             => job[j] = "none"]_vars

\* What a removed or trimmed job leaves behind is reclaimed, blobs of an
\* older release included, once no parent holds a reference.
Reclaimed ==
    \A j \in Storing :
        <>[](job[j] # "none" \/ Exists(Parent[j]) \/ (index[j] = {} /\ steps[j] = 0))

\* An attempt resumes from its own job's step state ("It can never predate its
\* job hash, so 'job gone' always means 'state is garbage'").
FreshStart ==
    \A j \in Jobs : run[j] = "running" => read[j].steps \in {0, owner[j]}
=============================================================================
