-------------------------- MODULE DurableWorkflow --------------------------
(***************************************************************************)
(* What memoized steps promise a task handler, whatever crashes, retries,  *)
(* sleeps and waits come between: the job's history is one growing list of *)
(* step results.  A result is written once, in program order, and is never *)
(* changed or forgotten, not even while the job is failed and reopened.    *)
(***************************************************************************)
EXTENDS Naturals, Sequences

CONSTANT Length    \* the number of steps the handler runs

VARIABLES
    results,   \* the results so far, in program order
    outcome    \* what the job's owner sees

Extends(longer, shorter) ==
    /\ Len(longer) = Len(shorter) + 1
    /\ SubSeq(longer, 1, Len(shorter)) = shorter

\* A migrated job may start with results an older release recorded.
Init == outcome = "open" /\ Len(results) <= Length

\* A failing attempt may still record the step it was at: the write reached
\* Redis and only the answer was lost.
Record ==
    /\ outcome = "open"
    /\ Len(results) < Length
    /\ Extends(results', results)
    /\ outcome' \in {"open", "failed"}

Complete ==
    /\ outcome = "open"
    /\ Len(results) = Length
    /\ outcome' = "completed"
    /\ UNCHANGED results

Fail   == outcome = "open" /\ outcome' = "failed" /\ UNCHANGED results
Reopen == outcome = "failed" /\ outcome' = "open" /\ UNCHANGED results

Next == Record \/ Complete \/ Fail \/ Reopen

Spec == Init /\ [][Next]_<<results, outcome>>
=============================================================================
