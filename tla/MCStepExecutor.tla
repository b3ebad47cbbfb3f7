--------------------------- MODULE MCStepExecutor ---------------------------
(* Instances of StepExecutor for TLC. *)
EXTENDS StepExecutor

\* The handlers.
Caller  == <<"do", "sleep", "runTask", "runTaskAndWait">>
Joiner  == <<"runTasks", "runTask", "waitForChildTasks", "sleepUntil">>

\* Arriving from an older release with nothing inline, with an error recorded
\* for the first step, or asleep in the second.
NoLegacies == {Blank}
CallerLegacies ==
    {Blank,
     [Blank EXCEPT ![1] = Result("errored", {}, 0)],
     [Blank EXCEPT ![1] = Result("completed", {9}, 0),
                   ![2] = Result("sleeping", {}, 2)]}
=============================================================================
