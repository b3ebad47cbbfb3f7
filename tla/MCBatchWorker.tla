--------------------------- MODULE MCBatchWorker ---------------------------
(***************************************************************************)
(* The instance of BatchWorker that TLC checks.                            *)
(***************************************************************************)
EXTENDS BatchWorker

CONSTANTS j1, j2, j3

NoJobs    == {}
TwoJobs   == {j1, j2}
ThreeJobs == {j1, j2, j3}
=============================================================================
