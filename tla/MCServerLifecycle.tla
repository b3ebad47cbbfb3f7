------------------------- MODULE MCServerLifecycle -------------------------
(***************************************************************************)
(* Instances of ServerLifecycle: a task whose handler waits for the result *)
(* of a task of another group, and in that group a task with batching.  A  *)
(* filter names that group and one there is not, or only the latter.       *)
(***************************************************************************)
EXTENDS ServerLifecycle, TLC

CONSTANTS a, b, d, g, h

AllTasks    == {a, b, d}
WithBatch   == {d}
TwoGroups   == {g, h}
Grouping    == a :> h @@ b :> g @@ d :> g
AAsksB      == a :> b @@ b :> NoTask @@ d :> NoTask
TwoCalls    == 1..2
ThreeCalls  == 1..3

SomeFilters == [c \in ThreeCalls |-> {{}, IF c = 2 THEN {Stranger} ELSE {g, Stranger}}]
=============================================================================
