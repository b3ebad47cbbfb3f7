------------------------- MODULE MCEventDispatcher -------------------------
(***************************************************************************)
(* Instances of EventDispatcher.  Processes meet in the registry only, so  *)
(* one is enough; it listens or it polls.                                  *)
(***************************************************************************)
EXTENDS EventDispatcher

CONSTANTS e1, t1, t2, p1, s1, s2

OneEvent   == {e1}
TwoTasks   == {t1, t2}
OneProcess == {p1}
TwoSends   == {s1, s2}
=============================================================================
