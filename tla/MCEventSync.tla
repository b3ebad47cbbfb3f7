---------------------------- MODULE MCEventSync ----------------------------
(* Instances of EventSync for TLC. *)
EXTENDS EventSync

CONSTANTS e1, e2, p1, p2, w1, w2

On(e) == <<e, p1>>

\* Three triggers over two events: crowded, swapped (one with a new payload),
\* gathered on one.
Crowded == <<On(e2), On(e1), On(e2)>>
Swapped == <<<<e1, p2>>, On(e2), On(e2)>>
Gathered == <<On(e2), NoSub, On(e2)>>

Shuffles == {Crowded, Swapped, Gathered}

Three == 1..3
TwoEvents   == {e1, e2}
TwoPayloads == {p1, p2}
TwoWorkers  == {w1, w2}
=============================================================================
