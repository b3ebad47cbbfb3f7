-------------------------- MODULE MCQueueDiscovery --------------------------
(* The instance of QueueDiscovery that TLC checks. *)
EXTENDS QueueDiscovery, TLC

CONSTANTS q1, q2

TwoQueues  == {q1, q2}
TwoCalls   == 1..2

QueueSymmetry == Permutations(Queues)
=============================================================================
