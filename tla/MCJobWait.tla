----------------------------- MODULE MCJobWait -----------------------------
(* Small instances of requests waiting on the queue of one process. *)
EXTENDS JobWait, TLC

CONSTANTS n1, w1, w2

OneNode == {n1}
TwoWorkers == {w1, w2}
AllOnOne == [w \in Workers |-> n1]

RequestSymmetry == Permutations(Clients) \cup Permutations(JobIds)

=============================================================================
