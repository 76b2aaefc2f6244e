------------------------------ MODULE MCWarm ------------------------------
(* A small instance of warming: a list of two renders, two replicas, one   *)
(* of which has the only worker.                                           *)
EXTENDS Warm, TLC

CONSTANTS n1, n2, w1, k1, k2

TwoNodes == {n1, n2}
OnSecond == [w \in Workers |-> n2]
OnFirst == {n1}
TwoKeys == {k1, k2}
KeyEach == (1 :> k1) @@ (2 :> k2)

=============================================================================
