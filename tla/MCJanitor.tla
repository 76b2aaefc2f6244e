----------------------------- MODULE MCJanitor -----------------------------
(* A small instance of the janitor: two replicas, one key. *)
EXTENDS Janitor

CONSTANTS ka, b1

OneKey == {ka}
OneBoard == {b1}
SameBoard == [k \in Keys |-> b1]
NeverFrozen == [k \in Keys |-> MaxDay + 1]

=============================================================================
