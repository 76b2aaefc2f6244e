--------------------------- MODULE MCRequestFlow ---------------------------
(* A small instance of the request flow: two versions of a board, one      *)
(* request after the other of an identity, and other traffic of two.       *)
EXTENDS RequestFlow

CONSTANTS ann, bob

AllAnn == [c \in Requests |-> ann]

=============================================================================
