-------------------------- MODULE MCArtifactStore --------------------------
(* Small instances of the artifact store: two keys of one board, one of    *)
(* which turns frozen on the second day, and one key on its own.           *)
EXTENDS ArtifactStore

CONSTANTS ka, kb, b1

TwoKeys == {ka, kb}
OneKey == {ka}
OneBoard == {b1}
SameBoard == [k \in Keys |-> b1]
NeverFrozen == [k \in Keys |-> MaxDay + 1]
SecondFreezes == [k \in Keys |-> IF k = kb THEN 1 ELSE MaxDay + 1]

=============================================================================
