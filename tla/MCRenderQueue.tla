--------------------------- MODULE MCRenderQueue ---------------------------
(* Small instances of the render queue: two replicas with one worker each. *)
EXTENDS RenderQueue, TLC

CONSTANTS n1, n2, w1, w2

TwoNodes == {n1, n2}
TwoWorkers == {w1, w2}
OneEach == (w1 :> n1) @@ (w2 :> n2)

=============================================================================
