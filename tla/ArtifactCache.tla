--------------------------- MODULE ArtifactCache ---------------------------
(***************************************************************************)
(* What the artifact cache promises its viewers: an artifact is there or   *)
(* it is not, it comes and goes in one step, and a viewer who found it     *)
(* gets it unless it was dropped after it was found.  No half-published or *)
(* half-deleted artifact is ever seen.  ArtifactStore implements it on one *)
(* node, with rows, blobs, staging, failures, sweeps and crashes.          *)
(***************************************************************************)
CONSTANTS Keys, Readers, None

VARIABLES
    avail,     \* the artifacts that can be served
    asked,     \* the artifact each viewer found
    answer,    \* "none", "open" (being answered), "served" or "lost"
    dropped    \* viewers whose artifact was dropped since they found it

cacheVars == <<avail, asked, answer, dropped>>

Init == /\ avail = {} /\ dropped = {}
        /\ asked = [c \in Readers |-> None]
        /\ answer = [c \in Readers |-> "none"]

Publish(k) == avail' = avail \cup {k} /\ UNCHANGED <<asked, answer, dropped>>

Drop(k) == /\ k \in avail /\ avail' = avail \ {k}
           /\ dropped' = dropped \cup {c \in Readers : asked[c] = k}
           /\ UNCHANGED <<asked, answer>>

Find(c, k) == /\ answer[c] = "none" /\ k \in avail
              /\ answer' = [answer EXCEPT ![c] = "open"]
              /\ asked' = [asked EXCEPT ![c] = k]
              /\ dropped' = dropped \ {c}
              /\ UNCHANGED avail

Serve(c) == /\ answer[c] = "open"
            /\ answer' = [answer EXCEPT ![c] = "served"]
            /\ UNCHANGED <<avail, asked, dropped>>

Lose(c) == /\ answer[c] = "open" /\ c \in dropped
           /\ answer' = [answer EXCEPT ![c] = "lost"]
           /\ UNCHANGED <<avail, asked, dropped>>

(* Viewers go, one by one or, when the hub dies, together. *)
Go(C) == /\ answer' = [c \in Readers |-> IF c \in C THEN "none" ELSE answer[c]]
         /\ asked' = [c \in Readers |-> IF c \in C THEN None ELSE asked[c]]
         /\ dropped' = dropped \ C
         /\ UNCHANGED avail

Next == \/ \E k \in Keys : Publish(k) \/ Drop(k)
        \/ \E c \in Readers, k \in Keys : Find(c, k)
        \/ \E c \in Readers : Serve(c) \/ Lose(c)
        \/ \E C \in SUBSET Readers : Go(C)

Spec == Init /\ [][Next]_cacheVars

=============================================================================
