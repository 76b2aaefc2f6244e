------------------------------ MODULE JobBoard ------------------------------
(***************************************************************************)
(* What the jobs table promises its users, whatever the number of          *)
(* replicas: a job id is inserted once, at most one job per artifact key   *)
(* is active, a job moves forward only, and an ended job is never active   *)
(* again.  Both stores (store.py LocalStore, store_pg.py PgStore) and the  *)
(* worker pool of queue.py have to implement it: RenderQueue does.         *)
(***************************************************************************)

CONSTANTS Keys, JobIds, None

VARIABLES status, jobKey

boardVars == <<status, jobKey>>

Active == {"queued", "running"}
Terminal == {"done", "error", "interrupted"}     \* queue.py TERMINAL_STATUSES

Init == /\ status = [j \in JobIds |-> "absent"]
        /\ jobKey = [j \in JobIds |-> None]

(* A render is requested for a key that has no active job. *)
Insert(j, k) ==
    /\ status[j] = "absent"
    /\ \A i \in JobIds : jobKey[i] = k => status[i] \notin Active
    /\ status' = [status EXCEPT ![j] = "queued"]
    /\ jobKey' = [jobKey EXCEPT ![j] = k]

(* A worker takes the job. *)
Start(j) == /\ status[j] = "queued"
            /\ status' = [status EXCEPT ![j] = "running"]
            /\ UNCHANGED jobKey

(* The owner of a job it took reports an outcome; the report may come late, *)
(* after the job was ended by somebody else.                               *)
Report(j, outcome) == /\ status[j] \in {"running", "interrupted", "done"}
                      /\ status' = [status EXCEPT ![j] = outcome]
                      /\ UNCHANGED jobKey

(* Active jobs whose owner is presumed dead are ended together. *)
Interrupt(J) == /\ \A j \in J : status[j] \in Active
                /\ status' = [j \in JobIds |->
                                 IF j \in J THEN "interrupted" ELSE status[j]]
                /\ UNCHANGED jobKey

Next == \/ \E j \in JobIds, k \in Keys : Insert(j, k)
        \/ \E j \in JobIds : Start(j)
        \/ \E j \in JobIds, outcome \in {"done", "error"} : Report(j, outcome)
        \/ \E J \in SUBSET JobIds : Interrupt(J)

Spec == Init /\ [][Next]_boardVars

=============================================================================
