------------------------------ MODULE JobWait ------------------------------
(***************************************************************************)
(* Requests that submit a render and wait for its job: RenderQueue.submit  *)
(* with PgStore.submit_job's conflict path, RenderQueue.wait, and the      *)
(* per-process table _done of events that pairs waiters with the worker    *)
(* that finishes their job.  Composed with the queue: every step is a step *)
(* of RenderQueue, of one request, or of both.                             *)
(***************************************************************************)
EXTENDS RenderQueue

CONSTANTS
    Clients,    \* concurrent requests
    Stamps      \* the seconds a replica's clock may read when it makes a job

ASSUME StampsAreSeconds == Stamps \subseteq Nat /\ Stamps # {}

VARIABLES
    at,       \* where each request is
    on,       \* the process that serves it
    want,     \* the key it submitted
    cjob,     \* the job it coalesced onto or created
    seen,     \* the status get_job returned to it
    ev,       \* its done event: "none", "live" (registered), "detached", "set"
    done,     \* RenderQueue._done: <<process, job>> pairs with an event
    created,  \* JobRecord.created_at of each job
    before,   \* the jobs that had ended when the request was submitted
    met       \* the active job that its insert met, if it met one

waitVars == <<at, on, want, cjob, seen, ev, done, created, before, met>>
allVars == <<vars, waitVars>>

Entry(c) == <<on[c], cjob[c]>>
InLoop(c) == at[c] \in {"got", "waiting"} \/ (at[c] = "get" /\ ev[c] # "none")

WaitInit ==
    /\ Init
    /\ at = [c \in Clients |-> "none"] /\ on = [c \in Clients |-> None]
    /\ want = [c \in Clients |-> None] /\ cjob = [c \in Clients |-> None]
    /\ seen = [c \in Clients |-> "absent"] /\ ev = [c \in Clients |-> "none"]
    /\ done = {}
    /\ created = [j \in JobIds |-> 0]
    /\ before = [c \in Clients |-> {}] /\ met = [c \in Clients |-> None]

(* utcnow_iso: whole seconds, read on the submitting replica before the    *)
(* insert.  Jobs of one second tie, and an earlier job may have the later  *)
(* stamp, so any reading is possible at any insert.                        *)
Inserted(j) == status[j] = "absent" /\ status'[j] = "queued"
Stamped == \E s \in Stamps :
    created' = [j \in JobIds |-> IF Inserted(j) THEN s ELSE created[j]]

-----------------------------------------------------------------------------
(* The finally clause of _worker pops the job's event and sets it; a crash *)
(* takes the process's requests and events with it.                        *)

LeftByWorker == {<<NodeOf[w], held[w]>> :
    w \in {v \in Workers : held[v] # None /\ held'[v] = None}}

MutWorkerLeavesEvents == done' = {e \in done : e[1] \in up'} /\ ev' = ev
WorkerSetsEvents ==
    /\ done' = {e \in done \ LeftByWorker : e[1] \in up'}
    /\ ev' = [c \in Clients |->
                 IF on[c] \notin up' THEN "none"
                 ELSE IF ev[c] = "live" /\ Entry(c) \in LeftByWorker THEN "set" ELSE ev[c]]

QueueStep ==
    LET Dropped(c) == on[c] \notin up' IN
    /\ Next
    /\ WorkerSetsEvents
    /\ at' = [c \in Clients |-> IF Dropped(c) THEN "none" ELSE at[c]]
    /\ on' = [c \in Clients |-> IF Dropped(c) THEN None ELSE on[c]]
    /\ want' = [c \in Clients |-> IF Dropped(c) THEN None ELSE want[c]]
    /\ cjob' = [c \in Clients |-> IF Dropped(c) THEN None ELSE cjob[c]]
    /\ seen' = [c \in Clients |-> IF Dropped(c) THEN "absent" ELSE seen[c]]
    /\ before' = [c \in Clients |-> IF Dropped(c) THEN {} ELSE before[c]]
    /\ met' = [c \in Clients |-> IF Dropped(c) THEN None ELSE met[c]]
    /\ Stamped

-----------------------------------------------------------------------------
(* RenderQueue.submit *)

Coalesce(c, j) ==
    /\ at' = [at EXCEPT ![c] = "get"]
    /\ cjob' = [cjob EXCEPT ![c] = j]

EndedJobs == {j \in JobIds : status[j] \in Terminal}
Arrives(c, n, k) ==
    /\ on' = [on EXCEPT ![c] = n]
    /\ want' = [want EXCEPT ![c] = k]
    /\ before' = [before EXCEPT ![c] = EndedJobs]

SubmitCreates(c, n, k) ==
    /\ at[c] = "none"
    /\ Submit(n, k) /\ db' = "up"
    /\ Stamped
    /\ \E j \in JobIds : Inserted(j) /\ Coalesce(c, j)
    /\ Arrives(c, n, k)
    /\ UNCHANGED <<seen, ev, done, met>>

(* The insert meets an active job.  LocalStore returns it under the lock;  *)
(* PgStore goes on to select it in a statement of its own.                 *)
SubmitConflicts(c, n, k) ==
    /\ at[c] = "none" /\ n \in up /\ db = "up"
    /\ Arrives(c, n, k)
    /\ \E j \in ActiveFor(k) :
          /\ met' = [met EXCEPT ![c] = j]
          /\ IF HaMode THEN at' = [at EXCEPT ![c] = "active"] /\ UNCHANGED cjob
                       ELSE Coalesce(c, j)
    /\ UNCHANGED <<seen, ev, done, created, vars>>

SelectActive(c) ==
    /\ at[c] = "active" /\ db = "up"
    /\ \/ \E j \in ActiveFor(want[c]) : Coalesce(c, j)
       \/ /\ ActiveFor(want[c]) = {}
          /\ at' = [at EXCEPT ![c] = "latest"] /\ UNCHANGED cjob
    /\ UNCHANGED <<on, want, seen, ev, done, created, before, met, vars>>

(* ORDER BY created_at DESC, id DESC LIMIT 1.  Ids are random, so any job  *)
(* of the latest second may be the first.                                  *)
RowsFor(k) == {j \in JobIds : status[j] # "absent" /\ jobKey[j] = k}
MutOldestJobs(k) == {j \in RowsFor(k) : \A i \in RowsFor(k) : created[j] <= created[i]}
LatestJobs(k) == {j \in RowsFor(k) : \A i \in RowsFor(k) : created[i] <= created[j]}

SelectLatest(c) ==
    /\ at[c] = "latest" /\ db = "up"
    /\ \E j \in LatestJobs(want[c]) : Coalesce(c, j)
    /\ UNCHANGED <<on, want, seen, ev, done, created, before, met, vars>>

-----------------------------------------------------------------------------
(* RenderQueue.wait *)

(* The finally clause: drop the entry, whoever registered it. *)
MutPopForgotten(c) == UNCHANGED <<done, ev>>
PopDone(c) ==
    /\ done' = done \ {Entry(c)}
    /\ ev' = [d \in Clients |->
                 IF d = c THEN "none"
                 ELSE IF ev[d] = "live" /\ Entry(d) = Entry(c) THEN "detached" ELSE ev[d]]

Gone(c) ==
    /\ at' = [at EXCEPT ![c] = "none"] /\ on' = [on EXCEPT ![c] = None]
    /\ want' = [want EXCEPT ![c] = None] /\ cjob' = [cjob EXCEPT ![c] = None]
    /\ seen' = [seen EXCEPT ![c] = "absent"] /\ before' = [before EXCEPT ![c] = {}]
    /\ met' = [met EXCEPT ![c] = None]

Return(c) == PopDone(c) /\ Gone(c)

(* The loop body after get_job answered st: return on a terminal status or *)
(* past the deadline, else register or join the event and wait for it.     *)
MutRegisterByKey(c) ==
    /\ done' = done \cup {<<on[c], want[c]>>}
    /\ ev' = [ev EXCEPT ![c] = "live"]
Register(c) ==
    /\ done' = done \cup {Entry(c)}
    /\ ev' = [ev EXCEPT ![c] = "live"]
Decide(c, st) ==
    \/ Return(c)
    \/ /\ st \notin Terminal
       /\ Register(c)
       /\ at' = [at EXCEPT ![c] = "waiting"]
       /\ UNCHANGED <<on, want, cjob, seen, before, met>>

GetJob(c) ==
    /\ at[c] = "get" /\ db = "up"
    /\ \/ ~HaMode /\ Decide(c, status[cjob[c]])
       \/ /\ HaMode
          /\ at' = [at EXCEPT ![c] = "got"]
          /\ seen' = [seen EXCEPT ![c] = status[cjob[c]]]
          /\ UNCHANGED <<on, want, cjob, ev, done, before, met>>
    /\ UNCHANGED <<created, vars>>

GotJob(c) == at[c] = "got" /\ Decide(c, seen[c]) /\ UNCHANGED <<created, vars>>

EventFires(c) ==
    /\ at[c] = "waiting" /\ ev[c] = "set"
    /\ at' = [at EXCEPT ![c] = "get"]
    /\ UNCHANGED <<on, want, cjob, seen, ev, done, created, before, met, vars>>

(* min(WAIT_POLL_S, remaining) elapses. *)
MutPollNever(c) == EventFires(c)
PollElapses(c) ==
    /\ at[c] = "waiting"
    /\ at' = [at EXCEPT ![c] = "get"]
    /\ UNCHANGED <<on, want, cjob, seen, ev, done, created, before, met, vars>>

(* A store call raises: the request fails.  Inside the loop the finally    *)
(* clause still runs.                                                      *)
CallRaises(c) ==
    /\ at[c] \in {"active", "latest", "get"} /\ db = "down"
    /\ IF InLoop(c) THEN PopDone(c) ELSE UNCHANGED <<done, ev>>
    /\ Gone(c)
    /\ UNCHANGED <<created, vars>>

-----------------------------------------------------------------------------
RequestStep(c) ==
    \/ SelectActive(c) \/ SelectLatest(c) \/ GetJob(c) \/ GotJob(c)
    \/ EventFires(c) \/ PollElapses(c) \/ CallRaises(c)

WaitNext ==
    \/ QueueStep
    \/ \E c \in Clients, n \in Nodes, k \in Keys :
          SubmitCreates(c, n, k) \/ SubmitConflicts(c, n, k)
    \/ \E c \in Clients : RequestStep(c)

WaitSpec == WaitInit /\ [][WaitNext]_allVars

(* The deadline is not counted on: a request must return because its job   *)
(* ended.  The poll is.                                                    *)
WaitFairSpec == /\ WaitSpec /\ Fairness
                /\ \A c \in Clients : WF_allVars(RequestStep(c))

-----------------------------------------------------------------------------
(* Properties *)

WaitTypeOK ==
    /\ at \in [Clients -> {"none", "active", "latest", "get", "got", "waiting"}]
    /\ on \in [Clients -> Nodes \cup {None}]
    /\ want \in [Clients -> Keys \cup {None}]
    /\ cjob \in [Clients -> JobIds \cup {None}]
    /\ seen \in [Clients -> Statuses]
    /\ ev \in [Clients -> {"none", "live", "detached", "set"}]
    /\ done \in SUBSET (Nodes \X JobIds)
    /\ created \in [JobIds -> Stamps \cup {0}]
    /\ met \in [Clients -> JobIds \cup {None}]
    /\ before \in [Clients -> SUBSET JobIds]

(* queue.py wait: "never leave one behind": an event is registered only    *)
(* while some request on that process is in its wait loop for the job.     *)
NoDoneLeak ==
    \A e \in done : \E c \in Clients : InLoop(c) /\ Entry(c) = e

(* On one node a request never sleeps on a registered event whose job has  *)
(* ended: the worker that ends a job finds the event and sets it.          *)
NoMissedDone ==
    ~HaMode => \A c \in Clients :
        at[c] = "waiting" /\ ev[c] = "live" => status[cjob[c]] \in Active

(* store_pg.py submit_job: "The winner finished between our insert and     *)
(* this select: its artifact is fresh, so coalescing onto the finished job *)
(* is right": a request is answered with a job for its key, and with one   *)
(* that had already ended when it arrived in a single case: the job that   *)
(* its insert met has ended meanwhile, and has no later stamp than the one *)
(* it is given.  So only clocks that disagree, or two jobs for the key in  *)
(* one second, can hand out an older outcome than the winner's.            *)
AnswerNotStale ==
    \A c \in Clients : at[c] \in {"get", "got", "waiting"} =>
        /\ cjob[c] \in JobIds /\ jobKey[cjob[c]] = want[c]
        /\ cjob[c] \in before[c] =>
              /\ met[c] \in JobIds /\ status[met[c]] \in Terminal
              /\ created[met[c]] <= created[cjob[c]]

=============================================================================
