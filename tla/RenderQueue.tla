---------------------------- MODULE RenderQueue ----------------------------
(***************************************************************************)
(* The render queue of dct-hub (queue.py) over the jobs table of either    *)
(* metadata store (store.py LocalStore, store_pg.py PgStore), with the     *)
(* parts of the hub that change a job from outside the queue: the HA       *)
(* janitor's reaper (gc.py) and a replica's boot.                          *)
(*                                                                         *)
(* One action per awaited store call.  With LocalStore a store call never  *)
(* suspends the event loop, so HaMode = FALSE merges the calls that run    *)
(* back to back; with PgStore every call is a suspension point, and the    *)
(* answer of a committed statement can be lost with the connection.        *)
(***************************************************************************)
EXTENDS Naturals, FiniteSets

CONSTANTS
    Nodes,          \* hub processes, by node id (hostname:pid)
    Workers,        \* worker tasks of all the nodes
    NodeOf,         \* NodeOf[w]: the process the task w runs in
    Keys,           \* artifact keys
    JobIds,         \* job uuids: the submissions of a behaviour
    HaMode,         \* TRUE: storage.postgres is configured
    DctLimit,       \* ticks the dct subprocesses of a render may take (dct.py:50)
    StaleAfter,     \* ticks: render.timeout_s + 120 (gc.py:89)
    TimelyRender,   \* TRUE: the environment ends every execution by StaleAfter
    MaxCrashes,     \* bound on process crashes
    MaxOutages,     \* bound on losses of the database connection
    None            \* no job, no node, no key

ASSUME NodeOfType == NodeOf \in [Workers -> Nodes]
ASSUME LimitsType == DctLimit \in Nat /\ StaleAfter \in Nat
ASSUME BoundsType == MaxCrashes \in Nat /\ MaxOutages \in Nat
ASSUME ModesType == HaMode \in BOOLEAN /\ TimelyRender \in BOOLEAN
ASSUME SingleNodeIsAlone == ~HaMode => \A m, n \in Nodes : m = n
ASSUME NoneIsNothing == None \notin JobIds \cup Nodes \cup Keys

VARIABLES
    status,      \* jobs.status, or "absent" before the insert
    jobKey,      \* jobs.key
    claimedBy,   \* jobs.claimed_by
    age,         \* ticks since created_at (queued) or started_at (running)
    up,          \* the processes that are running
    pc,          \* where each worker task is
    held,        \* the job a worker executes
    wake,        \* the processes whose RenderQueue._wake event is set
    db,          \* "up": the database answers; "down"
    crashes, outages

jobVars == <<status, jobKey, claimedBy, age>>
dbVars == <<db, outages>>
vars == <<status, jobKey, claimedBy, age, up, pc, held, wake, db, crashes, outages>>

Active == {"queued", "running"}
Terminal == {"done", "error", "interrupted"}
Statuses == {"absent"} \cup Active \cup Terminal
PCs == {"off", "claim", "clear", "idle", "render", "publish", "fail", "dead"}
AgeCap == StaleAfter + 1     \* ages saturate one past the reaper's threshold

Executing(w) == pc[w] \in {"render", "publish", "fail"}
Rendering(w) == pc[w] \in {"render", "publish"}
ActiveJobs == {j \in JobIds : status[j] \in Active}
QueuedJobs == {j \in JobIds : status[j] = "queued"}
ActiveFor(k) == {j \in ActiveJobs : jobKey[j] = k}

-----------------------------------------------------------------------------
(* The connection to the store.  SQLite is in the process; asyncpg's       *)
(* connection can be lost before a statement (the call raises) or after it *)
(* committed (the call raises all the same).                               *)

Answered == db = "up" /\ UNCHANGED dbVars

ReplyLost == /\ HaMode /\ db = "up"
             /\ outages < MaxOutages
             /\ db' = "down"
             /\ outages' = outages + 1

Init == /\ status = [j \in JobIds |-> "absent"]
        /\ jobKey = [j \in JobIds |-> None]
        /\ claimedBy = [j \in JobIds |-> None]
        /\ age = [j \in JobIds |-> 0]
        /\ up = {}
        /\ pc = [w \in Workers |-> "off"]
        /\ held = [w \in Workers |-> None]
        /\ wake = {}
        /\ db = "up"
        /\ crashes = 0
        /\ outages = 0

-----------------------------------------------------------------------------
(* RenderQueue.start: end what this process was running before it died,    *)
(* then spawn the workers.  A start that raises fails the lifespan: the    *)
(* process stays down.                                                     *)

MutBootInterruptsAll(n) == ActiveJobs
MutBootInterruptsNone(n) == {}       \* a fresh pid matches no claimed_by
InterruptedByBoot(n) ==
    IF HaMode THEN {j \in ActiveJobs : claimedBy[j] = n} ELSE ActiveJobs

Interrupt(J) ==
    /\ status' = [j \in JobIds |-> IF j \in J THEN "interrupted" ELSE status[j]]
    /\ age' = [j \in JobIds |-> IF j \in J THEN 0 ELSE age[j]]
    /\ UNCHANGED <<jobKey, claimedBy>>

Boot(n) ==
    /\ n \notin up /\ db = "up"
    /\ Interrupt(InterruptedByBoot(n))
    /\ up' = up \cup {n}
    /\ wake' = wake \ {n}
    /\ pc' = [w \in Workers |-> IF NodeOf[w] = n THEN "claim" ELSE pc[w]]
    /\ UNCHANGED <<held, dbVars, crashes>>

(* SIGKILL, OOM, power: tasks and events are gone, the jobs table is not. *)
Crash(n) ==
    /\ n \in up /\ crashes < MaxCrashes
    /\ crashes' = crashes + 1
    /\ up' = up \ {n}
    /\ wake' = wake \ {n}
    /\ pc' = [w \in Workers |-> IF NodeOf[w] = n THEN "off" ELSE pc[w]]
    /\ held' = [w \in Workers |-> IF NodeOf[w] = n THEN None ELSE held[w]]
    /\ UNCHANGED <<jobVars, dbVars>>

-----------------------------------------------------------------------------
(* RenderQueue.submit and the stores' submit_job: insert, unless the key   *)
(* has an active job (a coalesced submission changes nothing).  Only the   *)
(* submitter's own workers are woken.                                      *)

MutCoalesceQueuedOnly(k) == \A j \in QueuedJobs : jobKey[j] # k
MayInsert(k) == ActiveFor(k) = {}

MutSetWakeForgotten(n) == UNCHANGED wake
SetWake(n) == wake' = wake \cup {n}

Submit(n, k) ==
    \E j \in JobIds :
        /\ n \in up /\ status[j] = "absent" /\ MayInsert(k)
        /\ status' = [status EXCEPT ![j] = "queued"]
        /\ jobKey' = [jobKey EXCEPT ![j] = k]
        /\ \/ Answered  /\ SetWake(n)
           \/ ReplyLost /\ UNCHANGED wake
        /\ UNCHANGED <<claimedBy, age, up, pc, held, crashes>>

-----------------------------------------------------------------------------
(* RenderQueue._worker *)

(* ORDER BY created_at: one of the oldest, ties in any order. *)
MutClaimableActive(j) == status[j] \in Active
MutClaimableAny(j) == status[j] # "absent"
Claimable(j) ==
    /\ status[j] = "queued"
    /\ \A i \in QueuedJobs : age[i] <= age[j]

(* RenderQueue.node_id, what the worker signs its claims with. *)
MutSignAsTask(w) == w
node_id(w) == NodeOf[w]

Claim(w) ==
    \E j \in JobIds :
        /\ pc[w] = "claim" /\ Claimable(j)
        /\ status' = [status EXCEPT ![j] = "running"]
        /\ claimedBy' = [claimedBy EXCEPT ![j] = node_id(w)]
        /\ age' = [age EXCEPT ![j] = 0]
        /\ \/ /\ Answered
              /\ pc' = [pc EXCEPT ![w] = "render"]
              /\ held' = [held EXCEPT ![w] = j]
           \/ /\ ReplyLost
              /\ pc' = [pc EXCEPT ![w] = "dead"]
              /\ UNCHANGED held
        /\ UNCHANGED <<jobKey, up, wake, crashes>>

(* Nothing to claim: clear the wake event and wait on it.  PgStore's claim *)
(* is a suspension point, so a submission can land before the clear.       *)
ClaimNone(w) ==
    /\ pc[w] = "claim" /\ Answered /\ QueuedJobs = {}
    /\ \/ /\ HaMode
          /\ pc' = [pc EXCEPT ![w] = "clear"]
          /\ UNCHANGED wake
       \/ /\ ~HaMode
          /\ pc' = [pc EXCEPT ![w] = "idle"]
          /\ wake' = wake \ {NodeOf[w]}
    /\ UNCHANGED <<jobVars, up, held, crashes>>

ClearWake(w) ==
    /\ pc[w] = "clear"
    /\ pc' = [pc EXCEPT ![w] = "idle"]
    /\ wake' = wake \ {NodeOf[w]}
    /\ UNCHANGED <<jobVars, up, held, dbVars, crashes>>

(* The claim is outside the worker's try: an exception ends the task. *)
ClaimRaises(w) ==
    /\ pc[w] = "claim" /\ db = "down"
    /\ pc' = [pc EXCEPT ![w] = "dead"]
    /\ UNCHANGED <<jobVars, up, held, wake, dbVars, crashes>>

Woken(w) ==
    /\ pc[w] = "idle" /\ NodeOf[w] \in wake
    /\ pc' = [pc EXCEPT ![w] = "claim"]
    /\ UNCHANGED <<jobVars, up, held, wake, dbVars, crashes>>

(* wait_for(_wake.wait(), idle_poll_s) times out.  Also the waiter that    *)
(* was woken but runs after another worker cleared the event.              *)
MutNoIdlePoll(w) == Woken(w)
IdlePoll(w) ==
    /\ pc[w] = "idle"
    /\ pc' = [pc EXCEPT ![w] = "claim"]
    /\ UNCHANGED <<jobVars, up, held, wake, dbVars, crashes>>

(* execute_render, first half: dct has written the staging file. *)
RenderDone(w) ==
    /\ pc[w] = "render"
    /\ pc' = [pc EXCEPT ![w] = "publish"]
    /\ UNCHANGED <<jobVars, up, held, wake, dbVars, crashes>>

(* Any exception of _execute (board gone, dct error, timeout, blob or row  *)
(* write), or finish_job(.., "done") raising without having committed.     *)
ExecFails(w) ==
    /\ Rendering(w)
    /\ pc' = [pc EXCEPT ![w] = "fail"]
    /\ UNCHANGED <<jobVars, up, held, wake, dbVars, crashes>>

(* finish_job: UPDATE jobs SET status = .. WHERE id = .., whatever the     *)
(* status is by then.                                                      *)
MutRetryOnError(w, outcome) ==
    /\ status' = [status EXCEPT ![held[w]] = IF outcome = "error" THEN "queued" ELSE outcome]
    /\ age' = [age EXCEPT ![held[w]] = 0]
    /\ UNCHANGED <<jobKey, claimedBy>>
finish_job(w, outcome) ==
    /\ status' = [status EXCEPT ![held[w]] = outcome]
    /\ age' = [age EXCEPT ![held[w]] = 0]
    /\ UNCHANGED <<jobKey, claimedBy>>

(* The artifact is published and the job reported done; when only the      *)
(* answer is lost the handler goes on to report an error.                  *)
Finish(w) ==
    /\ pc[w] = "publish" /\ finish_job(w, "done")
    /\ \/ /\ Answered
          /\ pc' = [pc EXCEPT ![w] = "claim"]
          /\ held' = [held EXCEPT ![w] = None]
       \/ /\ ReplyLost
          /\ pc' = [pc EXCEPT ![w] = "fail"]
          /\ UNCHANGED held
    /\ UNCHANGED <<up, wake, crashes>>

FinishError(w) ==
    /\ pc[w] = "fail" /\ finish_job(w, "error")
    /\ held' = [held EXCEPT ![w] = None]
    /\ \/ Answered  /\ pc' = [pc EXCEPT ![w] = "claim"]
       \/ ReplyLost /\ pc' = [pc EXCEPT ![w] = "dead"]
    /\ UNCHANGED <<up, wake, crashes>>

(* The error report raises inside the except clause: the task ends. *)
FinishRaises(w) ==
    /\ pc[w] = "fail" /\ db = "down"
    /\ pc' = [pc EXCEPT ![w] = "dead"]
    /\ held' = [held EXCEPT ![w] = None]
    /\ UNCHANGED <<jobVars, up, wake, dbVars, crashes>>

-----------------------------------------------------------------------------
(* gc.py janitor_loop, PgStore.reap_stale_jobs *)

MutStaleQueued(j) == status[j] = "queued" /\ age[j] > StaleAfter
Stale(j) == status[j] = "running" /\ age[j] > StaleAfter

Reap(n) ==
    /\ HaMode /\ n \in up /\ Answered
    /\ \E j \in JobIds : Stale(j)
    /\ Interrupt({j \in JobIds : Stale(j)})
    /\ UNCHANGED <<up, pc, held, wake, crashes>>

-----------------------------------------------------------------------------
(* The environment *)

DbDown == ReplyLost /\ UNCHANGED <<jobVars, up, pc, held, wake, crashes>>

DbUp == /\ db = "down" /\ db' = "up"
        /\ UNCHANGED <<jobVars, up, pc, held, wake, crashes, outages>>

(* dct subprocesses run under a timeout (dct.py _run); the upload to S3    *)
(* and the store calls do not, unless TimelyRender is assumed.             *)
MayPass(w) ==
    /\ pc[w] = "render" => age[held[w]] < DctLimit
    /\ TimelyRender /\ Executing(w) => age[held[w]] < StaleAfter

Older(j) == IF status[j] \in Active /\ age[j] < AgeCap THEN age[j] + 1 ELSE age[j]

Tick ==
    /\ \A w \in Workers : MayPass(w)
    /\ \E j \in ActiveJobs : age[j] < AgeCap
    /\ age' = [j \in JobIds |-> Older(j)]
    /\ UNCHANGED <<status, jobKey, claimedBy, up, pc, held, wake, dbVars, crashes>>

-----------------------------------------------------------------------------
WorkerStep(w) ==
    \/ Claim(w) \/ ClaimNone(w) \/ ClearWake(w) \/ ClaimRaises(w)
    \/ Woken(w) \/ IdlePoll(w)
    \/ RenderDone(w) \/ ExecFails(w)
    \/ Finish(w) \/ FinishError(w) \/ FinishRaises(w)

Next ==
    \/ \E n \in Nodes : Boot(n)
    \/ \E n \in Nodes : Crash(n)
    \/ \E n \in Nodes, k \in Keys : Submit(n, k)
    \/ \E w \in Workers : WorkerStep(w)
    \/ \E n \in Nodes : Reap(n)
    \/ DbDown \/ DbUp \/ Tick

Spec == Init /\ [][Next]_vars

(* What the scheduler gives: the event loop runs every ready task; idle    *)
(* polling is only counted on where the code does (HA); time passes; the   *)
(* janitor of some live replica runs; the database comes back; the         *)
(* orchestrator restarts the hub when no replica is left.                  *)
PollStep(w) == HaMode /\ IdlePoll(w)
ExecStep(w) ==
    \/ Claim(w) \/ ClaimNone(w) \/ ClearWake(w) \/ ClaimRaises(w) \/ Woken(w)
    \/ RenderDone(w) \/ Finish(w) \/ FinishError(w) \/ FinishRaises(w)
    \/ (db = "down" /\ ExecFails(w))
    \/ (pc[w] = "render" /\ age[held[w]] >= DctLimit /\ ExecFails(w))
Restart == up = {} /\ \E n \in Nodes : Boot(n)

Fairness ==
    /\ \A w \in Workers : WF_vars(ExecStep(w)) /\ WF_vars(PollStep(w))
    /\ WF_vars(\E n \in Nodes : Reap(n))
    /\ WF_vars(Tick) /\ WF_vars(DbUp) /\ WF_vars(Restart)

FairSpec == Spec /\ Fairness

-----------------------------------------------------------------------------
(* Properties *)

TypeOK ==
    /\ status \in [JobIds -> Statuses]
    /\ jobKey \in [JobIds -> Keys \cup {None}]
    /\ claimedBy \in [JobIds -> Nodes \cup {None}]
    /\ age \in [JobIds -> 0..AgeCap]
    /\ up \in SUBSET Nodes
    /\ pc \in [Workers -> PCs]
    /\ held \in [Workers -> JobIds \cup {None}]
    /\ wake \in SUBSET Nodes
    /\ db \in {"up", "down"}
    /\ crashes \in 0..MaxCrashes
    /\ outages \in 0..MaxOutages

(* submit_job: at any time a key has at most one queued or running job,    *)
(* across every replica, restart, reap and late report.                    *)
SingleFlight ==
    \A i, j \in ActiveJobs : jobKey[i] = jobKey[j] => i = j

(* claim_next_job: no two worker tasks of any replica ever execute one job. *)
ExclusiveClaim ==
    \A v, w \in Workers : Executing(v) /\ Executing(w) /\ held[v] = held[w] => v = w

(* docs/deployment.md: "a board renders once no matter how many replicas   *)
(* are asked": no key is being rendered and published by two workers.      *)
OneRenderPerKey ==
    \A v, w \in Workers :
        Rendering(v) /\ Rendering(w) /\ jobKey[held[v]] = jobKey[held[w]] => v = w

(* store_pg.py: "reap_stale_jobs turns dead replicas' running jobs into    *)
(* interrupted": on one node, or where executions end in time, what the    *)
(* boot and the reaper interrupt has really lost its worker.               *)
InterruptedIsAbandoned ==
    \A w \in Workers : Rendering(w) => status[held[w]] = "running"

(* queue.py _worker: on one node no idle worker sleeps through a queued    *)
(* job; the wake event it waits on is set.                                 *)
NoLostWake ==
    ~HaMode => \A w \in Workers :
        pc[w] = "idle" /\ QueuedJobs # {} => NodeOf[w] \in wake

(* On one node a job marked running has a worker, or the hub is down and   *)
(* the next boot ends it: no running row is left behind by a live hub.     *)
NoOrphanRunning ==
    ~HaMode => \A j \in JobIds : status[j] = "running" =>
        \/ up = {}
        \/ \E w \in Workers : Executing(w) /\ held[w] = j

(* An outcome is not rewritten: done and error are final, and what ended   *)
(* is never queued or running again.                                       *)
OutcomeFinal == [][\A j \in JobIds :
    /\ status[j] \in {"done", "error"} => status'[j] = status[j]
    /\ status[j] \in Terminal => status'[j] \in Terminal]_vars

(* Every queued job is eventually taken (or ended). *)
QueuedLeaves == \A j \in JobIds : status[j] = "queued" ~> status[j] # "queued"

(* The same where a database outage may end worker tasks (see the run      *)
(* QueueHaOutage): until then another replica's jobs are found by polling. *)
QueuedLeavesUnlessOutage == \A j \in JobIds :
    status[j] = "queued" ~> (status[j] # "queued" \/ outages > 0)

(* Every running job ends, whatever happened to its worker. *)
RunningEnds == \A j \in JobIds : status[j] = "running" ~> status[j] \in Terminal

(* The queue is an implementation of the job table's contract. *)
Board == INSTANCE JobBoard WITH status <- status, jobKey <- jobKey
ImplementsBoard == Board!Spec

=============================================================================
