------------------------------ MODULE Janitor ------------------------------
(***************************************************************************)
(* HA housekeeping: janitor_loop (gc.py) of two replicas under a Postgres  *)
(* advisory lock (store_pg.py try_leader, release_leader), and the sweeps  *)
(* it runs over ArtifactStore's rows and blobs.  The lock belongs to a     *)
(* session of the server, which may end, or outlive its client, without    *)
(* the replica knowing; the work itself goes over other connections.       *)
(*                                                                         *)
(* A replica is named by its sweeper.  The first uses ArtifactStore's own  *)
(* sweep, the second an instance of it with variables of its own.          *)
(***************************************************************************)
EXTENDS ArtifactStore

CONSTANTS
    Twin,        \* the second replica
    MaxLosses    \* bound on lost sessions and lost answers

ASSUME TwinDiffers == Twin \notin Renderers \cup {Sweeper, None}
ASSUME GhostIsNobody == "ghost" \notin {Sweeper, Twin, None}
ASSUME JanitorIsHa == HaMode   \* on one node lifespan starts no janitor_loop
ASSUME LossBound == MaxLosses \in Nat

VARIABLES
    lpc,      \* janitor_loop: where each replica is
    con,      \* PgStore._leader_con is set
    holder,   \* the lock: free (None), a replica's session, or "ghost", the
              \* session of a client that is gone
    cut,      \* replicas whose session ended in the cycle they are in
    orphan,   \* a running job of a dead replica: "none", "young" or "stale"
    losses,
    phase2, snapAt2, sweepDay2, todo2, survivors2, excess2, victim2, del2

leadVars == <<lpc, con, holder, cut, losses>>
twinVars == <<phase2, snapAt2, sweepDay2, todo2, survivors2, excess2, victim2, del2>>
janitorVars == <<leadVars, orphan, twinVars, vars>>

Second == INSTANCE ArtifactStore WITH
    Sweeper <- Twin, phase <- phase2, snapAt <- snapAt2, sweepDay <- sweepDay2,
    todo <- todo2, survivors <- survivors2, excess <- excess2, victim <- victim2, del <- del2

Replicas == {Sweeper, Twin}
InCharge(n) == lpc[n] # "sleep"
Goto(n, label) == lpc' = [lpc EXCEPT ![n] = label]
SweepPhase(n) == IF n = Sweeper THEN phase ELSE phase2
Loss == losses < MaxLosses /\ losses' = losses + 1

JanitorInit ==
    /\ Init /\ Second!Init
    /\ lpc = [n \in Replicas |-> "sleep"] /\ con = [n \in Replicas |-> FALSE]
    /\ holder = None /\ cut = {} /\ orphan = "none" /\ losses = 0

(* A step of one replica's sweep leaves the other's alone. *)
Own(n, ofFirst, ofSecond) ==
    \/ n = Sweeper /\ ofFirst /\ UNCHANGED twinVars
    \/ n = Twin /\ ofSecond /\ UNCHANGED sweepVars

-----------------------------------------------------------------------------
(* try_leader.  Without the lock the replica sleeps on. *)
TryLeader(n) ==
    /\ lpc[n] = "sleep" /\ (con[n] \/ holder = None)
    /\ holder' = IF con[n] THEN holder ELSE n
    /\ con' = [con EXCEPT ![n] = TRUE]
    /\ Goto(n, "reap")
    /\ UNCHANGED <<cut, losses, orphan, twinVars, vars>>

(* The lock was granted, but the answer is lost with the connection. *)
TryLeaderRaises(n) ==
    /\ lpc[n] = "sleep" /\ ~con[n] /\ holder = None /\ Loss
    /\ holder' = "ghost"
    /\ UNCHANGED <<lpc, con, cut, orphan, twinVars, vars>>

-----------------------------------------------------------------------------
(* The cycle of the leader *)

(* reap_stale_jobs: WHERE status = 'running' AND started_at < cutoff *)
MutAfterCutoff == IF orphan = "young" THEN "none" ELSE orphan
Reaped == IF orphan = "stale" THEN "none" ELSE orphan

Reap(n) ==
    /\ lpc[n] = "reap"
    /\ orphan' = Reaped
    /\ Goto(n, "prune")
    /\ UNCHANGED <<con, holder, cut, losses, twinVars, vars>>

(* prune_rate_hits deletes what no limiter counts any more. *)
PruneHits(n) ==
    /\ lpc[n] = "prune"
    /\ Goto(n, IF RetentionEnabled THEN "sweep" ELSE "release")
    /\ UNCHANGED <<con, holder, cut, losses, orphan, twinVars, vars>>

Sweep(n, ofFirst, ofSecond) ==
    /\ lpc[n] = "sweep" /\ Own(n, ofFirst, ofSecond)
    /\ Goto(n, IF SweepPhase(n)' = "idle" THEN "release" ELSE "sweep")
    /\ UNCHANGED <<con, holder, cut, losses, orphan>>

SweepOnce(n) == Sweep(n, SweepStep, Second!SweepStep)

(* A call raises: the finally clause releases all the same. *)
MutNoFinally(n) == Goto(n, "sleep")
Finally(n) == Goto(n, "release")

Raises(n) ==
    /\ \/ /\ lpc[n] \in {"reap", "prune"} \/ (lpc[n] = "sweep" /\ SweepPhase(n) = "idle")
          /\ UNCHANGED <<twinVars, vars>>
       \/ lpc[n] = "sweep" /\ Own(n, SweepFails, Second!SweepFails)
    /\ Finally(n)
    /\ UNCHANGED <<con, holder, cut, losses, orphan>>

(* release_leader: pg_advisory_unlock frees nothing if the session ended. *)
Release(n) ==
    /\ lpc[n] = "release" /\ Goto(n, "sleep")
    /\ con' = [con EXCEPT ![n] = FALSE]
    /\ cut' = cut \ {n}
    /\ holder' = IF holder = n THEN None ELSE holder
    /\ UNCHANGED <<losses, orphan, twinVars, vars>>

(* The unlock does not reach the server: the connection is given up. *)
ReleaseRaises(n) ==
    /\ lpc[n] = "release" /\ holder = n /\ Loss
    /\ Goto(n, "sleep")
    /\ con' = [con EXCEPT ![n] = FALSE]
    /\ holder' = "ghost"
    /\ UNCHANGED <<cut, orphan, twinVars, vars>>

-----------------------------------------------------------------------------
(* The environment *)

(* The server ends the leader's session, which does not notice. *)
SessionLost(n) ==
    /\ con[n] /\ holder = n /\ Loss
    /\ holder' = None
    /\ cut' = cut \cup ({n} \cap {m \in Replicas : InCharge(m)})
    /\ UNCHANGED <<lpc, con, orphan, twinVars, vars>>

(* The server finds that the client of a session is gone. *)
SessionEnds ==
    /\ holder = "ghost" /\ holder' = None
    /\ UNCHANGED <<lpc, con, cut, losses, orphan, twinVars, vars>>

(* A replica dies and is started anew; a render it ran leaves a job. *)
ReplicaDies(n, R) ==
    /\ Own(n, Crash(R, TRUE, {}), Second!Crash(R, TRUE, {}))
    /\ Goto(n, "sleep")
    /\ con' = [con EXCEPT ![n] = FALSE]
    /\ holder' = IF holder = n THEN "ghost" ELSE holder
    /\ cut' = cut \ {n}
    /\ orphan' = IF \E r \in R : rpc[r] # "idle" THEN "young" ELSE orphan
    /\ UNCHANGED losses

(* stale_after_s has passed since it was started. *)
OrphanAges ==
    /\ orphan = "young" /\ orphan' = "stale"
    /\ UNCHANGED <<leadVars, twinVars, vars>>

(* Renders, the clock and deploys go on. *)
HubStep ==
    /\ \/ \E r \in Renderers, k \in Keys : Begin(r, k)
       \/ \E r \in Renderers : Publish(r)
       \/ NextDay \/ \E b \in Boards : RemoveBoard(b)
    /\ UNCHANGED <<leadVars, orphan, twinVars>>

-----------------------------------------------------------------------------
JanitorStep(n) == TryLeader(n) \/ Reap(n) \/ PruneHits(n) \/ SweepOnce(n) \/ Release(n)

JanitorNext ==
    \/ \E n \in Replicas : JanitorStep(n)
    \/ \E n \in Replicas : TryLeaderRaises(n) \/ Raises(n) \/ ReleaseRaises(n) \/ SessionLost(n)
    \/ \E n \in Replicas, R \in SUBSET Renderers : ReplicaDies(n, R)
    \/ SessionEnds \/ OrphanAges \/ HubStep

JanitorSpec == JanitorInit /\ [][JanitorNext]_janitorVars

(* Every janitor runs again and again; its calls fail, but not for ever;   *)
(* the server ends dead sessions; time passes.                             *)
JanitorFairness ==
    /\ \A n \in Replicas : WF_janitorVars(JanitorStep(n))
    /\ SF_janitorVars(\E n \in Replicas : Reap(n))
    /\ SF_janitorVars(\E n \in Replicas : PruneHits(n))
    /\ SF_janitorVars(\E n \in Replicas : Sweep(n, SweepStart, Second!SweepStart))
    /\ SF_janitorVars(\E n \in Replicas : Sweep(n, DeleteRow, Second!DeleteRow))
    /\ \A k \in Keys : SF_janitorVars(\E n \in Replicas :
           Sweep(n, SweepRecord(k, TRUE), Second!SweepRecord(k, TRUE)))
    /\ WF_janitorVars(SessionEnds) /\ WF_janitorVars(OrphanAges)
    /\ WF_janitorVars(NextDay /\ HubStep)
    /\ \A r \in Renderers : WF_janitorVars(Publish(r) /\ HubStep)

JanitorFairSpec == JanitorSpec /\ JanitorFairness

-----------------------------------------------------------------------------
(* Properties *)

JanitorTypeOK ==
    /\ TypeOK /\ Second!TypeOK
    /\ lpc \in [Replicas -> {"sleep", "reap", "prune", "sweep", "release"}]
    /\ con \in [Replicas -> BOOLEAN]
    /\ holder \in Replicas \cup {None, "ghost"}
    /\ cut \in SUBSET Replicas
    /\ orphan \in {"none", "young", "stale"}
    /\ losses \in 0..MaxLosses

(* gc.py: "Exactly one replica leads at a time": two are only ever in      *)
(* charge when the server has ended the session of one of them in this     *)
(* very cycle; a failed cycle, a lost answer or a crash leaves no false    *)
(* leader behind.                                                          *)
OneLeader == \A m, n \in Replicas :
    InCharge(m) /\ InCharge(n) /\ m # n => cut \cap {m, n} # {}

(* gc.py: "if it dies, its session's lock releases and another replica     *)
(* takes over": a dead replica's job is reaped in the end, through failed  *)
(* cycles, lost answers and lost sessions.                                 *)
OrphanReaped == orphan # "none" ~> orphan = "none"

=============================================================================
