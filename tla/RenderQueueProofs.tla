------------------------- MODULE RenderQueueProofs -------------------------
(***************************************************************************)
(* Theorems about the render queue, for every number of nodes, workers,    *)
(* keys and jobs, every limit, and every number of crashes and outages.    *)
(*                                                                         *)
(* SingleFlight alone is not inductive: a report is written to the job the *)
(* worker holds whatever its status, so it must be known that a held job   *)
(* was claimed (HeldIsClaimed), by the holder's own node, that no two      *)
(* workers hold one job, and that the workers of a dead node hold nothing  *)
(* (OffMeansDown).  In one-node mode and under TimelyRender the held job   *)
(* is still the running one (HeldIsRunning).                               *)
(***************************************************************************)
EXTENDS RenderQueue, TLAPS

OffMeansDown == \A w \in Workers : pc[w] = "off" <=> NodeOf[w] \notin up

HeldIsClaimed == \A w \in Workers : Executing(w) =>
    /\ held[w] \in JobIds
    /\ status[held[w]] \in {"running", "interrupted", "done"}
    /\ claimedBy[held[w]] = NodeOf[w]

(* Executing a job that is done is only possible after a lost answer. *)
HeldNotDone == \A w \in Workers : Rendering(w) =>
    status[held[w]] \in {"running", "interrupted"}

HeldIsRunning == ~HaMode \/ TimelyRender =>
    \A w \in Workers : Rendering(w) => status[held[w]] = "running"

(* Under TimelyRender nobody executes a job past the reaper's threshold. *)
HeldInTime == TimelyRender =>
    \A w \in Workers : Executing(w) => age[held[w]] <= StaleAfter

SingleNodeStore == ~HaMode =>
    /\ db = "up"
    /\ \A w \in Workers : pc[w] # "clear"
    /\ \A w \in Workers : Executing(w) => status[held[w]] = "running"

IInv == /\ TypeOK /\ SingleFlight /\ ExclusiveClaim
        /\ OffMeansDown /\ HeldIsClaimed /\ HeldNotDone
        /\ HeldIsRunning /\ HeldInTime /\ SingleNodeStore
        /\ NoLostWake /\ NoOrphanRunning

-----------------------------------------------------------------------------
USE NodeOfType, LimitsType, BoundsType, ModesType, NoneIsNothing
    DEF jobVars, dbVars, vars

LEMMA TypeInit == Init => TypeOK
BY DEF Init, TypeOK, Statuses, PCs, AgeCap

LEMMA TypeNext == ASSUME TypeOK, HeldIsClaimed, [Next]_vars PROVE TypeOK'
<1> USE DEF TypeOK, Statuses, Active, Terminal, PCs, AgeCap
<1>1. ASSUME NEW n \in Nodes, Boot(n) PROVE TypeOK'
  BY <1>1 DEF Boot, Interrupt
<1>2. ASSUME NEW n \in Nodes, Crash(n) PROVE TypeOK'
  BY <1>2 DEF Crash
<1>3. ASSUME NEW n \in Nodes, NEW k \in Keys, Submit(n, k) PROVE TypeOK'
  BY <1>3 DEF Submit, Answered, ReplyLost, SetWake
<1>4. ASSUME NEW w \in Workers, Claim(w) PROVE TypeOK'
  BY <1>4 DEF Claim, Answered, ReplyLost, node_id
<1>5. ASSUME NEW w \in Workers, ClaimNone(w) \/ ClearWake(w) \/ ClaimRaises(w)
      PROVE  TypeOK'
  BY <1>5 DEF ClaimNone, ClearWake, ClaimRaises, Answered
<1>6. ASSUME NEW w \in Workers, Woken(w) \/ IdlePoll(w) \/ RenderDone(w) \/ ExecFails(w)
      PROVE  TypeOK'
  BY <1>6 DEF Woken, IdlePoll, RenderDone, ExecFails
<1>7. ASSUME NEW w \in Workers, Finish(w) PROVE TypeOK'
  BY <1>7 DEF Finish, HeldIsClaimed, Executing, finish_job, Answered, ReplyLost
<1>8. ASSUME NEW w \in Workers, FinishError(w) PROVE TypeOK'
  BY <1>8 DEF FinishError, HeldIsClaimed, Executing, finish_job, Answered, ReplyLost
<1>9. ASSUME NEW w \in Workers, FinishRaises(w) PROVE TypeOK'
  BY <1>9 DEF FinishRaises
<1>10. ASSUME NEW n \in Nodes, Reap(n) PROVE TypeOK'
  BY <1>10 DEF Reap, Interrupt, Answered
<1>11. CASE DbDown \/ DbUp
  BY <1>11 DEF DbDown, DbUp, ReplyLost
<1>12. CASE Tick
  BY <1>12 DEF Tick, Older
<1>13. CASE UNCHANGED vars
  BY <1>13
<1> QED
  BY <1>1, <1>2, <1>3, <1>4, <1>5, <1>6, <1>7, <1>8, <1>9, <1>10, <1>11, <1>12, <1>13
  DEF Next, WorkerStep

LEMMA BootStep ==
    ASSUME IInv, TypeOK', NEW n \in Nodes, Boot(n)
    PROVE  IInv'
<1> USE DEF IInv, TypeOK, Boot, Interrupt, InterruptedByBoot, ActiveJobs, Active
<1>1. SingleFlight'
  BY DEF SingleFlight, ActiveJobs, Active
<1>2. ExclusiveClaim'
  BY DEF ExclusiveClaim, Executing, HeldIsClaimed
<1>3. OffMeansDown'
  BY DEF OffMeansDown
<1>4. HeldIsClaimed'
  BY DEF HeldIsClaimed, Executing, OffMeansDown
<1>5. HeldNotDone'
  BY DEF HeldNotDone, HeldIsClaimed, Executing, Rendering
<1>6. HeldIsRunning'
  BY SingleNodeIsAlone DEF OffMeansDown, HeldIsRunning, HeldIsClaimed, Executing, Rendering
<1>7. HeldInTime'
  BY DEF HeldInTime, HeldIsClaimed, Executing, AgeCap
<1>8. SingleNodeStore'
  BY SingleNodeIsAlone DEF OffMeansDown, SingleNodeStore, HeldIsClaimed, Executing
<1>9. NoLostWake'
  BY DEF NoLostWake, QueuedJobs
<1>10. NoOrphanRunning'
  BY DEF NoOrphanRunning, Executing, SingleNodeStore, HeldIsClaimed
<1> QED
  BY <1>1, <1>2, <1>3, <1>4, <1>5, <1>6, <1>7, <1>8, <1>9, <1>10

LEMMA CrashStep ==
    ASSUME IInv, TypeOK', NEW n \in Nodes, Crash(n)
    PROVE  IInv'
<1> USE DEF IInv, TypeOK, Crash
<1>1. SingleFlight'
  BY DEF SingleFlight, ActiveJobs, Active
<1>2. ExclusiveClaim'
  BY DEF ExclusiveClaim, Executing, HeldIsClaimed
<1>3. OffMeansDown'
  BY DEF OffMeansDown
<1>4. HeldIsClaimed'
  BY DEF HeldIsClaimed, Executing, OffMeansDown
<1>5. HeldNotDone'
  BY DEF HeldNotDone, HeldIsClaimed, Executing, Rendering
<1>6. HeldIsRunning'
  BY DEF HeldIsRunning, HeldIsClaimed, Executing, Rendering
<1>7. HeldInTime'
  BY DEF HeldInTime, HeldIsClaimed, Executing, AgeCap
<1>8. SingleNodeStore'
  BY DEF SingleNodeStore, HeldIsClaimed, Executing
<1>9. NoLostWake'
  BY DEF NoLostWake, QueuedJobs
<1>10. NoOrphanRunning'
  BY SingleNodeIsAlone DEF NoOrphanRunning, Executing, SingleNodeStore, HeldIsClaimed
<1> QED
  BY <1>1, <1>2, <1>3, <1>4, <1>5, <1>6, <1>7, <1>8, <1>9, <1>10

LEMMA SubmitStep ==
    ASSUME IInv, TypeOK', NEW n \in Nodes, NEW k \in Keys, Submit(n, k)
    PROVE  IInv'
<1> USE DEF IInv, TypeOK, Submit, MayInsert, ActiveFor, SetWake, Answered, ReplyLost
<1>1. SingleFlight'
  BY DEF SingleFlight, ActiveJobs, Active
<1>2. ExclusiveClaim'
  BY DEF ExclusiveClaim, Executing, HeldIsClaimed
<1>3. OffMeansDown'
  BY DEF OffMeansDown
<1>4. HeldIsClaimed'
  BY DEF HeldIsClaimed, Executing, OffMeansDown
<1>5. HeldNotDone'
  BY DEF HeldNotDone, HeldIsClaimed, Executing, Rendering
<1>6. HeldIsRunning'
  BY DEF HeldIsRunning, HeldIsClaimed, Executing, Rendering
<1>7. HeldInTime'
  BY DEF HeldInTime, HeldIsClaimed, Executing, AgeCap
<1>8. SingleNodeStore'
  BY DEF SingleNodeStore, HeldIsClaimed, Executing
<1>9. NoLostWake'
  BY SingleNodeIsAlone DEF NoLostWake, QueuedJobs
<1>10. NoOrphanRunning'
  BY DEF NoOrphanRunning, Executing, SingleNodeStore, HeldIsClaimed
<1> QED
  BY <1>1, <1>2, <1>3, <1>4, <1>5, <1>6, <1>7, <1>8, <1>9, <1>10

LEMMA ClaimStep ==
    ASSUME IInv, TypeOK', NEW w \in Workers, Claim(w)
    PROVE  IInv'
<1> USE DEF IInv, TypeOK, Claim, Claimable, node_id, Answered, ReplyLost
<1>1. SingleFlight'
  BY DEF SingleFlight, ActiveJobs, Active
<1>2. ExclusiveClaim'
  BY DEF ExclusiveClaim, Executing, HeldIsClaimed
<1>3. OffMeansDown'
  BY DEF OffMeansDown
<1>4. HeldIsClaimed'
  BY DEF HeldIsClaimed, Executing, OffMeansDown
<1>5. HeldNotDone'
  BY DEF HeldNotDone, HeldIsClaimed, Executing, Rendering
<1>6. HeldIsRunning'
  BY DEF HeldIsRunning, HeldIsClaimed, Executing, Rendering
<1>7. HeldInTime'
  BY DEF HeldInTime, HeldIsClaimed, Executing, AgeCap
<1>8. SingleNodeStore'
  BY DEF SingleNodeStore, HeldIsClaimed, Executing
<1>9. NoLostWake'
  BY DEF NoLostWake, QueuedJobs
<1>10. NoOrphanRunning'
  BY DEF NoOrphanRunning, Executing, SingleNodeStore, HeldIsClaimed
<1> QED
  BY <1>1, <1>2, <1>3, <1>4, <1>5, <1>6, <1>7, <1>8, <1>9, <1>10

LEMMA ClaimNoneStep ==
    ASSUME IInv, TypeOK', NEW w \in Workers, ClaimNone(w)
    PROVE  IInv'
<1> USE DEF IInv, TypeOK, ClaimNone, Answered
<1>1. SingleFlight'
  BY DEF SingleFlight, ActiveJobs, Active
<1>2. ExclusiveClaim'
  BY DEF ExclusiveClaim, Executing, HeldIsClaimed
<1>3. OffMeansDown'
  BY DEF OffMeansDown
<1>4. HeldIsClaimed'
  BY DEF HeldIsClaimed, Executing, OffMeansDown
<1>5. HeldNotDone'
  BY DEF HeldNotDone, HeldIsClaimed, Executing, Rendering
<1>6. HeldIsRunning'
  BY DEF HeldIsRunning, HeldIsClaimed, Executing, Rendering
<1>7. HeldInTime'
  BY DEF HeldInTime, HeldIsClaimed, Executing, AgeCap
<1>8. SingleNodeStore'
  BY DEF SingleNodeStore, HeldIsClaimed, Executing
<1>9. NoLostWake'
  BY DEF NoLostWake, QueuedJobs
<1>10. NoOrphanRunning'
  BY DEF NoOrphanRunning, Executing, SingleNodeStore, HeldIsClaimed
<1> QED
  BY <1>1, <1>2, <1>3, <1>4, <1>5, <1>6, <1>7, <1>8, <1>9, <1>10

LEMMA QuietStep ==
    ASSUME IInv, TypeOK', NEW w \in Workers,
           ClearWake(w) \/ ClaimRaises(w) \/ Woken(w) \/ IdlePoll(w)
    PROVE  IInv'
<1> USE DEF IInv, TypeOK, ClearWake, ClaimRaises, Woken, IdlePoll
<1>1. SingleFlight'
  BY DEF SingleFlight, ActiveJobs, Active
<1>2. ExclusiveClaim'
  BY DEF ExclusiveClaim, Executing, HeldIsClaimed
<1>3. OffMeansDown'
  BY DEF OffMeansDown
<1>4. HeldIsClaimed'
  BY DEF HeldIsClaimed, Executing, OffMeansDown
<1>5. HeldNotDone'
  BY DEF HeldNotDone, HeldIsClaimed, Executing, Rendering
<1>6. HeldIsRunning'
  BY DEF HeldIsRunning, HeldIsClaimed, Executing, Rendering
<1>7. HeldInTime'
  BY DEF HeldInTime, HeldIsClaimed, Executing, AgeCap
<1>8. SingleNodeStore'
  BY DEF SingleNodeStore, HeldIsClaimed, Executing
<1>9. NoLostWake'
  BY DEF SingleNodeStore, NoLostWake, QueuedJobs
<1>10. NoOrphanRunning'
  BY DEF NoOrphanRunning, Executing, SingleNodeStore, HeldIsClaimed
<1> QED
  BY <1>1, <1>2, <1>3, <1>4, <1>5, <1>6, <1>7, <1>8, <1>9, <1>10

LEMMA RenderStep ==
    ASSUME IInv, TypeOK', NEW w \in Workers, RenderDone(w) \/ ExecFails(w)
    PROVE  IInv'
<1> USE DEF IInv, TypeOK, RenderDone, ExecFails, Rendering
<1>1. SingleFlight'
  BY DEF SingleFlight, ActiveJobs, Active
<1>2. ExclusiveClaim'
  BY DEF ExclusiveClaim, Executing, HeldIsClaimed
<1>3. OffMeansDown'
  BY DEF OffMeansDown
<1>4. HeldIsClaimed'
  BY DEF HeldIsClaimed, Executing, OffMeansDown
<1>5. HeldNotDone'
  BY DEF HeldNotDone, HeldIsClaimed, Executing, Rendering
<1>6. HeldIsRunning'
  BY DEF HeldIsRunning, HeldIsClaimed, Executing, Rendering
<1>7. HeldInTime'
  BY DEF HeldInTime, HeldIsClaimed, Executing, AgeCap
<1>8. SingleNodeStore'
  BY DEF SingleNodeStore, HeldIsClaimed, Executing
<1>9. NoLostWake'
  BY DEF NoLostWake, QueuedJobs
<1>10. NoOrphanRunning'
  BY DEF NoOrphanRunning, Executing, SingleNodeStore, HeldIsClaimed
<1> QED
  BY <1>1, <1>2, <1>3, <1>4, <1>5, <1>6, <1>7, <1>8, <1>9, <1>10

LEMMA FinishStep ==
    ASSUME IInv, TypeOK', NEW w \in Workers, Finish(w)
    PROVE  IInv'
<1> USE DEF IInv, TypeOK, Finish, finish_job, Answered, ReplyLost
<1>1. SingleFlight'
  BY DEF SingleFlight, ActiveJobs, Active
<1>2. ExclusiveClaim'
  BY DEF ExclusiveClaim, Executing, HeldIsClaimed
<1>3. OffMeansDown'
  BY DEF OffMeansDown
<1>4. HeldIsClaimed'
  BY DEF HeldIsClaimed, Executing, OffMeansDown
<1>5. HeldNotDone'
  BY DEF ExclusiveClaim, HeldNotDone, HeldIsClaimed, Executing, Rendering
<1>6. HeldIsRunning'
  BY DEF ExclusiveClaim, HeldIsRunning, HeldIsClaimed, Executing, Rendering
<1>7. HeldInTime'
  BY DEF HeldInTime, HeldIsClaimed, Executing, AgeCap
<1>8. SingleNodeStore'
  BY DEF ExclusiveClaim, SingleNodeStore, HeldIsClaimed, Executing
<1>9. NoLostWake'
  BY DEF NoLostWake, QueuedJobs
<1>10. NoOrphanRunning'
  BY DEF NoOrphanRunning, Executing, SingleNodeStore, HeldIsClaimed
<1> QED
  BY <1>1, <1>2, <1>3, <1>4, <1>5, <1>6, <1>7, <1>8, <1>9, <1>10

LEMMA FinishErrorStep ==
    ASSUME IInv, TypeOK', NEW w \in Workers, FinishError(w)
    PROVE  IInv'
<1> USE DEF IInv, TypeOK, FinishError, finish_job, Answered, ReplyLost
<1>1. SingleFlight'
  BY DEF SingleFlight, ActiveJobs, Active
<1>2. ExclusiveClaim'
  BY DEF ExclusiveClaim, Executing, HeldIsClaimed
<1>3. OffMeansDown'
  BY DEF OffMeansDown
<1>4. HeldIsClaimed'
  BY DEF ExclusiveClaim, HeldIsClaimed, Executing, OffMeansDown
<1>5. HeldNotDone'
  BY DEF ExclusiveClaim, HeldNotDone, HeldIsClaimed, Executing, Rendering
<1>6. HeldIsRunning'
  BY DEF ExclusiveClaim, HeldIsRunning, HeldIsClaimed, Executing, Rendering
<1>7. HeldInTime'
  BY DEF HeldInTime, HeldIsClaimed, Executing, AgeCap
<1>8. SingleNodeStore'
  BY DEF ExclusiveClaim, SingleNodeStore, HeldIsClaimed, Executing
<1>9. NoLostWake'
  BY DEF NoLostWake, QueuedJobs
<1>10. NoOrphanRunning'
  BY DEF NoOrphanRunning, Executing, SingleNodeStore, HeldIsClaimed
<1> QED
  BY <1>1, <1>2, <1>3, <1>4, <1>5, <1>6, <1>7, <1>8, <1>9, <1>10

LEMMA FinishRaisesStep ==
    ASSUME IInv, TypeOK', NEW w \in Workers, FinishRaises(w)
    PROVE  IInv'
<1> USE DEF IInv, TypeOK, FinishRaises
<1>1. SingleFlight'
  BY DEF SingleFlight, ActiveJobs, Active
<1>2. ExclusiveClaim'
  BY DEF ExclusiveClaim, Executing, HeldIsClaimed
<1>3. OffMeansDown'
  BY DEF OffMeansDown
<1>4. HeldIsClaimed'
  BY DEF HeldIsClaimed, Executing, OffMeansDown
<1>5. HeldNotDone'
  BY DEF HeldNotDone, HeldIsClaimed, Executing, Rendering
<1>6. HeldIsRunning'
  BY DEF HeldIsRunning, HeldIsClaimed, Executing, Rendering
<1>7. HeldInTime'
  BY DEF HeldInTime, HeldIsClaimed, Executing, AgeCap
<1>8. SingleNodeStore'
  BY DEF SingleNodeStore, HeldIsClaimed, Executing
<1>9. NoLostWake'
  BY DEF NoLostWake, QueuedJobs
<1>10. NoOrphanRunning'
  BY DEF NoOrphanRunning, Executing, SingleNodeStore, HeldIsClaimed
<1> QED
  BY <1>1, <1>2, <1>3, <1>4, <1>5, <1>6, <1>7, <1>8, <1>9, <1>10

LEMMA ReapStep ==
    ASSUME IInv, TypeOK', NEW n \in Nodes, Reap(n)
    PROVE  IInv'
<1> USE DEF IInv, TypeOK, Reap, Interrupt, Stale, Answered
<1>1. SingleFlight'
  BY DEF SingleFlight, ActiveJobs, Active
<1>2. ExclusiveClaim'
  BY DEF ExclusiveClaim, Executing, HeldIsClaimed
<1>3. OffMeansDown'
  BY DEF OffMeansDown
<1>4. HeldIsClaimed'
  BY DEF HeldIsClaimed, Executing, OffMeansDown
<1>5. HeldNotDone'
  BY DEF HeldNotDone, HeldIsClaimed, Executing, Rendering
<1>6. HeldIsRunning'
  BY DEF HeldInTime, HeldIsRunning, HeldIsClaimed, Executing, Rendering
<1>7. HeldInTime'
  BY DEF HeldInTime, HeldIsClaimed, Executing, AgeCap
<1>8. SingleNodeStore'
  BY DEF SingleNodeStore, HeldIsClaimed, Executing
<1>9. NoLostWake'
  BY DEF NoLostWake, QueuedJobs
<1>10. NoOrphanRunning'
  BY DEF NoOrphanRunning, Executing, SingleNodeStore, HeldIsClaimed
<1> QED
  BY <1>1, <1>2, <1>3, <1>4, <1>5, <1>6, <1>7, <1>8, <1>9, <1>10

LEMMA EnvStep ==
    ASSUME IInv, TypeOK', DbDown \/ DbUp \/ Tick
    PROVE  IInv'
<1> USE DEF IInv, TypeOK, DbDown, DbUp, Tick, Older, MayPass, ReplyLost
<1>1. SingleFlight'
  BY DEF SingleFlight, ActiveJobs, Active
<1>2. ExclusiveClaim'
  BY DEF ExclusiveClaim, Executing, HeldIsClaimed
<1>3. OffMeansDown'
  BY DEF OffMeansDown
<1>4. HeldIsClaimed'
  BY DEF HeldIsClaimed, Executing, OffMeansDown
<1>5. HeldNotDone'
  BY DEF HeldNotDone, HeldIsClaimed, Executing, Rendering
<1>6. HeldIsRunning'
  BY DEF HeldIsRunning, HeldIsClaimed, Executing, Rendering
<1>7. HeldInTime'
  BY DEF HeldInTime, HeldIsClaimed, Executing, AgeCap
<1>8. SingleNodeStore'
  BY DEF SingleNodeStore, HeldIsClaimed, Executing
<1>9. NoLostWake'
  BY DEF NoLostWake, QueuedJobs
<1>10. NoOrphanRunning'
  BY DEF NoOrphanRunning, Executing, SingleNodeStore, HeldIsClaimed
<1> QED
  BY <1>1, <1>2, <1>3, <1>4, <1>5, <1>6, <1>7, <1>8, <1>9, <1>10

-----------------------------------------------------------------------------
LEMMA InitIInv == Init => IInv
<1> SUFFICES ASSUME Init PROVE IInv
  OBVIOUS
<1>1. TypeOK
  BY TypeInit
<1>2. /\ SingleFlight /\ ExclusiveClaim
      /\ OffMeansDown /\ HeldIsClaimed /\ HeldNotDone
      /\ HeldIsRunning /\ HeldInTime /\ SingleNodeStore
      /\ NoLostWake /\ NoOrphanRunning
  BY DEF Init, SingleFlight, ActiveJobs, Active, ExclusiveClaim, Executing, Rendering,
         OffMeansDown, HeldIsClaimed, HeldNotDone, HeldIsRunning, HeldInTime,
         SingleNodeStore, NoLostWake, NoOrphanRunning
<1> QED
  BY <1>1, <1>2 DEF IInv

LEMMA NextIInv == ASSUME IInv, [Next]_vars PROVE IInv'
<1>1. TypeOK'
  BY TypeNext DEF IInv
<1>2. CASE UNCHANGED vars
  BY <1>2 DEF IInv, TypeOK, SingleFlight, ActiveJobs, QueuedJobs, ExclusiveClaim,
         Executing, Rendering, OffMeansDown, HeldIsClaimed, HeldNotDone,
         HeldIsRunning, HeldInTime, SingleNodeStore, NoLostWake, NoOrphanRunning
<1>3. CASE Next
  BY <1>1, <1>3, BootStep, CrashStep, SubmitStep, ClaimStep, ClaimNoneStep, QuietStep,
     RenderStep, FinishStep, FinishErrorStep, FinishRaisesStep, ReapStep, EnvStep
  DEF Next, WorkerStep
<1> QED
  BY <1>2, <1>3

(* The invariant above is an invariant of the queue. *)
THEOREM Invariance == Spec => []IInv
<1>1. IInv /\ [Next]_vars => IInv'
  BY NextIInv
<1> QED
  BY InitIInv, <1>1, PTL DEF Spec

(* Every variable keeps its type: in particular a job row is only ever     *)
(* signed by a node and a worker only ever holds a job of the table.       *)
THEOREM TypeCorrect == Spec => []TypeOK
<1>1. IInv => TypeOK
  BY DEF IInv
<1> QED
  BY Invariance, <1>1, PTL

(* submit_job's promise: one active job per key, in both modes, through    *)
(* any number of crashes, outages, reaps and late reports.                 *)
THEOREM SingleFlightHolds == Spec => []SingleFlight
<1>1. IInv => SingleFlight
  BY DEF IInv
<1> QED
  BY Invariance, <1>1, PTL

(* claim_next_job's promise: a job is executed by one worker at a time. *)
THEOREM ExclusiveClaimHolds == Spec => []ExclusiveClaim
<1>1. IInv => ExclusiveClaim
  BY DEF IInv
<1> QED
  BY Invariance, <1>1, PTL

(* On one node, and on many if every execution ends before the reaper's    *)
(* threshold, a job that is interrupted has really lost its worker.        *)
THEOREM InterruptedIsAbandonedHolds ==
    ASSUME ~HaMode \/ TimelyRender
    PROVE  Spec => []InterruptedIsAbandoned
<1>1. IInv => InterruptedIsAbandoned
  BY DEF IInv, HeldIsRunning, InterruptedIsAbandoned
<1> QED
  BY Invariance, <1>1, PTL

(* Under the same condition no key is rendered by two workers at a time.   *)
(* The condition is needed: without it TLC finds the overlap.              *)
THEOREM OneRenderPerKeyHolds ==
    ASSUME ~HaMode \/ TimelyRender
    PROVE  Spec => []OneRenderPerKey
<1>1. IInv => OneRenderPerKey
  BY DEF IInv, HeldIsRunning, HeldIsClaimed, SingleFlight, ExclusiveClaim,
         ActiveJobs, Active, Executing, Rendering, OneRenderPerKey
<1> QED
  BY Invariance, <1>1, PTL

(* On one node the wake event is never lost: the idle poll is not needed. *)
THEOREM NoLostWakeHolds == Spec => []NoLostWake
<1>1. IInv => NoLostWake
  BY DEF IInv
<1> QED
  BY Invariance, <1>1, PTL

(* On one node a live hub leaves no running row without a worker. *)
THEOREM NoOrphanRunningHolds == Spec => []NoOrphanRunning
<1>1. IInv => NoOrphanRunning
  BY DEF IInv
<1> QED
  BY Invariance, <1>1, PTL

-----------------------------------------------------------------------------
(* How one step of the queue changes the jobs table: exactly the steps of  *)
(* the abstract table.                                                     *)

LEMMA BoardInit == Init => Board!Init
BY DEF Init, Board!Init

LEMMA BoardStep ==
    ASSUME IInv, [Next]_vars
    PROVE  [Board!Next]_(Board!boardVars)
<1> USE DEF IInv, TypeOK, Board!boardVars, Board!Active
<1>1. ASSUME NEW n \in Nodes, Boot(n) PROVE Board!Next
  <2>1. Board!Interrupt(InterruptedByBoot(n))
    BY <1>1 DEF Boot, Interrupt, InterruptedByBoot, ActiveJobs, Active, Board!Interrupt
  <2> QED
    BY <2>1 DEF Board!Next, InterruptedByBoot, ActiveJobs
<1>2. ASSUME NEW n \in Nodes, NEW k \in Keys, Submit(n, k) PROVE Board!Next
  <2>1. PICK j \in JobIds : /\ status[j] = "absent" /\ MayInsert(k)
                            /\ status' = [status EXCEPT ![j] = "queued"]
                            /\ jobKey' = [jobKey EXCEPT ![j] = k]
    BY <1>2 DEF Submit
  <2>2. Board!Insert(j, k)
    BY <2>1 DEF MayInsert, ActiveFor, ActiveJobs, Active, Board!Insert
  <2> QED
    BY <2>2 DEF Board!Next
<1>3. ASSUME NEW w \in Workers, Claim(w) PROVE Board!Next
  BY <1>3 DEF Claim, Claimable, Board!Next, Board!Start
<1>4. ASSUME NEW w \in Workers, Finish(w) \/ FinishError(w) PROVE Board!Next
  <2>1. held[w] \in JobIds /\ status[held[w]] \in {"running", "interrupted", "done"}
    BY <1>4 DEF Finish, FinishError, HeldIsClaimed, Executing
  <2>2. Board!Report(held[w], "done") \/ Board!Report(held[w], "error")
    BY <1>4, <2>1 DEF Finish, FinishError, finish_job, Board!Report
  <2> QED
    BY <2>1, <2>2 DEF Board!Next
<1>5. ASSUME NEW n \in Nodes, Reap(n) PROVE Board!Next
  <2>1. Board!Interrupt({j \in JobIds : Stale(j)})
    BY <1>5 DEF Reap, Interrupt, Stale, Board!Interrupt
  <2> QED
    BY <2>1 DEF Board!Next
<1>6. ASSUME NEW n \in Nodes, Crash(n) PROVE UNCHANGED <<status, jobKey>>
  BY <1>6 DEF Crash
<1>7. ASSUME NEW w \in Workers,
             \/ ClaimNone(w) \/ ClearWake(w) \/ ClaimRaises(w) \/ Woken(w)
             \/ IdlePoll(w) \/ RenderDone(w) \/ ExecFails(w) \/ FinishRaises(w)
      PROVE  UNCHANGED <<status, jobKey>>
  BY <1>7 DEF ClaimNone, ClearWake, ClaimRaises, Woken, IdlePoll, RenderDone,
              ExecFails, FinishRaises
<1>8. CASE DbDown \/ DbUp \/ Tick \/ UNCHANGED vars
  BY <1>8 DEF DbDown, DbUp, Tick
<1> QED
  BY <1>1, <1>2, <1>3, <1>4, <1>5, <1>6, <1>7, <1>8 DEF Next, WorkerStep

(* The queue, with its workers, replicas, crashes, outages and reaper,     *)
(* implements the jobs table's contract.                                   *)
THEOREM Refinement == Spec => ImplementsBoard
<1>1. IInv /\ [Next]_vars => [Board!Next]_(Board!boardVars)
  BY BoardStep
<1> QED
  BY BoardInit, Invariance, <1>1, PTL DEF Spec, Board!Spec, ImplementsBoard

LEMMA OutcomeStep ==
    ASSUME ~HaMode, IInv, [Next]_vars, NEW j \in JobIds
    PROVE  /\ status[j] \in {"done", "error"} => status'[j] = status[j]
           /\ status[j] \in Terminal => status'[j] \in Terminal
<1> USE DEF IInv, TypeOK, Terminal
<1>1. ASSUME NEW n \in Nodes, Boot(n) \/ Crash(n) \/ Reap(n)
      PROVE  status'[j] = status[j] \/ status[j] \in Active
  BY <1>1 DEF Boot, Crash, Reap, Interrupt, InterruptedByBoot, Stale, ActiveJobs, Active
<1>2. ASSUME NEW n \in Nodes, NEW k \in Keys, Submit(n, k)
      PROVE  status'[j] = status[j] \/ status[j] = "absent"
  BY <1>2 DEF Submit
<1>3. ASSUME NEW w \in Workers, Claim(w)
      PROVE  status'[j] = status[j] \/ status[j] = "queued"
  BY <1>3 DEF Claim, Claimable
<1>4. ASSUME NEW w \in Workers, Finish(w) \/ FinishError(w)
      PROVE  status'[j] = status[j] \/ status[j] = "running"
  BY <1>4 DEF Finish, FinishError, finish_job, SingleNodeStore, Executing
<1>5. ASSUME NEW w \in Workers,
             \/ ClaimNone(w) \/ ClearWake(w) \/ ClaimRaises(w) \/ Woken(w)
             \/ IdlePoll(w) \/ RenderDone(w) \/ ExecFails(w) \/ FinishRaises(w)
      PROVE  status'[j] = status[j]
  BY <1>5 DEF ClaimNone, ClearWake, ClaimRaises, Woken, IdlePoll, RenderDone,
              ExecFails, FinishRaises
<1>6. CASE DbDown \/ DbUp \/ Tick \/ UNCHANGED vars
  BY <1>6 DEF DbDown, DbUp, Tick
<1> QED
  BY <1>1, <1>2, <1>3, <1>4, <1>5, <1>6 DEF Next, WorkerStep, Active

(* On one node an outcome, once recorded, is never rewritten. *)
THEOREM OutcomeFinalHolds == ASSUME ~HaMode PROVE Spec => OutcomeFinal
<1>1. IInv /\ [Next]_vars =>
        [\A j \in JobIds :
            /\ status[j] \in {"done", "error"} => status'[j] = status[j]
            /\ status[j] \in Terminal => status'[j] \in Terminal]_vars
  BY OutcomeStep
<1> QED
  BY Invariance, <1>1, PTL DEF Spec, OutcomeFinal

=============================================================================
