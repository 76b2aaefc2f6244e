---------------------------- MODULE WarmProofs ----------------------------
(***************************************************************************)
(* Theorems about Warm for any number of entries, replicas, workers and    *)
(* jobs.  A warm call is a composition of the requests of JobWait with a   *)
(* way of ending that JobWait does not have (WarmOver forgets them all at  *)
(* once), so that the invariants of JobWait carry over is itself a result: *)
(* it needs that only the entry whose turn it is ever registers an event.  *)
(***************************************************************************)
EXTENDS Warm, JobWaitProofs

CallTypeOK ==
    /\ wpc \in {"off", "submit", "await", "answered", "failed"}
    /\ host \in Nodes \cup {None}
    /\ outcome \in [Clients -> Outcomes]

(* The call runs in a live process, and so do its entries. *)
HostServes == wpc # "off" => host \in up
EntriesOnHost == \A i \in Clients : at[i] # "none" =>
    /\ wpc # "off" /\ on[i] = host
    /\ outcome[i] = IF at[i] \in {"active", "latest"} THEN "none" ELSE "queued"

(* Entries are awaited in turn: one at most is in the wait loop, and only  *)
(* there does an entry have an event.                                      *)
OnlyTurnLoops == \A i \in Clients : InLoop(i) => Turn(i)
EventsInLoop == \A i \in Clients : ~InLoop(i) => ev[i] = "none"

(* What get_job read and is yet to be used may have changed, but only from *)
(* one outcome to another.                                                 *)
SeenStands == \A i \in Clients :
    at[i] = "got" /\ seen[i] \in {"done", "error"} => status[cjob[i]] \in {"done", "error"}

CallInv == CallTypeOK /\ HostServes /\ EntriesOnHost /\ OnlyTurnLoops /\ EventsInLoop
           /\ SeenStands

USE NoneIsNothing, HostsAreNodes, EntriesNumbered, ModesType DEF vars

-----------------------------------------------------------------------------
LEMMA WarmInitInv == WarmInit => CallInv
  BY DEF WarmInit, WaitInit, CallInv, CallTypeOK, Outcomes, Settled, HostServes,
         EntriesOnHost, OnlyTurnLoops, EventsInLoop, SeenStands, InLoop

(* A step of the call is a step of its requests, or the end of the call. *)
LEMMA WarmStepIsWaitStep ==
    ASSUME IInv, CallInv, [WarmNext]_everything
    PROVE  [WaitNext]_allVars \/ WarmOver
<1>1. CASE QueueGoesOn
  BY <1>1 DEF QueueGoesOn, WaitNext
<1>2. ASSUME NEW i \in Clients, EntrySubmits(i)
      PROVE  WaitNext
  <2>1. host \in Nodes /\ WarmKey[i] \in Keys
    BY <1>2 DEF EntrySubmits, Submitting, CallInv, HostServes, IInv, TypeOK
  <2> QED
    BY <1>2, <2>1 DEF EntrySubmits, WaitNext, RequestStep
<1>3. ASSUME NEW i \in Clients, SubmitRaises(i) \/ AwaitStep(i) \/ AwaitRaises(i)
      PROVE  WaitNext \/ UNCHANGED allVars
  BY <1>3 DEF SubmitRaises, AwaitStep, AwaitRaises, WaitNext, RequestStep
<1>4. ASSUME NEW i \in Clients, ReadRecord(i) \/ \E o \in Outcomes : EntrySettles(i, o)
      PROVE  UNCHANGED allVars
  BY <1>4 DEF ReadRecord, EntrySettles
<1>5. ASSUME Answer \/ (\E n \in Hosts : WarmBegins(n)) \/ \E wait \in BOOLEAN : Gathered(wait)
      PROVE  UNCHANGED allVars
  BY <1>5 DEF Answer, WarmBegins, Gathered
<1>6. CASE UNCHANGED everything
  BY <1>6 DEF everything, allVars
<1> QED
  BY <1>1, <1>2, <1>3, <1>4, <1>5, <1>6 DEF WarmNext, EntryStep

(* A recorded outcome may be replaced by the other one, never taken back.  *)
LEMMA EndedStays ==
    ASSUME IInv, [Next]_vars, NEW j \in JobIds, status[j] \in {"done", "error"}
    PROVE  status'[j] \in {"done", "error"}
<1>1. [Board!Next]_(Board!boardVars)
  BY BoardStep
<1> QED
  BY <1>1 DEF IInv, TypeOK, Statuses, Active, Terminal, Board!Next, Board!Insert, Board!Start,
     Board!Report, Board!Interrupt, Board!Active, Board!boardVars

EntryInv == CallTypeOK /\ HostServes /\ EntriesOnHost
LoopInv == OnlyTurnLoops /\ EventsInLoop

(* Where the call and its entries are. *)
LEMMA EntryStepInv ==
    ASSUME IInv, WaitInv, CallInv, [WarmNext]_everything
    PROVE  EntryInv'
<1> USE DEF EntryInv, CallInv, CallTypeOK, HostServes, EntriesOnHost, OnlyTurnLoops,
           EventsInLoop, InLoop, Turn, Settled, Outcomes, WaitInv, RequestInv, WaitTypeOK,
           RequestPlaced, HasJob, IInv, TypeOK
<1>1. ASSUME NEW i \in Clients, NEW o \in Outcomes, EntrySettles(i, o)
      PROVE  EntryInv'
  BY <1>1 DEF EntrySettles, Submitting, Report, allVars, waitVars
<1>2. ASSUME NEW i \in Clients, EntrySubmits(i), SubmitCreates(i, host, WarmKey[i])
      PROVE  EntryInv'
  <2>1. UNCHANGED up /\ host \in Nodes /\ WarmKey[i] \in Keys
    BY <1>2 DEF EntrySubmits, Submitting, SubmitCreates, Submit
  <2>2. /\ at' = [at EXCEPT ![i] = "get"] /\ on' = [on EXCEPT ![i] = host]
        /\ outcome' = [outcome EXCEPT ![i] = "queued"] /\ UNCHANGED <<wpc, host>> /\ wpc = "submit"
    BY <1>2 DEF EntrySubmits, Submitting, Report, SubmitCreates, Coalesce, Arrives
  <2> QED
    BY <2>1, <2>2
<1>3. ASSUME NEW i \in Clients, EntrySubmits(i), SubmitConflicts(i, host, WarmKey[i])
      PROVE  EntryInv'
  BY <1>3 DEF EntrySubmits, Submitting, Report, SubmitConflicts, Coalesce, Arrives
<1>4. ASSUME NEW i \in Clients, EntrySubmits(i), SelectActive(i) \/ SelectLatest(i)
      PROVE  EntryInv'
  BY <1>4 DEF EntrySubmits, Submitting, Report, SelectActive, SelectLatest, Coalesce
<1>5. ASSUME NEW i \in Clients, SubmitRaises(i)
      PROVE  EntryInv'
  BY <1>5 DEF SubmitRaises, Submitting, CallRaises, PopDone, Gone, Entry, allVars, waitVars
<1>6. ASSUME NEW i \in Clients, AwaitStep(i), GetJob(i) \/ GotJob(i), Return(i)
      PROVE  EntryInv'
  BY <1>6 DEF AwaitStep, Report, Reported, GetJob, GotJob, Return, PopDone, Gone, Entry
<1>7. ASSUME NEW i \in Clients, AwaitStep(i), GetJob(i) \/ GotJob(i), Sleeps(i)
      PROVE  EntryInv'
  BY <1>7 DEF AwaitStep, Report, GetJob, GotJob, Sleeps, Register, Entry
<1>8. ASSUME NEW i \in Clients, AwaitStep(i), GetJob(i), Reads(i)
      PROVE  EntryInv'
  BY <1>8 DEF AwaitStep, Report, GetJob, Reads
<1>9. ASSUME NEW i \in Clients, AwaitStep(i), EventFires(i) \/ PollElapses(i)
      PROVE  EntryInv'
  BY <1>9 DEF AwaitStep, Report, EventFires, PollElapses
<1>10. ASSUME NEW i \in Clients, ReadRecord(i)
      PROVE  EntryInv'
  BY <1>10 DEF ReadRecord, Report, allVars, waitVars
<1>11. ASSUME NEW i \in Clients, AwaitRaises(i)
      PROVE  EntryInv'
  BY <1>11 DEF AwaitRaises, CallRaises, PopDone, Gone, Entry, allVars, waitVars
<1>12. ASSUME NEW n \in Hosts, WarmBegins(n)
      PROVE  EntryInv'
  BY <1>12 DEF WarmBegins, allVars, waitVars
<1>13. ASSUME NEW wait \in BOOLEAN, Gathered(wait)
      PROVE  EntryInv'
  BY <1>13 DEF Gathered, allVars, waitVars
<1>14. ASSUME Answer
      PROVE  EntryInv'
  BY <1>14 DEF Answer, allVars, waitVars
<1>15. ASSUME WarmOver
      PROVE  EntryInv'
  BY <1>15 DEF WarmOver
<1>16. ASSUME UNCHANGED everything
      PROVE  EntryInv'
  BY <1>16 DEF everything, warmVars, waitVars
<1>17. ASSUME QueueGoesOn
      PROVE  EntryInv'
  <2>1. up' \in SUBSET Nodes /\ up \in SUBSET Nodes
    BY NextIInv, <1>17 DEF QueueGoesOn, QueueStep
  <2> QED
    BY <1>17, <2>1 DEF QueueGoesOn, QueueStep, WorkerSetsEvents, warmVars
<1> HIDE DEF EntryInv, CallInv, CallTypeOK, HostServes, EntriesOnHost, OnlyTurnLoops,
           EventsInLoop, InLoop, Turn, Settled, Outcomes, WaitInv, RequestInv, WaitTypeOK,
           RequestPlaced, HasJob, IInv, TypeOK
<1> QED
  BY <1>1, <1>2, <1>3, <1>4, <1>5, <1>6, <1>7, <1>8, <1>9, <1>10, <1>11, <1>12, <1>13, <1>14, <1>15, <1>16, <1>17, RequestCases
  DEF WarmNext, EntryStep, EntrySubmits, AwaitStep

(* Who is in the wait loop. *)
LEMMA LoopStepInv ==
    ASSUME IInv, WaitInv, CallInv, [WarmNext]_everything
    PROVE  LoopInv'
<1> USE DEF LoopInv, CallInv, CallTypeOK, HostServes, EntriesOnHost, OnlyTurnLoops,
           EventsInLoop, InLoop, Turn, Settled, Outcomes, WaitInv, RequestInv, WaitTypeOK,
           RequestPlaced, HasJob, IInv, TypeOK
<1>1. ASSUME NEW i \in Clients, NEW o \in Outcomes, EntrySettles(i, o)
      PROVE  LoopInv'
  BY <1>1 DEF EntrySettles, Submitting, Report, allVars, waitVars
<1>2. ASSUME NEW i \in Clients, EntrySubmits(i), SubmitCreates(i, host, WarmKey[i])
      PROVE  LoopInv'
  BY <1>2 DEF EntrySubmits, Submitting, Report, SubmitCreates, Coalesce, Arrives
<1>3. ASSUME NEW i \in Clients, EntrySubmits(i), SubmitConflicts(i, host, WarmKey[i])
      PROVE  LoopInv'
  BY <1>3 DEF EntrySubmits, Submitting, Report, SubmitConflicts, Coalesce, Arrives
<1>4. ASSUME NEW i \in Clients, EntrySubmits(i), SelectActive(i) \/ SelectLatest(i)
      PROVE  LoopInv'
  BY <1>4 DEF EntrySubmits, Submitting, Report, SelectActive, SelectLatest, Coalesce
<1>5. ASSUME NEW i \in Clients, SubmitRaises(i)
      PROVE  LoopInv'
  BY <1>5 DEF SubmitRaises, Submitting, CallRaises, PopDone, Gone, Entry, allVars, waitVars
<1>6. ASSUME NEW i \in Clients, AwaitStep(i), GetJob(i) \/ GotJob(i), Return(i)
      PROVE  LoopInv'
  <2>1. Turn(i) /\ outcome[i] = "queued"
    BY <1>6 DEF AwaitStep
  <2>2. \A j \in Clients \ {i} : ~InLoop(j)
    BY <2>1
  <2>3. /\ at' = [at EXCEPT ![i] = "none"]
        /\ \A j \in Clients : ev'[j] = IF j = i THEN "none" ELSE
              IF ev[j] = "live" /\ Entry(j) = Entry(i) THEN "detached" ELSE ev[j]
    BY <1>6 DEF Return, PopDone, Gone
  <2>4. \A j \in Clients : ev'[j] = "none"
    BY <2>2, <2>3
  <2>5. \A j \in Clients : at'[j] \notin {"got", "waiting"}
    BY <2>2, <2>3
  <2> QED
    BY <2>4, <2>5
<1>7. ASSUME NEW i \in Clients, AwaitStep(i), GetJob(i) \/ GotJob(i), Sleeps(i)
      PROVE  LoopInv'
  BY <1>7 DEF AwaitStep, Report, GetJob, GotJob, Sleeps, Register, Entry
<1>8. ASSUME NEW i \in Clients, AwaitStep(i), GetJob(i), Reads(i)
      PROVE  LoopInv'
  BY <1>8 DEF AwaitStep, Report, GetJob, Reads
<1>9. ASSUME NEW i \in Clients, AwaitStep(i), EventFires(i) \/ PollElapses(i)
      PROVE  LoopInv'
  BY <1>9 DEF AwaitStep, Report, EventFires, PollElapses
<1>10. ASSUME NEW i \in Clients, ReadRecord(i)
      PROVE  LoopInv'
  BY <1>10 DEF ReadRecord, Report, allVars, waitVars
<1>11. ASSUME NEW i \in Clients, AwaitRaises(i)
      PROVE  LoopInv'
  BY <1>11 DEF AwaitRaises, CallRaises, PopDone, Gone, Entry, allVars, waitVars
<1>12. ASSUME NEW n \in Hosts, WarmBegins(n)
      PROVE  LoopInv'
  BY <1>12 DEF WarmBegins, allVars, waitVars
<1>13. ASSUME NEW wait \in BOOLEAN, Gathered(wait)
      PROVE  LoopInv'
  BY <1>13 DEF Gathered, allVars, waitVars
<1>14. ASSUME Answer
      PROVE  LoopInv'
  BY <1>14 DEF Answer, allVars, waitVars
<1>15. ASSUME WarmOver
      PROVE  LoopInv'
  BY <1>15 DEF WarmOver
<1>16. ASSUME UNCHANGED everything
      PROVE  LoopInv'
  BY <1>16 DEF everything, warmVars, waitVars
<1>17. ASSUME QueueGoesOn
      PROVE  LoopInv'
  BY <1>17 DEF QueueGoesOn, QueueStep, WorkerSetsEvents, warmVars
<1> HIDE DEF LoopInv, CallInv, CallTypeOK, HostServes, EntriesOnHost, OnlyTurnLoops,
           EventsInLoop, InLoop, Turn, Settled, Outcomes, WaitInv, RequestInv, WaitTypeOK,
           RequestPlaced, HasJob, IInv, TypeOK
<1> QED
  BY <1>1, <1>2, <1>3, <1>4, <1>5, <1>6, <1>7, <1>8, <1>9, <1>10, <1>11, <1>12, <1>13, <1>14, <1>15, <1>16, <1>17, RequestCases
  DEF WarmNext, EntryStep, EntrySubmits, AwaitStep

(* What was read and not used yet. *)
LEMMA SeenStepInv ==
    ASSUME IInv, WaitInv, CallInv, [WarmNext]_everything
    PROVE  SeenStands'
<1> USE DEF SeenStands, CallInv, WaitInv, RequestInv, WaitTypeOK, HasJob
<1>1. ASSUME NEW i \in Clients, NEW o \in Outcomes, EntrySettles(i, o)
      PROVE  SeenStands'
  BY <1>1 DEF EntrySettles, Submitting, Report, allVars, waitVars
<1>2. ASSUME NEW i \in Clients, EntrySubmits(i), SubmitCreates(i, host, WarmKey[i])
      PROVE  SeenStands'
  <2>1. [Next]_vars
    BY <1>2 DEF SubmitCreates, Next, EntrySubmits, Submitting, HostServes, IInv, TypeOK
  <2> QED
    BY <1>2, <2>1, EndedStays DEF SubmitCreates, Coalesce, Arrives
<1>3. ASSUME NEW i \in Clients, EntrySubmits(i), SubmitConflicts(i, host, WarmKey[i])
      PROVE  SeenStands'
  BY <1>3 DEF EntrySubmits, Submitting, Report, SubmitConflicts, Coalesce, Arrives
<1>4. ASSUME NEW i \in Clients, EntrySubmits(i), SelectActive(i) \/ SelectLatest(i)
      PROVE  SeenStands'
  BY <1>4 DEF EntrySubmits, Submitting, Report, SelectActive, SelectLatest, Coalesce
<1>5. ASSUME NEW i \in Clients, SubmitRaises(i)
      PROVE  SeenStands'
  BY <1>5 DEF SubmitRaises, Submitting, CallRaises, PopDone, Gone, Entry, allVars, waitVars
<1>6. ASSUME NEW i \in Clients, AwaitStep(i), GetJob(i) \/ GotJob(i), Return(i)
      PROVE  SeenStands'
  BY <1>6 DEF AwaitStep, Report, Reported, GetJob, GotJob, Return, PopDone, Gone, Entry
<1>7. ASSUME NEW i \in Clients, AwaitStep(i), GetJob(i) \/ GotJob(i), Sleeps(i)
      PROVE  SeenStands'
  BY <1>7 DEF AwaitStep, Report, GetJob, GotJob, Sleeps, Register, Entry
<1>8. ASSUME NEW i \in Clients, AwaitStep(i), GetJob(i), Reads(i)
      PROVE  SeenStands'
  BY <1>8 DEF AwaitStep, Report, GetJob, Reads
<1>9. ASSUME NEW i \in Clients, AwaitStep(i), EventFires(i) \/ PollElapses(i)
      PROVE  SeenStands'
  BY <1>9 DEF AwaitStep, Report, EventFires, PollElapses
<1>10. ASSUME NEW i \in Clients, ReadRecord(i)
      PROVE  SeenStands'
  BY <1>10 DEF ReadRecord, Report, allVars, waitVars
<1>11. ASSUME NEW i \in Clients, AwaitRaises(i)
      PROVE  SeenStands'
  BY <1>11 DEF AwaitRaises, CallRaises, PopDone, Gone, Entry, allVars, waitVars
<1>12. ASSUME NEW n \in Hosts, WarmBegins(n)
      PROVE  SeenStands'
  BY <1>12 DEF WarmBegins, allVars, waitVars
<1>13. ASSUME NEW wait \in BOOLEAN, Gathered(wait)
      PROVE  SeenStands'
  BY <1>13 DEF Gathered, allVars, waitVars
<1>14. ASSUME Answer
      PROVE  SeenStands'
  BY <1>14 DEF Answer, allVars, waitVars
<1>15. ASSUME WarmOver
      PROVE  SeenStands'
  BY <1>15 DEF WarmOver
<1>16. ASSUME UNCHANGED everything
      PROVE  SeenStands'
  BY <1>16 DEF everything, warmVars, waitVars
<1>17. ASSUME QueueGoesOn
      PROVE  SeenStands'
  BY <1>17, EndedStays DEF QueueGoesOn, QueueStep
<1> HIDE DEF SeenStands, CallInv, WaitInv, RequestInv, WaitTypeOK, HasJob
<1> QED
  BY <1>1, <1>2, <1>3, <1>4, <1>5, <1>6, <1>7, <1>8, <1>9, <1>10, <1>11, <1>12, <1>13, <1>14, <1>15, <1>16, <1>17, RequestCases
  DEF WarmNext, EntryStep, EntrySubmits, AwaitStep

(* The end of the call leaves no event behind: nobody was in the loop. *)
LEMMA WarmOverStep ==
    ASSUME IInv, WaitInv, CallInv, WarmOver
    PROVE  WaitInv'
<1> USE DEF WaitInv, WarmOver
<1>1. RequestInv'
  BY DEF RequestInv, WaitTypeOK, RequestPlaced, HasJob, Statuses
<1>2. AnswerInv'
  BY DEF AnswerInv, BeforeHadEnded, MetIsKept, AnswerNotStale, ActiveFor,
         ActiveJobs
<1>3. EventInv'
  BY DEF EventInv, SleeperHasEvent, NoDoneLeak, CallInv, OnlyTurnLoops, Turn
<1>4. OneNodeInv'
  BY DEF OneNodeInv, OneNodeRequests, NoMissedDone
<1> QED
  BY <1>1, <1>2, <1>3, <1>4

LEMMA WaitStepInv ==
    ASSUME IInv, WaitInv, [WaitNext]_allVars
    PROVE  WaitInv'
  BY RequestStepInv, AnswerStepInv, EventStepInv, OneNodeStepInv DEF WaitInv

LEMMA WarmQueueStep ==
    ASSUME IInv, CallInv, [WarmNext]_everything
    PROVE  [Next]_vars
<1>1. WarmOver => UNCHANGED vars
  BY DEF WarmOver
<1> QED
  BY <1>1, WarmStepIsWaitStep, WaitStepIsQueueStep

-----------------------------------------------------------------------------
(* The invariants of the queue and of its requests hold under a warm call, *)
(* whose end forgets all of its requests at once: no event is left behind, *)
(* and an entry is given a job that was over only as AnswerNotStale says.  *)
THEOREM WarmInvariance == WarmSpec => [](IInv /\ WaitInv /\ CallInv)
<1>1. WarmInit => IInv /\ WaitInv /\ CallInv
  BY InitIInv, WaitInitInv, WarmInitInv DEF WarmInit, WaitInit
<1>2. IInv /\ WaitInv /\ CallInv /\ [WarmNext]_everything => (IInv /\ WaitInv /\ CallInv)'
  <2> SUFFICES ASSUME IInv, WaitInv, CallInv, [WarmNext]_everything
               PROVE  IInv' /\ WaitInv' /\ CallInv'
    OBVIOUS
  <2>1. IInv'
    BY WarmQueueStep, NextIInv
  <2>2. WaitInv'
    BY WarmStepIsWaitStep, WaitStepInv, WarmOverStep
  <2>3. CallInv'
    BY EntryStepInv, LoopStepInv, SeenStepInv DEF CallInv, EntryInv, LoopInv
  <2> QED
    BY <2>1, <2>2, <2>3
<1> QED
  BY <1>1, <1>2, PTL DEF WarmSpec

(* Every variable of the call and of its requests keeps its type. *)
THEOREM WarmTypeCorrect == WarmSpec => []WarmTypeOK
<1>1. WaitInv /\ CallInv => WarmTypeOK
  BY DEF WaitInv, RequestInv, CallInv, CallTypeOK, WarmTypeOK
<1> QED
  BY WarmInvariance, <1>1, PTL

(* A warm call changes nothing of the queue but by submitting. *)
THEOREM WarmImplementsQueue == WarmSpec => Spec
<1>1. WarmInit => Init
  BY DEF WarmInit, WaitInit
<1>2. IInv /\ WaitInv /\ CallInv /\ [WarmNext]_everything => [Next]_vars
  BY WarmQueueStep
<1> QED
  BY <1>1, <1>2, WarmInvariance, PTL DEF WarmSpec, Spec

LEMMA ReportStep ==
    ASSUME IInv, WaitInv, CallInv, [WarmNext]_everything, NEW i \in Clients,
           outcome[i] = "queued", outcome'[i] \in {"landed", "error"}
    PROVE  status[cjob[i]] \in {"done", "error"}
<1> USE DEF CallInv, CallTypeOK
<1>1. CASE AwaitStep(i)
  <2>1. at'[i] = "none" /\ JobSeen(i) \in {"done", "error"}
    BY <1>1 DEF AwaitStep, Report, Reported
  <2>2. GotJob(i) \/ (~HaMode /\ GetJob(i))
    BY <1>1, <2>1 DEF AwaitStep, GetJob, EventFires, PollElapses, WaitInv, RequestInv, WaitTypeOK
  <2>3. GotJob(i) => at[i] = "got"
    BY DEF GotJob
  <2> QED
    BY <2>1, <2>2, <2>3 DEF JobSeen, SeenStands
<1>2. ASSUME NEW j \in Clients, j # i, AwaitStep(j) PROVE FALSE
  BY <1>2 DEF AwaitStep, Report
<1>3. ASSUME NEW j \in Clients,
             EntrySubmits(j) \/ ReadRecord(j) \/ \E o \in Outcomes : EntrySettles(j, o)
      PROVE  FALSE
  BY <1>3 DEF EntrySubmits, ReadRecord, EntrySettles, Submitting, Report
<1>4. ASSUME NEW j \in Clients, SubmitRaises(j) \/ AwaitRaises(j) PROVE FALSE
  BY <1>4 DEF SubmitRaises, AwaitRaises
<1>5. CASE QueueGoesOn \/ WarmOver
  BY <1>5 DEF QueueGoesOn, WarmOver, warmVars
<1>6. ASSUME \/ Answer \/ UNCHANGED everything
             \/ (\E n \in Hosts : WarmBegins(n)) \/ \E wait \in BOOLEAN : Gathered(wait)
      PROVE  FALSE
  BY <1>6 DEF Answer, WarmBegins, Gathered, everything, warmVars
<1> QED
  BY <1>1, <1>2, <1>3, <1>4, <1>5, <1>6 DEF WarmNext, EntryStep

(* warm_await reports an entry as done or in error only for a job that a   *)
(* worker ended, however late the status it read is used.                  *)
THEOREM ReportsEndedJobsHolds == WarmSpec => ReportsEndedJobs
<1>1. IInv /\ WaitInv /\ CallInv /\ [WarmNext]_everything =>
        [\A i \in Clients : outcome[i] = "queued" /\ outcome'[i] \in {"landed", "error"}
            => status[cjob[i]] \in {"done", "error"}]_everything
  BY ReportStep
<1> QED
  BY WarmInvariance, <1>1, PTL DEF WarmSpec, ReportsEndedJobs

=============================================================================
