--------------------------- MODULE JobWaitProofs ---------------------------
(***************************************************************************)
(* Theorems about JobWait for any number of processes, workers, requests,  *)
(* keys and jobs.  The composition implements the queue, so what           *)
(* RenderQueueProofs shows of the queue also holds under waiting requests; *)
(* an answer is a job that had ended before the request arrived only when  *)
(* the stamps of two jobs tie or are out of order (AnswerNotStale); no done *)
(* event is left behind (NoDoneLeak); and on one node no request sleeps on *)
(* an event nobody will set (NoMissedDone).                                *)
(***************************************************************************)
EXTENDS JobWait, RenderQueueProofs

(* A request runs in a live process, and what it waits for is in the table. *)
RequestPlaced == \A c \in Clients :
    at[c] # "none" => on[c] \in up /\ want[c] \in Keys
HasJob == \A c \in Clients :
    at[c] \in {"get", "got", "waiting"} => cjob[c] \in JobIds /\ status[cjob[c]] # "absent"

(* What PgStore looks up after a conflict: the job its insert met is still *)
(* in the table, and has ended by the time the second select runs.         *)
BeforeHadEnded == \A c \in Clients : \A j \in before[c] : status[j] \in Terminal
MetIsKept == \A c \in Clients : at[c] \in {"active", "latest"} =>
    /\ met[c] \in JobIds /\ status[met[c]] # "absent" /\ jobKey[met[c]] = want[c]
    /\ at[c] = "latest" => status[met[c]] \in Terminal

SleeperHasEvent == \A c \in Clients : at[c] = "waiting" => ev[c] # "none"
OneNodeRequests == ~HaMode => \A c \in Clients : at[c] \notin {"active", "latest", "got"}

RequestInv == WaitTypeOK /\ RequestPlaced /\ HasJob
AnswerInv == BeforeHadEnded /\ MetIsKept /\ AnswerNotStale
EventInv == SleeperHasEvent /\ NoDoneLeak
OneNodeInv == OneNodeRequests /\ NoMissedDone
WaitInv == RequestInv /\ AnswerInv /\ EventInv /\ OneNodeInv

USE NodeOfType, ModesType, NoneIsNothing DEF vars

-----------------------------------------------------------------------------
(* The queue below the requests *)

(* No request changes the queue except by submitting. *)
LEMMA WaitStepIsQueueStep == [WaitNext]_allVars => [Next]_vars
<1> SUFFICES ASSUME [WaitNext]_allVars PROVE [Next]_vars
  OBVIOUS
<1>1. ASSUME NEW c \in Clients, NEW n \in Nodes, NEW k \in Keys, SubmitCreates(c, n, k)
      PROVE  Next
  BY <1>1 DEF SubmitCreates, Next
<1>2. ASSUME NEW c \in Clients, NEW n \in Nodes, NEW k \in Keys, SubmitConflicts(c, n, k)
      PROVE  UNCHANGED vars
  BY <1>2 DEF SubmitConflicts
<1>3. ASSUME NEW c \in Clients, RequestStep(c)
      PROVE  UNCHANGED vars
  BY <1>3 DEF RequestStep, SelectActive, SelectLatest, GetJob, GotJob, EventFires,
              PollElapses, CallRaises
<1>4. CASE UNCHANGED allVars
  BY <1>4 DEF allVars
<1> HIDE DEF vars
<1> QED
  BY <1>1, <1>2, <1>3, <1>4 DEF WaitNext, QueueStep

(* Waiting requests add nothing to the queue: every theorem about Spec is  *)
(* one about WaitSpec, NoLostWake and OneRenderPerKey among them.          *)
THEOREM WaitImplementsQueue == WaitSpec => Spec
<1>1. WaitInit => Init
  BY DEF WaitInit
<1> QED
  BY <1>1, WaitStepIsQueueStep, PTL DEF WaitSpec, Spec

(* What a step can do to the jobs table: jobs only go forward, and one is   *)
(* inserted, for a key without an active one.                              *)
JobsGoForward ==
    /\ \A j \in JobIds : status[j] \in Terminal => status'[j] \in Terminal
    /\ \A j \in JobIds : status[j] # "absent" =>
          status'[j] # "absent" /\ jobKey'[j] = jobKey[j]
    /\ \A j \in JobIds : status'[j] \in Active => status[j] \in Active \/ Inserted(j)
    /\ \A j \in JobIds : Inserted(j) => jobKey'[j] \in Keys /\ ActiveFor(jobKey'[j]) = {}
    /\ \A i, j \in JobIds : Inserted(i) /\ Inserted(j) => i = j

LEMMA JobsAdvance == ASSUME IInv, [Next]_vars PROVE JobsGoForward
<1>1. [Board!Next]_(Board!boardVars)
  BY BoardStep
<1> USE DEF JobsGoForward, IInv, TypeOK, Terminal, Active, Statuses, Inserted, ActiveFor, ActiveJobs,
            Board!Active
<1>2. ASSUME NEW i \in JobIds, NEW k \in Keys, Board!Insert(i, k)
      PROVE  JobsGoForward
  BY <1>2 DEF Board!Insert
<1>3. ASSUME NEW i \in JobIds, Board!Start(i)
      PROVE  JobsGoForward
  BY <1>3 DEF Board!Start
<1>4. ASSUME NEW i \in JobIds, NEW s \in {"done", "error"}, Board!Report(i, s)
      PROVE  JobsGoForward
  BY <1>4 DEF Board!Report
<1>5. ASSUME NEW J \in SUBSET JobIds, Board!Interrupt(J)
      PROVE  JobsGoForward
  BY <1>5 DEF Board!Interrupt
<1>6. CASE UNCHANGED Board!boardVars
  BY <1>6 DEF Board!boardVars
<1> QED
  BY <1>1, <1>2, <1>3, <1>4, <1>5, <1>6 DEF Board!Next

(* On one node a job ends with the hub down, or by a worker that lets go   *)
(* of it in the same step.                                                 *)
LEMMA JobEnds ==
    ASSUME ~HaMode, IInv, [Next]_vars,
           NEW j \in JobIds, status[j] \in Active, status'[j] \notin Active
    PROVE  up = {} \/ \E w \in Workers : held[w] = j /\ held'[w] = None
<1> USE DEF IInv, TypeOK, Active
<1>1. ASSUME NEW n \in Nodes, Boot(n) PROVE up = {}
  BY <1>1, SingleNodeIsAlone DEF Boot
<1>2. ASSUME NEW w \in Workers, Finish(w) \/ FinishError(w)
      PROVE  held[w] = j /\ held'[w] = None
  BY <1>2 DEF Finish, FinishError, finish_job, ReplyLost
<1>3. ASSUME NEW w \in Workers, Claim(w) PROVE FALSE
  BY <1>3 DEF Claim
<1>4. ASSUME NEW n \in Nodes, NEW k \in Keys, Submit(n, k) PROVE FALSE
  BY <1>4 DEF Submit
<1>5. ASSUME NEW n \in Nodes, Crash(n) \/ Reap(n) PROVE FALSE
  BY <1>5 DEF Crash, Reap, jobVars
<1>6. ASSUME NEW w \in Workers,
             \/ ClaimNone(w) \/ ClearWake(w) \/ ClaimRaises(w) \/ Woken(w)
             \/ IdlePoll(w) \/ RenderDone(w) \/ ExecFails(w) \/ FinishRaises(w)
      PROVE  FALSE
  BY <1>6 DEF ClaimNone, ClearWake, ClaimRaises, Woken, IdlePoll, RenderDone,
              ExecFails, FinishRaises, jobVars
<1>7. CASE DbDown \/ DbUp \/ Tick \/ UNCHANGED vars
  BY <1>7 DEF DbDown, DbUp, Tick, jobVars
<1> QED
  BY <1>1, <1>2, <1>3, <1>4, <1>5, <1>6, <1>7 DEF Next, WorkerStep

(* A job in the table keeps its stamp. *)
LEMMA StampsStay ==
    ASSUME Stamped, created \in [JobIds -> Stamps \cup {0}]
    PROVE  /\ created' \in [JobIds -> Stamps \cup {0}]
           /\ \A j \in JobIds : status[j] # "absent" => created'[j] = created[j]
  BY DEF Stamped, Inserted

LEMMA SubmitGives ==
    ASSUME IInv, NEW n \in Nodes, NEW k \in Keys, Submit(n, k)
    PROVE  /\ \A j \in JobIds : Inserted(j) => jobKey'[j] = k
           /\ n \in up /\ UNCHANGED up
           /\ \A j \in JobIds : status[j] \in Active => status'[j] \in Active
<1>1. \A i \in JobIds : status[i] \in Active => status'[i] \in Active
  BY DEF Submit, Active, IInv, TypeOK
<1>2. \A j \in JobIds : Inserted(j) => jobKey'[j] = k
  BY DEF Submit, Inserted, IInv, TypeOK
<1> QED
  BY <1>1, <1>2 DEF Submit

-----------------------------------------------------------------------------
(* One step of the composition *)

(* The ways out of get_job: answer, wait for the event, or (PgStore) a     *)
(* suspension before either.                                               *)
Sleeps(c) == /\ Register(c) /\ at' = [at EXCEPT ![c] = "waiting"]
             /\ UNCHANGED <<on, want, cjob, seen, before, met>>
Reads(c) == /\ at' = [at EXCEPT ![c] = "got"]
            /\ seen' = [seen EXCEPT ![c] = status[cjob[c]]]
            /\ UNCHANGED <<on, want, cjob, ev, done, before, met>>

LEMMA RequestCases ==
    ASSUME NEW c \in Clients, GetJob(c) \/ GotJob(c)
    PROVE  \/ Return(c) \/ Sleeps(c)
           \/ GetJob(c) /\ Reads(c)
  BY DEF GetJob, GotJob, Decide, Sleeps, Reads

LEMMA LoopSteps ==
    ASSUME NEW c \in Clients, GetJob(c) \/ GotJob(c)
    PROVE  at[c] \in {"get", "got"} /\ UNCHANGED vars
<1> USE DEF vars
<1>1. CASE GetJob(c)
  BY <1>1 DEF GetJob
<1>2. CASE GotJob(c)
  BY <1>2 DEF GotJob
<1> QED
  BY <1>1, <1>2

(* Types: a request runs in a live process and waits for a job of the table. *)
LEMMA RequestStepInv ==
    ASSUME IInv, WaitInv, [WaitNext]_allVars
    PROVE  RequestInv'
<1> USE DEF WaitInv, RequestInv, WaitTypeOK, RequestPlaced, HasJob, AnswerInv, IInv, TypeOK, Active, Statuses
<1>1. ASSUME NEW c \in Clients, NEW n \in Nodes, NEW k \in Keys, SubmitConflicts(c, n, k)
     PROVE  RequestInv'
  <2>1. PICK j \in ActiveFor(k) :
           /\ met' = [met EXCEPT ![c] = j]
           /\ IF HaMode THEN at' = [at EXCEPT ![c] = "active"] /\ UNCHANGED cjob
                        ELSE Coalesce(c, j)
    BY <1>1 DEF SubmitConflicts
  <2>2. j \in JobIds /\ status[j] # "absent"
    BY <2>1 DEF ActiveFor, ActiveJobs
  <2>3. /\ n \in up /\ EndedJobs \in SUBSET JobIds
        /\ on' = [on EXCEPT ![c] = n] /\ want' = [want EXCEPT ![c] = k]
        /\ before' = [before EXCEPT ![c] = EndedJobs]
        /\ UNCHANGED <<seen, ev, done, created, vars>>
    BY <1>1 DEF SubmitConflicts, Arrives, EndedJobs
  <2>4. WaitTypeOK'
    BY <2>1, <2>2, <2>3 DEF Coalesce
  <2>5. RequestPlaced'
    BY <2>1, <2>3 DEF Coalesce
  <2>6. HasJob'
    BY <2>1, <2>2, <2>3 DEF Coalesce
  <2> QED
    BY <2>4, <2>5, <2>6
<1>2. ASSUME NEW c \in Clients, SelectActive(c)
     PROVE  RequestInv'
  BY <1>2 DEF SelectActive, Coalesce, ActiveFor, ActiveJobs
<1>3. ASSUME NEW c \in Clients, SelectLatest(c)
     PROVE  RequestInv'
  BY <1>3 DEF SelectLatest, LatestJobs, RowsFor, Coalesce
<1>4. ASSUME NEW c \in Clients, EventFires(c)
     PROVE  RequestInv'
  BY <1>4 DEF EventFires
<1>5. ASSUME NEW c \in Clients, PollElapses(c)
     PROVE  RequestInv'
  BY <1>5 DEF PollElapses
<1>6. ASSUME NEW c \in Clients, CallRaises(c)
     PROVE  RequestInv'
  BY <1>6 DEF CallRaises, PopDone, Gone, Entry
<1>7. ASSUME NEW c \in Clients, GetJob(c) \/ GotJob(c), Return(c)
     PROVE  RequestInv'
  BY <1>7 DEF GetJob, GotJob, Return, PopDone, Gone, Entry
<1>8. ASSUME NEW c \in Clients, GetJob(c) \/ GotJob(c), Sleeps(c)
     PROVE  RequestInv'
  BY <1>8 DEF GetJob, GotJob, Sleeps, Register, Entry
<1>9. ASSUME NEW c \in Clients, GetJob(c), Reads(c)
     PROVE  RequestInv'
  BY <1>9 DEF GetJob, Reads
<1>10. CASE UNCHANGED allVars
  BY <1>10 DEF allVars, waitVars, ActiveFor, ActiveJobs, Entry, InLoop
<1>11. ASSUME NEW c \in Clients, NEW n \in Nodes, NEW k \in Keys, SubmitCreates(c, n, k)
     PROVE  RequestInv'
  <2>1. created' \in [JobIds -> Stamps \cup {0}]
    BY <1>11, StampsStay DEF SubmitCreates
  <2>2. JobsGoForward
    BY <1>11, JobsAdvance DEF SubmitCreates, Next
  <2>3. n \in up /\ UNCHANGED up
    BY <1>11, SubmitGives DEF SubmitCreates
  <2> QED
    BY <1>11, <2>1, <2>2, <2>3 DEF SubmitCreates, Coalesce, Arrives, EndedJobs, Inserted, JobsGoForward
<1>12. CASE QueueStep
  <2>1. created' \in [JobIds -> Stamps \cup {0}]
    BY <1>12, StampsStay DEF QueueStep
  <2>2. JobsGoForward
    BY <1>12, JobsAdvance DEF QueueStep
  <2> QED
    BY <1>12, <2>1, <2>2 DEF QueueStep, WorkerSetsEvents, JobsGoForward
<1> HIDE DEF WaitInv, RequestInv, WaitTypeOK, RequestPlaced, HasJob, AnswerInv, IInv
<1> QED
  BY <1>1, <1>2, <1>3, <1>4, <1>5, <1>6, <1>7, <1>8, <1>9, <1>10, <1>11, <1>12, RequestCases DEF WaitNext, RequestStep

(* Answers: what a request is given is no older than created_at can tell. *)
LEMMA AnswerStepInv ==
    ASSUME IInv, WaitInv, [WaitNext]_allVars
    PROVE  AnswerInv'
<1> USE DEF WaitInv, AnswerInv, BeforeHadEnded, MetIsKept, AnswerNotStale, RequestInv,
           WaitTypeOK, RequestPlaced, HasJob, IInv, TypeOK, Active, Terminal, ActiveFor, ActiveJobs
<1>1. ASSUME NEW c \in Clients, NEW n \in Nodes, NEW k \in Keys, SubmitConflicts(c, n, k)
     PROVE  AnswerInv'
  BY <1>1 DEF SubmitConflicts, Arrives, Coalesce, EndedJobs, ActiveFor, ActiveJobs
<1>2. ASSUME NEW c \in Clients, SelectActive(c)
     PROVE  AnswerInv'
  <2>1. CASE ActiveFor(want[c]) = {}
    <3>1. status[met[c]] \in Terminal
      BY <1>2, <2>1 DEF SelectActive, Statuses
    <3> QED
      BY <1>2, <2>1, <3>1 DEF SelectActive
  <2>2. ASSUME NEW j \in ActiveFor(want[c]), Coalesce(c, j)
        PROVE  AnswerInv'
    <3>1. j \in JobIds /\ jobKey[j] = want[c] /\ j \notin before[c]
      OBVIOUS
    <3> QED
      BY <1>2, <2>2, <3>1 DEF SelectActive, Coalesce
  <2> QED
    BY <1>2, <2>1, <2>2 DEF SelectActive
<1>3. ASSUME NEW c \in Clients, SelectLatest(c)
     PROVE  AnswerInv'
  BY <1>3 DEF SelectLatest, LatestJobs, RowsFor, Coalesce
<1>4. ASSUME NEW c \in Clients, EventFires(c)
     PROVE  AnswerInv'
  BY <1>4 DEF EventFires
<1>5. ASSUME NEW c \in Clients, PollElapses(c)
     PROVE  AnswerInv'
  BY <1>5 DEF PollElapses
<1>6. ASSUME NEW c \in Clients, CallRaises(c)
     PROVE  AnswerInv'
  BY <1>6 DEF CallRaises, PopDone, Gone, Entry
<1>7. ASSUME NEW c \in Clients, GetJob(c) \/ GotJob(c), Return(c)
     PROVE  AnswerInv'
  BY <1>7 DEF GetJob, GotJob, Return, PopDone, Gone, Entry
<1>8. ASSUME NEW c \in Clients, GetJob(c) \/ GotJob(c), Sleeps(c)
     PROVE  AnswerInv'
  BY <1>8 DEF GetJob, GotJob, Sleeps, Register, Entry
<1>9. ASSUME NEW c \in Clients, GetJob(c), Reads(c)
     PROVE  AnswerInv'
  BY <1>9 DEF GetJob, Reads
<1>10. CASE UNCHANGED allVars
  BY <1>10 DEF allVars, waitVars, ActiveFor, ActiveJobs, Entry, InLoop
<1>11. ASSUME NEW c \in Clients, NEW n \in Nodes, NEW k \in Keys, SubmitCreates(c, n, k)
     PROVE  AnswerInv'
  <2>1. \A j \in JobIds : status[j] # "absent" => created'[j] = created[j]
    BY <1>11, StampsStay DEF SubmitCreates
  <2>2. JobsGoForward
    BY <1>11, JobsAdvance DEF SubmitCreates, Next
  <2>3. \A j \in JobIds : Inserted(j) => jobKey'[j] = k
    BY <1>11, SubmitGives DEF SubmitCreates
  <2> QED
    BY <1>11, <2>1, <2>2, <2>3 DEF SubmitCreates, Coalesce, Arrives, EndedJobs, Inserted, JobsGoForward
<1>12. CASE QueueStep
  <2>1. \A j \in JobIds : status[j] # "absent" => created'[j] = created[j]
    BY <1>12, StampsStay DEF QueueStep
  <2>2. JobsGoForward
    BY <1>12, JobsAdvance DEF QueueStep
  <2>3. BeforeHadEnded'
    BY <1>12, <2>2 DEF QueueStep, JobsGoForward
  <2>4. MetIsKept'
    BY <1>12, <2>2 DEF QueueStep, JobsGoForward
  <2>5. AnswerNotStale'
    <3> SUFFICES ASSUME NEW c \in Clients, at'[c] \in {"get", "got", "waiting"}
                 PROVE  /\ cjob'[c] \in JobIds /\ jobKey'[cjob'[c]] = want'[c]
                        /\ cjob'[c] \in before'[c] =>
                              /\ met'[c] \in JobIds /\ status'[met'[c]] \in Terminal
                              /\ created'[met'[c]] <= created'[cjob'[c]]
      BY DEF AnswerNotStale
    <3>1. /\ at'[c] = at[c] /\ want'[c] = want[c] /\ cjob'[c] = cjob[c]
          /\ before'[c] = before[c] /\ met'[c] = met[c]
      BY <1>12 DEF QueueStep
    <3>2. /\ cjob[c] \in JobIds /\ status[cjob[c]] # "absent" /\ jobKey[cjob[c]] = want[c]
          /\ cjob[c] \in before[c] =>
                met[c] \in JobIds /\ status[met[c]] \in Terminal /\ created[met[c]] <= created[cjob[c]]
      BY <3>1
    <3>3. jobKey'[cjob[c]] = jobKey[cjob[c]] /\ created'[cjob[c]] = created[cjob[c]]
      BY <2>1, <2>2, <3>2 DEF JobsGoForward
    <3>4. met[c] \in JobIds /\ status[met[c]] \in Terminal =>
             status'[met[c]] \in Terminal /\ created'[met[c]] = created[met[c]]
      BY <2>1, <2>2 DEF JobsGoForward
    <3> QED
      BY <3>1, <3>2, <3>3, <3>4
  <2> QED
    BY <2>3, <2>4, <2>5
<1> HIDE DEF WaitInv, AnswerInv, BeforeHadEnded, MetIsKept, AnswerNotStale, RequestInv,
           WaitTypeOK, RequestPlaced, HasJob, IInv
<1> QED
  BY <1>1, <1>2, <1>3, <1>4, <1>5, <1>6, <1>7, <1>8, <1>9, <1>10, <1>11, <1>12, RequestCases DEF WaitNext, RequestStep

(* Events: who takes a registered event out of the loop takes its entry along. *)
LEMMA EventStepInv ==
    ASSUME IInv, WaitInv, [WaitNext]_allVars
    PROVE  EventInv'
<1> USE DEF WaitInv, EventInv, SleeperHasEvent, NoDoneLeak, InLoop, Entry, RequestInv,
           WaitTypeOK, RequestPlaced, IInv, TypeOK
<1>1. ASSUME NEW c \in Clients, NEW n \in Nodes, NEW k \in Keys, SubmitConflicts(c, n, k)
     PROVE  EventInv'
  BY <1>1 DEF SubmitConflicts, Arrives, Coalesce, EndedJobs, ActiveFor, ActiveJobs
<1>2. ASSUME NEW c \in Clients, SelectActive(c)
     PROVE  EventInv'
  BY <1>2 DEF SelectActive, Coalesce, ActiveFor, ActiveJobs
<1>3. ASSUME NEW c \in Clients, SelectLatest(c)
     PROVE  EventInv'
  BY <1>3 DEF SelectLatest, LatestJobs, RowsFor, Coalesce
<1>4. ASSUME NEW c \in Clients, EventFires(c)
     PROVE  EventInv'
  BY <1>4 DEF EventFires
<1>5. ASSUME NEW c \in Clients, PollElapses(c)
     PROVE  EventInv'
  BY <1>5 DEF PollElapses
<1>6. ASSUME NEW c \in Clients, CallRaises(c)
     PROVE  EventInv'
  BY <1>6 DEF CallRaises, PopDone, Gone, Entry
<1>7. ASSUME NEW c \in Clients, GetJob(c) \/ GotJob(c)
     PROVE  EventInv'
  <2>1. at[c] \in {"get", "got"}
    BY <1>7, LoopSteps
  <2>2. UNCHANGED vars
    BY <1>7, LoopSteps
  <2>3. CASE Return(c)
    BY <2>1, <2>2, <2>3 DEF Return, PopDone, Gone
  <2>4. CASE Sleeps(c)
    BY <2>1, <2>2, <2>4 DEF Sleeps, Register
  <2>5. CASE GetJob(c) /\ Reads(c)
    BY <2>1, <2>2, <2>5 DEF Reads
  <2> QED
    BY <1>7, <2>3, <2>4, <2>5, RequestCases
<1>8. CASE UNCHANGED allVars
  BY <1>8 DEF allVars, waitVars, ActiveFor, ActiveJobs, Entry, InLoop
<1>9. ASSUME NEW c \in Clients, NEW n \in Nodes, NEW k \in Keys, SubmitCreates(c, n, k)
     PROVE  EventInv'
  BY <1>9 DEF SubmitCreates, Coalesce, Arrives
<1>10. CASE QueueStep
  BY <1>10 DEF QueueStep, WorkerSetsEvents
<1> HIDE DEF WaitInv, EventInv, SleeperHasEvent, NoDoneLeak, InLoop, Entry, RequestInv,
           WaitTypeOK, RequestPlaced, IInv
<1> QED
  BY <1>1, <1>2, <1>3, <1>4, <1>5, <1>6, <1>7, <1>8, <1>9, <1>10 DEF WaitNext, RequestStep

(* One node: the worker that ends a job sets the events registered for it. *)
LEMMA OneNodeStepInv ==
    ASSUME IInv, WaitInv, [WaitNext]_allVars
    PROVE  OneNodeInv'
<1> USE DEF WaitInv, OneNodeInv, OneNodeRequests, NoMissedDone, RequestInv, HasJob, Entry,
           WaitTypeOK, RequestPlaced, IInv, TypeOK, Active, Terminal, Statuses
<1>1. ASSUME NEW c \in Clients, NEW n \in Nodes, NEW k \in Keys, SubmitConflicts(c, n, k)
     PROVE  OneNodeInv'
  BY <1>1 DEF SubmitConflicts, Arrives, Coalesce, EndedJobs, ActiveFor, ActiveJobs
<1>2. ASSUME NEW c \in Clients, SelectActive(c)
     PROVE  OneNodeInv'
  BY <1>2 DEF SelectActive, Coalesce, ActiveFor, ActiveJobs
<1>3. ASSUME NEW c \in Clients, SelectLatest(c)
     PROVE  OneNodeInv'
  BY <1>3 DEF SelectLatest, LatestJobs, RowsFor, Coalesce
<1>4. ASSUME NEW c \in Clients, EventFires(c)
     PROVE  OneNodeInv'
  BY <1>4 DEF EventFires
<1>5. ASSUME NEW c \in Clients, PollElapses(c)
     PROVE  OneNodeInv'
  BY <1>5 DEF PollElapses
<1>6. ASSUME NEW c \in Clients, CallRaises(c)
     PROVE  OneNodeInv'
  BY <1>6 DEF CallRaises, PopDone, Gone, Entry
<1>7. ASSUME NEW c \in Clients, GetJob(c)
     PROVE  OneNodeInv'
  BY <1>7 DEF GetJob, Decide, Register, Return, PopDone, Gone, Entry
<1>8. ASSUME NEW c \in Clients, GotJob(c)
     PROVE  OneNodeInv'
  BY <1>8 DEF GotJob, Decide, Register, Return, PopDone, Gone, Entry
<1>9. CASE UNCHANGED allVars
  BY <1>9 DEF allVars, waitVars, ActiveFor, ActiveJobs, Entry, InLoop
<1>10. ASSUME NEW c \in Clients, NEW n \in Nodes, NEW k \in Keys, SubmitCreates(c, n, k)
     PROVE  OneNodeInv'
  <2>1. \A j \in JobIds : status[j] \in Active => status'[j] \in Active
    BY <1>10, SubmitGives DEF SubmitCreates
  <2> QED
    BY <1>10, <2>1 DEF SubmitCreates, Coalesce, Arrives
<1>11. CASE QueueStep
  <2>1. OneNodeRequests'
    BY <1>11 DEF QueueStep
  <2>2. SUFFICES ASSUME ~HaMode, NEW c \in Clients, at'[c] = "waiting", ev'[c] = "live",
                        status'[cjob'[c]] \notin Active
                 PROVE  FALSE
    BY <2>1
  <2>3. /\ at[c] = "waiting" /\ ev[c] = "live" /\ cjob'[c] = cjob[c]
        /\ Entry(c) \notin LeftByWorker
    BY <1>11, <2>2 DEF QueueStep, WorkerSetsEvents
  <2>4. cjob[c] \in JobIds /\ status[cjob[c]] \in Active /\ on[c] \in up
    BY <2>2, <2>3
  <2>5. PICK w \in Workers : held[w] = cjob[c] /\ held'[w] = None
    BY <1>11, <2>2, <2>3, <2>4, JobEnds DEF QueueStep
  <2>6. NodeOf[w] = on[c]
    BY <2>2, <2>4, SingleNodeIsAlone
  <2> QED
    BY <2>3, <2>4, <2>5, <2>6 DEF LeftByWorker
<1> HIDE DEF WaitInv, OneNodeInv, OneNodeRequests, NoMissedDone, RequestInv, HasJob, Entry,
           WaitTypeOK, RequestPlaced, IInv
<1> QED
  BY <1>1, <1>2, <1>3, <1>4, <1>5, <1>6, <1>7, <1>8, <1>9, <1>10, <1>11 DEF WaitNext, RequestStep

-----------------------------------------------------------------------------
LEMMA WaitInitInv == WaitInit => WaitInv
  BY DEF WaitInit, Init, WaitInv, RequestInv, WaitTypeOK, RequestPlaced, HasJob, Statuses,
         AnswerInv, BeforeHadEnded, MetIsKept, AnswerNotStale, ActiveFor,
         ActiveJobs, Active, EventInv, SleeperHasEvent, NoDoneLeak, OneNodeInv,
         OneNodeRequests, NoMissedDone

(* The requests' invariant, on top of the queue's. *)
THEOREM WaitInvariance == WaitSpec => []WaitInv
<1>1. IInv /\ WaitInv /\ [WaitNext]_allVars => WaitInv'
  BY RequestStepInv, AnswerStepInv, EventStepInv, OneNodeStepInv DEF WaitInv
<1> QED
  BY WaitInitInv, WaitImplementsQueue, Invariance, <1>1, PTL DEF WaitSpec

(* Every variable of the requests keeps its type. *)
THEOREM WaitTypeCorrect == WaitSpec => []WaitTypeOK
<1>1. WaitInv => WaitTypeOK
  BY DEF WaitInv, RequestInv
<1> QED
  BY WaitInvariance, <1>1, PTL

(* Whatever happens between PgStore's insert and its two selects,          *)
(* submit_job answers with a job for the key, and with one that had ended  *)
(* before the call only where created_at does not order it before the job  *)
(* that the insert met.                                                    *)
THEOREM AnswerNotStaleHolds == WaitSpec => []AnswerNotStale
<1>1. WaitInv => AnswerNotStale
  BY DEF WaitInv, AnswerInv
<1> QED
  BY WaitInvariance, <1>1, PTL

(* RenderQueue.wait leaves no event behind in _done. *)
THEOREM NoDoneLeakHolds == WaitSpec => []NoDoneLeak
<1>1. WaitInv => NoDoneLeak
  BY DEF WaitInv, EventInv
<1> QED
  BY WaitInvariance, <1>1, PTL

(* On one node no request waits for an event of a job that has ended.      *)
THEOREM NoMissedDoneHolds == WaitSpec => []NoMissedDone
<1>1. WaitInv => NoMissedDone
  BY DEF WaitInv, OneNodeInv
<1> QED
  BY WaitInvariance, <1>1, PTL

=============================================================================
