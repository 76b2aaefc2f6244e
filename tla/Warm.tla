-------------------------------- MODULE Warm --------------------------------
(***************************************************************************)
(* The deploy pipeline's POST /api/warm (api.py warm, warm_submit,         *)
(* warm_await): one request that submits a list of renders at once, then   *)
(* waits for them one after the other in the order of the configuration,   *)
(* and reports each.  Composed with the queue and its waiters: an entry of *)
(* the list is a request of JobWait, numbered by its place.  Which entries *)
(* are cached or fail before they are submitted is RequestFlow's subject;  *)
(* here either may happen.                                                 *)
(***************************************************************************)
EXTENDS JobWait

CONSTANTS
    WarmKey,    \* WarmKey[i]: the artifact key of entry i
    Hosts       \* the replicas the warm call may be sent to

ASSUME EntriesNumbered == Clients \subseteq Nat /\ WarmKey \in [Clients -> Keys]
ASSUME HostsAreNodes == Hosts \subseteq Nodes

VARIABLES
    wpc,       \* the request: "off", "submit", "await", "answered", "failed" (a 500)
    host,      \* the process that serves it
    outcome    \* WarmResult.outcome, "none" before; "landed" while the row of a
               \* finished render is read

warmVars == <<wpc, host, outcome>>
everything == <<warmVars, waitVars, vars>>

Settled == {"cached", "error", "running", "done"}
Outcomes == Settled \cup {"none", "queued", "landed"}

WarmInit == /\ WaitInit
            /\ wpc = "off" /\ host = None
            /\ outcome = [i \in Clients |-> "none"]

Report(i, o) == outcome' = [outcome EXCEPT ![i] = o]

-----------------------------------------------------------------------------
(* asyncio.gather over warm_board: every entry at once. *)

WarmBegins(n) ==
    /\ wpc = "off" /\ n \in up
    /\ wpc' = "submit" /\ host' = n
    /\ UNCHANGED <<outcome, allVars>>

Submitting(i) == wpc = "submit" /\ outcome[i] = "none"

EntrySettles(i, o) ==
    /\ Submitting(i) /\ at[i] = "none" /\ o \in {"cached", "error"}
    /\ Report(i, o)
    /\ UNCHANGED <<wpc, host, allVars>>

EntrySubmits(i) ==
    /\ Submitting(i)
    /\ \/ SubmitCreates(i, host, WarmKey[i]) \/ SubmitConflicts(i, host, WarmKey[i])
       \/ SelectActive(i) \/ SelectLatest(i)
    /\ IF at'[i] = "get" THEN Report(i, "queued") ELSE UNCHANGED outcome
    /\ UNCHANGED <<wpc, host>>

(* No store error is caught: the request ends in a 500.  Entries that are   *)
(* still submitting go on on their own, as RenderQueue's Submit.           *)
SubmitRaises(i) ==
    /\ Submitting(i)
    /\ CallRaises(i) \/ (at[i] = "none" /\ db = "down" /\ UNCHANGED allVars)
    /\ wpc' = "failed" /\ UNCHANGED <<host, outcome>>

Gathered(wait) ==
    /\ wpc = "submit" /\ \A i \in Clients : outcome[i] # "none"
    /\ wpc' = IF wait THEN "await" ELSE "answered"
    /\ UNCHANGED <<host, outcome, allVars>>

-----------------------------------------------------------------------------
(* [await warm_await(r) for r in results] *)

Turn(i) == wpc = "await" /\ \A j \in Clients : outcome[j] \notin Settled => i <= j

(* What is made of the job wait returned: with an ended job, or at the     *)
(* deadline with one that has not.                                         *)
JobSeen(i) == IF HaMode THEN seen[i] ELSE status[cjob[i]]
MutEndedIsLanded(st) == IF st = "error" THEN "error" ELSE IF st \in Terminal THEN "landed" ELSE "running"
Reported(st) == CASE st = "done"  -> "landed"
                  [] st = "error" -> "error"
                  [] OTHER        -> "running"

AwaitStep(i) ==
    /\ Turn(i) /\ outcome[i] = "queued"
    /\ GetJob(i) \/ GotJob(i) \/ EventFires(i) \/ PollElapses(i)
    /\ IF at'[i] = "none" THEN Report(i, Reported(JobSeen(i))) ELSE UNCHANGED outcome
    /\ UNCHANGED <<wpc, host>>

ReadRecord(i) ==
    /\ Turn(i) /\ outcome[i] = "landed" /\ db = "up"
    /\ Report(i, "done")
    /\ UNCHANGED <<wpc, host, allVars>>

AwaitRaises(i) ==
    /\ Turn(i)
    /\ CallRaises(i) \/ (outcome[i] = "landed" /\ db = "down" /\ UNCHANGED allVars)
    /\ wpc' = "failed" /\ UNCHANGED <<host, outcome>>

(* 200, or a 502 if the outcome of some entry is an error. *)
Answer ==
    /\ wpc = "await" /\ \A i \in Clients : outcome[i] \in Settled
    /\ wpc' = "answered"
    /\ UNCHANGED <<host, outcome, allVars>>

-----------------------------------------------------------------------------
(* The queue goes on; a crash takes the request with it. *)

QueueGoesOn ==
    /\ QueueStep
    /\ IF host \in up' THEN UNCHANGED warmVars
       ELSE wpc' = "off" /\ host' = None /\ outcome' = [i \in Clients |-> "none"]

WarmOver ==
    /\ wpc \in {"answered", "failed"}
    /\ wpc' = "off" /\ host' = None /\ outcome' = [i \in Clients |-> "none"]
    /\ at' = [i \in Clients |-> "none"] /\ on' = [i \in Clients |-> None]
    /\ want' = [i \in Clients |-> None] /\ cjob' = [i \in Clients |-> None]
    /\ seen' = [i \in Clients |-> "absent"] /\ before' = [i \in Clients |-> {}]
    /\ met' = [i \in Clients |-> None]
    /\ UNCHANGED <<ev, done, created, vars>>

EntryStep(i) ==
    \/ EntrySubmits(i) \/ SubmitRaises(i)
    \/ AwaitStep(i) \/ ReadRecord(i) \/ AwaitRaises(i)

WarmNext ==
    \/ QueueGoesOn
    \/ \E n \in Hosts : WarmBegins(n)
    \/ \E i \in Clients : EntryStep(i) \/ \E o \in Outcomes : EntrySettles(i, o)
    \/ \E wait \in BOOLEAN : Gathered(wait)
    \/ Answer \/ WarmOver

WarmSpec == WarmInit /\ [][WarmNext]_everything

(* As in JobWait, no deadline is counted on.  The orchestrator keeps every *)
(* replica running.                                                        *)
WarmFairSpec ==
    /\ WarmSpec /\ Fairness
    /\ \A n \in Nodes : WF_vars(Boot(n))
    /\ \A i \in Clients : WF_everything(EntryStep(i))
    /\ WF_everything(Answer)

-----------------------------------------------------------------------------
(* Properties *)

WarmTypeOK ==
    /\ WaitTypeOK
    /\ wpc \in {"off", "submit", "await", "answered", "failed"}
    /\ host \in Nodes \cup {None}
    /\ outcome \in [Clients -> Outcomes]

(* api.py warm: "Everything is submitted already, so the worker pool drains *)
(* the list concurrently": waiting for the entries in turn ends, whichever *)
(* order their jobs end in and whoever runs them, and without any deadline: *)
(* the poll of RenderQueue.wait finds what another replica has finished.   *)
WarmAnswers == wpc = "await" ~> (wpc # "await" \/ outages > 0)

(* api.py warm_await: an entry is reported as done or in error only if a   *)
(* worker ended its job, although the status is read before it is used and *)
(* a late or repeated report may change it in between.  An interrupted job *)
(* is reported as running.                                                 *)
ReportsEndedJobs == [][\A i \in Clients :
    outcome[i] = "queued" /\ outcome'[i] \in {"landed", "error"}
        => status[cjob[i]] \in {"done", "error"}]_everything

=============================================================================
