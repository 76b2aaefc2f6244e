---------------------------- MODULE RequestFlow ----------------------------
(***************************************************************************)
(* What a request does before and around the queue: the artifact key of    *)
(* the current board source (cachekey.py), the lookup, the freshness       *)
(* policy (policy.py), validation against dct describe, the minimum        *)
(* interval, the rate limiter (ratelimit.py, PgRateLimiter) and the        *)
(* submission, as raw_board, trigger_render and warm_submit order them     *)
(* (api.py); with deploys, midnight, a broken dct and restarts.            *)
(*                                                                         *)
(* One board and one combination of variables: a key is a version of the   *)
(* board's source.  Every await is a step of its own, so the behaviours of *)
(* one node, where the store never suspends, are among these.  Times are   *)
(* ages in ticks that stop counting where the code stops telling them      *)
(* apart.  Waiting for a job is in JobWait, its execution in RenderQueue   *)
(* and ArtifactStore: here a job is queued, runs, and ends.                *)
(***************************************************************************)
EXTENDS Naturals, Sequences, FiniteSets

CONSTANTS
    Versions,      \* of the board's source: its fingerprints
    Dated,         \* versions that declare a date variable
    Accepts,       \* versions whose declarations accept the variables
    Requests,      \* concurrent requests of one process
    Ids, IdOf,     \* identities, and the one behind each request
    Refreshers,    \* identities with the refresh grant on the board
    Ttl, MinInterval, Window,   \* default_ttl_s, min_interval_s, WINDOW_S
    Limit,         \* max_renders_per_minute
    MaxIds,        \* identities the in-memory limiter keeps before it evicts
    Modes,         \* whether storage.postgres is set: the cases considered
    MaxEvents,     \* bound on deploys, dct failures, restarts and other traffic
    None

ASSUME RequestsFinite == IsFiniteSet(Requests)
ASSUME Subsets == Dated \subseteq Versions /\ Accepts \subseteq Versions
ASSUME Identities == IdOf \in [Requests -> Ids] /\ Refreshers \subseteq Ids
ASSUME Times == Ttl \in Nat /\ MinInterval \in Nat /\ Window \in Nat \ {0}
ASSUME Limits == Limit \in Nat /\ MaxIds \in Nat
ASSUME EnvBounds == Modes \subseteq BOOLEAN /\ MaxEvents \in Nat
ASSUME NoneIsNone == None \notin Versions \cup Nat

VARIABLES
    ha,                    \* storage.postgres is set; read once, at the start
    src,                   \* the version in the repository
    date,                  \* the date the variables name: "open" or "past"
    rowAge,                \* age of the renders row of a key, or None
    content,               \* the version its artifact was rendered from
    job, jobAge,           \* the key's active job; age of its latest created_at
    reads,                 \* the version a running render has read
    overtaken,             \* requests for whose key another has inserted a job
                           \* since they last looked at the interval (history)
    dct,                   \* the dct command: "ok"; "failing", a DctError; "missing",
                           \* anything else (it cannot be started, or prints no JSON)
    version,               \* Dct._version: "known" once --version has run
    described, schemas,    \* RenderService._describe_cache, CachePolicy._schemas
    hits,                  \* the limiter's windows
    admitted, lives,       \* what it really let through, and in which life of
    life,                  \* its windows; a restart forgets them on one node (history)
    pc, kind, key, snap, asked,   \* the requests
    events

rowVars == <<rowAge, content>>
jobVars == <<job, jobAge, reads, overtaken>>
cacheVars == <<version, described, schemas>>
rateVars == <<hits, admitted, lives, life>>
reqVars == <<pc, kind, key, snap, asked>>
envVars == <<ha, src, date, dct, events>>
vars == <<ha, src, date, rowAge, content, job, jobAge, reads, overtaken, dct, version,
          described, schemas, hits, admitted, lives, life, pc, kind, key, snap, asked, events>>

DctStates == {"ok", "failing", "missing"}
Kinds == {"view", "auto", "force"}   \* raw_board; trigger_render and warm; with force
Ended == {"served", "answered", "failed"}   \* the artifact; another answer; a 500
Degraded == "degraded"               \* _date_vars after describe raised

(* A process starts over the rows an earlier one left, aged beyond the TTL. *)
Init ==
    /\ ha \in Modes
    /\ src \in Versions /\ date = "open" /\ events = 0
    /\ rowAge \in [Versions -> {None, Ttl}]
    /\ content = [v \in Versions |-> IF rowAge[v] = None THEN None ELSE v]
    /\ job = [v \in Versions |-> "none"] /\ jobAge = [v \in Versions |-> None]
    /\ reads = [v \in Versions |-> None] /\ overtaken = {}
    /\ dct \in DctStates
    /\ version = "unknown"
    /\ described = [v \in Versions |-> None] /\ schemas = [v \in Versions |-> None]
    /\ hits = [i \in Ids |-> <<>>] /\ admitted = [i \in Ids |-> <<>>]
    /\ lives = [i \in Ids |-> <<>>] /\ life = 0
    /\ pc = [c \in Requests |-> "none"] /\ kind = [c \in Requests |-> "view"]
    /\ key = [c \in Requests |-> None] /\ snap = [c \in Requests |-> None]
    /\ asked = [c \in Requests |-> None]

Goto(c, label) == pc' = [pc EXCEPT ![c] = label]
MayRefresh(c) == IdOf[c] \in Refreshers
Revalidates(c) == kind[c] = "view" /\ snap[c] # None

-----------------------------------------------------------------------------
(* Authorization and RenderService.lookup.  The fingerprint is read when   *)
(* the request arrives; the row after dct's version is known.              *)

Arrive(c, k) ==
    /\ pc[c] = "none" /\ (k = "view" \/ MayRefresh(c))
    /\ Goto(c, "lookup")
    /\ kind' = [kind EXCEPT ![c] = k]
    /\ key' = [key EXCEPT ![c] = src]
    /\ UNCHANGED <<snap, asked, rowVars, jobVars, cacheVars, rateVars, envVars>>

Found(c) ==
    IF kind[c] # "view" THEN "validate"
    ELSE IF rowAge[key[c]] # None THEN "fresh"
    ELSE IF MayRefresh(c) THEN "validate" ELSE "answered"

Lookup(c) ==
    /\ pc[c] = "lookup"
    /\ \/ /\ version = "known" \/ dct = "ok"
          /\ version' = "known"
          /\ snap' = [snap EXCEPT ![c] = rowAge[key[c]]]
          /\ Goto(c, Found(c))
       \/ /\ version = "unknown" /\ dct # "ok"
          /\ Goto(c, "failed")
          /\ UNCHANGED <<version, snap>>
    /\ UNCHANGED <<kind, key, asked, described, schemas, rowVars, jobVars, rateVars, envVars>>

-----------------------------------------------------------------------------
(* describe_cached, and what stands on it: CachePolicy.freshness and       *)
(* validate_vars.  The cache is read under the fingerprint at the time of  *)
(* the call, the subprocess reads the source when it runs.                 *)

Within(a, bound) == a # None /\ a < bound

(* d is what the schema cached for the key was described from. *)
Frozen(d) == d \in Dated /\ date = "past"
MutNeverTooOld(c, d) == Frozen(d) \/ snap[c] # None
Usable(c, d) == Frozen(d) \/ Within(snap[c], Ttl)

Classified(c, d) ==
    IF Usable(c, d) THEN (IF kind[c] = "view" THEN "served" ELSE "answered")
    ELSE IF MayRefresh(c) THEN "interval" ELSE "served"

Validated(c) ==
    IF Revalidates(c) THEN "submit"
    ELSE IF kind[c] = "auto" /\ snap[c] # None THEN "fresh" ELSE "admit"

(* An HTTPException of validate_vars. *)
MutRejectedRaises(c) == "failed"
Rejected(c) == IF Revalidates(c) THEN "served" ELSE "answered"

Judged(c, d) == IF d \in Accepts THEN Validated(c) ELSE Rejected(c)

(* Both callers: go on at once if the cache has the answer, or run dct. *)
FreshnessCall(c) ==
    /\ pc[c] = "fresh"
    /\ LET d == IF schemas[key[c]] # None THEN schemas[key[c]] ELSE described[src]
       IN  IF d # None
           THEN /\ schemas' = [schemas EXCEPT ![key[c]] = d]
                /\ Goto(c, Classified(c, d))
                /\ UNCHANGED asked
           ELSE /\ Goto(c, "fresh_describe")
                /\ asked' = [asked EXCEPT ![c] = src]
                /\ UNCHANGED schemas
    /\ UNCHANGED <<kind, key, snap, version, described, rowVars, jobVars, rateVars, envVars>>

ValidateCall(c) ==
    /\ pc[c] = "validate"
    /\ \/ /\ described[src] # None
          /\ Goto(c, Judged(c, described[src]))
          /\ UNCHANGED asked
       \/ /\ described[src] = None
          /\ Goto(c, "validate_describe")
          /\ asked' = [asked EXCEPT ![c] = src]
    /\ UNCHANGED <<kind, key, snap, cacheVars, rowVars, jobVars, rateVars, envVars>>

(* dct describe succeeds. *)
Describe(c) ==
    /\ pc[c] \in {"fresh_describe", "validate_describe"} /\ dct = "ok"
    /\ described' = [described EXCEPT ![asked[c]] = src]
    /\ \/ /\ pc[c] = "fresh_describe"
          /\ schemas' = [schemas EXCEPT ![key[c]] = src]
          /\ Goto(c, Classified(c, src))
       \/ /\ pc[c] = "validate_describe"
          /\ Goto(c, Judged(c, src))
          /\ UNCHANGED schemas
    /\ asked' = [asked EXCEPT ![c] = None]
    /\ UNCHANGED <<kind, key, snap, version, rowVars, jobVars, rateVars, envVars>>

(* It raises.  The policy falls back to the TTL for good; validate_vars    *)
(* turns a DctError into an answer and lets an OSError through.            *)
MutFailureCached(c) == described' = [described EXCEPT ![asked[c]] = Degraded]
FailureCached(c) == UNCHANGED described

DescribeRaises(c) ==
    /\ pc[c] \in {"fresh_describe", "validate_describe"} /\ dct # "ok"
    /\ \/ /\ pc[c] = "fresh_describe"
          /\ schemas' = [schemas EXCEPT ![key[c]] = Degraded]
          /\ Goto(c, Classified(c, Degraded))
       \/ /\ pc[c] = "validate_describe"
          /\ Goto(c, IF dct = "failing" THEN Rejected(c) ELSE "failed")
          /\ UNCHANGED schemas
    /\ FailureCached(c)
    /\ asked' = [asked EXCEPT ![c] = None]
    /\ UNCHANGED <<kind, key, snap, version, rowVars, jobVars, rateVars, envVars>>

-----------------------------------------------------------------------------
(* The guards of a refresh: the minimum interval since the last job, and   *)
(* for a view that no job is active.                                       *)

MutTooSoonIfActive(k) == Within(jobAge[k], MinInterval) /\ job[k] # "none"
TooSoon(k) == Within(jobAge[k], MinInterval)

CheckInterval(c) ==
    /\ pc[c] = "interval"
    /\ Goto(c, IF TooSoon(key[c])
               THEN (IF kind[c] = "view" THEN "served" ELSE "answered")
               ELSE (IF kind[c] = "view" THEN "active" ELSE "admit"))
    /\ overtaken' = overtaken \ {c}
    /\ UNCHANGED <<job, jobAge, reads, kind, key, snap, asked, rowVars, cacheVars, rateVars,
                   envVars>>

CheckActive(c) ==
    /\ pc[c] = "active"
    /\ Goto(c, IF job[key[c]] # "none" THEN "served" ELSE "admit")
    /\ UNCHANGED <<kind, key, snap, asked, rowVars, jobVars, cacheVars, rateVars, envVars>>

-----------------------------------------------------------------------------
(* RateLimiter.allow and PgRateLimiter.allow *)

(* Hits are kept oldest first: while hits and now - hits[0] >= WINDOW_S. *)
Expired(s) == CHOOSE n \in 0..Len(s) :
    (\A m \in 1..n : s[m] >= Window) /\ (n = Len(s) \/ s[n + 1] < Window)
Live(s) == SubSeq(s, Expired(s) + 1, Len(s))
Known == {i \in Ids : hits[i] # <<>>}

(* The windows when i asks: its expired hits are dropped, and so are, in   *)
(* memory, idle windows once there are too many.                           *)
Pruned(i) ==
    LET evicts == ~ha /\ Live(hits[i]) = <<>> /\ Cardinality(Known \ {i}) >= MaxIds
    IN  [j \in Ids |->
            IF j = i THEN Live(hits[i])
            ELSE IF evicts /\ hits[j] # <<>> /\ hits[j][Len(hits[j])] >= Window
            THEN <<>> ELSE hits[j]]

Admitted(c) == IF Revalidates(c) THEN "validate" ELSE "submit"
Refused(c) == IF Revalidates(c) THEN "served" ELSE "answered"

MutFull(i) == Len(Live(hits[i])) > Limit
Full(i) == Len(Live(hits[i])) >= Limit

(* A refused request leaves no hit. *)
MutRefusedCounts(i) ==
    /\ hits' = [Pruned(i) EXCEPT ![i] = Append(Tail(@), 0)]
    /\ UNCHANGED <<admitted, lives, life>>
RecordRefused(i) == hits' = Pruned(i) /\ UNCHANGED <<admitted, lives, life>>

LetThrough(i) ==
    /\ hits' = [Pruned(i) EXCEPT ![i] = Append(@, 0)]
    /\ admitted' = [admitted EXCEPT ![i] = Append(@, 0)]
    /\ lives' = [lives EXCEPT ![i] = Append(@, life)] /\ life' = life

Allow(c) ==
    /\ pc[c] = "admit"
    /\ \/ /\ Limit = 0
          /\ Goto(c, Admitted(c)) /\ UNCHANGED rateVars
       \/ /\ Limit > 0 /\ ~Full(IdOf[c]) /\ ~ha
          /\ LetThrough(IdOf[c]) /\ Goto(c, Admitted(c))
       \/ /\ Limit > 0 /\ ~Full(IdOf[c]) /\ ha     \* counted, not yet inserted
          /\ Goto(c, "insert") /\ UNCHANGED rateVars
       \/ /\ Limit > 0 /\ Full(IdOf[c])
          /\ RecordRefused(IdOf[c])
          /\ Goto(c, Refused(c))
    /\ UNCHANGED <<kind, key, snap, asked, rowVars, jobVars, cacheVars, envVars>>

InsertHit(c) ==
    /\ pc[c] = "insert"
    /\ LetThrough(IdOf[c]) /\ Goto(c, Admitted(c))
    /\ UNCHANGED <<kind, key, snap, asked, rowVars, jobVars, cacheVars, envVars>>

-----------------------------------------------------------------------------
(* queue.submit: a job, or the one already active for the key.  A view     *)
(* that had nothing to serve waits for it.                                 *)

InsertJob(k, others) ==
    IF job[k] = "none"
    THEN /\ job' = [job EXCEPT ![k] = "queued"]
         /\ jobAge' = [jobAge EXCEPT ![k] = 0]
         /\ overtaken' = overtaken \cup {c \in others : key[c] = k /\ snap[c] # None}
    ELSE UNCHANGED <<job, jobAge, overtaken>>

Submit(c) ==
    /\ pc[c] = "submit"
    /\ InsertJob(key[c], Requests \ {c})
    /\ Goto(c, IF Revalidates(c) THEN "served"
               ELSE IF kind[c] = "view" THEN "wait" ELSE "answered")
    /\ UNCHANGED <<reads, kind, key, snap, asked, rowVars, cacheVars, rateVars, envVars>>

(* The job ended, in an error or not, or the deadline passed. *)
WaitEnds(c) ==
    /\ pc[c] = "wait"
    /\ Goto(c, "answered") \/ (rowAge[key[c]] # None /\ Goto(c, "served"))
    /\ UNCHANGED <<kind, key, snap, asked, rowVars, jobVars, cacheVars, rateVars, envVars>>

Leave(c) ==
    /\ pc[c] \in Ended
    /\ Goto(c, "none")
    /\ kind' = [kind EXCEPT ![c] = "view"]
    /\ key' = [key EXCEPT ![c] = None] /\ snap' = [snap EXCEPT ![c] = None]
    /\ overtaken' = overtaken \ {c}
    /\ UNCHANGED <<job, jobAge, reads, asked, rowVars, cacheVars, rateVars, envVars>>

-----------------------------------------------------------------------------
(* The execution of a job, in short: dct reads the source it finds when it *)
(* runs, and the artifact is filed under the key of the submission.        *)

Source(k) == src
StartRender(k) ==
    /\ job[k] = "queued" /\ dct = "ok"
    /\ job' = [job EXCEPT ![k] = "running"]
    /\ reads' = [reads EXCEPT ![k] = Source(k)]
    /\ version' = "known"
    /\ UNCHANGED <<jobAge, overtaken, described, schemas, rowVars, rateVars, reqVars, envVars>>

JobEnds(k) ==
    /\ job' = [job EXCEPT ![k] = "none"]
    /\ reads' = [reads EXCEPT ![k] = None]
    /\ UNCHANGED <<jobAge, overtaken, cacheVars, rateVars, reqVars, envVars>>

Publish(k) ==
    /\ job[k] = "running" /\ JobEnds(k)
    /\ rowAge' = [rowAge EXCEPT ![k] = 0]
    /\ content' = [content EXCEPT ![k] = reads[k]]

RenderFails(k) ==
    /\ job[k] = "running" \/ (job[k] = "queued" /\ dct # "ok")
    /\ JobEnds(k) /\ UNCHANGED rowVars

-----------------------------------------------------------------------------
(* The environment *)

Older(a, cap) == IF Within(a, cap) THEN a + 1 ELSE a
OlderHits(s) == [n \in DOMAIN s |-> Older(s[n], Window)]
LastOf(s, n) == SubSeq(s, Len(s) - n + 1, Len(s))
(* now() is one time throughout PgRateLimiter's transaction. *)
Tick ==
    /\ \A c \in Requests : pc[c] # "insert"
    /\ rowAge' = [v \in Versions |-> Older(rowAge[v], Ttl)]
    /\ jobAge' = [v \in Versions |-> Older(jobAge[v], MinInterval)]
    /\ snap' = [c \in Requests |-> Older(snap[c], Ttl)]
    /\ hits' = [i \in Ids |-> OlderHits(hits[i])]
    /\ admitted' = [i \in Ids |-> Live(OlderHits(admitted[i]))]
    /\ lives' = [i \in Ids |-> LastOf(lives[i], Len(Live(OlderHits(admitted[i]))))]
    /\ UNCHANGED <<life, content, job, reads, overtaken, cacheVars, pc, kind, key, asked,
                   envVars>>

(* It matters to boards with a date variable only. *)
Midnight == /\ date = "open" /\ Dated # {} /\ date' = "past"
            /\ UNCHANGED <<ha, src, dct, events,
                           rowVars, jobVars, cacheVars, rateVars, reqVars>>

Event == events < MaxEvents /\ events' = events + 1

Deploy(v) == /\ v # src /\ src' = v /\ Event
             /\ UNCHANGED <<ha, date, dct, rowVars, jobVars, cacheVars, rateVars, reqVars>>

(* A submission of the same identity for another board. *)
OtherTraffic(i) ==
    /\ Limit > 0 /\ ~Full(i) /\ LetThrough(i) /\ Event
    /\ UNCHANGED <<ha, src, date, dct, rowVars, jobVars, cacheVars, reqVars>>

(* A forced submission for the deployed board, by another replica or by    *)
(* somebody with a window of their own.                                    *)
ForcedElsewhere ==
    /\ InsertJob(src, Requests) /\ Event
    /\ UNCHANGED <<ha, src, date, dct, reads, rowVars, cacheVars, rateVars, reqVars>>

DctBreaks(how) ==
    /\ dct = "ok" /\ how # "ok" /\ dct' = how /\ Event
    /\ UNCHANGED <<ha, src, date, rowVars, jobVars, cacheVars, rateVars, reqVars>>
DctFixed ==
    /\ dct # "ok" /\ dct' = "ok"
    /\ UNCHANGED <<ha, src, date, events, rowVars, jobVars, cacheVars, rateVars, reqVars>>

(* The process starts anew: its caches, requests and, on one node, its     *)
(* rate windows and active jobs are gone; a replica loses the jobs it ran. *)
Restart(K) ==
    /\ Event
    /\ IF ha THEN \A k \in K : job[k] = "running" ELSE K = Versions
    /\ job' = [v \in Versions |-> IF v \in K THEN "none" ELSE job[v]]
    /\ reads' = [v \in Versions |-> IF v \in K THEN None ELSE reads[v]]
    /\ hits' = IF ha THEN hits ELSE [i \in Ids |-> <<>>]
    /\ life' = IF ha THEN life ELSE life + 1
    /\ version' = "unknown"
    /\ described' = [v \in Versions |-> None] /\ schemas' = [v \in Versions |-> None]
    /\ pc' = [c \in Requests |-> "none"] /\ kind' = [c \in Requests |-> "view"]
    /\ key' = [c \in Requests |-> None] /\ snap' = [c \in Requests |-> None]
    /\ asked' = [c \in Requests |-> None] /\ overtaken' = {}
    /\ UNCHANGED <<ha, src, date, dct, rowVars, jobAge, admitted, lives>>

-----------------------------------------------------------------------------
RequestStep(c) ==
    \/ Lookup(c) \/ FreshnessCall(c) \/ ValidateCall(c)
    \/ Describe(c) \/ DescribeRaises(c)
    \/ CheckInterval(c) \/ CheckActive(c) \/ Allow(c) \/ InsertHit(c)
    \/ Submit(c) \/ WaitEnds(c) \/ Leave(c)

Next ==
    \/ \E c \in Requests, k \in Kinds : Arrive(c, k)
    \/ \E c \in Requests : RequestStep(c)
    \/ \E k \in Versions : StartRender(k) \/ Publish(k) \/ RenderFails(k)
    \/ Tick \/ Midnight \/ DctFixed \/ ForcedElsewhere
    \/ \E i \in Ids : OtherTraffic(i)
    \/ \E v \in Versions : Deploy(v)
    \/ \E how \in DctStates : DctBreaks(how)
    \/ \E K \in SUBSET Versions : Restart(K)

Spec == Init /\ [][Next]_vars

(* Every request and every job goes on; renders do not fail for ever; dct  *)
(* is repaired; time passes; viewers with the refresh grant keep coming.   *)
Fairness ==
    /\ WF_vars(Tick) /\ WF_vars(DctFixed)
    /\ \A c \in Requests :
          /\ WF_vars(RequestStep(c))
          /\ MayRefresh(c) => WF_vars(Arrive(c, "view"))
    /\ \A k \in Versions : WF_vars(StartRender(k)) /\ SF_vars(Publish(k))

FairSpec == Spec /\ Fairness

-----------------------------------------------------------------------------
(* Properties *)

TypeOK ==
    /\ ha \in BOOLEAN /\ src \in Versions /\ date \in {"open", "past"}
    /\ events \in 0..MaxEvents
    /\ rowAge \in [Versions -> (0..Ttl) \cup {None}]
    /\ content \in [Versions -> Versions \cup {None}]
    /\ job \in [Versions -> {"none", "queued", "running"}]
    /\ jobAge \in [Versions -> (0..MinInterval) \cup {None}]
    /\ reads \in [Versions -> Versions \cup {None}] /\ overtaken \in SUBSET Requests
    /\ dct \in DctStates /\ version \in {"known", "unknown"}
    /\ described \in [Versions -> Versions \cup {None}]
    /\ schemas \in [Versions -> Versions \cup {None, Degraded}]
    /\ hits \in [Ids -> Seq(0..Window)] /\ admitted \in [Ids -> Seq(0..Window)]
    /\ lives \in [Ids -> Seq(Nat)] /\ life \in Nat
    /\ pc \in [Requests -> Ended \cup {"none", "lookup", "fresh", "fresh_describe",
          "validate", "validate_describe", "interval", "active", "admit", "insert",
          "submit", "wait"}]
    /\ kind \in [Requests -> Kinds]
    /\ key \in [Requests -> Versions \cup {None}]
    /\ snap \in [Requests -> (0..Ttl) \cup {None}]
    /\ asked \in [Requests -> Versions \cup {None}]

(* ratelimit.py: no identity gets more than the limit through in a window, *)
(* on one node except across a restart ("State resets on restart"): of any *)
(* Limit + 1 hits in a window, the first and the last have a restart       *)
(* between them.  The shared limiter survives restarts, but counts and     *)
(* inserts in two statements: it overshoots, by at most one hit for each   *)
(* request between the two.                                                *)
RateCap ==
    Limit > 0 => \A i \in Ids :
        LET mine == Cardinality({c \in Requests : IdOf[c] = i})
        IN  IF ha THEN Len(admitted[i]) <= Limit + mine
            ELSE \A m, n \in DOMAIN admitted[i] :
                    n >= m + Limit => lives[i][m] < lives[i][n]

(* api.py raw_board, policy.py: "Serving a cached artifact never validates: *)
(* it runs no queries, so it must not break (D5)": a view that has found   *)
(* an artifact ends by serving it, whatever freshness, the interval, the   *)
(* limiter and dct describe answer, and whatever is deployed meanwhile.    *)
(* The code breaks this in one case, excepted here: the validation before  *)
(* a background refresh finds a dct that cannot be run or prints no JSON,  *)
(* and raises what the view does not catch.                                *)
ArtifactServed == [][\A c \in Requests :
    Revalidates(c) /\ pc[c] \notin Ended /\ pc'[c] \in Ended /\ dct # "missing"
        => pc'[c] = "served"]_vars

(* README "Freshness policy": "re-renders of the same artifact are blocked *)
(* within min_interval_s of the last job (force excepted)".  The check and *)
(* the submission are awaits apart, so the promise is only kept up to the  *)
(* jobs inserted in between: a request that has an artifact and does not   *)
(* force adds a job too soon only if another submission overtook it.       *)
IntervalKept == [][\A c \in Requests :
    /\ pc[c] = "submit" /\ pc'[c] # "submit" /\ job'[key[c]] # job[key[c]]
    /\ snap[c] # None /\ kind[c] # "force" /\ Within(jobAge[key[c]], MinInterval)
    => c \in overtaken]_vars

(* README "Freshness policy": "past that, views serve the stale artifact   *)
(* immediately while a background refresh is enqueued for identities with  *)
(* the refresh grant": a stale artifact of the deployed board is refreshed *)
(* in the end while such viewers come, through intervals, rate limits,     *)
(* failed renders, restarts, a broken dct and boards that are deployed and *)
(* rolled back.  The exception is a version for which the schema of        *)
(* another is cached: dct described the board after a deploy, for a caller *)
(* that took the fingerprint before it, and after a rollback every refresh *)
(* is checked against that schema until the process restarts.              *)
Misdescribed(v) == {described[v], schemas[v]} \cap (Versions \ {v}) # {}
Outdated(v) == src = v /\ rowAge[v] = Ttl /\ ~Frozen(v)
StaleRefreshedUnlessMisread == \A v \in Accepts :
    Outdated(v) ~> (~Outdated(v) \/ Misdescribed(v))

(* cachekey.py: "An artifact is addressed by everything that determines    *)
(* its bytes", the board source among them.  A job renders the source it   *)
(* finds when it runs, so a deploy between the key and the render files    *)
(* another board under the key, where a rollback finds it.  That does not  *)
(* last: the viewers of the deployed board get its own artifact in the     *)
(* end, with the same exception, and that of snapshots, which are final.   *)
Mistaken(v) == src = v /\ rowAge[v] # None /\ content[v] # v /\ ~Frozen(v)
ContentHeals == \A v \in Accepts :
    Mistaken(v) ~> (~Mistaken(v) \/ Misdescribed(v))

=============================================================================
