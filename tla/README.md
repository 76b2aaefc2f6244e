# A TLA+ verification of dct-hub

dct-hub renders dbt Charts boards with the `dct` command, keeps the results in
an artifact cache and serves them over HTTP. It runs as one process over SQLite
and the local disk, or as several replicas over Postgres and S3 ("HA"). This
directory holds TLA+ modules for the parts of it in which ordering, concurrency
and failure matter, the TLC configurations that check them, and theorems that
TLAPS checks. Paths below are relative to `src/dct_hub/` unless they say more.

## The system

| Component | State | Operations | Talks to |
|---|---|---|---|
| Render queue (`queue.py`) | `_wake` event, `_done` events per job, worker tasks | `start`, `submit`, `wait`, `_worker` | jobs table, `execute_render` |
| Jobs table (`store.py`, `store_pg.py`) | `jobs` rows: status, key, claimed_by, created/started/finished | `submit_job`, `claim_next_job`, `finish_job`, `interrupt_jobs`, `reap_stale_jobs`, lookups | queue, janitor, handlers |
| Artifacts (`store.py`, `store_pg.py`, `blobs.py`) | `renders` rows, blobs | `put`, `delete_render`, `get`; `put_file`, `delete`, `exists`, `read` | `execute_render`, sweeper, handlers |
| Render execution (`api.py execute_render`, `dct.py`) | staging file, subprocess | `dct render`, blob, row | artifacts, `dct` |
| Retention and janitor (`gc.py`) | a snapshot of the rows while a sweep runs; an advisory lock in HA | `sweep_once`, `janitor_loop` | artifacts, jobs table, policy |
| Freshness policy (`policy.py`) | `_schemas`: date variables by fingerprint | `freshness`, `frozen`, `within_min_interval` | `dct describe` |
| Rate limiter (`ratelimit.py`, `store_pg.py PgRateLimiter`) | hits per identity | `allow` | handlers |
| Cache keys and boards (`cachekey.py`, `boards.py`) | the charts repository on disk | `board_fingerprint`, `artifact_key`, `resolve_board_file` | handlers, sweeper, `execute_render` |
| Handlers (`api.py`, `ui.py`) | `_describe_cache` | `trigger_render`, `warm`, `raw_board`, reading routes and pages | everything above |
| Access policy and identity (`auth/access.py`, `auth/identity.py`) | sorted grants | `capabilities`, `allows`, `require` | handlers |
| OIDC login (`auth/oidc.py`) | session, cached metadata and keys | login, callback, logout | identity provider |
| Configuration, entry point (`config.py`, `auth/config.py`, `__main__.py`) | none | start-up checks | service |

Where it is hard:

* **Concurrency.** On one node everything shares an asyncio loop and the local
  stores never suspend, so a coroutine between two local calls cannot be
  interrupted (only killed). In HA every store and blob call is a suspension
  point, and replicas meet only in Postgres and S3.
* **Failure.** A process dies between any two calls; Postgres goes away, with
  or without having committed the last statement; `dct` fails, hangs until its
  timeout, or is not there; uploads to S3 have no time limit in this code.
* **Ordering.** Blob before row, row before blob; the wake event against a
  submission; a job's end against the requests that wait for it; the reaper's
  timeout against a slow execution.
* **Stale decisions.** The sweep works on a snapshot, a refresh on a lookup, a
  key on the source at request time; deploys, midnight and other requests
  overtake them.

What makes each correct is stated as properties under *Runs*; the hazards they
are for are listed, line by line, in `PROJECT.json`.

## The modules

| Module | Models | Uses |
|---|---|---|
| `JobBoard` | the contract of the jobs table: inserted once, one active job per key, forward moves only | |
| `RenderQueue` | `queue.py` start/submit/_worker over both stores, reaper, boot, crash, outage | instance of `JobBoard` |
| `JobWait` | requests that submit and wait: the insert-conflict path of `PgStore.submit_job`, `RenderQueue.wait`, `_done` | extends `RenderQueue` |
| `Warm` | `POST /api/warm`: entries submitted at once, awaited in turn, reported | extends `JobWait` |
| `ArtifactCache` | the contract of the cache: an artifact comes and goes in one step, and who found it gets it unless it was dropped since | |
| `ArtifactStore` | `execute_render`, `sweep_once`, and reads, call by call on rows and blobs | instance of `ArtifactCache` |
| `Janitor` | `janitor_loop` of two replicas, `try_leader`, `release_leader`, two sweeps over one store | extends `ArtifactStore`, and an instance of it for the second sweep |
| `RequestFlow` | `raw_board`, `trigger_render`, `warm_submit` up to the submission: key, lookup, freshness, validation, interval, rate limit | |
| `AccessPolicy` | `resolve_identity`, `AccessPolicy.capabilities`, `require`, as operators, and the same answer defined without sort and loop | |
| `Routes` | what each reading route, page and listing answers a caller about a board | extends `AccessPolicy` |
| `Login` | login, callback and logout over the session cookie; discovery and JWKS caches | extends `Routes` |
| `RenderQueueProofs`, `ArtifactStoreProofs`, `JanitorProofs`, `RequestFlowProofs`, `LoginProofs` | theorems | extend their component and TLAPS (`LoginProofs` through `AccessPolicyProofs`) |
| `AccessPolicyProofs` | what the sort and the loop of `capabilities` compute | extends `AccessPolicy` and TLAPS |
| `JobWaitProofs`, `WarmProofs` | theorems, which use those of the component below | extend their component and the proofs of the one it composes |
| `MCRenderQueue`, `MCJobWait`, `MCWarm`, `MCArtifactStore`, `MCJanitor`, `MCRequestFlow`, `MCLogin` | small instances | extend the component |

Definitions whose name begins with `Mut` are deliberate mistakes (a dropped
guard, an off-by-one, a forgotten reset). No specification uses them; put in the
place of the definition that follows them, each makes a property fail.

### RenderQueue

`status`, `jobKey`, `claimedBy` and `age` are columns of `jobs` (age: ticks since
`created_at` or `started_at`, saturating one beyond the reaper's threshold). `pc`
and `held` say where each worker task is and which job it executes; `up` and
`wake` are the running processes and those whose `_wake` is set; `db` is the
connection to the store. One action is one awaited store call:

* `Boot(n)` is `RenderQueue.start` with `interrupt_jobs`: every active job on one
  node, the process's own in HA. A replica that comes up under a new identity (a
  new host name or pid) is a node that was not up before.
* `Submit` inserts unless the key has an active job; a coalesced submission
  changes nothing and needs no action here (it is in `JobWait`).
* `Claim`, `ClaimNone`, `ClearWake`, `Woken`, `IdlePoll` are the head of the
  worker loop. With PgStore the failed claim and the clear of the event are two
  steps. A waiter that was woken but runs after another worker has cleared the
  event behaves as one whose wait timed out.
* `RenderDone`, `ExecFails`, `Finish`, `FinishError` are the execution.
  `finish_job` writes the outcome *whatever the row's status has become*.
* `ReplyLost`: a committed statement whose answer is lost. The claim is outside
  the worker's `try` and the error report inside its `except`, so `ClaimRaises`
  and `FinishRaises` end the task for good.
* `Reap` is the janitor's `reap_stale_jobs`. `MayPass` holds the clock while a
  `dct` subprocess has reached its time limit. The upload has no limit; the
  constant `TimelyRender` adds the assumption that executions end by the
  reaper's threshold.

### JobWait

Composes requests with the queue: a step is one of the queue (`QueueStep`, which
also sets and drops events as the worker's `finally` does), of a request, or of
both (`SubmitCreates`). `done` is the set of (process, job) pairs in `_done`;
`ev[c]` is the event object request `c` holds, which may be detached from the table
when another waiter has popped it. In HA the pop by the worker is taken together
with the commit of the report. `created` is the `created_at` of each job: any of the
`Stamps`, since replicas stamp it by their own clocks, in whole seconds, before the
insert. `LatestJobs` are the rows of a key with the greatest stamp; which of them has
the greatest random id is left open. `before` and `met` are history: the jobs that had
ended when a request arrived, and the active one its insert collided with. (The order
of claims in `RenderQueue` takes `age` as the order of the stamps: no property depends
on who is claimed first.)

### Warm

The entries of the list are requests of `JobWait`, numbered by their place. `host`
serves the call; the jobs may run on any replica. While `wpc` is *submit* every
entry goes its own way (`asyncio.gather`): it is settled before a submission
(cached, or an error of its own, which `RequestFlow` decides) or gets a job. Then
only the first entry that is not settled takes steps (`Turn`), as the list
comprehension awaits one `warm_await` after the other. Within a board the code
submits its combinations in order; letting them overlap allows more behaviours.
A store error is caught nowhere and ends the call in a 500; `gather` does not stop
the other entries, whose late submissions are the queue's `Submit`. `Reported`
gives what `warm_await` makes of the job it got: anything that is neither done nor
an error is *running*.

### ArtifactStore

A locator is a function of board, key and format, so a key stands for its blob.
`loop` is the task that keeps the event loop on one node: only a crash or the
clock can step in between two of its calls. The sweeper is modelled call by call:
snapshot, one record at a time newest first (with a describe that may fail), the
per-board cap, row delete, blob delete. Readers look up, check existence, and
stream. Staging files and the order of `unlink` are left out: no other task looks
at them.

`ArtifactCache` is what all this is for. Its `avail` is `hasRow \cap blobs`, its
`dropped` the readers swept under. The row's write is the publication, the row's
delete the drop; every other step must be invisible.

### Janitor

`lpc` is where each replica is in its cycle: asleep, reaping, pruning hits,
sweeping, releasing. The advisory lock belongs to a session of the server. `con` is
what the replica believes (`_leader_con` is set), `holder` what the server knows;
they part when the server ends the session (`SessionLost`), when the answer of
`try_leader` or the unlock is lost, or when the replica dies: then the lock stays
with a *ghost* until the server notices (`SessionEnds`). The work goes over other
connections of the pool and goes on in all of these. A failing call abandons the
cycle, and `finally` releases. The sweep is `ArtifactStore`'s own, twice over the
same rows and blobs; the second replica's locals are variables of their own.
`orphan` is one job of a dead replica, until it is older than `stale_after_s`.

### RequestFlow

One board, one combination of variables: a key is a version of the source, as the
fingerprint makes it. Every await is a step in both storage modes, so the one-node
behaviours are included among more. The describe cache is read under the
fingerprint at the time of the call and filled with what the subprocess found when
it ran; the policy's schema cache is filled under the request's own fingerprint,
and keeps `degraded` for ever once describe has raised. `dct` is *ok*, *failing*
(a `DctError`) or *missing* (any other exception: it cannot be started, or prints
no JSON). The two limiters share an action: in memory it is atomic, in Postgres
`Allow` counts and `InsertHit` inserts. `admitted` is history: what really got
through in the last window, restarts included, and `lives` in which life of the
windows each hit did (`life`; on one node a restart begins another, as the windows
are lost; the shared ones have one). So is `overtaken`: the requests for whose key another
submission inserted a job after they had looked at the interval. Waiting, the execution of jobs and the blobs are in
the other modules; here a job is queued, runs and ends. The caches are those of
one process; `frozen_date_vars` is on, its default.

### AccessPolicy, Routes and Login

A board is the sequence of its segments, a pattern `*`, a tree or one path; the
lengths the code sorts by are counted in characters (`Size`, `Chars`). `Sorted` is the
policy a process makes of its grants when it starts: a stable sort, given by the
rank of each grant. `capabilities` is the loop over it, a recursive function of the
turn with the loop's `continue` and `break` (`Visit`); `Due` says the same with sets:
the grants that reach the board and that no grant for fewer boards overrules. Of
two service tokens that are the same, the first listed is the caller. A leading slash is kept in the data, since stripping it is what
makes two spellings one pattern. A request without a grant or an identity is a 403
or a 401; `auth.enabled` is set.

`Routes` gives the answers to a reference as functions of what exists: the file it
leads to, a row, its blob, a failed job. A reference is a sequence of segments, and
`normalize_board` does what the code does with it: leading slashes, one `charts/`, one
suffix (`Stem`), then empty parts and dots. Three routes read a record by key and
authorize its board, three authorize the `Name` of a reference before they look for the
file, the listings filter. `lookup` and `execute_render` resolve the name once more
(`Resolved`), which may be another board, as `normalize_board` is not idempotent.
`list_jobs` takes the newest rows up to the caller's limit, and `jobs` filters those.
`Learns` is all of it together. White space around a reference is left out. A header
`Bearer` without a token is no bearer header; a token that is not ASCII, for which
`compare_digest` raises, is left out.

`Login` has one browser with tabs. A request takes a copy of the cookie when it
comes and its response writes the copy back as a whole if the handler changed it,
which is how the session middleware works (external); so responses overwrite each
other. The provider's answer and its arrival are two steps. `_jwks` is one variable
for all callbacks; `attempt` is the loop of `validate_id_token`. A provider that
answers with an error gives a 502. One that does not answer at all gives a 500, but
in the JWKS fetch its exception is caught with the decoding errors, retried, and
ends as a 401 (`FetchLost`). Signatures are key identities, claims are good or bad.
`disturbed` and `lost` are history.

## Runs

Each passing run explores its instance completely. `CHECK_DEADLOCK FALSE` is given
where a database outage may end every worker task, after which the hub really may
stop.

| Run | Instance | Shows |
|---|---|---|
| `QueueHa` | 2 replicas, 1 worker each, 2 keys, 2 jobs, 1 crash, 1 outage | `SingleFlight`, `ExclusiveClaim`, `ImplementsBoard` (refinement of `JobBoard`), `RunningEnds`, `QueuedLeavesUnlessOutage`, `TypeOK` |
| `WaitSingle` | 1 node, 2 workers, 2 requests, 1 key, 2 jobs, 1 crash | of the queue on one node `OneRenderPerKey`, `NoLostWake`, `NoOrphanRunning`, `OutcomeFinal` and, by wake-ups alone, `QueuedLeaves`; of the waiters `NoMissedDone` |
| `WaitHa` | 1 replica with Postgres and 1 worker, 2 requests, 1 key, 2 jobs (requests and jobs symmetric), 1 outage, executions of any length, submissions from elsewhere, stamps 1 and 2 in any order | `NoDoneLeak`, `AnswerNotStale` |
| `Warm` | 2 replicas, a warm list of 2 entries with different keys, 2 jobs, 1 outage, timely executions | `WarmAnswers` without any deadline, `ReportsEndedJobs`, `WarmTypeOK` |
| `ArtifactSingle` | 1 node, 2 keys of a board (one turns frozen), a renderer, a reader, 3 days, 1 crash | `ImplementsCache`, `RowImpliesBlob`, `ServedUnlessSwept`; of a sweep `FrozenKept`, `AgedOut`, `NewestKept`, `CapEnforced`; `TypeOK` |
| `Janitor` | 2 replicas, 1 key, a renderer, 1 crash, 1 lost session or answer, failing calls | `OneLeader`, `OrphanReaped`, `OldLeaves` |
| `RequestFlow` | 2 versions (one with a date variable), requests of one identity one after the other, a limit of 1 per window, both storage modes, midnight, 1 of: deploy, dct failure, restart, a submission for another board or a forced one for this | `RateCap`, `IntervalKept`, `ArtifactServed`, `StaleRefreshedUnlessMisread`, `TypeOK` |
| `RequestRefresh` | the same on one node with 2 of these events, without a rate limit or date variables | `StaleRefreshedUnlessMisread`, `ContentHeals` |
| `Login` | 2 tabs, 3 accounts, 2 signing keys, 6 boards, 25 references to them, job lists of 1, 2 and 50, all lists of at most 2 of 6 grants and the full list in 2 orders | `GenuineAccepted`, `UndisturbedLogin`, `AccessIsDue`, `NoExistenceOracle`, `LoginTypeOK` |

Three runs show that the code does not do what a doc or a comment says of it; each
has an entry under `findings` with the sentence it quotes.

| Run | Violated | Why |
|---|---|---|
| `QueueHaOutage` | `QueuedLeaves` | one failed Postgres call ends a worker task; nothing starts it again |
| `QueueHaOverlap` | `OneRenderPerKey` | a slow upload is reaped under its live worker, and the key rendered again |
| `ArtifactHaSweep` | `RowImpliesBlob` | a render publishes around the sweeper's two deletes |

Other properties of the passing runs have exceptions, because the code does less than
its docs or comments say. Each is as narrow as the code allows; what it leaves out is
this:

* `AgedOut` lets a sweep delete a row that was rendered anew after the sweep's
  snapshot: `rendered_at` is compared as it was listed, the delete is by key. The
  cost is one more render.
* `IntervalKept` excepts a request that was overtaken between its look at
  `last_activity` and its submission; then two renders of a key may start within
  `min_interval_s` without force.
* `ReportsEndedJobs` does not speak of entries reported as `running`: `warm_await`
  reports every job so that is neither done nor in error, also an interrupted one
  that nothing will run again, while `docs/api.md` promises that "the artifact lands
  on its own".
* `AnswerNotStale` allows a request a job that had ended before it came if the one it
  collided with has ended too and carries no later stamp. Two jobs of a key in the same
  second, or clocks that differ, are enough for it, since ids are random: the request
  then gets an older outcome, perhaps an error, where `store_pg.py:172` says "The winner
  finished between our insert and this select: its artifact is fresh".
* `RateCap` is per life of the windows on one node (`ratelimit.py`: "State resets on
  restart"): of what got through in a window, any hit and the one `Limit` places after
  it are of different lives. In HA the window is one, and is overshot by one for each
  concurrent request at most.
* `ArtifactServed` excepts the moment when `dct` cannot be run or prints no JSON:
  `raw_board` catches only the `HTTPException` that `validate_vars` makes of a
  `DctError`, so the validation before a background refresh turns the view into a 500.
  It also speaks only of views that have found their artifact. The lookup needs
  `dct --version` to have succeeded once in the process, so a hub that starts while
  `dct` is broken fails every view. `docs/operations.md:143` says of a `dct` that is
  broken or missing: "Serving of existing artifacts continues; new renders 502".
* `StaleRefreshedUnlessMisread` excepts a version for which the schema of another was
  cached: a deploy during a describe files the new board's schema under the old
  fingerprint, and after the rollback that `docs/operations.md:129` describes, every
  refresh is checked against it and dropped, until the process restarts.
* `ContentHeals` says that a wrong artifact under a key does not stay, not that there is
  none: a deploy between the key and the render files the new board under the old key,
  although `cachekey.py:3` says "An artifact is addressed by everything that determines
  its bytes". A snapshot whose date is past is not rendered again, so there it stays.
* `NoExistenceOracle` is about references whose normal form is normal, and limits that
  leave no job of the table out. `raw_board` and `board_page` authorize the normalised
  name and resolve it once more, so for other references the board authorized and the
  board looked up differ; and `jobs` filters the newest `limit` rows, so a short list
  depends on jobs its reader cannot view. `docs/api.md:11` and `:104` except neither.

**Bounds, and why they are enough.** Two nodes, two workers and two jobs are the
least with which replicas can race for a claim, a job be submitted while another
ends, and a conflict fall back on an older job. One crash and one outage can fall
between any two steps; a second adds no new pair of steps to come between. Two
stamps are enough for ties and for clocks that go backwards. Two events in
`RequestRefresh` allow a deploy and its rollback, or a `dct` that breaks and a restart.
With the rate limit's windows, date variables and both modes, one is what liveness can
be checked with; the safety properties of `RequestFlow` are proved for any number. Ages
saturate just beyond the threshold that the code compares them with, so time is
not bounded in `RenderQueue` and `RequestFlow`. Three days and a one-day limit
let a row be fresh, at its limit and expired, and a key turn frozen in the middle
of a sweep. The per-board cap is 1 with two keys, so it bites. In `Warm` and `WaitHa` the
time limits are 0 (what matters is that the reaper may come, not when), the list of `Warm`
is the least that has an order, and its only worker is on the other replica than the
one that serves the call, so that only the poll and the database connect them. In `Janitor` one key is enough for two sweeps to meet at
every call; the cap does not bite there, and one loss can fall anywhere in a cycle.
In `Login` four transactions are more than can be known at one time with two tabs,
so a new login never lacks one; two keys allow one rotation and a withdrawal, and
the retry compares with one fetch only. Tabs and transactions are symmetric.
`JobIds` is finite, so starvation by an endless stream of submissions is not
examined.

**Fairness.** Weak fairness of each worker's and request's steps is what the event
loop gives. The idle poll is assumed fair only in HA, where the code relies on
it; on one node the wake event has to do. Time passes; the janitor of some live
replica runs; the database comes back; the orchestrator starts the hub again when
no replica is left (`Restart`), which is also when HA needs it. In
`Janitor` each call of a cycle is fair over both replicas together, and strongly:
the loop runs ready tasks in turn, so renders cannot overtake the sweeper for ever,
and a failing `dct describe`, a failing delete or a lost lock may take its turn away,
but not for ever. The server ends dead sessions and the loops wake up. In
`Warm` the orchestrator keeps every replica running. In `RequestFlow` renders do not fail for ever and
viewers with the refresh grant keep coming: `StaleRefreshedUnlessMisread` is about what the
checks between a view and a refresh may not do, which is to drop every one of
them. No deadline of a waiting request is assumed to expire: `WarmAnswers` holds
by the poll.

## What is proved

### The queue (`RenderQueueProofs`)

For every set of nodes, workers, keys and jobs, all limits, and any number of
crashes and outages (`RenderQueueProofs`), from the named assumptions on the
constants, of which the essential one is that without Postgres there is one node
(`SingleNodeIsAlone`):

* `SingleFlightHolds`, `ExclusiveClaimHolds`, `TypeCorrect`: in both modes.
* `NoLostWakeHolds`, `NoOrphanRunningHolds`, `OutcomeFinalHolds`: on one node. The last
  is an action property; in HA it is false, as a late report may replace
  `interrupted` by `done`, and a lost answer `done` by `error`.
* `OneRenderPerKeyHolds`, `InterruptedIsAbandonedHolds`: on one node or with timely
  executions. Without that condition `QueueHaOverlap` is the counterexample. (With timely
  executions TLC has checked both on the instance of `QueueHa`.)
* `Refinement`: the queue implements `JobBoard`.

`SingleFlight` is not inductive: `finish_job` writes to the job a worker holds
whatever its status, so one must know that a held job was claimed and not put back
(`HeldIsClaimed`, `HeldNotDone`), that no two workers hold one, that the workers of a
dead node hold nothing (`OffMeansDown`), and under the timing assumption that a
held job is younger than the threshold (`HeldInTime`), hence still running
(`HeldIsRunning`). Their conjunction is `IInv`; there is one lemma per action.

### Artifacts and sweeps (`ArtifactStoreProofs`)

For any finite set of keys and any number of renderers, readers, days and crashes:
`TypeCorrect`, and on one node or with retention off (the default)
`RowImpliesBlobHolds` and `ServedUnlessSweptHolds`. Publishing blob-then-row and
deleting row-then-blob is not enough for the first. The inductive invariant has
to add that a publisher between its two calls and the sweeper between its two
never coexist (`LoopKept`), which the event loop gives on one node and nothing
gives in HA; `ArtifactHaSweep` is the counterexample there. Under the same
condition `Refinement` shows that the store implements `ArtifactCache`. It needs
that what a reader has found is in the table or was swept since
(`FoundStillThere`), which makes every lost answer a drop of the abstract cache.

What a sweep deletes: `FrozenKeptHolds`, `AgedOutHolds` and `NewestKeptHolds` in both
modes, `CapEnforcedHolds` on one node (in HA a render may bring a row back under
the sweep). They rest on `SweepInv`, which ties the sweep's snapshot to the table as
it has become: the snapshot is never newer than the row (`ClockGoesOn`), what is set
aside was not frozen when the sweep began (`NoneFrozen`), and what is listed for the
cap is still there (`ListedRows`). The two about the cap count rows, so they need
more: every condemned row has `max_per_board` newer ones that are not condemned
(`KeptNewer`), and what is listed and not condemned is at most `max_per_board`
(`CapLeft`). One lemma, `CapGoesOnStep`, says that no step of anybody shrinks the first
set, nor on one node grows the second.

### Waiting requests and the warm call (`JobWaitProofs`, `WarmProofs`)

`WaitImplementsQueue` and `WarmImplementsQueue`: every behaviour with waiting requests, or
with a warm call, is one of the queue, so all theorems about the queue hold there.
What the jobs table can do in a step is taken from the queue's refinement of
`JobBoard` (`JobsAdvance`), not from its actions again.

* `AnswerNotStaleHolds`, for any stamps, needs that what had ended when a request came
  stays ended (`BeforeHadEnded`), that the job a request met stays one of its key
  (`MetIsKept`), and that stamps are never rewritten (`StampsStay`); so the row with the
  greatest stamp has none less than the winner's.
* `NoDoneLeakHolds` and, on one node, `NoMissedDoneHolds` need that a request sleeps only
  with an event in hand (`SleeperHasEvent`) and that no await separates the look at the
  row from the registration (`OneNodeRequests`).
* `WarmInvariance`: all of these survive the end of a warm call, which drops the events
  of all its entries at once. It needs that only the entry whose turn it is ever
  registers one (`OnlyTurnLoops`, `EventsInLoop`). `ReportsEndedJobsHolds` and
  `WarmTypeCorrect` follow; `SeenStands` covers the await between reading a status and
  using it.

### The janitor (`JanitorProofs`)

`OneLeaderHolds` and `TypeCorrect`, for the two replicas and any number of keys, crashes
and losses. `OneLeader` is not inductive: it takes that a replica holds a connection
exactly during its cycle (`ConnectedInCycle`), and the lock with it unless its session
was cut (`LockBacked`). The sweeps play no part in it.

`TwoSweepsSpareHolds` is about the time when two replicas are in charge after all. The
sweep goes over other connections than the lock, so a leader whose session was ended
sweeps on beside the next one, and each finds rows deleted and rendered again under
it. Frozen snapshots are spared all the same, and what goes for its age was past it:
the invariant (`Sound`, stated once for either sweep) keeps each sweep's snapshot no
newer than the table, whatever the other does (`OthersStep`). TLC has checked it on the
instance of the `Janitor` run and on one of three days in which the key turns frozen.
`NewestKept` is not claimed of two sweeps: each counts on rows that the other may delete.

### The request flow (`RequestFlowProofs`)

For any number of versions, identities and concurrent requests and all limits:
`TypeCorrect`, `ArtifactServedHolds`, `IntervalKeptHolds` and `RateCapHolds`. The interval
needs what a request knows when it has passed the check: the last job is old
enough, or somebody has overtaken it (`IntervalStands`). The cap is the hardest. A
window is a sequence that both the pruning and the eviction of idle identities cut,
so the invariant says that what this life has let through in the last window is the end of
what the limiter has recorded (`WindowsCount`), that lives only grow along the history
(`LivesPassed`), and counts the requests between the
shared limiter's two statements against the overshoot (`CapKept`). The lemmas about cutting
a sorted sequence use a least-number principle (`LeastNat`), from the library's
theorem on well-founded minima, in the place of induction.

### Login and disclosure (`LoginProofs`)

For any number of tabs, accounts, transactions and keys: `TypeCorrect` (with what each
step of a request dereferences: `TabsHaveTxns`, `RequestsHaveSessions`,
`CallbacksHaveTokens`, `KeysHaveArrived`),
`UndisturbedLoginHolds` (the redirect's session names the tab's transaction, and the
cookie keeps it until somebody else writes: `RedirectNamesTxn`, `CookieKept`) and
`GenuineAcceptedHolds` (keys fetched on the retry are at least as new as the token:
`TokensAreOld`, `FetchedLater`).

`AccessIsDueHolds` and `NoExistenceOracleHolds` rest on `CapabilitiesAreDue`
(`AccessPolicyProofs`): for every list of grants, identity and board, the loop over the
sorted list computes `Due`. In steps:

* Of two paths that both begin a board's, the one with more characters continues the
  other (`LongerPrefix`), though lengths are sums over segments of any size. So of two
  patterns that match the same board, the more specific one reaches fewer boards, and
  equally specific ones are the same pattern (`SameBoard`). Across boards neither is true.
* Ranks are a bijection, so `Sorted` has every grant, and none after one it precedes
  (`SortedSorts`).
* The first match decides (`SomePatternDecides`), and `After` says in closed form what the
  loop holds after any number of turns (`TurnStep`, `LoopComputes`): once a shadowed pattern
  has matched, nothing of the deciding one follows, so the `break` drops no grant.
* The grants of the deciding pattern are those that `Due` lets rule (`RulingDecides`).

`AccessIsDueHolds` adds who the caller is (`CallersResolved`: the first token listed), and
`NoExistenceOracleHolds` that the routes add nothing to tell by (`ToldNothing`): with a
settled reference and a limit that leaves no job out, of their lookups and checks none
happens in an order that gives existence away.

Recursive functions are in reach of the provers as long as the theorem is about one
list: the recursion is given a solution, and what it computes follows by induction over
an interval (`IntervalInduction`), from the library's theorem on well-founded minima.

### Assumptions

All are named in the module that declares the constants. Besides types and
distinct names they are: one node without Postgres (`SingleNodeIsAlone`), the janitor
only with it (`JanitorIsHa`), finitely many keys and requests where sets of them are
counted (`KeysFinite`, `RequestsFinite`), a positive rate window (`Times`). The special values
differ from what they stand beside (`NoneIsNothing`, `NoneIsNoTxn`, `NoneIsNoSession`,
`GhostIsNobody`, ...).

The access theorems assume that grants have one of the three forms of pattern over
segments (`WellFormed`) and that the boards tell the patterns of a configuration apart
(`Apart`), as `Due` compares patterns by the boards they reach: with too few boards a tree
and a path in it would reach the same. `EveryBoardTellsApart` proves the second from the
first when every path may be a board, as in the code. A path with empty segments
(`a//*`) has none of these forms.

### Only model-checked

* Liveness under fairness, which is beyond the proof system: `RunningEnds`,
  `QueuedLeaves`, `QueuedLeavesUnlessOutage`, `WarmAnswers`, `OrphanReaped`, `OldLeaves`,
  `StaleRefreshedUnlessMisread`, `ContentHeals`.

## Not modelled

* Token cryptography, the single claims, the redirect target after a login, PKCE
  (the provider checks it); several browsers and replicas in `Login`.
* Hashing, locators, symbolic links and case of file names, formatting of answers, headers, log
  lines; the layout and widgets of the pages, the search index; reading the
  configuration file. Of its checks only those of grants and roles are used
  (`Loads`); the other settings are constants with assumptions.
* In `Janitor` the single rows of `rate_hits`: deleting what no limiter counts
  changes no answer.
* The `dct` command itself, Postgres, S3 and SQLite: external, modelled from how
  they are called.

## Plan

Modelled, in the order of importance: the queue and its contract, waiting requests,
the warm call, artifacts and their contract, the janitor, the request flow, the
routes, login and access. Every safety property that a run checks is proved; liveness
stays with TLC. What would come next:

1. `Janitor`: how many rows two overlapping sweeps leave of a board.
2. Several browsers in `Login`, whose cookies are apart but whose JWKS cache is one.
