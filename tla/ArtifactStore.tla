--------------------------- MODULE ArtifactStore ---------------------------
(***************************************************************************)
(* The life of an artifact: the renders row (store.py, store_pg.py) and    *)
(* the blob (blobs.py) that execute_render publishes (api.py), the         *)
(* retention sweeper deletes (gc.py) and raw_board streams (api.py).       *)
(*                                                                         *)
(* A locator is <board>/<key>.<fmt>: every render of a key writes the same *)
(* blob, so a key stands for its locator.  One action per awaited call.    *)
(* On one node the local backends never suspend: a task that is between    *)
(* two such calls keeps the event loop (variable loop), and only a crash   *)
(* or the clock can come in between.                                       *)
(***************************************************************************)
EXTENDS Naturals, FiniteSets

CONSTANTS
    Keys,           \* artifact keys
    Boards,
    BoardOf,        \* BoardOf[k]: the board a key was computed for
    FrozenFrom,     \* the first day on which all date variables of a key are past
    Renderers,      \* worker tasks executing execute_render
    Readers,        \* requests in raw_board
    Sweeper,        \* the retention sweeper
    HaMode,         \* TRUE: Postgres and S3; FALSE: SQLite and the local disk
    RetentionEnabled,
    MaxAgeDays, MaxPerBoard,   \* retention limits
    MaxDay,         \* bound on the clock, in days
    MaxCrashes,     \* bound on crashes
    None

ASSUME KeysFinite == IsFiniteSet(Keys)
ASSUME BoardOfType == BoardOf \in [Keys -> Boards]
ASSUME FrozenFromType == FrozenFrom \in [Keys -> Nat]
ASSUME RetentionType == MaxAgeDays \in Nat /\ MaxPerBoard \in Nat
ASSUME ClockBounds == MaxDay \in Nat /\ MaxCrashes \in Nat
ASSUME StorageModes == HaMode \in BOOLEAN /\ RetentionEnabled \in BOOLEAN
ASSUME ActorsDistinct == /\ Sweeper \notin Renderers
                         /\ None \notin Keys \cup Renderers \cup {Sweeper}

VARIABLES
    today,       \* the clock, in days
    boards,      \* boards whose YAML is in the repo
    hasRow,      \* keys with a renders row
    renderedAt,  \* renders.rendered_at
    blobs,       \* keys whose blob exists
    rpc, rkey,   \* execute_render: where each renderer is, and its key
    phase,       \* sweep_once: "idle", "scan" or "cap"
    snapAt,      \* rendered_at in the snapshot all_renders returned
    sweepDay,    \* now, as sweep_once read it
    todo,        \* records of the snapshot still to classify
    survivors,   \* records kept for the per-board cap
    excess,      \* survivors beyond the cap, still to delete
    victim, del, \* _delete: the key, and whether its row or blob is next
    loop,        \* one node: the task that keeps the event loop
    cpc, ckey,   \* raw_board: where each reader is, and its record
    swept,       \* readers whose row was deleted since they looked it up
    crashes

storeVars == <<hasRow, renderedAt, blobs>>
renderVars == <<rpc, rkey>>
sweepVars == <<phase, snapAt, sweepDay, todo, survivors, excess, victim, del>>
readVars == <<cpc, ckey, swept>>
envVars == <<today, boards, crashes>>
vars == <<today, boards, hasRow, renderedAt, blobs, rpc, rkey, phase, snapAt, sweepDay,
          todo, survivors, excess, victim, del, loop, cpc, ckey, swept, crashes>>

Frozen(k) == FrozenFrom[k] <= today            \* policy._all_in_past
MutAtMaxAge(at, day) == at + MaxAgeDays <= day
OlderThanMaxAge(at, day) == at + MaxAgeDays < day
Between(a) == HaMode \/ loop \in {None, a}     \* the loop can run the task a
Keep(a) == loop' = IF HaMode THEN None ELSE a  \* no suspension before a's next step

Init == /\ today = 0 /\ boards = Boards /\ crashes = 0
        /\ hasRow = {} /\ blobs = {}
        /\ renderedAt = [k \in Keys |-> 0]
        /\ rpc = [r \in Renderers |-> "idle"] /\ rkey = [r \in Renderers |-> None]
        /\ phase = "idle" /\ snapAt = [k \in Keys |-> 0] /\ sweepDay = 0
        /\ todo = {} /\ survivors = {} /\ excess = {}
        /\ victim = None /\ del = "none"
        /\ loop = None
        /\ cpc = [c \in Readers |-> "none"] /\ ckey = [c \in Readers |-> None]
        /\ swept = {}

-----------------------------------------------------------------------------
(* RenderService.execute_render *)

(* The board resolves and dct render starts.  On one node no other worker  *)
(* renders the key (RenderQueue!OneRenderPerKey); on several one may.      *)
Begin(r, k) ==
    /\ Between(r) /\ rpc[r] = "idle" /\ BoardOf[k] \in boards
    /\ HaMode \/ \A q \in Renderers : rkey[q] # k
    /\ rpc' = [rpc EXCEPT ![r] = "render"]
    /\ rkey' = [rkey EXCEPT ![r] = k]
    /\ UNCHANGED <<storeVars, sweepVars, readVars, envVars, loop>>

RenderOk(r) ==
    /\ Between(r) /\ rpc[r] = "render"
    /\ rpc' = [rpc EXCEPT ![r] = "put"]
    /\ Keep(r)
    /\ UNCHANGED <<rkey, storeVars, sweepVars, readVars, envVars>>

(* put_file: os.replace, or one S3 PUT. *)
PutBlob(r) ==
    /\ Between(r) /\ rpc[r] = "put"
    /\ blobs' = blobs \cup {rkey[r]}
    /\ rpc' = [rpc EXCEPT ![r] = "row"]
    /\ Keep(r)
    /\ UNCHANGED <<rkey, hasRow, renderedAt, sweepVars, readVars, envVars>>

(* store.put: insert or replace the row, stamped now. *)
MutStampTomorrow == today + 1
utcnow == today

PutRow(r) ==
    /\ Between(r) /\ rpc[r] = "row"
    /\ hasRow' = hasRow \cup {rkey[r]}
    /\ renderedAt' = [renderedAt EXCEPT ![rkey[r]] = utcnow]
    /\ rpc' = [rpc EXCEPT ![r] = "idle"]
    /\ rkey' = [rkey EXCEPT ![r] = None]
    /\ loop' = None
    /\ UNCHANGED <<blobs, sweepVars, readVars, envVars>>

(* An exception: dct fails or times out, the upload fails (with or without *)
(* having stored the object), or the row write fails.  No row is written.  *)
MutUnlinkPublished(r) ==
    /\ Between(r) /\ rpc[r] # "idle"
    /\ blobs' = blobs \ {rkey[r]}
    /\ rpc' = [rpc EXCEPT ![r] = "idle"]
    /\ rkey' = [rkey EXCEPT ![r] = None]
    /\ loop' = None
    /\ UNCHANGED <<hasRow, renderedAt, sweepVars, readVars, envVars>>
RenderFails(r) ==
    /\ Between(r) /\ rpc[r] # "idle"
    /\ \/ UNCHANGED blobs
       \/ HaMode /\ rpc[r] = "put" /\ blobs' = blobs \cup {rkey[r]}
    /\ rpc' = [rpc EXCEPT ![r] = "idle"]
    /\ rkey' = [rkey EXCEPT ![r] = None]
    /\ loop' = None
    /\ UNCHANGED <<hasRow, renderedAt, sweepVars, readVars, envVars>>

-----------------------------------------------------------------------------
(* RetentionSweeper.sweep_once *)

SweepStart ==
    /\ RetentionEnabled /\ Between(Sweeper) /\ phase = "idle"
    /\ phase' = "scan"
    /\ sweepDay' = today
    /\ todo' = hasRow
    /\ snapAt' = renderedAt
    /\ survivors' = {} /\ excess' = {}
    /\ IF hasRow = {} THEN Keep(Sweeper) ELSE UNCHANGED loop
    /\ UNCHANGED <<victim, del, storeVars, renderVars, readVars, envVars>>

(* _keeps: a board gone from the repo is never kept; a frozen one is, and  *)
(* so is one that could not be described.                                  *)
MutPruneBlind(k, described) == BoardOf[k] \in boards /\ described /\ Frozen(k)
MutKeepsUnknownOnly(k, described) == BoardOf[k] \in boards
Keeps(k, described) == BoardOf[k] \in boards /\ (~described \/ Frozen(k))

(* One record, newest first; described = FALSE when dct describe failed. *)
SweepRecord(k, described) ==
    /\ Between(Sweeper) /\ phase = "scan" /\ del = "none" /\ k \in todo
    /\ \A i \in todo : snapAt[i] <= snapAt[k]
    /\ todo' = todo \ {k}
    /\ LET kept    == Keeps(k, described)
           expired == ~kept /\ OlderThanMaxAge(snapAt[k], sweepDay)
       IN  /\ victim' = IF expired THEN k ELSE None
           /\ del' = IF expired THEN "row" ELSE "none"
           /\ survivors' = IF kept \/ expired THEN survivors ELSE survivors \cup {k}
           /\ IF expired \/ todo = {k} THEN Keep(Sweeper) ELSE loop' = None
    /\ UNCHANGED <<phase, snapAt, sweepDay, excess, storeVars, renderVars, readVars, envVars>>

(* records[max_per_board:] of each board's survivors, newest first. *)
MutBeyondCapOffByOne(X) ==
    \A b \in Boards :
        LET R == {k \in survivors : BoardOf[k] = b}
        IN  /\ \A k \in R \ X, x \in R \cap X : snapAt[x] <= snapAt[k]
            /\ \/ Cardinality(R \ X) = MaxPerBoard + 1
               \/ R \cap X = {} /\ Cardinality(R) <= MaxPerBoard
MutBeyondCapOldestKept(X) ==
    \A b \in Boards :
        LET R == {k \in survivors : BoardOf[k] = b}
        IN  /\ \A k \in R \ X, x \in R \cap X : snapAt[x] >= snapAt[k]
            /\ \/ Cardinality(R \ X) = MaxPerBoard
               \/ R \cap X = {} /\ Cardinality(R) < MaxPerBoard
BeyondCap(X) ==
    \A b \in Boards :
        LET R == {k \in survivors : BoardOf[k] = b}
        IN  /\ \A k \in R \ X, x \in R \cap X : snapAt[x] <= snapAt[k]
            /\ \/ Cardinality(R \ X) = MaxPerBoard
               \/ R \cap X = {} /\ Cardinality(R) < MaxPerBoard

SweepCap ==
    /\ Between(Sweeper) /\ phase = "scan" /\ del = "none" /\ todo = {}
    /\ phase' = "cap"
    /\ \E X \in SUBSET survivors : BeyondCap(X) /\ excess' = X
    /\ Keep(Sweeper)
    /\ UNCHANGED <<snapAt, sweepDay, todo, survivors, victim, del,
                   storeVars, renderVars, readVars, envVars>>

SweepExcess(k) ==
    /\ Between(Sweeper) /\ phase = "cap" /\ del = "none" /\ k \in excess
    /\ excess' = excess \ {k}
    /\ victim' = k /\ del' = "row"
    /\ Keep(Sweeper)
    /\ UNCHANGED <<phase, snapAt, sweepDay, todo, survivors,
                   storeVars, renderVars, readVars, envVars>>

(* Canonical idle values: the locals of sweep_once are gone. *)
SweepLocalsGone ==
    /\ phase' = "idle" /\ snapAt' = [k \in Keys |-> 0] /\ sweepDay' = 0
    /\ todo' = {} /\ survivors' = {} /\ excess' = {}
    /\ victim' = None /\ del' = "none"

SweepEnd ==
    /\ Between(Sweeper) /\ phase = "cap" /\ del = "none" /\ excess = {}
    /\ SweepLocalsGone
    /\ loop' = None
    /\ UNCHANGED <<storeVars, renderVars, readVars, envVars>>

(* _delete: the row, then the blob unless there was no row. *)
MutDeleteBlobFirst ==
    /\ Between(Sweeper) /\ del = "row"
    /\ blobs' = blobs \ {victim}
    /\ del' = "blob"
    /\ Keep(Sweeper)
    /\ UNCHANGED <<hasRow, renderedAt, phase, snapAt, sweepDay, todo, survivors, excess,
                   victim, renderVars, readVars, envVars>>
DeleteRow ==
    /\ Between(Sweeper) /\ del = "row"
    /\ hasRow' = hasRow \ {victim}
    /\ renderedAt' = [renderedAt EXCEPT ![victim] = 0]
    /\ swept' = swept \cup {c \in Readers : ckey[c] = victim}
    /\ IF victim \in hasRow
       THEN del' = "blob" /\ UNCHANGED victim
       ELSE del' = "none" /\ victim' = None
    /\ Keep(Sweeper)
    /\ UNCHANGED <<blobs, phase, snapAt, sweepDay, todo, survivors, excess,
                   renderVars, cpc, ckey, envVars>>

DeleteBlob ==
    /\ Between(Sweeper) /\ del = "blob"
    /\ blobs' = blobs \ {victim}
    /\ del' = "none" /\ victim' = None
    /\ IF phase = "scan" /\ todo # {} THEN loop' = None ELSE Keep(Sweeper)
    /\ UNCHANGED <<hasRow, renderedAt, phase, snapAt, sweepDay, todo, survivors, excess,
                   renderVars, readVars, envVars>>

(* A store or blob call raises: sweep_once is abandoned, the loop in run   *)
(* or janitor_loop logs and sleeps.                                        *)
SweepFails ==
    /\ Between(Sweeper) /\ del # "none"
    /\ SweepLocalsGone
    /\ loop' = None
    /\ UNCHANGED <<storeVars, renderVars, readVars, envVars>>

-----------------------------------------------------------------------------
(* raw_board, for a key that has a row *)

Lookup(c, k) ==
    /\ Between(c) /\ cpc[c] = "none" /\ k \in hasRow
    /\ cpc' = [cpc EXCEPT ![c] = "found"]
    /\ ckey' = [ckey EXCEPT ![c] = k]
    /\ swept' = swept \ {c}
    /\ UNCHANGED <<storeVars, renderVars, sweepVars, envVars, loop>>

(* blobs.exists: 404 or a streaming response. *)
CheckExists(c) ==
    /\ Between(c) /\ cpc[c] = "found"
    /\ cpc' = [cpc EXCEPT ![c] = IF ckey[c] \in blobs THEN "stream" ELSE "missing"]
    /\ UNCHANGED <<ckey, swept, storeVars, renderVars, sweepVars, envVars, loop>>

(* blobs.read, once the response is being sent: BlobMissing breaks it. *)
Stream(c) ==
    /\ Between(c) /\ cpc[c] = "stream"
    /\ cpc' = [cpc EXCEPT ![c] = IF ckey[c] \in blobs THEN "served" ELSE "broken"]
    /\ UNCHANGED <<ckey, swept, storeVars, renderVars, sweepVars, envVars, loop>>

Leave(c) ==
    /\ cpc[c] \in {"served", "missing", "broken"}
    /\ cpc' = [cpc EXCEPT ![c] = "none"]
    /\ ckey' = [ckey EXCEPT ![c] = None]
    /\ swept' = swept \ {c}
    /\ UNCHANGED <<storeVars, renderVars, sweepVars, envVars, loop>>

-----------------------------------------------------------------------------
(* The environment *)

NextDay == /\ today < MaxDay /\ today' = today + 1
           /\ UNCHANGED <<boards, crashes, storeVars, renderVars, sweepVars, readVars, loop>>

(* A deploy removes a board's YAML. *)
RemoveBoard(b) == /\ b \in boards /\ boards' = boards \ {b}
                  /\ UNCHANGED <<today, crashes, storeVars, renderVars, sweepVars, readVars, loop>>

(* One process dies: everything on one node, some of the tasks in HA. *)
Crash(R, sweeperToo, C) ==
    /\ crashes < MaxCrashes /\ crashes' = crashes + 1
    /\ HaMode \/ (R = Renderers /\ sweeperToo /\ C = Readers)
    /\ rpc' = [r \in Renderers |-> IF r \in R THEN "idle" ELSE rpc[r]]
    /\ rkey' = [r \in Renderers |-> IF r \in R THEN None ELSE rkey[r]]
    /\ IF sweeperToo THEN SweepLocalsGone ELSE UNCHANGED sweepVars
    /\ cpc' = [c \in Readers |-> IF c \in C THEN "none" ELSE cpc[c]]
    /\ ckey' = [c \in Readers |-> IF c \in C THEN None ELSE ckey[c]]
    /\ swept' = swept \ C
    /\ loop' = None
    /\ UNCHANGED <<today, boards, storeVars>>

-----------------------------------------------------------------------------
Publish(r) == RenderOk(r) \/ PutBlob(r) \/ PutRow(r) \/ RenderFails(r)
SweepStep == \/ SweepStart \/ SweepCap \/ SweepEnd \/ DeleteRow \/ DeleteBlob
             \/ \E k \in Keys : SweepRecord(k, TRUE) \/ SweepRecord(k, FALSE)
             \/ \E k \in Keys : SweepExcess(k)

Next ==
    \/ \E r \in Renderers, k \in Keys : Begin(r, k)
    \/ \E r \in Renderers : Publish(r)
    \/ SweepStep \/ SweepFails
    \/ \E c \in Readers, k \in Keys : Lookup(c, k)
    \/ \E c \in Readers : CheckExists(c) \/ Stream(c) \/ Leave(c)
    \/ NextDay \/ \E b \in Boards : RemoveBoard(b)
    \/ \E R \in SUBSET Renderers, s \in BOOLEAN, C \in SUBSET Readers : Crash(R, s, C)

Spec == Init /\ [][Next]_vars

-----------------------------------------------------------------------------
(* Properties *)

TypeOK ==
    /\ today \in 0..MaxDay /\ boards \in SUBSET Boards /\ crashes \in 0..MaxCrashes
    /\ hasRow \in SUBSET Keys /\ blobs \in SUBSET Keys
    /\ renderedAt \in [Keys -> 0..MaxDay]
    /\ rpc \in [Renderers -> {"idle", "render", "put", "row"}]
    /\ rkey \in [Renderers -> Keys \cup {None}]
    /\ phase \in {"idle", "scan", "cap"}
    /\ snapAt \in [Keys -> 0..MaxDay] /\ sweepDay \in 0..MaxDay
    /\ todo \in SUBSET Keys /\ survivors \in SUBSET Keys /\ excess \in SUBSET Keys
    /\ victim \in Keys \cup {None} /\ del \in {"none", "row", "blob"}
    /\ loop \in Renderers \cup {Sweeper, None}
    /\ cpc \in [Readers -> {"none", "found", "stream", "served", "missing", "broken"}]
    /\ ckey \in [Readers -> Keys \cup {None}]
    /\ swept \in SUBSET Readers

(* store.py: "a renders row always implies its blob exists", through       *)
(* renders, failures, sweeps and crashes between any two calls.            *)
RowImpliesBlob == hasRow \subseteq blobs

(* A viewer whose lookup found a row gets its bytes, unless the sweeper    *)
(* deleted that very row while the request was in flight.                  *)
ServedUnlessSwept ==
    \A c \in Readers : cpc[c] \in {"missing", "broken"} => c \in swept

(* gc.py: "Frozen snapshots are exempt": a sweep never deletes what was     *)
(* frozen when it began, while its board is in the repo, also when the day *)
(* changes, describe fails or rows are replaced under it.                  *)
Deleted == hasRow \ hasRow'
FrozenKept == [][\A k \in Deleted : BoardOf[k] \in boards => FrozenFrom[k] > sweepDay]_vars

(* gc.py: what goes for its age is "older than max_age_days", or has been   *)
(* rendered anew since the snapshot the sweep works from.                  *)
AgedOut == [][phase = "scan" => \A k \in Deleted :
    renderedAt[k] + MaxAgeDays < sweepDay \/ renderedAt[k] > snapAt[k]]_vars

(* gc.py, "newest kept": what goes for the cap leaves max_per_board rows of *)
(* its board behind that are no older than it was in the snapshot.         *)
NewestKept == [][phase = "cap" => \A k \in Deleted :
    Cardinality({i \in hasRow' : BoardOf[i] = BoardOf[k] /\ renderedAt[i] >= snapAt[k]})
        >= MaxPerBoard]_vars

(* gc.py: a sweep that completes leaves at most max_per_board of the        *)
(* non-frozen rows it listed, per board.                                   *)
CapEnforced == [][phase = "cap" /\ del = "none" /\ excess = {} /\ phase' = "idle" =>
    \A b \in Boards :
        Cardinality({k \in survivors \cap hasRow : BoardOf[k] = b}) <= MaxPerBoard]_vars

(* gc.py: an expired row that is not frozen, or whose board is gone from   *)
(* the repo, is deleted in the end, unless it is refreshed.                *)
Overdue(k) ==
    /\ k \in hasRow /\ OlderThanMaxAge(renderedAt[k], today)
    /\ FrozenFrom[k] > MaxDay \/ BoardOf[k] \notin boards
OldLeaves == \A k \in Keys : Overdue(k) ~> ~Overdue(k)

(* On one node rows, blobs and readers implement the artifact cache: no     *)
(* viewer, crash or sweep ever meets half of a publication or a deletion.  *)
Answer(label) == CASE label \in {"found", "stream"}   -> "open"
                   [] label \in {"missing", "broken"} -> "lost"
                   [] label \in {"none", "served"}    -> label
Cache == INSTANCE ArtifactCache WITH
             avail <- hasRow \cap blobs,
             asked <- ckey,
             answer <- [c \in Readers |-> Answer(cpc[c])],
             dropped <- swept
ImplementsCache == Cache!Spec

=============================================================================
