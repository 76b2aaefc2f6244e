------------------------ MODULE ArtifactStoreProofs ------------------------
(***************************************************************************)
(* A renders row implies its blob, for every number of keys, workers,      *)
(* readers and crashes: on one node, and on many as long as retention is   *)
(* off (its default).  The ordering blob-then-row, row-then-blob is not    *)
(* enough by itself: the proof needs that a publisher between its blob and *)
(* its row, and the sweeper between its row and its blob, never run at the *)
(* same time, which is what the event loop gives on one node (LoopKept).   *)
(***************************************************************************)
EXTENDS ArtifactStore, FiniteSetTheorems, TLAPS

Guarded == ~HaMode \/ ~RetentionEnabled

TasksHaveKeys ==
    /\ \A r \in Renderers : rpc[r] # "idle" => rkey[r] \in Keys
    /\ del # "none" => victim \in Keys
    /\ \A c \in Readers : IF cpc[c] = "none" THEN ckey[c] = None ELSE ckey[c] \in Keys

NoSweepUnlessEnabled == ~RetentionEnabled => phase = "idle" /\ del = "none"

IdleDeletesNothing == phase = "idle" => del = "none"

LoopKept == ~HaMode =>
    /\ \A r \in Renderers : rpc[r] \in {"put", "row"} => loop = r
    /\ del # "none" => loop = Sweeper

StagedIsPublished == Guarded =>
    \A r \in Renderers : rpc[r] = "row" => rkey[r] \in blobs

DoomedBlobHasNoRow == Guarded => (del = "blob" => victim \notin hasRow)

RowsHaveBlobs == Guarded => RowImpliesBlob

(* What a reader found is still there, or was swept under its feet. *)
FoundStillThere == \A c \in Readers :
    cpc[c] # "none" => ckey[c] \in hasRow \/ c \in swept

ReadersServed == Guarded => ServedUnlessSwept

IInv == /\ TypeOK /\ TasksHaveKeys /\ NoSweepUnlessEnabled /\ IdleDeletesNothing
        /\ LoopKept /\ StagedIsPublished /\ DoomedBlobHasNoRow
        /\ RowsHaveBlobs /\ FoundStillThere /\ ReadersServed

-----------------------------------------------------------------------------
USE BoardOfType, FrozenFromType, RetentionType, ClockBounds, StorageModes, ActorsDistinct
    DEF storeVars, renderVars, sweepVars, readVars, envVars, vars

LEMMA BeginStep ==
    ASSUME IInv, NEW r \in Renderers, NEW k \in Keys, Begin(r, k)
    PROVE  IInv'
<1> USE DEF IInv, TypeOK, Begin
<1>1. TypeOK'
  OBVIOUS
<1>2. TasksHaveKeys'
  BY DEF TasksHaveKeys
<1>3. NoSweepUnlessEnabled'
  BY DEF NoSweepUnlessEnabled, IdleDeletesNothing
<1>4. IdleDeletesNothing'
  BY DEF IdleDeletesNothing
<1>5. LoopKept'
  BY DEF LoopKept
<1>6. StagedIsPublished'
  BY DEF StagedIsPublished, Guarded, LoopKept, NoSweepUnlessEnabled
<1>7. DoomedBlobHasNoRow'
  BY DEF DoomedBlobHasNoRow, Guarded, LoopKept, NoSweepUnlessEnabled
<1>8. RowsHaveBlobs'
  BY DEF RowsHaveBlobs, RowImpliesBlob, StagedIsPublished, DoomedBlobHasNoRow, Guarded
<1>9. FoundStillThere'
  BY DEF FoundStillThere
<1>10. ReadersServed'
  BY DEF ReadersServed, ServedUnlessSwept, FoundStillThere, RowsHaveBlobs, RowImpliesBlob, Guarded
<1> QED
  BY <1>1, <1>2, <1>3, <1>4, <1>5, <1>6, <1>7, <1>8, <1>9, <1>10

LEMMA RenderOkStep ==
    ASSUME IInv, NEW r \in Renderers, RenderOk(r)
    PROVE  IInv'
<1> USE DEF IInv, TypeOK, RenderOk, Between, Keep
<1>1. TypeOK'
  OBVIOUS
<1>2. TasksHaveKeys'
  BY DEF TasksHaveKeys
<1>3. NoSweepUnlessEnabled'
  BY DEF NoSweepUnlessEnabled, IdleDeletesNothing
<1>4. IdleDeletesNothing'
  BY DEF IdleDeletesNothing
<1>5. LoopKept'
  BY DEF LoopKept
<1>6. StagedIsPublished'
  BY DEF StagedIsPublished, Guarded, LoopKept, NoSweepUnlessEnabled
<1>7. DoomedBlobHasNoRow'
  BY DEF DoomedBlobHasNoRow, Guarded, LoopKept, NoSweepUnlessEnabled
<1>8. RowsHaveBlobs'
  BY DEF RowsHaveBlobs, RowImpliesBlob, StagedIsPublished, DoomedBlobHasNoRow, Guarded
<1>9. FoundStillThere'
  BY DEF FoundStillThere
<1>10. ReadersServed'
  BY DEF ReadersServed, ServedUnlessSwept, FoundStillThere, RowsHaveBlobs, RowImpliesBlob, Guarded
<1> QED
  BY <1>1, <1>2, <1>3, <1>4, <1>5, <1>6, <1>7, <1>8, <1>9, <1>10

LEMMA PutBlobStep ==
    ASSUME IInv, NEW r \in Renderers, PutBlob(r)
    PROVE  IInv'
<1> USE DEF IInv, TypeOK, PutBlob, Between, Keep
<1>1. TypeOK'
  BY DEF TasksHaveKeys
<1>2. TasksHaveKeys'
  BY DEF TasksHaveKeys
<1>3. NoSweepUnlessEnabled'
  BY DEF NoSweepUnlessEnabled, IdleDeletesNothing
<1>4. IdleDeletesNothing'
  BY DEF IdleDeletesNothing
<1>5. LoopKept'
  BY DEF LoopKept
<1>6. StagedIsPublished'
  BY DEF StagedIsPublished, Guarded, LoopKept, NoSweepUnlessEnabled
<1>7. DoomedBlobHasNoRow'
  BY DEF DoomedBlobHasNoRow, Guarded, LoopKept, NoSweepUnlessEnabled
<1>8. RowsHaveBlobs'
  BY DEF RowsHaveBlobs, RowImpliesBlob, StagedIsPublished, DoomedBlobHasNoRow, Guarded
<1>9. FoundStillThere'
  BY DEF FoundStillThere
<1>10. ReadersServed'
  BY DEF ReadersServed, ServedUnlessSwept, FoundStillThere, RowsHaveBlobs, RowImpliesBlob, Guarded
<1> QED
  BY <1>1, <1>2, <1>3, <1>4, <1>5, <1>6, <1>7, <1>8, <1>9, <1>10

LEMMA PutRowStep ==
    ASSUME IInv, NEW r \in Renderers, PutRow(r)
    PROVE  IInv'
<1> USE DEF IInv, TypeOK, PutRow, Between, utcnow
<1>1. TypeOK'
  BY DEF TasksHaveKeys
<1>2. TasksHaveKeys'
  BY DEF TasksHaveKeys
<1>3. NoSweepUnlessEnabled'
  BY DEF NoSweepUnlessEnabled, IdleDeletesNothing
<1>4. IdleDeletesNothing'
  BY DEF IdleDeletesNothing
<1>5. LoopKept'
  BY DEF LoopKept
<1>6. StagedIsPublished'
  BY DEF StagedIsPublished, Guarded, LoopKept, NoSweepUnlessEnabled
<1>7. DoomedBlobHasNoRow'
  BY DEF DoomedBlobHasNoRow, Guarded, LoopKept, NoSweepUnlessEnabled
<1>8. RowsHaveBlobs'
  BY DEF RowsHaveBlobs, RowImpliesBlob, StagedIsPublished, DoomedBlobHasNoRow, Guarded
<1>9. FoundStillThere'
  BY DEF FoundStillThere
<1>10. ReadersServed'
  BY DEF ReadersServed, ServedUnlessSwept, FoundStillThere, RowsHaveBlobs, RowImpliesBlob, Guarded
<1> QED
  BY <1>1, <1>2, <1>3, <1>4, <1>5, <1>6, <1>7, <1>8, <1>9, <1>10

LEMMA RenderFailsStep ==
    ASSUME IInv, NEW r \in Renderers, RenderFails(r)
    PROVE  IInv'
<1> USE DEF IInv, TypeOK, RenderFails, Between
<1>1. TypeOK'
  BY DEF TasksHaveKeys
<1>2. TasksHaveKeys'
  BY DEF TasksHaveKeys
<1>3. NoSweepUnlessEnabled'
  BY DEF NoSweepUnlessEnabled, IdleDeletesNothing
<1>4. IdleDeletesNothing'
  BY DEF IdleDeletesNothing
<1>5. LoopKept'
  BY DEF LoopKept
<1>6. StagedIsPublished'
  BY DEF StagedIsPublished, Guarded, LoopKept, NoSweepUnlessEnabled
<1>7. DoomedBlobHasNoRow'
  BY DEF DoomedBlobHasNoRow, Guarded, LoopKept, NoSweepUnlessEnabled
<1>8. RowsHaveBlobs'
  BY DEF RowsHaveBlobs, RowImpliesBlob, StagedIsPublished, DoomedBlobHasNoRow, Guarded
<1>9. FoundStillThere'
  BY DEF FoundStillThere
<1>10. ReadersServed'
  BY DEF ReadersServed, ServedUnlessSwept, FoundStillThere, RowsHaveBlobs, RowImpliesBlob, Guarded
<1> QED
  BY <1>1, <1>2, <1>3, <1>4, <1>5, <1>6, <1>7, <1>8, <1>9, <1>10

LEMMA SweepStartStep ==
    ASSUME IInv, SweepStart
    PROVE  IInv'
<1> USE DEF IInv, TypeOK, SweepStart, Between, Keep
<1>1. TypeOK'
  OBVIOUS
<1>2. TasksHaveKeys'
  BY DEF TasksHaveKeys
<1>3. NoSweepUnlessEnabled'
  BY DEF NoSweepUnlessEnabled, IdleDeletesNothing
<1>4. IdleDeletesNothing'
  BY DEF IdleDeletesNothing
<1>5. LoopKept'
  BY DEF LoopKept
<1>6. StagedIsPublished'
  BY DEF StagedIsPublished, Guarded, LoopKept, NoSweepUnlessEnabled
<1>7. DoomedBlobHasNoRow'
  BY DEF DoomedBlobHasNoRow, Guarded, LoopKept, NoSweepUnlessEnabled
<1>8. RowsHaveBlobs'
  BY DEF RowsHaveBlobs, RowImpliesBlob, StagedIsPublished, DoomedBlobHasNoRow, Guarded
<1>9. FoundStillThere'
  BY DEF FoundStillThere
<1>10. ReadersServed'
  BY DEF ReadersServed, ServedUnlessSwept, FoundStillThere, RowsHaveBlobs, RowImpliesBlob, Guarded
<1> QED
  BY <1>1, <1>2, <1>3, <1>4, <1>5, <1>6, <1>7, <1>8, <1>9, <1>10

LEMMA SweepRecordStep ==
    ASSUME IInv, NEW k \in Keys, NEW described \in BOOLEAN, SweepRecord(k, described)
    PROVE  IInv'
<1> USE DEF IInv, TypeOK, SweepRecord, Between, Keep
<1>1. TypeOK'
  OBVIOUS
<1>2. TasksHaveKeys'
  BY DEF TasksHaveKeys
<1>3. NoSweepUnlessEnabled'
  BY DEF NoSweepUnlessEnabled, IdleDeletesNothing
<1>4. IdleDeletesNothing'
  BY DEF IdleDeletesNothing
<1>5. LoopKept'
  BY DEF LoopKept
<1>6. StagedIsPublished'
  BY DEF StagedIsPublished, Guarded, LoopKept, NoSweepUnlessEnabled
<1>7. DoomedBlobHasNoRow'
  BY DEF DoomedBlobHasNoRow, Guarded, LoopKept, NoSweepUnlessEnabled
<1>8. RowsHaveBlobs'
  BY DEF RowsHaveBlobs, RowImpliesBlob, StagedIsPublished, DoomedBlobHasNoRow, Guarded
<1>9. FoundStillThere'
  BY DEF FoundStillThere
<1>10. ReadersServed'
  BY DEF ReadersServed, ServedUnlessSwept, FoundStillThere, RowsHaveBlobs, RowImpliesBlob, Guarded
<1> QED
  BY <1>1, <1>2, <1>3, <1>4, <1>5, <1>6, <1>7, <1>8, <1>9, <1>10

LEMMA SweepCapStep ==
    ASSUME IInv, SweepCap
    PROVE  IInv'
<1> USE DEF IInv, TypeOK, SweepCap, Between, Keep
<1>1. TypeOK'
  OBVIOUS
<1>2. TasksHaveKeys'
  BY DEF TasksHaveKeys
<1>3. NoSweepUnlessEnabled'
  BY DEF NoSweepUnlessEnabled, IdleDeletesNothing
<1>4. IdleDeletesNothing'
  BY DEF IdleDeletesNothing
<1>5. LoopKept'
  BY DEF LoopKept
<1>6. StagedIsPublished'
  BY DEF StagedIsPublished, Guarded, LoopKept, NoSweepUnlessEnabled
<1>7. DoomedBlobHasNoRow'
  BY DEF DoomedBlobHasNoRow, Guarded, LoopKept, NoSweepUnlessEnabled
<1>8. RowsHaveBlobs'
  BY DEF RowsHaveBlobs, RowImpliesBlob, StagedIsPublished, DoomedBlobHasNoRow, Guarded
<1>9. FoundStillThere'
  BY DEF FoundStillThere
<1>10. ReadersServed'
  BY DEF ReadersServed, ServedUnlessSwept, FoundStillThere, RowsHaveBlobs, RowImpliesBlob, Guarded
<1> QED
  BY <1>1, <1>2, <1>3, <1>4, <1>5, <1>6, <1>7, <1>8, <1>9, <1>10

LEMMA SweepExcessStep ==
    ASSUME IInv, NEW k \in Keys, SweepExcess(k)
    PROVE  IInv'
<1> USE DEF IInv, TypeOK, SweepExcess, Between, Keep
<1>1. TypeOK'
  OBVIOUS
<1>2. TasksHaveKeys'
  BY DEF TasksHaveKeys
<1>3. NoSweepUnlessEnabled'
  BY DEF NoSweepUnlessEnabled, IdleDeletesNothing
<1>4. IdleDeletesNothing'
  BY DEF IdleDeletesNothing
<1>5. LoopKept'
  BY DEF LoopKept
<1>6. StagedIsPublished'
  BY DEF StagedIsPublished, Guarded, LoopKept, NoSweepUnlessEnabled
<1>7. DoomedBlobHasNoRow'
  BY DEF DoomedBlobHasNoRow, Guarded, LoopKept, NoSweepUnlessEnabled
<1>8. RowsHaveBlobs'
  BY DEF RowsHaveBlobs, RowImpliesBlob, StagedIsPublished, DoomedBlobHasNoRow, Guarded
<1>9. FoundStillThere'
  BY DEF FoundStillThere
<1>10. ReadersServed'
  BY DEF ReadersServed, ServedUnlessSwept, FoundStillThere, RowsHaveBlobs, RowImpliesBlob, Guarded
<1> QED
  BY <1>1, <1>2, <1>3, <1>4, <1>5, <1>6, <1>7, <1>8, <1>9, <1>10

LEMMA SweepEndStep ==
    ASSUME IInv, SweepEnd \/ SweepFails
    PROVE  IInv'
<1> USE DEF IInv, TypeOK, SweepEnd, SweepFails, SweepLocalsGone, Between
<1>1. TypeOK'
  OBVIOUS
<1>2. TasksHaveKeys'
  BY DEF TasksHaveKeys
<1>3. NoSweepUnlessEnabled'
  BY DEF NoSweepUnlessEnabled, IdleDeletesNothing
<1>4. IdleDeletesNothing'
  BY DEF IdleDeletesNothing
<1>5. LoopKept'
  BY DEF LoopKept
<1>6. StagedIsPublished'
  BY DEF StagedIsPublished, Guarded, LoopKept, NoSweepUnlessEnabled
<1>7. DoomedBlobHasNoRow'
  BY DEF DoomedBlobHasNoRow, Guarded, LoopKept, NoSweepUnlessEnabled
<1>8. RowsHaveBlobs'
  BY DEF RowsHaveBlobs, RowImpliesBlob, StagedIsPublished, DoomedBlobHasNoRow, Guarded
<1>9. FoundStillThere'
  BY DEF FoundStillThere
<1>10. ReadersServed'
  BY DEF ReadersServed, ServedUnlessSwept, FoundStillThere, RowsHaveBlobs, RowImpliesBlob, Guarded
<1> QED
  BY <1>1, <1>2, <1>3, <1>4, <1>5, <1>6, <1>7, <1>8, <1>9, <1>10

LEMMA DeleteRowStep ==
    ASSUME IInv, DeleteRow
    PROVE  IInv'
<1> USE DEF IInv, TypeOK, DeleteRow, Between, Keep
<1>1. TypeOK'
  BY DEF TasksHaveKeys
<1>2. TasksHaveKeys'
  BY DEF TasksHaveKeys
<1>3. NoSweepUnlessEnabled'
  BY DEF NoSweepUnlessEnabled, IdleDeletesNothing
<1>4. IdleDeletesNothing'
  BY DEF IdleDeletesNothing
<1>5. LoopKept'
  BY DEF LoopKept
<1>6. StagedIsPublished'
  BY DEF StagedIsPublished, Guarded, LoopKept, NoSweepUnlessEnabled
<1>7. DoomedBlobHasNoRow'
  BY DEF DoomedBlobHasNoRow, Guarded, LoopKept, NoSweepUnlessEnabled
<1>8. RowsHaveBlobs'
  BY DEF RowsHaveBlobs, RowImpliesBlob, StagedIsPublished, DoomedBlobHasNoRow, Guarded
<1>9. FoundStillThere'
  BY DEF FoundStillThere
<1>10. ReadersServed'
  BY DEF ReadersServed, ServedUnlessSwept, FoundStillThere, RowsHaveBlobs, RowImpliesBlob, Guarded
<1> QED
  BY <1>1, <1>2, <1>3, <1>4, <1>5, <1>6, <1>7, <1>8, <1>9, <1>10

LEMMA DeleteBlobStep ==
    ASSUME IInv, DeleteBlob
    PROVE  IInv'
<1> USE DEF IInv, TypeOK, DeleteBlob, Between, Keep
<1>1. TypeOK'
  OBVIOUS
<1>2. TasksHaveKeys'
  BY DEF TasksHaveKeys
<1>3. NoSweepUnlessEnabled'
  BY DEF NoSweepUnlessEnabled, IdleDeletesNothing
<1>4. IdleDeletesNothing'
  BY DEF IdleDeletesNothing
<1>5. LoopKept'
  BY DEF LoopKept
<1>6. StagedIsPublished'
  BY DEF StagedIsPublished, Guarded, LoopKept, NoSweepUnlessEnabled
<1>7. DoomedBlobHasNoRow'
  BY DEF DoomedBlobHasNoRow, Guarded, LoopKept, NoSweepUnlessEnabled
<1>8. RowsHaveBlobs'
  BY DEF RowsHaveBlobs, RowImpliesBlob, StagedIsPublished, DoomedBlobHasNoRow, Guarded
<1>9. FoundStillThere'
  BY DEF FoundStillThere
<1>10. ReadersServed'
  BY DEF ReadersServed, ServedUnlessSwept, FoundStillThere, RowsHaveBlobs, RowImpliesBlob, Guarded
<1> QED
  BY <1>1, <1>2, <1>3, <1>4, <1>5, <1>6, <1>7, <1>8, <1>9, <1>10

LEMMA ReaderStep ==
    ASSUME IInv, NEW c \in Readers,
           \/ \E k \in Keys : Lookup(c, k)
           \/ CheckExists(c) \/ Stream(c) \/ Leave(c)
    PROVE  IInv'
<1> USE DEF IInv, TypeOK, Lookup, CheckExists, Stream, Leave
<1>1. TypeOK'
  OBVIOUS
<1>2. TasksHaveKeys'
  BY DEF TasksHaveKeys
<1>3. NoSweepUnlessEnabled'
  BY DEF NoSweepUnlessEnabled, IdleDeletesNothing
<1>4. IdleDeletesNothing'
  BY DEF IdleDeletesNothing
<1>5. LoopKept'
  BY DEF LoopKept
<1>6. StagedIsPublished'
  BY DEF StagedIsPublished, Guarded, LoopKept, NoSweepUnlessEnabled
<1>7. DoomedBlobHasNoRow'
  BY DEF DoomedBlobHasNoRow, Guarded, LoopKept, NoSweepUnlessEnabled
<1>8. RowsHaveBlobs'
  BY DEF RowsHaveBlobs, RowImpliesBlob, StagedIsPublished, DoomedBlobHasNoRow, Guarded
<1>9. FoundStillThere'
  BY DEF FoundStillThere
<1>10. ReadersServed'
  BY DEF ReadersServed, ServedUnlessSwept, FoundStillThere, RowsHaveBlobs, RowImpliesBlob, Guarded
<1> QED
  BY <1>1, <1>2, <1>3, <1>4, <1>5, <1>6, <1>7, <1>8, <1>9, <1>10

LEMMA EnvStep ==
    ASSUME IInv, NextDay \/ (\E b \in Boards : RemoveBoard(b))
    PROVE  IInv'
<1> USE DEF IInv, TypeOK, NextDay, RemoveBoard
<1>1. TypeOK'
  OBVIOUS
<1>2. TasksHaveKeys'
  BY DEF TasksHaveKeys
<1>3. NoSweepUnlessEnabled'
  BY DEF NoSweepUnlessEnabled, IdleDeletesNothing
<1>4. IdleDeletesNothing'
  BY DEF IdleDeletesNothing
<1>5. LoopKept'
  BY DEF LoopKept
<1>6. StagedIsPublished'
  BY DEF StagedIsPublished, Guarded, LoopKept, NoSweepUnlessEnabled
<1>7. DoomedBlobHasNoRow'
  BY DEF DoomedBlobHasNoRow, Guarded, LoopKept, NoSweepUnlessEnabled
<1>8. RowsHaveBlobs'
  BY DEF RowsHaveBlobs, RowImpliesBlob, StagedIsPublished, DoomedBlobHasNoRow, Guarded
<1>9. FoundStillThere'
  BY DEF FoundStillThere
<1>10. ReadersServed'
  BY DEF ReadersServed, ServedUnlessSwept, FoundStillThere, RowsHaveBlobs, RowImpliesBlob, Guarded
<1> QED
  BY <1>1, <1>2, <1>3, <1>4, <1>5, <1>6, <1>7, <1>8, <1>9, <1>10

LEMMA CrashStep ==
    ASSUME IInv, NEW R \in SUBSET Renderers, NEW s \in BOOLEAN, NEW C \in SUBSET Readers,
           Crash(R, s, C)
    PROVE  IInv'
<1> USE DEF IInv, TypeOK, Crash, SweepLocalsGone
<1>1. TypeOK'
  OBVIOUS
<1>2. TasksHaveKeys'
  BY DEF TasksHaveKeys
<1>3. NoSweepUnlessEnabled'
  BY DEF NoSweepUnlessEnabled, IdleDeletesNothing
<1>4. IdleDeletesNothing'
  BY DEF IdleDeletesNothing
<1>5. LoopKept'
  BY DEF LoopKept
<1>6. StagedIsPublished'
  BY DEF StagedIsPublished, Guarded, LoopKept, NoSweepUnlessEnabled
<1>7. DoomedBlobHasNoRow'
  BY DEF DoomedBlobHasNoRow, Guarded, LoopKept, NoSweepUnlessEnabled
<1>8. RowsHaveBlobs'
  BY DEF RowsHaveBlobs, RowImpliesBlob, StagedIsPublished, DoomedBlobHasNoRow, Guarded
<1>9. FoundStillThere'
  BY DEF FoundStillThere
<1>10. ReadersServed'
  BY DEF ReadersServed, ServedUnlessSwept, FoundStillThere, RowsHaveBlobs, RowImpliesBlob, Guarded
<1> QED
  BY <1>1, <1>2, <1>3, <1>4, <1>5, <1>6, <1>7, <1>8, <1>9, <1>10

-----------------------------------------------------------------------------
LEMMA InitIInv == Init => IInv
BY DEF Init, IInv, TypeOK, TasksHaveKeys, NoSweepUnlessEnabled, IdleDeletesNothing, LoopKept,
       StagedIsPublished, DoomedBlobHasNoRow, RowsHaveBlobs, RowImpliesBlob,
       FoundStillThere, ReadersServed, ServedUnlessSwept

LEMMA NextIInv == ASSUME IInv, [Next]_vars PROVE IInv'
<1>1. CASE UNCHANGED vars
  BY <1>1 DEF IInv, TypeOK, TasksHaveKeys, NoSweepUnlessEnabled, IdleDeletesNothing, LoopKept,
       StagedIsPublished, DoomedBlobHasNoRow, RowsHaveBlobs, RowImpliesBlob,
       FoundStillThere, ReadersServed, ServedUnlessSwept
<1>2. CASE Next
  BY <1>2, BeginStep, RenderOkStep, PutBlobStep, PutRowStep, RenderFailsStep,
     SweepStartStep, SweepRecordStep, SweepCapStep, SweepExcessStep, SweepEndStep,
     DeleteRowStep, DeleteBlobStep, ReaderStep, EnvStep, CrashStep
  DEF Next, Publish, SweepStep
<1> QED
  BY <1>1, <1>2

(* The invariant above is an invariant of the artifact store. *)
THEOREM Invariance == Spec => []IInv
<1>1. IInv /\ [Next]_vars => IInv'
  BY NextIInv
<1> QED
  BY InitIInv, <1>1, PTL DEF Spec

(* Rows, blobs and the tasks that move them keep their types. *)
THEOREM TypeCorrect == Spec => []TypeOK
<1>1. IInv => TypeOK
  BY DEF IInv
<1> QED
  BY Invariance, <1>1, PTL

(* store.py's invariant, on one node or without retention: no interleaving *)
(* and no crash leaves a row whose blob is missing.                        *)
THEOREM RowImpliesBlobHolds ==
    ASSUME ~HaMode \/ ~RetentionEnabled
    PROVE  Spec => []RowImpliesBlob
<1>1. IInv => RowImpliesBlob
  BY DEF IInv, RowsHaveBlobs, Guarded
<1> QED
  BY Invariance, <1>1, PTL

(* raw_board: under the same condition a 404 or a broken stream is only    *)
(* ever seen by a request whose row was swept while it was in flight.      *)
THEOREM ServedUnlessSweptHolds ==
    ASSUME ~HaMode \/ ~RetentionEnabled
    PROVE  Spec => []ServedUnlessSwept
<1>1. IInv => ServedUnlessSwept
  BY DEF IInv, ReadersServed, Guarded
<1> QED
  BY Invariance, <1>1, PTL

-----------------------------------------------------------------------------
(* The artifact cache.  Rows have their blobs, so what can be served is    *)
(* what has a row: the row's write is the publication, its delete the      *)
(* drop, and the steps on blobs alone change nothing a viewer can see.     *)

LEMMA CacheInit == Init => Cache!Init
BY DEF Init, Cache!Init, Answer

LEMMA PublishStep ==
    ASSUME IInv, Guarded, NEW r \in Renderers, Publish(r)
    PROVE  [Cache!Next]_(Cache!cacheVars)
<1> USE DEF IInv, TypeOK, TasksHaveKeys, Cache!cacheVars
<1>1. hasRow \subseteq blobs
  BY DEF RowsHaveBlobs, RowImpliesBlob
<1>2. CASE RenderOk(r) \/ PutBlob(r) \/ RenderFails(r)
  <2>1. hasRow' = hasRow /\ blobs \subseteq blobs' /\ UNCHANGED readVars
    BY <1>2 DEF RenderOk, PutBlob, RenderFails
  <2>2. UNCHANGED Cache!cacheVars
    BY <1>1, <2>1
  <2> QED
    BY <2>2
<1>3. CASE PutRow(r)
  <2>1. rkey[r] \in Keys /\ rkey[r] \in blobs
    BY <1>3 DEF PutRow, StagedIsPublished
  <2>2. Cache!Publish(rkey[r])
    BY <1>3, <2>1 DEF PutRow, Cache!Publish
  <2> QED
    BY <2>1, <2>2 DEF Cache!Next
<1> QED
  BY <1>2, <1>3 DEF Publish

LEMMA SweeperStep ==
    ASSUME IInv, Guarded, SweepStep \/ SweepFails
    PROVE  [Cache!Next]_(Cache!cacheVars)
<1> USE DEF IInv, TypeOK, TasksHaveKeys, Cache!cacheVars
<1>1. hasRow \subseteq blobs
  BY DEF RowsHaveBlobs, RowImpliesBlob
<1>2. CASE DeleteRow /\ victim \in hasRow
  <2>1. Cache!Drop(victim)
    BY <1>1, <1>2 DEF DeleteRow, Cache!Drop
  <2> QED
    BY <1>2, <2>1 DEF Cache!Next
<1>3. CASE DeleteRow /\ victim \notin hasRow
  <2>1. hasRow' = hasRow /\ blobs' = blobs /\ cpc' = cpc /\ ckey' = ckey
    BY <1>3 DEF DeleteRow
  <2>2. swept' = swept
    BY <1>3 DEF DeleteRow, FoundStillThere
  <2> QED
    BY <2>1, <2>2
<1>4. CASE DeleteBlob
  <2>1. hasRow' \cap blobs' = hasRow \cap blobs /\ UNCHANGED readVars
    BY <1>4 DEF DeleteBlob, DoomedBlobHasNoRow
  <2> QED
    BY <2>1
<1>5. ASSUME SweepStep \/ SweepFails, ~DeleteRow, ~DeleteBlob
      PROVE  UNCHANGED <<storeVars, readVars>>
  BY <1>5 DEF SweepStep, SweepFails, SweepStart, SweepRecord, SweepCap, SweepExcess, SweepEnd
<1> QED
  BY <1>2, <1>3, <1>4, <1>5

LEMMA ViewerStep ==
    ASSUME IInv, Guarded, NEW c \in Readers,
           (\E k \in Keys : Lookup(c, k)) \/ CheckExists(c) \/ Stream(c) \/ Leave(c)
    PROVE  [Cache!Next]_(Cache!cacheVars)
<1> USE DEF IInv, TypeOK, Cache!cacheVars, Answer
<1>1. hasRow \subseteq blobs
  BY DEF RowsHaveBlobs, RowImpliesBlob
<1>2. ASSUME NEW k \in Keys, Lookup(c, k) PROVE Cache!Find(c, k)
  BY <1>1, <1>2 DEF Lookup, Cache!Find
<1>3. CASE CheckExists(c)
  <2>1. CASE ckey[c] \in blobs
    BY <1>3, <2>1 DEF CheckExists
  <2>2. CASE ckey[c] \notin blobs
    <3>1. c \in swept
      BY <1>1, <1>3, <2>2 DEF CheckExists, FoundStillThere
    <3>2. Cache!Lose(c)
      BY <1>3, <2>2, <3>1 DEF CheckExists, Cache!Lose
    <3> QED
      BY <3>2 DEF Cache!Next
  <2> QED
    BY <2>1, <2>2
<1>4. CASE Stream(c)
  <2>1. CASE ckey[c] \in blobs
    <3>1. Cache!Serve(c)
      BY <1>4, <2>1 DEF Stream, Cache!Serve
    <3> QED
      BY <3>1 DEF Cache!Next
  <2>2. CASE ckey[c] \notin blobs
    <3>1. c \in swept
      BY <1>1, <1>4, <2>2 DEF Stream, FoundStillThere
    <3>2. Cache!Lose(c)
      BY <1>4, <2>2, <3>1 DEF Stream, Cache!Lose
    <3> QED
      BY <3>2 DEF Cache!Next
  <2> QED
    BY <2>1, <2>2
<1>5. CASE Leave(c)
  <2>1. Cache!Go({c})
    BY <1>5 DEF Leave, Cache!Go
  <2> QED
    BY <2>1 DEF Cache!Next
<1> QED
  BY <1>2, <1>3, <1>4, <1>5 DEF Cache!Next

LEMMA CacheStep ==
    ASSUME IInv, Guarded, [Next]_vars
    PROVE  [Cache!Next]_(Cache!cacheVars)
<1> USE DEF Cache!cacheVars
<1>1. ASSUME NEW R \in SUBSET Renderers, NEW s \in BOOLEAN, NEW C \in SUBSET Readers,
             Crash(R, s, C)
      PROVE  Cache!Next
  <2>1. Cache!Go(C)
    BY <1>1 DEF Crash, Cache!Go, Answer, IInv, TypeOK
  <2> QED
    BY <2>1 DEF Cache!Next
<1>2. ASSUME \/ \E r \in Renderers, k \in Keys : Begin(r, k)
             \/ NextDay \/ \E b \in Boards : RemoveBoard(b)
             \/ UNCHANGED vars
      PROVE  UNCHANGED <<storeVars, readVars>>
  BY <1>2 DEF Begin, NextDay, RemoveBoard
<1>3. UNCHANGED <<storeVars, readVars>> => UNCHANGED Cache!cacheVars
  OBVIOUS
<1> QED
  BY <1>1, <1>2, <1>3, PublishStep, SweeperStep, ViewerStep DEF Next

(* On one node, or without retention, rows, blobs, sweeps, failures and    *)
(* crashes implement the artifact cache: viewers only ever see whole       *)
(* publications and whole deletions.                                       *)
THEOREM Refinement ==
    ASSUME ~HaMode \/ ~RetentionEnabled
    PROVE  Spec => ImplementsCache
<1>1. IInv /\ [Next]_vars => [Cache!Next]_(Cache!cacheVars)
  BY CacheStep DEF Guarded
<1> QED
  BY CacheInit, Invariance, <1>1, PTL DEF Spec, Cache!Spec, ImplementsCache

-----------------------------------------------------------------------------
(* What a sweep may delete *)

(* The snapshot a sweep works from is of an earlier time, and a row that   *)
(* is replaced under it only gets newer.                                   *)
ClockGoesOn ==
    /\ \A k \in Keys : renderedAt[k] <= today
    /\ phase # "idle" =>
          /\ sweepDay <= today
          /\ \A k \in Keys : snapAt[k] <= today /\ (k \in hasRow => snapAt[k] <= renderedAt[k])

(* Nothing the sweep has set aside was frozen when it began. *)
Spared(k) == BoardOf[k] \in boards => FrozenFrom[k] > sweepDay
NoneFrozen ==
    /\ \A k \in survivors \cup excess : Spared(k)
    /\ del # "none" => Spared(victim)

AgedVictim == phase = "scan" /\ del # "none" => snapAt[victim] + MaxAgeDays < sweepDay

(* While it classifies, only the sweep itself deletes, and what it deletes *)
(* it has not listed for the cap.                                          *)
ListedRows == phase = "scan" =>
    /\ todo \cup survivors \subseteq hasRow /\ todo \cap survivors = {} /\ excess = {}
    /\ del # "none" => victim \notin todo \cup survivors

SweepInv == ClockGoesOn /\ NoneFrozen /\ AgedVictim /\ ListedRows

(* One step of anybody, with regard to the sweep. *)
LEMMA SweepInvStep ==
    ASSUME IInv, SweepInv, [Next]_vars
    PROVE  SweepInv'
<1> USE DEF SweepInv, ClockGoesOn, NoneFrozen, Spared, AgedVictim, ListedRows, IInv, TypeOK,
           TasksHaveKeys, IdleDeletesNothing
<1>1. ASSUME NEW r \in Renderers, NEW k \in Keys, Begin(r, k)
      PROVE  SweepInv'
  BY <1>1 DEF Begin
<1>2. ASSUME NEW r \in Renderers, RenderOk(r)
      PROVE  SweepInv'
  BY <1>2 DEF RenderOk
<1>3. ASSUME NEW r \in Renderers, PutBlob(r)
      PROVE  SweepInv'
  BY <1>3 DEF PutBlob
<1>4. ASSUME NEW r \in Renderers, PutRow(r)
      PROVE  SweepInv'
  BY <1>4 DEF PutRow, utcnow
<1>5. ASSUME NEW r \in Renderers, RenderFails(r)
      PROVE  SweepInv'
  BY <1>5 DEF RenderFails
<1>6. ASSUME SweepStart
      PROVE  SweepInv'
  BY <1>6 DEF SweepStart
<1>7. ASSUME NEW k \in Keys, NEW d \in BOOLEAN, SweepRecord(k, d)
      PROVE  SweepInv'
  BY <1>7 DEF SweepRecord, Keeps, Frozen, OlderThanMaxAge
<1>8. ASSUME SweepCap
      PROVE  SweepInv'
  BY <1>8 DEF SweepCap
<1>9. ASSUME NEW k \in Keys, SweepExcess(k)
      PROVE  SweepInv'
  BY <1>9 DEF SweepExcess
<1>10. ASSUME SweepEnd \/ SweepFails
      PROVE  SweepInv'
  BY <1>10 DEF SweepEnd, SweepFails, SweepLocalsGone
<1>11. ASSUME DeleteRow
      PROVE  SweepInv'
  BY <1>11 DEF DeleteRow
<1>12. ASSUME DeleteBlob
      PROVE  SweepInv'
  BY <1>12 DEF DeleteBlob
<1>13. ASSUME NEW c \in Readers, NEW k \in Keys, Lookup(c, k)
      PROVE  SweepInv'
  BY <1>13 DEF Lookup
<1>14. ASSUME NEW c \in Readers, CheckExists(c) \/ Stream(c) \/ Leave(c)
      PROVE  SweepInv'
  BY <1>14 DEF CheckExists, Stream, Leave
<1>15. ASSUME NextDay
      PROVE  SweepInv'
  BY <1>15 DEF NextDay
<1>16. ASSUME NEW b \in Boards, RemoveBoard(b)
      PROVE  SweepInv'
  BY <1>16 DEF RemoveBoard
<1>17. ASSUME NEW R \in SUBSET Renderers, NEW s \in BOOLEAN, NEW C \in SUBSET Readers, Crash(R, s, C)
      PROVE  SweepInv'
  BY <1>17 DEF Crash, SweepLocalsGone
<1>18. ASSUME UNCHANGED vars
      PROVE  SweepInv'
  BY <1>18 DEF vars
<1> HIDE DEF SweepInv, ClockGoesOn, NoneFrozen, Spared, AgedVictim, ListedRows, IInv, TypeOK,
           TasksHaveKeys, IdleDeletesNothing
<1> QED
  BY <1>1, <1>2, <1>3, <1>4, <1>5, <1>6, <1>7, <1>8, <1>9, <1>10, <1>11, <1>12, <1>13,
     <1>14, <1>15, <1>16, <1>17, <1>18
  DEF Next, Publish, SweepStep

(* The invariant of the sweep. *)
THEOREM SweepInvariance == Spec => [](IInv /\ SweepInv)
<1>1. Init => SweepInv
  BY DEF Init, SweepInv, ClockGoesOn, NoneFrozen, AgedVictim, ListedRows
<1>2. IInv /\ SweepInv /\ [Next]_vars => (IInv /\ SweepInv)'
  BY NextIInv, SweepInvStep
<1> QED
  BY InitIInv, <1>1, <1>2, PTL DEF Spec

(* Only DeleteRow takes a row away, and only its victim's. *)
LEMMA OnlyVictims ==
    ASSUME IInv, [Next]_vars, NEW k \in Deleted
    PROVE  DeleteRow /\ k = victim /\ k \in hasRow /\ victim \in Keys
<1>1. CASE DeleteRow
  BY <1>1 DEF DeleteRow, Deleted, IInv, TasksHaveKeys
<1>2. CASE ~DeleteRow
  <2>1. hasRow \subseteq hasRow'
    BY <1>2 DEF Next, Begin, Publish, RenderOk, PutBlob, PutRow, RenderFails, SweepStep,
       SweepStart, SweepRecord, SweepCap, SweepExcess, SweepEnd, DeleteBlob, SweepFails,
       Lookup, CheckExists, Stream, Leave, NextDay, RemoveBoard, Crash
  <2> QED
    BY <2>1 DEF Deleted
<1> QED
  BY <1>1, <1>2

(* A sweep never deletes a row that was frozen when it began, on one node  *)
(* and on many.                                                            *)
THEOREM FrozenKeptHolds == Spec => FrozenKept
<1>1. IInv /\ SweepInv /\ [Next]_vars =>
        [\A k \in Deleted : BoardOf[k] \in boards => FrozenFrom[k] > sweepDay]_vars
  BY OnlyVictims DEF DeleteRow, SweepInv, NoneFrozen, Spared
<1> QED
  BY SweepInvariance, <1>1, PTL DEF Spec, FrozenKept

(* A row goes for its age only if it was past max_age_days when the sweep  *)
(* began, or was rendered anew under the sweep.                            *)
THEOREM AgedOutHolds == Spec => AgedOut
<1>1. ASSUME IInv, SweepInv, [Next]_vars, phase = "scan", NEW k \in Deleted
      PROVE  renderedAt[k] + MaxAgeDays < sweepDay \/ renderedAt[k] > snapAt[k]
  <2>1. DeleteRow /\ k = victim /\ k \in hasRow /\ victim \in Keys
    BY <1>1, OnlyVictims
  <2>2. snapAt[k] + MaxAgeDays < sweepDay /\ snapAt[k] <= renderedAt[k]
    BY <1>1, <2>1 DEF DeleteRow, SweepInv, AgedVictim, ClockGoesOn
  <2>3. renderedAt[k] \in Nat /\ snapAt[k] \in Nat
    BY <2>1, <1>1 DEF IInv, TypeOK
  <2> QED
    BY <2>2, <2>3
<1>2. IInv /\ SweepInv /\ [Next]_vars =>
        [phase = "scan" => \A k \in Deleted :
            renderedAt[k] + MaxAgeDays < sweepDay \/ renderedAt[k] > snapAt[k]]_vars
  BY <1>1
<1> QED
  BY SweepInvariance, <1>2, PTL DEF Spec, AgedOut

-----------------------------------------------------------------------------
(* The cap per board *)

(* The rows the cap has condemned, the rows that outlive k, and what the   *)
(* sweep will have left of the rows it listed for a board.                 *)
Going == excess \cup (IF del = "row" THEN {victim} ELSE {})
Newer(k) == {i \in hasRow \ Going : BoardOf[i] = BoardOf[k] /\ renderedAt[i] >= snapAt[k]}
Left(b) == {k \in (survivors \cap hasRow) \ Going : BoardOf[k] = b}

(* Each condemned row has max_per_board newer ones of its board that stay. *)
KeptNewer == phase = "cap" => \A k \in Going : Cardinality(Newer(k)) >= MaxPerBoard

(* On one node nothing is published while the cap is applied. *)
CapLeft == ~HaMode /\ phase = "cap" =>
    /\ loop = Sweeper
    /\ \A b \in Boards : Cardinality(Left(b)) <= MaxPerBoard

(* What any step but SweepCap does to a cap being applied: no row is       *)
(* condemned, and every row that was to stay stays.                        *)
CapGoesOn == phase' = "cap" =>
    /\ phase = "cap" /\ snapAt' = snapAt /\ survivors' = survivors
    /\ Going' \subseteq Going /\ Going \subseteq Keys
    /\ hasRow \ Going \subseteq hasRow' \ Going'
    /\ \A i \in hasRow \ Going : renderedAt[i] <= renderedAt'[i]
    /\ ~HaMode /\ loop = Sweeper =>
          loop' = Sweeper /\ hasRow' \ Going' \subseteq hasRow \ Going

LEMMA CapGoesOnStep ==
    ASSUME IInv, SweepInv, [Next]_vars, ~SweepCap
    PROVE  CapGoesOn
<1> USE DEF CapGoesOn, Going, Between, Keep, IInv, TypeOK, TasksHaveKeys, IdleDeletesNothing,
           SweepInv, ClockGoesOn
<1>1. ASSUME NEW r \in Renderers, NEW k \in Keys, Begin(r, k)
      PROVE  CapGoesOn
  BY <1>1 DEF Begin
<1>2. ASSUME NEW r \in Renderers, RenderOk(r)
      PROVE  CapGoesOn
  BY <1>2 DEF RenderOk
<1>3. ASSUME NEW r \in Renderers, PutBlob(r)
      PROVE  CapGoesOn
  BY <1>3 DEF PutBlob
<1>4. ASSUME NEW r \in Renderers, PutRow(r)
      PROVE  CapGoesOn
  BY <1>4 DEF PutRow, utcnow
<1>5. ASSUME NEW r \in Renderers, RenderFails(r)
      PROVE  CapGoesOn
  BY <1>5 DEF RenderFails
<1>6. ASSUME SweepStart
      PROVE  CapGoesOn
  BY <1>6 DEF SweepStart
<1>7. ASSUME NEW k \in Keys, NEW d \in BOOLEAN, SweepRecord(k, d)
      PROVE  CapGoesOn
  BY <1>7 DEF SweepRecord
<1>8. ASSUME NEW k \in Keys, SweepExcess(k)
      PROVE  CapGoesOn
  BY <1>8 DEF SweepExcess
<1>9. ASSUME SweepEnd \/ SweepFails
      PROVE  CapGoesOn
  BY <1>9 DEF SweepEnd, SweepFails, SweepLocalsGone
<1>10. ASSUME DeleteRow
      PROVE  CapGoesOn
  BY <1>10 DEF DeleteRow
<1>11. ASSUME DeleteBlob
      PROVE  CapGoesOn
  BY <1>11 DEF DeleteBlob
<1>12. ASSUME NEW c \in Readers, NEW k \in Keys, Lookup(c, k)
      PROVE  CapGoesOn
  BY <1>12 DEF Lookup
<1>13. ASSUME NEW c \in Readers, CheckExists(c) \/ Stream(c) \/ Leave(c)
      PROVE  CapGoesOn
  BY <1>13 DEF CheckExists, Stream, Leave
<1>14. ASSUME NextDay
      PROVE  CapGoesOn
  BY <1>14 DEF NextDay
<1>15. ASSUME NEW b \in Boards, RemoveBoard(b)
      PROVE  CapGoesOn
  BY <1>15 DEF RemoveBoard
<1>16. ASSUME NEW R \in SUBSET Renderers, NEW s \in BOOLEAN, NEW C \in SUBSET Readers,
             Crash(R, s, C)
      PROVE  CapGoesOn
  BY <1>16 DEF Crash, SweepLocalsGone
<1>17. ASSUME UNCHANGED vars
      PROVE  CapGoesOn
  BY <1>17 DEF vars
<1> HIDE DEF CapGoesOn, Going, Between, Keep, IInv, TypeOK, TasksHaveKeys, IdleDeletesNothing,
            SweepInv, ClockGoesOn
<1> QED
  BY <1>1, <1>2, <1>3, <1>4, <1>5, <1>6, <1>7, <1>8, <1>9, <1>10, <1>11, <1>12,
     <1>13, <1>14, <1>15, <1>16, <1>17
  DEF Next, Publish, SweepStep

(* The sizes the cap speaks of are those of finite sets. *)
LEMMA FinitePart ==
    ASSUME NEW S \in SUBSET Keys, NEW T \in SUBSET S
    PROVE  /\ Cardinality(S) \in Nat /\ Cardinality(T) \in Nat
           /\ Cardinality(T) <= Cardinality(S)
  BY KeysFinite, FS_Subset, FS_CardinalityType

(* SweepCap condemns what BeyondCap says, of rows that are all still there. *)
LEMMA CapBegins ==
    ASSUME IInv, SweepInv, SweepCap
    PROVE  KeptNewer' /\ CapLeft'
<1> DEFINE R(b) == {i \in survivors : BoardOf[i] = b}
<1> USE DEF IInv, TypeOK, SweepInv, ListedRows, ClockGoesOn
<1>1. /\ phase = "scan" /\ del' = "none" /\ survivors \subseteq hasRow /\ survivors' = survivors
      /\ hasRow' = hasRow /\ renderedAt' = renderedAt /\ snapAt' = snapAt
      /\ excess' \subseteq survivors /\ survivors \subseteq Keys /\ Going' = excess'
      /\ BeyondCap(excess')
  BY DEF SweepCap, Going
<1>2. ASSUME NEW b \in Boards
      PROVE  /\ \A k \in R(b) \ excess', x \in R(b) \cap excess' : snapAt[x] <= snapAt[k]
             /\ \/ Cardinality(R(b) \ excess') = MaxPerBoard
                \/ R(b) \cap excess' = {} /\ Cardinality(R(b)) < MaxPerBoard
  BY <1>1 DEF BeyondCap
<1>3. ASSUME NEW k \in Going'
      PROVE  Cardinality(Newer(k)') >= MaxPerBoard
  <2>1. k \in Keys /\ BoardOf[k] \in Boards /\ k \in R(BoardOf[k]) \cap excess'
    BY <1>1, <1>3
  <2>2. Cardinality(R(BoardOf[k]) \ excess') = MaxPerBoard
    BY <1>2, <2>1
  <2>3. ASSUME NEW i \in R(BoardOf[k]) \ excess'
        PROVE  i \in Newer(k)'
    <3>1. i \in Keys /\ i \in hasRow /\ snapAt[k] <= snapAt[i] /\ snapAt[i] <= renderedAt[i]
      BY <1>1, <1>2, <2>1, <2>3
    <3>2. snapAt[k] \in Nat /\ snapAt[i] \in Nat /\ renderedAt[i] \in Nat
      BY <2>1, <3>1
    <3> QED
      BY <1>1, <2>3, <3>1, <3>2 DEF Newer
  <2>4. Newer(k)' \subseteq Keys
    BY <1>1 DEF Newer
  <2> QED
    BY <2>2, <2>3, <2>4, FinitePart
<1>4. ASSUME NEW b \in Boards
      PROVE  Cardinality(Left(b)') <= MaxPerBoard
  <2>1. Left(b)' = R(b) \ excess' /\ R(b) \subseteq Keys
    BY <1>1 DEF Left
  <2>2. Cardinality(R(b) \ excess') <= Cardinality(R(b))
        /\ Cardinality(R(b) \ excess') \in Nat /\ Cardinality(R(b)) \in Nat
    BY <2>1, FinitePart
  <2> QED
    BY <1>2, <2>1, <2>2
<1>5. ~HaMode => loop' = Sweeper
  BY DEF SweepCap, Keep
<1> QED
  BY <1>3, <1>4, <1>5 DEF KeptNewer, CapLeft

LEMMA CapStep ==
    ASSUME IInv, SweepInv, KeptNewer, CapLeft, [Next]_vars
    PROVE  KeptNewer' /\ CapLeft'
<1>1. CASE SweepCap
  BY <1>1, CapBegins
<1>2. CASE ~SweepCap
  <2> SUFFICES ASSUME phase' = "cap"
               PROVE  KeptNewer' /\ CapLeft'
    BY DEF KeptNewer, CapLeft
  <2>1. CapGoesOn
    BY <1>2, CapGoesOnStep
  <2>2. IInv'
    BY NextIInv
  <2>3. ASSUME NEW k \in Going'
        PROVE  Cardinality(Newer(k)') >= MaxPerBoard
    <3>1. k \in Going /\ Cardinality(Newer(k)) >= MaxPerBoard /\ k \in Keys
      BY <2>1, <2>3 DEF CapGoesOn, KeptNewer
    <3>2. ASSUME NEW i \in Newer(k)
          PROVE  i \in Newer(k)'
      <4>1. /\ i \in hasRow \ Going /\ i \in hasRow' \ Going' /\ i \in Keys
            /\ renderedAt[i] >= snapAt[k] /\ renderedAt[i] <= renderedAt'[i] /\ snapAt' = snapAt
            /\ BoardOf[i] = BoardOf[k]
        BY <2>1, <3>2 DEF CapGoesOn, Newer, IInv, TypeOK
      <4>2. renderedAt[i] \in Nat /\ renderedAt'[i] \in Nat /\ snapAt[k] \in Nat
        BY <2>2, <3>1, <4>1 DEF IInv, TypeOK
      <4> QED
        BY <4>1, <4>2 DEF Newer
    <3>3. Newer(k)' \subseteq Keys
      BY <2>2 DEF Newer, IInv, TypeOK
    <3>4. /\ Cardinality(Newer(k)) \in Nat /\ Cardinality(Newer(k)') \in Nat
          /\ Cardinality(Newer(k)) <= Cardinality(Newer(k)')
      BY <3>2, <3>3, FinitePart
    <3> QED
      BY <3>1, <3>4
  <2>4. ASSUME ~HaMode
        PROVE  loop' = Sweeper /\ \A b \in Boards : Cardinality(Left(b)') <= MaxPerBoard
    <3>1. /\ loop = Sweeper /\ loop' = Sweeper /\ survivors' = survivors
          /\ hasRow' \ Going' \subseteq hasRow \ Going
      BY <2>1, <2>4 DEF CapGoesOn, CapLeft
    <3>2. ASSUME NEW b \in Boards
          PROVE  Cardinality(Left(b)') <= MaxPerBoard
      <4>1. Cardinality(Left(b)) <= MaxPerBoard
        BY <2>1, <2>4 DEF CapGoesOn, CapLeft
      <4>2. Left(b)' \subseteq Left(b) /\ Left(b) \subseteq Keys
        BY <3>1 DEF Left, IInv, TypeOK
      <4>3. /\ Cardinality(Left(b)') \in Nat /\ Cardinality(Left(b)) \in Nat
            /\ Cardinality(Left(b)') <= Cardinality(Left(b))
        BY <4>2, FinitePart
      <4> QED
        BY <4>1, <4>3
    <3> QED
      BY <3>1, <3>2
  <2> QED
    BY <2>3, <2>4 DEF KeptNewer, CapLeft
<1> QED
  BY <1>1, <1>2

(* The invariant of the cap. *)
THEOREM CapInvariance == Spec => [](IInv /\ SweepInv /\ KeptNewer /\ CapLeft)
<1>1. Init => KeptNewer /\ CapLeft
  BY DEF Init, KeptNewer, CapLeft
<1>2. IInv /\ SweepInv /\ KeptNewer /\ CapLeft /\ [Next]_vars => (KeptNewer /\ CapLeft)'
  BY CapStep
<1> QED
  BY SweepInvariance, <1>1, <1>2, PTL DEF Spec

(* A row goes for the cap only if max_per_board rows of its board, no older *)
(* than it was when the sweep listed it, are left behind: on one node and  *)
(* on many, whatever is rendered meanwhile.                                *)
THEOREM NewestKeptHolds == Spec => NewestKept
<1>1. ASSUME IInv, SweepInv, KeptNewer, [Next]_vars, phase = "cap", NEW k \in Deleted
      PROVE  Cardinality({i \in hasRow' : BoardOf[i] = BoardOf[k] /\ renderedAt[i] >= snapAt[k]})
                >= MaxPerBoard
  <2> DEFINE N == {i \in hasRow' : BoardOf[i] = BoardOf[k] /\ renderedAt[i] >= snapAt[k]}
  <2>1. DeleteRow /\ k = victim /\ victim \in Keys
    BY <1>1, OnlyVictims
  <2>2. k \in Going /\ hasRow' = hasRow \ {victim}
    BY <2>1 DEF DeleteRow, Going
  <2>3. Newer(k) \subseteq N
    BY <2>1, <2>2 DEF Newer
  <2>4. N \subseteq Keys
    BY <1>1, <2>2 DEF IInv, TypeOK
  <2>5. /\ Cardinality(Newer(k)) \in Nat /\ Cardinality(N) \in Nat
        /\ Cardinality(Newer(k)) <= Cardinality(N)
    BY <2>3, <2>4, FinitePart
  <2>6. Cardinality(Newer(k)) >= MaxPerBoard
    BY <1>1, <2>2 DEF KeptNewer
  <2>7. Cardinality(N) >= MaxPerBoard
    BY <2>5, <2>6
  <2> QED
    BY <2>7
<1>2. IInv /\ SweepInv /\ KeptNewer /\ [Next]_vars =>
        [phase = "cap" => \A k \in Deleted :
            Cardinality({i \in hasRow' : BoardOf[i] = BoardOf[k] /\ renderedAt[i] >= snapAt[k]})
                >= MaxPerBoard]_vars
  BY <1>1
<1> QED
  BY CapInvariance, <1>2, PTL DEF Spec, NewestKept

(* On one node a sweep that completes leaves at most max_per_board of the  *)
(* non-frozen rows it listed, per board.                                   *)
THEOREM CapEnforcedHolds ==
    ASSUME ~HaMode
    PROVE  Spec => CapEnforced
<1>1. ASSUME CapLeft, phase = "cap", del = "none", excess = {}, NEW b \in Boards
      PROVE  Cardinality({k \in survivors \cap hasRow : BoardOf[k] = b}) <= MaxPerBoard
  <2>1. Left(b) = {k \in survivors \cap hasRow : BoardOf[k] = b}
    BY <1>1 DEF Left, Going
  <2> QED
    BY <1>1, <2>1 DEF CapLeft
<1>2. CapLeft /\ [Next]_vars =>
        [phase = "cap" /\ del = "none" /\ excess = {} /\ phase' = "idle" =>
            \A b \in Boards :
                Cardinality({k \in survivors \cap hasRow : BoardOf[k] = b}) <= MaxPerBoard]_vars
  BY <1>1
<1> QED
  BY CapInvariance, <1>2, PTL DEF Spec, CapEnforced

=============================================================================
