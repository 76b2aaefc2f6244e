--------------------------- MODULE JanitorProofs ---------------------------
(***************************************************************************)
(* Theorems about Janitor, for any number of keys, boards, renderers,      *)
(* crashes and lost sessions: its type invariant, over both replicas'      *)
(* sweeps, that no two replicas are in charge unless the server has ended  *)
(* the session of one of them (OneLeader), and that even then neither      *)
(* sweep deletes what it had to keep (TwoSweepsSpare).                     *)
(***************************************************************************)
EXTENDS Janitor, TLAPS

LeadTypeOK ==
    /\ lpc \in [Replicas -> {"sleep", "reap", "prune", "sweep", "release"}]
    /\ con \in [Replicas -> BOOLEAN]
    /\ holder \in Replicas \cup {None, "ghost"}
    /\ cut \in SUBSET Replicas
    /\ losses \in 0..MaxLosses

(* _leader_con is set exactly during a cycle, and a replica that has it    *)
(* holds the lock, unless its session was cut.                             *)
ConnectedInCycle == \A n \in Replicas : con[n] <=> InCharge(n)
LockBacked == \A n \in Replicas : InCharge(n) => holder = n \/ n \in cut

LeadInv == LeadTypeOK /\ ConnectedInCycle /\ LockBacked

USE TwinDiffers, GhostIsNobody, JanitorIsHa, LossBound, ActorsDistinct
    DEF leadVars, twinVars

LEMMA InitLead == JanitorInit => LeadInv
  BY DEF JanitorInit, LeadInv, LeadTypeOK, ConnectedInCycle, LockBacked, InCharge, Replicas

(* Who is in charge: the sweeps themselves play no part in it. *)
LEMMA LeadStep ==
    ASSUME LeadInv, [JanitorNext]_janitorVars
    PROVE  LeadInv'
<1> USE DEF LeadInv, LeadTypeOK, ConnectedInCycle, LockBacked, InCharge, Replicas, Loss
<1>1. ASSUME NEW n \in Replicas, TryLeader(n)
     PROVE  LeadInv'
  BY <1>1 DEF TryLeader, Goto
<1>2. ASSUME NEW n \in Replicas, TryLeaderRaises(n)
     PROVE  LeadInv'
  BY <1>2 DEF TryLeaderRaises
<1>3. ASSUME NEW n \in Replicas, Reap(n)
     PROVE  LeadInv'
  BY <1>3 DEF Reap, Goto
<1>4. ASSUME NEW n \in Replicas, PruneHits(n)
     PROVE  LeadInv'
  BY <1>4 DEF PruneHits, Goto
<1>5. ASSUME NEW n \in Replicas, SweepOnce(n)
     PROVE  LeadInv'
  BY <1>5 DEF SweepOnce, Sweep, Goto
<1>6. ASSUME NEW n \in Replicas, Raises(n)
     PROVE  LeadInv'
  BY <1>6 DEF Raises, Finally, Goto
<1>7. ASSUME NEW n \in Replicas, Release(n)
     PROVE  LeadInv'
  BY <1>7 DEF Release, Goto
<1>8. ASSUME NEW n \in Replicas, ReleaseRaises(n)
     PROVE  LeadInv'
  BY <1>8 DEF ReleaseRaises, Goto
<1>9. ASSUME NEW n \in Replicas, SessionLost(n)
     PROVE  LeadInv'
  BY <1>9 DEF SessionLost
<1>10. ASSUME NEW n \in Replicas, NEW R \in SUBSET Renderers, ReplicaDies(n, R)
     PROVE  LeadInv'
  BY <1>10 DEF ReplicaDies, Goto
<1>11. ASSUME SessionEnds
     PROVE  LeadInv'
  BY <1>11 DEF SessionEnds
<1>12. ASSUME OrphanAges
     PROVE  LeadInv'
  BY <1>12 DEF OrphanAges
<1>13. ASSUME HubStep
     PROVE  LeadInv'
  BY <1>13 DEF HubStep
<1>14. ASSUME UNCHANGED janitorVars
     PROVE  LeadInv'
  BY <1>14 DEF janitorVars
<1> HIDE DEF LeadInv, LeadTypeOK, ConnectedInCycle, LockBacked, InCharge, Replicas, Loss
<1> QED
  BY <1>1, <1>2, <1>3, <1>4, <1>5, <1>6, <1>7, <1>8, <1>9, <1>10, <1>11, <1>12, <1>13, <1>14 DEF JanitorNext, JanitorStep

(* OneLeader, which gc.py promises of the advisory lock. *)
THEOREM OneLeaderHolds == JanitorSpec => []OneLeader
<1>1. LeadInv => OneLeader
  BY DEF LeadInv, LockBacked, OneLeader
<1> QED
  BY InitLead, LeadStep, <1>1, PTL DEF JanitorSpec

-----------------------------------------------------------------------------
(* Types of the two sweeps and of what they share: a task between two      *)
(* calls has a key, and in HA no task keeps the loop.                      *)

SharedTypeOK ==
    /\ today \in 0..MaxDay /\ boards \in SUBSET Boards /\ crashes \in 0..MaxCrashes
    /\ hasRow \in SUBSET Keys /\ blobs \in SUBSET Keys
    /\ renderedAt \in [Keys -> 0..MaxDay]
    /\ rpc \in [Renderers -> {"idle", "render", "put", "row"}]
    /\ rkey \in [Renderers -> Keys \cup {None}]
    /\ \A r \in Renderers : rpc[r] # "idle" => rkey[r] \in Keys
    /\ loop = None
    /\ cpc \in [Readers -> {"none", "found", "stream", "served", "missing", "broken"}]
    /\ ckey \in [Readers -> Keys \cup {None}]
    /\ swept \in SUBSET Readers
FirstTypeOK ==
    /\ phase \in {"idle", "scan", "cap"}
    /\ snapAt \in [Keys -> 0..MaxDay] /\ sweepDay \in 0..MaxDay
    /\ todo \in SUBSET Keys /\ survivors \in SUBSET Keys /\ excess \in SUBSET Keys
    /\ victim \in Keys \cup {None} /\ del \in {"none", "row", "blob"}
    /\ del # "none" => victim \in Keys
SecondTypeOK ==
    /\ phase2 \in {"idle", "scan", "cap"}
    /\ snapAt2 \in [Keys -> 0..MaxDay] /\ sweepDay2 \in 0..MaxDay
    /\ todo2 \in SUBSET Keys /\ survivors2 \in SUBSET Keys /\ excess2 \in SUBSET Keys
    /\ victim2 \in Keys \cup {None} /\ del2 \in {"none", "row", "blob"}
    /\ del2 # "none" => victim2 \in Keys

StoreInv == SharedTypeOK /\ FirstTypeOK /\ SecondTypeOK

USE BoardOfType, FrozenFromType, RetentionType, ClockBounds, StorageModes
    DEF storeVars, renderVars, sweepVars, readVars, envVars, vars

LEMMA InitStore == JanitorInit => StoreInv
  BY DEF JanitorInit, Init, Second!Init, StoreInv, SharedTypeOK, FirstTypeOK, SecondTypeOK

(* Steps of the first replica's sweep. *)
LEMMA FirstSweep ==
    ASSUME StoreInv, SweepStep \/ SweepFails, UNCHANGED twinVars
    PROVE  StoreInv'
<1> USE DEF StoreInv, SharedTypeOK, FirstTypeOK, SecondTypeOK, Keep
<1>1. CASE SweepStart
  BY <1>1 DEF SweepStart
<1>2. ASSUME NEW k \in Keys, NEW d \in BOOLEAN, SweepRecord(k, d)
      PROVE  StoreInv'
  BY <1>2 DEF SweepRecord
<1>3. CASE SweepCap
  BY <1>3 DEF SweepCap
<1>4. ASSUME NEW k \in Keys, SweepExcess(k)
      PROVE  StoreInv'
  BY <1>4 DEF SweepExcess
<1>5. CASE SweepEnd
  BY <1>5 DEF SweepEnd, SweepLocalsGone
<1>6. CASE DeleteRow
  BY <1>6 DEF DeleteRow
<1>7. CASE DeleteBlob
  BY <1>7 DEF DeleteBlob
<1>8. CASE SweepFails
  BY <1>8 DEF SweepFails, SweepLocalsGone
<1> HIDE DEF StoreInv
<1> QED
  BY <1>1, <1>2, <1>3, <1>4, <1>5, <1>6, <1>7, <1>8 DEF SweepStep

(* Steps of the second replica's sweep. *)
LEMMA SecondSweep ==
    ASSUME StoreInv, Second!SweepStep \/ Second!SweepFails, UNCHANGED sweepVars
    PROVE  StoreInv'
<1> USE DEF StoreInv, SharedTypeOK, FirstTypeOK, SecondTypeOK, Second!Keep,
            Second!storeVars, Second!renderVars, Second!readVars, Second!envVars
<1>1. CASE Second!SweepStart
  BY <1>1 DEF Second!SweepStart
<1>2. ASSUME NEW k \in Keys, NEW d \in BOOLEAN, Second!SweepRecord(k, d)
      PROVE  StoreInv'
  BY <1>2 DEF Second!SweepRecord
<1>3. CASE Second!SweepCap
  BY <1>3 DEF Second!SweepCap
<1>4. ASSUME NEW k \in Keys, Second!SweepExcess(k)
      PROVE  StoreInv'
  BY <1>4 DEF Second!SweepExcess
<1>5. CASE Second!SweepEnd
  BY <1>5 DEF Second!SweepEnd, Second!SweepLocalsGone
<1>6. CASE Second!DeleteRow
  BY <1>6 DEF Second!DeleteRow
<1>7. CASE Second!DeleteBlob
  BY <1>7 DEF Second!DeleteBlob
<1>8. CASE Second!SweepFails
  BY <1>8 DEF Second!SweepFails, Second!SweepLocalsGone
<1> HIDE DEF StoreInv
<1> QED
  BY <1>1, <1>2, <1>3, <1>4, <1>5, <1>6, <1>7, <1>8 DEF Second!SweepStep

(* Renders, the clock, deploys and crashes. *)
LEMMA HubStepTypes ==
    ASSUME StoreInv, HubStep
    PROVE  StoreInv'
<1> USE DEF StoreInv, SharedTypeOK, FirstTypeOK, SecondTypeOK, Keep
<1>0. UNCHANGED twinVars
  BY DEF HubStep
<1>1. ASSUME NEW r \in Renderers, NEW k \in Keys, Begin(r, k)
      PROVE  StoreInv'
  BY <1>0, <1>1 DEF Begin
<1>2. ASSUME NEW r \in Renderers, RenderOk(r)
      PROVE  StoreInv'
  BY <1>0, <1>2 DEF RenderOk
<1>3. ASSUME NEW r \in Renderers, PutBlob(r)
      PROVE  StoreInv'
  BY <1>0, <1>3 DEF PutBlob
<1>4. ASSUME NEW r \in Renderers, PutRow(r)
      PROVE  StoreInv'
  BY <1>0, <1>4 DEF PutRow, utcnow
<1>5. ASSUME NEW r \in Renderers, RenderFails(r)
      PROVE  StoreInv'
  BY <1>0, <1>5 DEF RenderFails
<1>6. CASE NextDay
  BY <1>0, <1>6 DEF NextDay
<1>7. ASSUME NEW b \in Boards, RemoveBoard(b)
      PROVE  StoreInv'
  BY <1>0, <1>7 DEF RemoveBoard
<1> HIDE DEF StoreInv
<1> QED
  BY <1>1, <1>2, <1>3, <1>4, <1>5, <1>6, <1>7 DEF HubStep, Publish

LEMMA ReplicaDiesTypes ==
    ASSUME StoreInv, NEW n \in Replicas, NEW R \in SUBSET Renderers, ReplicaDies(n, R)
    PROVE  StoreInv'
<1> USE DEF StoreInv, SharedTypeOK, FirstTypeOK, SecondTypeOK
<1>1. CASE Crash(R, TRUE, {}) /\ UNCHANGED twinVars
  BY <1>1 DEF Crash, SweepLocalsGone
<1>2. CASE Second!Crash(R, TRUE, {}) /\ UNCHANGED sweepVars
  BY <1>2 DEF Second!Crash, Second!SweepLocalsGone, Second!storeVars
<1> QED
  BY <1>1, <1>2 DEF ReplicaDies, Own

LEMMA StoreStep ==
    ASSUME StoreInv, [JanitorNext]_janitorVars
    PROVE  StoreInv'
<1>1. CASE UNCHANGED <<twinVars, vars>>
  BY <1>1 DEF StoreInv, SharedTypeOK, FirstTypeOK, SecondTypeOK
<1>2. ASSUME NEW n \in Replicas, SweepOnce(n)
      PROVE  StoreInv'
  BY <1>2, FirstSweep, SecondSweep DEF SweepOnce, Sweep, Own
<1>3. ASSUME NEW n \in Replicas, Raises(n)
      PROVE  StoreInv'
  BY <1>1, <1>3, FirstSweep, SecondSweep DEF Raises, Own
<1>4. ASSUME NEW n \in Replicas, TryLeader(n) \/ TryLeaderRaises(n) \/ Reap(n) \/ PruneHits(n)
                                  \/ Release(n) \/ ReleaseRaises(n) \/ SessionLost(n)
      PROVE  UNCHANGED <<twinVars, vars>>
  BY <1>4 DEF TryLeader, TryLeaderRaises, Reap, PruneHits, Release, ReleaseRaises, SessionLost
<1>5. ASSUME SessionEnds \/ OrphanAges \/ UNCHANGED janitorVars
      PROVE  UNCHANGED <<twinVars, vars>>
  BY <1>5 DEF SessionEnds, OrphanAges, janitorVars
<1> HIDE DEF twinVars, vars
<1> QED
  BY <1>1, <1>2, <1>3, <1>4, <1>5, HubStepTypes, ReplicaDiesTypes DEF JanitorNext, JanitorStep

LEMMA OrphanStep ==
    ASSUME orphan \in {"none", "young", "stale"}, [JanitorNext]_janitorVars
    PROVE  orphan' \in {"none", "young", "stale"}
  BY DEF JanitorNext, JanitorStep, janitorVars, TryLeader, TryLeaderRaises, Reap, Reaped,
         PruneHits, SweepOnce, Sweep, Raises, Release, ReleaseRaises, SessionLost,
         SessionEnds, ReplicaDies, OrphanAges, HubStep

(* Every variable keeps its type, whatever the two sweeps do to one        *)
(* another's rows and blobs.                                               *)
THEOREM TypeCorrect == JanitorSpec => []JanitorTypeOK
<1> DEFINE IInv == LeadInv /\ StoreInv /\ orphan \in {"none", "young", "stale"}
<1>1. JanitorInit => IInv
  BY InitLead, InitStore DEF JanitorInit
<1>2. IInv /\ [JanitorNext]_janitorVars => IInv'
  BY LeadStep, StoreStep, OrphanStep
<1>3. IInv => JanitorTypeOK
  BY DEF LeadInv, LeadTypeOK, StoreInv, SharedTypeOK, FirstTypeOK, SecondTypeOK,
         JanitorTypeOK, TypeOK, Second!TypeOK
<1> HIDE DEF IInv
<1> QED
  BY <1>1, <1>2, <1>3, PTL DEF JanitorSpec

-----------------------------------------------------------------------------
(* What two sweeps at once may delete: the lock does not stop the sweep of *)
(* a replica whose session was ended, so each has to be sound by itself.   *)

Spared(k, day) == BoardOf[k] \in boards => FrozenFrom[k] > day

(* A sweep works from an earlier time, has set aside nothing that was      *)
(* frozen then, and deletes for its age only what was past it then.        *)
Sound(ph, snap, day, listed, vic, d) ==
    /\ ph = "idle" => listed = {} /\ d = "none"
    /\ ph # "idle" =>
          /\ day <= today
          /\ \A k \in Keys : snap[k] <= today /\ (k \in hasRow => snap[k] <= renderedAt[k])
    /\ \A k \in listed : Spared(k, day)
    /\ d # "none" => Spared(vic, day)
    /\ ph = "scan" /\ d # "none" => snap[vic] + MaxAgeDays < day

RowsAreOld == \A k \in Keys : renderedAt[k] <= today
FirstSound == Sound(phase, snapAt, sweepDay, survivors \cup excess, victim, del)
SecondSound == Sound(phase2, snapAt2, sweepDay2, survivors2 \cup excess2, victim2, del2)
SweepsInv == RowsAreOld /\ FirstSound /\ SecondSound

(* What the other tasks do under a sweep: time goes on, boards go, and a   *)
(* row goes or is stamped now.                                             *)
OthersStep ==
    /\ today \in Nat /\ today' \in Nat /\ today <= today' /\ boards' \subseteq boards
    /\ \A k \in Keys :
          \/ renderedAt'[k] = renderedAt[k] /\ (k \in hasRow' => k \in hasRow)
          \/ renderedAt'[k] = today
          \/ renderedAt'[k] = 0 /\ k \notin hasRow'

LEMMA OthersRows ==
    ASSUME StoreInv, RowsAreOld, OthersStep
    PROVE  RowsAreOld'
  BY DEF StoreInv, SharedTypeOK, RowsAreOld, OthersStep

LEMMA OthersUnderFirst ==
    ASSUME StoreInv, FirstSound, OthersStep, UNCHANGED sweepVars
    PROVE  FirstSound'
<1> USE DEF StoreInv, SharedTypeOK, FirstTypeOK, FirstSound, Sound, OthersStep, sweepVars
<1>1. (phase = "idle" => survivors \cup excess = {} /\ del = "none")'
  OBVIOUS
<1>2. ASSUME phase' # "idle" PROVE sweepDay' <= today'
  BY <1>2
<1>3. ASSUME phase' # "idle", NEW k \in Keys
      PROVE  snapAt'[k] <= today' /\ (k \in hasRow' => snapAt'[k] <= renderedAt'[k])
  <2>1. snapAt[k] <= today /\ (k \in hasRow => snapAt[k] <= renderedAt[k]) /\ snapAt[k] \in Nat
    BY <1>3
  <2>2. \/ renderedAt'[k] = renderedAt[k] /\ (k \in hasRow' => k \in hasRow)
        \/ renderedAt'[k] = today
        \/ renderedAt'[k] = 0 /\ k \notin hasRow'
    OBVIOUS
  <2> QED
    BY <2>1, <2>2
<1>4. (\A k \in survivors \cup excess : Spared(k, sweepDay))' /\ (del # "none" => Spared(victim, sweepDay))'
  BY DEF Spared
<1>5. (phase = "scan" /\ del # "none" => snapAt[victim] + MaxAgeDays < sweepDay)'
  OBVIOUS
<1> QED
  BY <1>1, <1>2, <1>3, <1>4, <1>5

LEMMA OthersUnderSecond ==
    ASSUME StoreInv, SecondSound, OthersStep, UNCHANGED twinVars
    PROVE  SecondSound'
<1> USE DEF StoreInv, SharedTypeOK, SecondTypeOK, SecondSound, Sound, OthersStep
<1>1. (phase2 = "idle" => survivors2 \cup excess2 = {} /\ del2 = "none")'
  OBVIOUS
<1>2. ASSUME phase2' # "idle" PROVE sweepDay2' <= today'
  BY <1>2
<1>3. ASSUME phase2' # "idle", NEW k \in Keys
      PROVE  snapAt2'[k] <= today' /\ (k \in hasRow' => snapAt2'[k] <= renderedAt'[k])
  <2>1. /\ snapAt2[k] <= today /\ (k \in hasRow => snapAt2[k] <= renderedAt[k])
        /\ snapAt2[k] \in Nat
    BY <1>3
  <2>2. \/ renderedAt'[k] = renderedAt[k] /\ (k \in hasRow' => k \in hasRow)
        \/ renderedAt'[k] = today
        \/ renderedAt'[k] = 0 /\ k \notin hasRow'
    OBVIOUS
  <2> QED
    BY <2>1, <2>2
<1>4. /\ (\A k \in survivors2 \cup excess2 : Spared(k, sweepDay2))'
      /\ (del2 # "none" => Spared(victim2, sweepDay2))'
  BY DEF Spared
<1>5. (phase2 = "scan" /\ del2 # "none" => snapAt2[victim2] + MaxAgeDays < sweepDay2)'
  OBVIOUS
<1> QED
  BY <1>1, <1>2, <1>3, <1>4, <1>5

(* Steps of the first replica's sweep, under its own invariant. *)
LEMMA FirstSweepSound ==
    ASSUME StoreInv, RowsAreOld, FirstSound, SweepStep \/ SweepFails
    PROVE  FirstSound' /\ OthersStep
<1> USE DEF StoreInv, SharedTypeOK, FirstTypeOK, RowsAreOld, FirstSound, Sound, Spared,
            OthersStep, Keep
<1>1. CASE SweepStart
  BY <1>1 DEF SweepStart
<1>2. ASSUME NEW k \in Keys, NEW d \in BOOLEAN, SweepRecord(k, d)
      PROVE  FirstSound' /\ OthersStep
  BY <1>2 DEF SweepRecord, Keeps, Frozen, OlderThanMaxAge
<1>3. CASE SweepCap
  BY <1>3 DEF SweepCap
<1>4. ASSUME NEW k \in Keys, SweepExcess(k)
      PROVE  FirstSound' /\ OthersStep
  BY <1>4 DEF SweepExcess
<1>5. CASE SweepEnd
  BY <1>5 DEF SweepEnd, SweepLocalsGone
<1>6. CASE DeleteRow
  BY <1>6 DEF DeleteRow
<1>7. CASE DeleteBlob
  BY <1>7 DEF DeleteBlob
<1>8. CASE SweepFails
  BY <1>8 DEF SweepFails, SweepLocalsGone
<1> HIDE DEF StoreInv, FirstSound, OthersStep
<1> QED
  BY <1>1, <1>2, <1>3, <1>4, <1>5, <1>6, <1>7, <1>8 DEF SweepStep

(* And of the second's. *)
LEMMA SecondSweepSound ==
    ASSUME StoreInv, RowsAreOld, SecondSound, Second!SweepStep \/ Second!SweepFails
    PROVE  SecondSound' /\ OthersStep
<1> USE DEF StoreInv, SharedTypeOK, SecondTypeOK, RowsAreOld, SecondSound, Sound, Spared,
            OthersStep, Second!Keep,
            Second!storeVars, Second!renderVars, Second!readVars, Second!envVars
<1>1. CASE Second!SweepStart
  BY <1>1 DEF Second!SweepStart
<1>2. ASSUME NEW k \in Keys, NEW d \in BOOLEAN, Second!SweepRecord(k, d)
      PROVE  SecondSound' /\ OthersStep
  BY <1>2 DEF Second!SweepRecord, Second!Keeps, Second!Frozen, Second!OlderThanMaxAge
<1>3. CASE Second!SweepCap
  BY <1>3 DEF Second!SweepCap
<1>4. ASSUME NEW k \in Keys, Second!SweepExcess(k)
      PROVE  SecondSound' /\ OthersStep
  BY <1>4 DEF Second!SweepExcess
<1>5. CASE Second!SweepEnd
  BY <1>5 DEF Second!SweepEnd, Second!SweepLocalsGone
<1>6. CASE Second!DeleteRow
  BY <1>6 DEF Second!DeleteRow
<1>7. CASE Second!DeleteBlob
  BY <1>7 DEF Second!DeleteBlob
<1>8. CASE Second!SweepFails
  BY <1>8 DEF Second!SweepFails, Second!SweepLocalsGone
<1> HIDE DEF StoreInv, SecondSound, OthersStep
<1> QED
  BY <1>1, <1>2, <1>3, <1>4, <1>5, <1>6, <1>7, <1>8 DEF Second!SweepStep

(* A replica that dies loses its sweep; the other's goes on. *)
LEMMA ReplicaDiesSound ==
    ASSUME StoreInv, SweepsInv, NEW n \in Replicas, NEW R \in SUBSET Renderers, ReplicaDies(n, R)
    PROVE  SweepsInv'
<1>1. CASE Crash(R, TRUE, {}) /\ UNCHANGED twinVars
  <2>1. OthersStep
    BY <1>1 DEF Crash, OthersStep, StoreInv, SharedTypeOK
  <2>2. FirstSound'
    BY <1>1 DEF Crash, SweepLocalsGone, FirstSound, Sound, Spared
  <2> QED
    BY <1>1, <2>1, <2>2, OthersRows, OthersUnderSecond DEF SweepsInv
<1>2. CASE Second!Crash(R, TRUE, {}) /\ UNCHANGED sweepVars
  <2>1. OthersStep
    BY <1>2 DEF Second!Crash, Second!storeVars, OthersStep, StoreInv, SharedTypeOK
  <2>2. SecondSound'
    BY <1>2 DEF Second!Crash, Second!SweepLocalsGone, SecondSound, Sound, Spared
  <2> QED
    BY <1>2, <2>1, <2>2, OthersRows, OthersUnderFirst DEF SweepsInv
<1> QED
  BY <1>1, <1>2 DEF ReplicaDies, Own

LEMMA HubStepSound ==
    ASSUME StoreInv, SweepsInv, HubStep
    PROVE  SweepsInv'
<1>1. UNCHANGED twinVars
  BY DEF HubStep
<1> USE DEF StoreInv, SharedTypeOK, OthersStep
<1>2. ASSUME NEW r \in Renderers, NEW k \in Keys, Begin(r, k)
      PROVE  OthersStep /\ UNCHANGED sweepVars
  BY <1>2 DEF Begin
<1>3. ASSUME NEW r \in Renderers, RenderOk(r) \/ PutBlob(r) \/ RenderFails(r)
      PROVE  OthersStep /\ UNCHANGED sweepVars
  BY <1>3 DEF RenderOk, PutBlob, RenderFails
<1>4. ASSUME NEW r \in Renderers, PutRow(r)
      PROVE  OthersStep /\ UNCHANGED sweepVars
  BY <1>4 DEF PutRow, utcnow
<1>5. ASSUME NextDay
      PROVE  OthersStep /\ UNCHANGED sweepVars
  BY <1>5 DEF NextDay
<1>6. ASSUME NEW b \in Boards, RemoveBoard(b)
      PROVE  OthersStep /\ UNCHANGED sweepVars
  BY <1>6 DEF RemoveBoard
<1> HIDE DEF StoreInv, OthersStep, sweepVars, twinVars
<1>7. OthersStep /\ UNCHANGED sweepVars
  BY <1>2, <1>3, <1>4, <1>5, <1>6 DEF HubStep, Publish
<1> QED
  BY <1>1, <1>7, OthersRows, OthersUnderFirst, OthersUnderSecond DEF SweepsInv

LEMMA SweepsStep ==
    ASSUME StoreInv, SweepsInv, [JanitorNext]_janitorVars
    PROVE  SweepsInv'
<1>1. CASE UNCHANGED <<twinVars, vars>>
  BY <1>1 DEF SweepsInv, RowsAreOld, FirstSound, SecondSound, Sound, Spared
<1>2. CASE (SweepStep \/ SweepFails) /\ UNCHANGED twinVars
  BY <1>2, FirstSweepSound, OthersRows, OthersUnderSecond DEF SweepsInv
<1>3. CASE (Second!SweepStep \/ Second!SweepFails) /\ UNCHANGED sweepVars
  BY <1>3, SecondSweepSound, OthersRows, OthersUnderFirst DEF SweepsInv
<1>4. ASSUME NEW n \in Replicas, SweepOnce(n) \/ Raises(n)
      PROVE  SweepsInv'
  BY <1>1, <1>2, <1>3, <1>4 DEF SweepOnce, Sweep, Raises, Own
<1>5. ASSUME NEW n \in Replicas, TryLeader(n) \/ TryLeaderRaises(n) \/ Reap(n) \/ PruneHits(n)
                                  \/ Release(n) \/ ReleaseRaises(n) \/ SessionLost(n)
      PROVE  UNCHANGED <<twinVars, vars>>
  BY <1>5 DEF TryLeader, TryLeaderRaises, Reap, PruneHits, Release, ReleaseRaises, SessionLost
<1>6. ASSUME SessionEnds \/ OrphanAges \/ UNCHANGED janitorVars
      PROVE  UNCHANGED <<twinVars, vars>>
  BY <1>6 DEF SessionEnds, OrphanAges, janitorVars
<1> HIDE DEF twinVars, vars
<1> QED
  BY <1>1, <1>4, <1>5, <1>6, HubStepSound, ReplicaDiesSound DEF JanitorNext, JanitorStep

(* Only a sweep takes a row away, and only its victim's. *)
LEMMA OnlyVictims ==
    ASSUME StoreInv, [JanitorNext]_janitorVars, NEW k \in Deleted
    PROVE  \/ del = "row" /\ k = victim
           \/ del2 = "row" /\ k = victim2
<1>1. k \in hasRow /\ k \notin hasRow'
  BY DEF Deleted
<1>2. CASE DeleteRow
  BY <1>1, <1>2 DEF DeleteRow
<1>3. CASE Second!DeleteRow
  BY <1>1, <1>3 DEF Second!DeleteRow
<1>4. CASE ~DeleteRow /\ ~Second!DeleteRow
  <2>1. SweepStep \/ SweepFails => hasRow \subseteq hasRow'
    BY <1>4 DEF SweepStep, SweepStart, SweepRecord, SweepCap, SweepExcess, SweepEnd, DeleteBlob,
       SweepFails
  <2>2. Second!SweepStep \/ Second!SweepFails => hasRow \subseteq hasRow'
    BY <1>4 DEF Second!SweepStep, Second!SweepStart, Second!SweepRecord, Second!SweepCap,
       Second!SweepExcess, Second!SweepEnd, Second!DeleteBlob, Second!SweepFails,
       Second!storeVars
  <2>3. HubStep => hasRow \subseteq hasRow'
    BY DEF HubStep, Begin, Publish, RenderOk, PutBlob, PutRow, RenderFails, NextDay, RemoveBoard
  <2>4. ASSUME NEW n \in Replicas, NEW R \in SUBSET Renderers, ReplicaDies(n, R)
        PROVE  hasRow \subseteq hasRow'
    BY <2>4 DEF ReplicaDies, Own, Crash, Second!Crash, Second!storeVars
  <2>5. ASSUME NEW n \in Replicas, SweepOnce(n) \/ Raises(n)
        PROVE  hasRow \subseteq hasRow'
    BY <2>1, <2>2, <2>5 DEF SweepOnce, Sweep, Raises, Own
  <2>6. ASSUME NEW n \in Replicas, TryLeader(n) \/ TryLeaderRaises(n) \/ Reap(n) \/ PruneHits(n)
                                    \/ Release(n) \/ ReleaseRaises(n) \/ SessionLost(n)
        PROVE  hasRow \subseteq hasRow'
    BY <2>6 DEF TryLeader, TryLeaderRaises, Reap, PruneHits, Release, ReleaseRaises, SessionLost
  <2>7. SessionEnds \/ OrphanAges \/ UNCHANGED janitorVars => hasRow \subseteq hasRow'
    BY DEF SessionEnds, OrphanAges, janitorVars
  <2>8. hasRow \subseteq hasRow'
    BY <2>3, <2>4, <2>5, <2>6, <2>7 DEF JanitorNext, JanitorStep
  <2> QED
    BY <1>1, <2>8
<1> QED
  BY <1>2, <1>3, <1>4

SweepDay(n) == IF n = Sweeper THEN sweepDay ELSE sweepDay2
SnapAt(n) == IF n = Sweeper THEN snapAt ELSE snapAt2
Deletes(n, k) == IF n = Sweeper THEN del = "row" /\ k = victim ELSE del2 = "row" /\ k = victim2

(* gc.py, FrozenKept and AgedOut of two sweeps at once, which a lost       *)
(* session of the leader allows: a row that goes is the victim of a sweep  *)
(* for which it was not frozen when that sweep began (or its board was     *)
(* gone), and that was past its age by then, if it goes for its age,       *)
(* unless it was rendered anew under the sweep.                            *)
RightlyDeletes(n, k) ==
    /\ Deletes(n, k)
    /\ BoardOf[k] \in boards => FrozenFrom[k] > SweepDay(n)
    /\ SweepPhase(n) = "scan" =>
          renderedAt[k] + MaxAgeDays < SweepDay(n) \/ renderedAt[k] > SnapAt(n)[k]
TwoSweepsSpare == [][\A k \in Deleted : \E n \in Replicas : RightlyDeletes(n, k)]_janitorVars

(* gc.py: losing the lock costs no snapshot that either sweep had to keep. *)
THEOREM TwoSweepsSpareHolds == JanitorSpec => TwoSweepsSpare
<1> DEFINE IInv == StoreInv /\ SweepsInv
<1>1. JanitorInit => IInv
  <2>1. JanitorInit => SweepsInv
    BY DEF JanitorInit, Init, Second!Init, SweepsInv, RowsAreOld, FirstSound, SecondSound, Sound
  <2> QED
    BY <2>1, InitStore
<1>2. IInv /\ [JanitorNext]_janitorVars => IInv'
  BY StoreStep, SweepsStep
<1>3. ASSUME IInv, [JanitorNext]_janitorVars, NEW k \in Deleted
      PROVE  \E n \in Replicas : RightlyDeletes(n, k)
  <2>1. k \in hasRow /\ k \in Keys /\ renderedAt[k] \in Nat
    BY <1>3 DEF Deleted, StoreInv, SharedTypeOK
  <2>2. CASE del = "row" /\ k = victim
    <3>1. Spared(k, sweepDay) /\ snapAt[k] <= renderedAt[k] /\ snapAt[k] \in Nat
      BY <1>3, <2>1, <2>2 DEF StoreInv, FirstTypeOK, SweepsInv, FirstSound, Sound
    <3>2. phase = "scan" => snapAt[k] + MaxAgeDays < sweepDay
      BY <1>3, <2>2 DEF SweepsInv, FirstSound, Sound
    <3>3. phase = "scan" => renderedAt[k] + MaxAgeDays < sweepDay \/ renderedAt[k] > snapAt[k]
      BY <2>1, <3>1, <3>2
    <3>4. RightlyDeletes(Sweeper, k)
      BY <2>2, <3>1, <3>3 DEF RightlyDeletes, Deletes, Spared, SweepDay, SnapAt, SweepPhase
    <3> QED
      BY <3>4 DEF Replicas
  <2>3. CASE del2 = "row" /\ k = victim2
    <3>1. Spared(k, sweepDay2) /\ snapAt2[k] <= renderedAt[k] /\ snapAt2[k] \in Nat
      BY <1>3, <2>1, <2>3 DEF StoreInv, SecondTypeOK, SweepsInv, SecondSound, Sound
    <3>2. phase2 = "scan" => snapAt2[k] + MaxAgeDays < sweepDay2
      BY <1>3, <2>3 DEF SweepsInv, SecondSound, Sound
    <3>3. phase2 = "scan" => renderedAt[k] + MaxAgeDays < sweepDay2 \/ renderedAt[k] > snapAt2[k]
      BY <2>1, <3>1, <3>2
    <3>4. Twin # Sweeper
      OBVIOUS
    <3>5. RightlyDeletes(Twin, k)
      BY <2>3, <3>1, <3>3, <3>4 DEF RightlyDeletes, Deletes, Spared, SweepDay, SnapAt, SweepPhase
    <3> QED
      BY <3>5 DEF Replicas
  <2> QED
    BY <1>3, <2>2, <2>3, OnlyVictims
<1>4. IInv /\ [JanitorNext]_janitorVars =>
        [\A k \in Deleted : \E n \in Replicas : RightlyDeletes(n, k)]_janitorVars
  BY <1>3
<1> HIDE DEF IInv
<1> QED
  BY <1>1, <1>2, <1>4, PTL DEF JanitorSpec, TwoSweepsSpare

=============================================================================
