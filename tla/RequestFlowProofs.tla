------------------------- MODULE RequestFlowProofs -------------------------
(***************************************************************************)
(* Theorems about RequestFlow for any number of versions, identities and   *)
(* concurrent requests, any limits and any number of deploys, failures and *)
(* restarts: types; that a view that has found an artifact serves it,      *)
(* unless dct cannot be run (ArtifactServed); that a job too soon          *)
(* after another is only ever inserted by a request that was overtaken     *)
(* (IntervalKept); and the limiters' cap (RateCap).                        *)
(***************************************************************************)
EXTENDS RequestFlow, FiniteSetTheorems, SequenceTheorems, WellFoundedInduction, TLAPS

(* The type invariant without the limiter's windows. *)
FlowTypeOK ==
    /\ ha \in BOOLEAN /\ src \in Versions /\ date \in {"open", "past"}
    /\ events \in 0..MaxEvents
    /\ rowAge \in [Versions -> (0..Ttl) \cup {None}]
    /\ content \in [Versions -> Versions \cup {None}]
    /\ job \in [Versions -> {"none", "queued", "running"}]
    /\ jobAge \in [Versions -> (0..MinInterval) \cup {None}]
    /\ reads \in [Versions -> Versions \cup {None}] /\ overtaken \in SUBSET Requests
    /\ dct \in DctStates /\ version \in {"known", "unknown"}
    /\ described \in [Versions -> Versions \cup {None}]
    /\ schemas \in [Versions -> Versions \cup {None, Degraded}]
    /\ pc \in [Requests -> Ended \cup {"none", "lookup", "fresh", "fresh_describe",
          "validate", "validate_describe", "interval", "active", "admit", "insert",
          "submit", "wait"}]
    /\ kind \in [Requests -> Kinds]
    /\ key \in [Requests -> Versions \cup {None}]
    /\ snap \in [Requests -> (0..Ttl) \cup {None}]
    /\ asked \in [Requests -> Versions \cup {None}]

(* A request has a key, a running describe the version it was asked for,   *)
(* and nothing is known of the row before the lookup.                      *)
HasKey == \A c \in Requests : pc[c] # "none" => key[c] \in Versions
HasAsked == \A c \in Requests :
    pc[c] \in {"fresh_describe", "validate_describe"} => asked[c] \in Versions
NothingFoundYet == \A c \in Requests : pc[c] \in {"none", "lookup"} => snap[c] = None

FlowInv == FlowTypeOK /\ HasKey /\ HasAsked /\ NothingFoundYet

USE Subsets, Identities, Times, EnvBounds, NoneIsNone
    DEF rowVars, jobVars, cacheVars, reqVars, envVars, Goto

-----------------------------------------------------------------------------
LEMMA InitFlow == Init => FlowInv
  BY DEF Init, FlowInv, FlowTypeOK, HasKey, HasAsked, NothingFoundYet, Kinds, DctStates

(* Types of the requests, the jobs and the caches. *)
LEMMA FlowStep ==
    ASSUME FlowInv, [Next]_vars
    PROVE  FlowInv'
<1> USE DEF FlowInv, FlowTypeOK, HasKey, HasAsked, NothingFoundYet, Ended, Kinds, DctStates, Degraded,
           Within
<1>1. ASSUME NEW c \in Requests, NEW k \in Kinds, Arrive(c, k)
      PROVE  FlowInv'
  BY <1>1 DEF Arrive
<1>2. ASSUME NEW c \in Requests, Lookup(c)
      PROVE  FlowInv'
  BY <1>2 DEF Lookup, Found
<1>3. ASSUME NEW c \in Requests, FreshnessCall(c)
      PROVE  FlowInv'
  BY <1>3 DEF FreshnessCall, Classified
<1>4. ASSUME NEW c \in Requests, ValidateCall(c)
      PROVE  FlowInv'
  BY <1>4 DEF ValidateCall, Judged, Validated, Rejected, Revalidates
<1>5. ASSUME NEW c \in Requests, Describe(c)
      PROVE  FlowInv'
  BY <1>5 DEF Describe, Classified, Judged, Validated, Rejected, Revalidates
<1>6. ASSUME NEW c \in Requests, DescribeRaises(c)
      PROVE  FlowInv'
  BY <1>6 DEF DescribeRaises, FailureCached, Classified, Rejected
<1>7. ASSUME NEW c \in Requests, CheckInterval(c)
      PROVE  FlowInv'
  BY <1>7 DEF CheckInterval, TooSoon
<1>8. ASSUME NEW c \in Requests, CheckActive(c)
      PROVE  FlowInv'
  BY <1>8 DEF CheckActive
<1>9. ASSUME NEW c \in Requests, Allow(c)
      PROVE  FlowInv'
  BY <1>9 DEF Allow, Admitted, Refused, Revalidates
<1>10. ASSUME NEW c \in Requests, InsertHit(c)
      PROVE  FlowInv'
  BY <1>10 DEF InsertHit, Admitted, Revalidates
<1>11. ASSUME NEW c \in Requests, Submit(c)
      PROVE  FlowInv'
  BY <1>11 DEF Submit, InsertJob
<1>12. ASSUME NEW c \in Requests, WaitEnds(c)
      PROVE  FlowInv'
  BY <1>12 DEF WaitEnds
<1>13. ASSUME NEW c \in Requests, Leave(c)
      PROVE  FlowInv'
  BY <1>13 DEF Leave
<1>14. ASSUME NEW k \in Versions, StartRender(k)
      PROVE  FlowInv'
  BY <1>14 DEF StartRender, Source
<1>15. ASSUME NEW k \in Versions, Publish(k) \/ RenderFails(k)
      PROVE  FlowInv'
  BY <1>15 DEF Publish, RenderFails, JobEnds
<1>16. ASSUME Tick
      PROVE  FlowInv'
  BY <1>16 DEF Tick, Older
<1>17. ASSUME Midnight \/ DctFixed
      PROVE  FlowInv'
  BY <1>17 DEF Midnight, DctFixed
<1>18. ASSUME NEW v \in Versions, Deploy(v)
      PROVE  FlowInv'
  BY <1>18 DEF Deploy, Event
<1>19. ASSUME NEW i \in Ids, OtherTraffic(i)
      PROVE  FlowInv'
  BY <1>19 DEF OtherTraffic, Event
<1>20. ASSUME ForcedElsewhere
      PROVE  FlowInv'
  BY <1>20 DEF ForcedElsewhere, InsertJob, Event
<1>21. ASSUME NEW how \in DctStates, DctBreaks(how)
      PROVE  FlowInv'
  BY <1>21 DEF DctBreaks, Event
<1>22. ASSUME NEW K \in SUBSET Versions, Restart(K)
      PROVE  FlowInv'
  BY <1>22 DEF Restart, Event
<1>23. ASSUME UNCHANGED vars
      PROVE  FlowInv'
  BY <1>23 DEF vars
<1> HIDE DEF FlowInv, FlowTypeOK, HasKey, HasAsked, NothingFoundYet, Ended, Kinds, DctStates, Degraded,
           Within
<1> QED
  BY <1>1, <1>2, <1>3, <1>4, <1>5, <1>6, <1>7, <1>8, <1>9, <1>10, <1>11, <1>12, <1>13,
     <1>14, <1>15, <1>16, <1>17, <1>18, <1>19, <1>20, <1>21, <1>22, <1>23
  DEF Next, RequestStep

-----------------------------------------------------------------------------
(* Serving *)

(* A view that has found an artifact is never on a path to an answer       *)
(* without one: it does not wait, and what refuses it a refresh serves it. *)
FoundNeverWaits == \A c \in Requests : Revalidates(c) => pc[c] # "wait"

LEMMA WaitStep == ASSUME FlowInv, FoundNeverWaits, [Next]_vars PROVE FoundNeverWaits'
<1> USE DEF FlowInv, FlowTypeOK, FoundNeverWaits, Revalidates, Kinds, Ended
<1>1. ASSUME NEW d \in Requests, RequestStep(d), ~Submit(d) PROVE FoundNeverWaits'
  BY <1>1 DEF RequestStep, Lookup, Found, FreshnessCall, Classified, ValidateCall, Describe,
      Judged, Validated, Rejected, DescribeRaises, CheckInterval, CheckActive, Allow, Admitted,
      Refused, InsertHit, WaitEnds, Leave
<1>2. ASSUME NEW d \in Requests, Submit(d) PROVE FoundNeverWaits'
  BY <1>2 DEF Submit
<1>3. CASE Tick
  BY <1>3 DEF Tick, Older, Within
<1>4. ASSUME ~Tick, ~ \E d \in Requests : RequestStep(d) PROVE FoundNeverWaits'
  BY <1>4 DEF Next, Arrive, StartRender, Publish, RenderFails, JobEnds, Midnight,
      DctFixed, OtherTraffic, Deploy, ForcedElsewhere, DctBreaks, Restart, vars
<1> QED
  BY <1>1, <1>2, <1>3, <1>4

LEMMA ServeStep ==
    ASSUME FlowInv, FoundNeverWaits, [Next]_vars, NEW c \in Requests, Revalidates(c),
           pc[c] \notin Ended, pc'[c] \in Ended, dct # "missing"
    PROVE  pc'[c] = "served"
<1> USE DEF FlowInv, FlowTypeOK, Revalidates, Kinds, Ended
<1>1. ASSUME NEW d \in Requests, RequestStep(d), d # c
      PROVE  FALSE
  BY <1>1 DEF RequestStep, Lookup, FreshnessCall, ValidateCall, Describe, DescribeRaises,
      CheckInterval, CheckActive, Allow, InsertHit, Submit, WaitEnds, Leave
<1>2. CASE Lookup(c)
  BY <1>2 DEF NothingFoundYet, Lookup
<1>3. CASE FreshnessCall(c) \/ ValidateCall(c) \/ Describe(c)
  BY <1>3 DEF FreshnessCall, ValidateCall, Describe, Classified, Judged, Validated, Rejected
<1>4. CASE DescribeRaises(c)
  BY <1>4 DEF DescribeRaises, Classified, Rejected, DctStates
<1>5. CASE CheckInterval(c) \/ CheckActive(c) \/ Allow(c) \/ InsertHit(c)
  BY <1>5 DEF CheckInterval, CheckActive, Allow, InsertHit, Admitted, Refused
<1>6. CASE Submit(c) \/ WaitEnds(c) \/ Leave(c)
  BY <1>6 DEF Submit, WaitEnds, Leave, FoundNeverWaits
<1>7. ASSUME ~ \E d \in Requests : RequestStep(d)
      PROVE  FALSE
  BY <1>7 DEF Next, Arrive, StartRender, Publish, RenderFails, JobEnds, Tick, Midnight,
      DctFixed, OtherTraffic, Deploy, ForcedElsewhere, DctBreaks, Restart, vars
<1> QED
  BY <1>1, <1>2, <1>3, <1>4, <1>5, <1>6, <1>7 DEF RequestStep

(* Through stale schemas, refused refreshes, failing describes and deploys *)
(* under its feet, a view that has found an artifact ends by serving it,   *)
(* unless dct can then not be run or prints no JSON.                       *)
THEOREM ArtifactServedHolds == Spec => ArtifactServed
<1>1. Init => FoundNeverWaits
  BY DEF Init, FoundNeverWaits
<1>2. FlowInv /\ FoundNeverWaits /\ [Next]_vars =>
        [\A c \in Requests :
            Revalidates(c) /\ pc[c] \notin Ended /\ pc'[c] \in Ended /\ dct # "missing"
                => pc'[c] = "served"]_vars
  BY ServeStep
<1>3. FlowInv /\ FoundNeverWaits /\ [Next]_vars => FlowInv' /\ FoundNeverWaits'
  BY FlowStep, WaitStep
<1> QED
  BY InitFlow, <1>1, <1>2, <1>3, PTL DEF Spec, ArtifactServed

-----------------------------------------------------------------------------
(* The minimum interval *)

(* Past the interval check: a view revalidates after it, any other request *)
(* that does not force has validated before.                               *)
PastInterval(c) ==
    \/ pc[c] \in {"active", "admit", "insert", "submit"}
    \/ kind[c] = "view" /\ pc[c] \in {"validate", "validate_describe"}

(* The check still stands, or its outcome was overtaken. *)
IntervalStands == \A c \in Requests :
    /\ snap[c] # None /\ kind[c] # "force" /\ PastInterval(c)
    /\ Within(jobAge[key[c]], MinInterval)
    => c \in overtaken

(* From the check to the submission. *)
LEMMA IntervalStep ==
    ASSUME FlowInv, IntervalStands, [Next]_vars
    PROVE  IntervalStands'
<1> USE DEF IntervalStands, PastInterval, FlowInv, FlowTypeOK, HasKey, NothingFoundYet, Ended, Kinds,
           Within
<1>1. ASSUME NEW c \in Requests, NEW k \in Kinds, Arrive(c, k)
      PROVE  IntervalStands'
  BY <1>1 DEF Arrive
<1>2. ASSUME NEW c \in Requests, Lookup(c)
      PROVE  IntervalStands'
  BY <1>2 DEF Lookup, Found
<1>3. ASSUME NEW c \in Requests, FreshnessCall(c)
      PROVE  IntervalStands'
  BY <1>3 DEF FreshnessCall, Classified
<1>4. ASSUME NEW c \in Requests, ValidateCall(c)
      PROVE  IntervalStands'
  BY <1>4 DEF ValidateCall, Judged, Validated, Rejected, Revalidates
<1>5. ASSUME NEW c \in Requests, Describe(c)
      PROVE  IntervalStands'
  BY <1>5 DEF Describe, Classified, Judged, Validated, Rejected, Revalidates
<1>6. ASSUME NEW c \in Requests, DescribeRaises(c)
      PROVE  IntervalStands'
  BY <1>6 DEF DescribeRaises, FailureCached, Classified, Rejected, Revalidates
<1>7. ASSUME NEW c \in Requests, CheckInterval(c)
      PROVE  IntervalStands'
  BY <1>7 DEF CheckInterval, TooSoon
<1>8. ASSUME NEW c \in Requests, CheckActive(c)
      PROVE  IntervalStands'
  BY <1>8 DEF CheckActive
<1>9. ASSUME NEW c \in Requests, Allow(c)
      PROVE  IntervalStands'
  BY <1>9 DEF Allow, Admitted, Refused, Revalidates
<1>10. ASSUME NEW c \in Requests, InsertHit(c)
      PROVE  IntervalStands'
  BY <1>10 DEF InsertHit, Admitted, Revalidates
<1>11. ASSUME NEW c \in Requests, Submit(c)
      PROVE  IntervalStands'
  BY <1>11 DEF Submit, InsertJob
<1>12. ASSUME NEW c \in Requests, WaitEnds(c)
      PROVE  IntervalStands'
  BY <1>12 DEF WaitEnds
<1>13. ASSUME NEW c \in Requests, Leave(c)
      PROVE  IntervalStands'
  BY <1>13 DEF Leave
<1>14. ASSUME NEW k \in Versions, StartRender(k)
      PROVE  IntervalStands'
  BY <1>14 DEF StartRender, Source
<1>15. ASSUME NEW k \in Versions, Publish(k) \/ RenderFails(k)
      PROVE  IntervalStands'
  BY <1>15 DEF Publish, RenderFails, JobEnds
<1>16. ASSUME Tick
      PROVE  IntervalStands'
  BY <1>16 DEF Tick, Older
<1>17. ASSUME Midnight \/ DctFixed
      PROVE  IntervalStands'
  BY <1>17 DEF Midnight, DctFixed
<1>18. ASSUME NEW v \in Versions, Deploy(v)
      PROVE  IntervalStands'
  BY <1>18 DEF Deploy, Event
<1>19. ASSUME NEW i \in Ids, OtherTraffic(i)
      PROVE  IntervalStands'
  BY <1>19 DEF OtherTraffic, Event
<1>20. ASSUME ForcedElsewhere
      PROVE  IntervalStands'
  BY <1>20 DEF ForcedElsewhere, InsertJob, Event
<1>21. ASSUME NEW how \in DctStates, DctBreaks(how)
      PROVE  IntervalStands'
  BY <1>21 DEF DctBreaks, Event
<1>22. ASSUME NEW K \in SUBSET Versions, Restart(K)
      PROVE  IntervalStands'
  BY <1>22 DEF Restart, Event
<1>23. ASSUME UNCHANGED vars
      PROVE  IntervalStands'
  BY <1>23 DEF vars
<1> HIDE DEF IntervalStands, PastInterval, FlowInv, FlowTypeOK, HasKey, NothingFoundYet, Ended, Kinds,
           Within
<1> QED
  BY <1>1, <1>2, <1>3, <1>4, <1>5, <1>6, <1>7, <1>8, <1>9, <1>10, <1>11, <1>12, <1>13,
     <1>14, <1>15, <1>16, <1>17, <1>18, <1>19, <1>20, <1>21, <1>22, <1>23
  DEF Next, RequestStep

(* A request that has an artifact and does not force inserts a job within  *)
(* the minimum interval only if another submission came in between its     *)
(* check and its own.                                                      *)
THEOREM IntervalKeptHolds == Spec => IntervalKept
<1>1. Init => IntervalStands
  BY DEF Init, IntervalStands, PastInterval
<1>2. FlowInv /\ IntervalStands /\ [Next]_vars => FlowInv' /\ IntervalStands'
  BY FlowStep, IntervalStep
<1>3. FlowInv /\ IntervalStands /\ [Next]_vars =>
        [\A c \in Requests :
            /\ pc[c] = "submit" /\ pc'[c] # "submit" /\ job'[key[c]] # job[key[c]]
            /\ snap[c] # None /\ kind[c] # "force" /\ Within(jobAge[key[c]], MinInterval)
            => c \in overtaken]_vars
  BY DEF IntervalStands, PastInterval
<1> QED
  BY InitFlow, <1>1, <1>2, <1>3, PTL DEF Spec, IntervalKept

-----------------------------------------------------------------------------
(* Windows of hits, as sequences of ages *)

(* The least-number principle, from the order on Nat being well founded.   *)
LEMMA LeastNat ==
    ASSUME NEW T, T \subseteq Nat, T # {}
    PROVE  \E x \in T : \A y \in T : x <= y
<1> DEFINE R == {p \in Nat \X Nat : p[1] < p[2]}
<1>1. IsWellFoundedOn(R, Nat)
  BY NatLessThanWellFounded DEF OpToRel
<1>2. \A x, y \in Nat : <<y, x>> \in R <=> y < x
  OBVIOUS
<1> HIDE DEF R
<1>3. PICK x \in T : \A y \in T : ~ (<<y, x>> \in R)
  BY <1>1, WFMin
<1>4. \A y \in T : ~ (y < x)
  BY <1>2, <1>3
<1>5. \A y \in T : x <= y
  BY <1>4
<1> QED
  BY <1>5

Ages == 0..Window

(* What the loop of popleft leaves: it stops at the first live hit. *)
LEMMA ExpiredProps ==
    ASSUME NEW s \in Seq(Ages)
    PROVE  /\ Expired(s) \in 0..Len(s)
           /\ \A m \in 1..Expired(s) : s[m] >= Window
           /\ Expired(s) = Len(s) \/ s[Expired(s) + 1] < Window
<1> DEFINE L == {m \in 1..Len(s) : s[m] < Window}
           P(n) == (\A m \in 1..n : s[m] >= Window) /\ (n = Len(s) \/ s[n + 1] < Window)
<1>0. Len(s) \in Nat /\ \A m \in 1..Len(s) : s[m] \in Nat
  BY DEF Ages
<1>1. CASE L = {}
  <2>1. P(Len(s))
    BY <1>0, <1>1
  <2> QED
    BY <1>0, <2>1 DEF Expired
<1>2. CASE L # {}
  <2>1. PICK x \in L : \A y \in L : x <= y
    <3>1. L \subseteq Nat
      BY <1>0
    <3> QED
      BY <1>2, <3>1, LeastNat
  <2>2. x - 1 \in 0..Len(s) /\ P(x - 1)
    BY <1>0, <2>1
  <2> QED
    BY <2>2 DEF Expired
<1> QED
  BY <1>1, <1>2

LEMMA LiveProps ==
    ASSUME NEW s \in Seq(Ages)
    PROVE  /\ Live(s) \in Seq(Ages)
           /\ Len(Live(s)) = Len(s) - Expired(s)
           /\ \A m \in 1..Len(Live(s)) : Live(s)[m] = s[Expired(s) + m]
<1>1. Expired(s) \in 0..Len(s) /\ Len(s) \in Nat
  BY ExpiredProps
<1>2. Expired(s) + 1 \in 1..Len(s) + 1
  BY <1>1
<1> QED
  BY <1>1, <1>2, SubSeqProperties DEF Live

(* Ages fall along a window.  A window a of what was let through, in the    *)
(* lives g, ends in the recorded window h as far as it is of the life L.   *)
Falling(s) == \A m, n \in 1..Len(s) : m <= n => s[n] <= s[m]
AllLive(s) == \A m \in 1..Len(s) : s[m] < Window
EndsIn(a, g, L, h) == \A m \in 1..Len(a) : g[m] = L =>
    Len(a) - m < Len(h) /\ a[m] = h[Len(h) - Len(a) + m]

LEMMA EndsInLive ==
    ASSUME NEW a \in Seq(Ages), NEW g, NEW L, NEW h \in Seq(Ages), AllLive(a), EndsIn(a, g, L, h)
    PROVE  EndsIn(a, g, L, Live(h))
<1>1. /\ Expired(h) \in 0..Len(h) /\ Len(h) \in Nat /\ Len(a) \in Nat
      /\ \A m \in 1..Expired(h) : h[m] >= Window
  BY ExpiredProps
<1>2. Len(Live(h)) = Len(h) - Expired(h)
  BY LiveProps
<1> SUFFICES ASSUME NEW m \in 1..Len(a), g[m] = L
             PROVE  /\ Len(a) - m < Len(Live(h))
                    /\ a[m] = Live(h)[Len(Live(h)) - Len(a) + m]
  BY DEF EndsIn
<1> DEFINE p == Len(h) - Len(a) + m
<1>3. p \in 1..Len(h) /\ a[m] = h[p] /\ a[m] < Window
  BY <1>1 DEF EndsIn, AllLive
<1>4. a[m] \in Nat
  BY DEF Ages
<1>5. Expired(h) < p
  <2> SUFFICES ASSUME p \in 1..Expired(h) PROVE FALSE
    BY <1>1, <1>3
  <2> QED
    BY <1>1, <1>3, <1>4
<1>6. Len(Live(h)) - Len(a) + m \in 1..Len(Live(h)) /\ Len(a) - m < Len(Live(h))
  BY <1>1, <1>2, <1>3, <1>5
<1>7. Live(h)[Len(Live(h)) - Len(a) + m] = h[Expired(h) + (Len(Live(h)) - Len(a) + m)]
  BY <1>6, LiveProps
<1>8. Expired(h) + (Len(Live(h)) - Len(a) + m) = p
  BY <1>1, <1>2
<1> QED
  BY <1>3, <1>6, <1>7, <1>8

LEMMA AppendHit ==
    ASSUME NEW a \in Seq(Ages), NEW g \in Seq(Nat), NEW h \in Seq(Ages), NEW L \in Nat,
           Len(g) = Len(a)
    PROVE  /\ Append(a, 0) \in Seq(Ages) /\ Len(Append(a, 0)) = Len(a) + 1
           /\ Append(g, L) \in Seq(Nat) /\ Len(Append(g, L)) = Len(a) + 1
           /\ Append(g, L)[Len(a) + 1] = L /\ \A m \in 1..Len(a) : Append(g, L)[m] = g[m]
           /\ EndsIn(a, g, L, h) => EndsIn(Append(a, 0), Append(g, L), L, Append(h, 0))
           /\ Falling(a) => Falling(Append(a, 0))
           /\ AllLive(a) => AllLive(Append(a, 0))
<1> DEFINE x == Append(a, 0)
           y == Append(h, 0)
           z == Append(g, L)
<1>1. /\ x \in Seq(Ages) /\ Len(x) = Len(a) + 1 /\ Len(a) \in Nat
      /\ x[Len(a) + 1] = 0 /\ \A m \in 1..Len(a) : x[m] = a[m]
  BY DEF Ages
<1>2. /\ Len(y) = Len(h) + 1 /\ Len(h) \in Nat
      /\ y[Len(h) + 1] = 0 /\ \A m \in 1..Len(h) : y[m] = h[m]
  BY DEF Ages
<1>3. \A m \in 1..Len(a) : a[m] \in Nat
  BY DEF Ages
<1>4. /\ z \in Seq(Nat) /\ Len(z) = Len(a) + 1
      /\ z[Len(a) + 1] = L /\ \A m \in 1..Len(a) : z[m] = g[m]
  OBVIOUS
<1> HIDE DEF x, y, z
<1>5. ASSUME EndsIn(a, g, L, h) PROVE EndsIn(x, z, L, y)
  <2> SUFFICES ASSUME NEW m \in 1..Len(x), z[m] = L
               PROVE  Len(x) - m < Len(y) /\ x[m] = y[Len(y) - Len(x) + m]
    BY DEF EndsIn
  <2>1. CASE m = Len(x)
    BY <1>1, <1>2, <2>1
  <2>2. CASE m # Len(x)
    <3>1. m \in 1..Len(a) /\ g[m] = L
      BY <1>1, <1>4, <2>2
    <3>2. Len(a) - m < Len(h) /\ a[m] = h[Len(h) - Len(a) + m]
      BY <1>5, <3>1 DEF EndsIn
    <3>3. /\ Len(h) - Len(a) + m \in 1..Len(h) /\ Len(x) - m < Len(y)
          /\ Len(y) - Len(x) + m = Len(h) - Len(a) + m
      BY <1>1, <1>2, <3>1, <3>2
    <3> QED
      BY <1>1, <1>2, <3>1, <3>2, <3>3
  <2> QED
    BY <2>1, <2>2
<1>6. ASSUME Falling(a) PROVE Falling(x)
  BY <1>1, <1>3, <1>6 DEF Falling
<1>7. ASSUME AllLive(a) PROVE AllLive(x)
  <2> SUFFICES ASSUME NEW m \in 1..Len(x) PROVE x[m] < Window
    BY DEF AllLive
  <2>1. m \in 1..Len(a) \/ m = Len(a) + 1
    BY <1>1
  <2> QED
    BY <1>1, <1>7, <2>1 DEF AllLive
<1> QED
  BY <1>1, <1>4, <1>5, <1>6, <1>7 DEF x, y, z

LEMMA OlderProps ==
    ASSUME NEW s \in Seq(Ages)
    PROVE  /\ OlderHits(s) \in Seq(Ages) /\ Len(OlderHits(s)) = Len(s)
           /\ \A m \in 1..Len(s) : OlderHits(s)[m] = Older(s[m], Window)
  BY DEF OlderHits, Older, Within, Ages

(* A tick cuts what was let through and its lives at the same place. *)
LEMMA TickWindows ==
    ASSUME NEW a \in Seq(Ages), NEW g \in Seq(Nat), NEW L, NEW h \in Seq(Ages),
           Len(g) = Len(a), Falling(a), EndsIn(a, g, L, h)
    PROVE  LET b == Live(OlderHits(a))
               l == LastOf(g, Len(b))
           IN  /\ b \in Seq(Ages) /\ Len(b) <= Len(a)
               /\ l \in Seq(Nat) /\ Len(l) = Len(b)
               /\ \E e \in 0..Len(a) : Len(b) = Len(a) - e /\ \A m \in 1..Len(b) : l[m] = g[e + m]
               /\ Falling(b) /\ AllLive(b) /\ EndsIn(b, l, L, OlderHits(h))
<1> DEFINE c == OlderHits(a)
           k == OlderHits(h)
           e == Expired(c)
           b == Live(c)
           l == LastOf(g, Len(b))
<1>1. c \in Seq(Ages) /\ Len(c) = Len(a) /\ k \in Seq(Ages) /\ Len(k) = Len(h)
  BY OlderProps
<1>2. Falling(c) /\ EndsIn(c, g, L, k)
  <2>1. \A m \in 1..Len(a) : a[m] \in Ages /\ c[m] = Older(a[m], Window)
    BY OlderProps
  <2>2. \A m \in 1..Len(h) : k[m] = Older(h[m], Window)
    BY OlderProps
  <2>3. \A x, y \in Ages : x <= y => Older(x, Window) <= Older(y, Window)
    BY DEF Older, Within, Ages
  <2>4. Len(a) \in Nat /\ Len(h) \in Nat
    OBVIOUS
  <2>5. Falling(c)
    BY <1>1, <2>1, <2>3, <2>4 DEF Falling
  <2>6. EndsIn(c, g, L, k)
    <3> HIDE DEF c, k
    <3> SUFFICES ASSUME NEW m \in 1..Len(a), g[m] = L
                 PROVE  Len(a) - m < Len(h) /\ c[m] = k[Len(h) - Len(a) + m]
      BY <1>1 DEF EndsIn
    <3>1. Len(a) - m < Len(h) /\ a[m] = h[Len(h) - Len(a) + m]
      BY DEF EndsIn
    <3>2. Len(h) - Len(a) + m \in 1..Len(h)
      BY <2>4, <3>1
    <3> QED
      BY <2>1, <2>2, <3>1, <3>2
  <2> QED
    BY <2>5, <2>6
<1> HIDE DEF c, k
<1>3. /\ e \in 0..Len(c) /\ Len(c) \in Nat /\ Len(k) \in Nat
      /\ e = Len(c) \/ c[e + 1] < Window
  BY <1>1, ExpiredProps
<1>4. /\ b \in Seq(Ages) /\ Len(b) = Len(c) - e
      /\ \A m \in 1..Len(b) : b[m] = c[e + m]
  BY <1>1, LiveProps
<1> HIDE DEF e, b
<1>5. Falling(b)
  <2> SUFFICES ASSUME NEW m \in 1..Len(b), NEW n \in 1..Len(b), m <= n
               PROVE  b[n] <= b[m]
    BY DEF Falling
  <2>1. e + m \in 1..Len(c) /\ e + n \in 1..Len(c) /\ e + m <= e + n
    BY <1>3, <1>4
  <2>2. c[e + n] <= c[e + m]
    BY <1>2, <2>1 DEF Falling
  <2> QED
    BY <1>4, <2>2
<1>6. AllLive(b)
  <2> SUFFICES ASSUME NEW m \in 1..Len(b) PROVE b[m] < Window
    BY DEF AllLive
  <2>1. e + 1 \in 1..Len(c) /\ e + m \in 1..Len(c) /\ e + 1 <= e + m /\ e # Len(c)
    BY <1>3, <1>4
  <2>2. c[e + m] <= c[e + 1] /\ c[e + 1] < Window
    BY <1>2, <1>3, <2>1 DEF Falling
  <2>3. c[e + m] \in Nat /\ c[e + 1] \in Nat
    <3>1. c[e + m] \in Ages /\ c[e + 1] \in Ages
      BY <1>1, <2>1
    <3> QED
      BY <3>1 DEF Ages
  <2> QED
    BY <1>4, <2>2, <2>3
<1>7. l \in Seq(Nat) /\ Len(l) = Len(b) /\ \A m \in 1..Len(b) : l[m] = g[e + m]
  <2>1. Len(g) - Len(b) + 1 = e + 1 /\ e + 1 \in 1..Len(g) + 1 /\ Len(g) \in Nat
    BY <1>1, <1>3, <1>4
  <2>2. l = SubSeq(g, e + 1, Len(g))
    BY <2>1 DEF LastOf
  <2> HIDE DEF l
  <2>3. /\ l \in Seq(Nat) /\ Len(l) = Len(g) - (e + 1) + 1
        /\ \A m \in 1..Len(g) - (e + 1) + 1 : l[m] = g[(e + 1) + m - 1]
    <3>1. e + 1 \in Int /\ Len(g) \in Int /\ \A n \in (e + 1)..Len(g) : g[n] \in Nat
      BY <2>1
    <3>2. /\ SubSeq(g, e + 1, Len(g)) \in Seq(Nat)
          /\ Len(SubSeq(g, e + 1, Len(g)))
                = IF e + 1 <= Len(g) THEN Len(g) - (e + 1) + 1 ELSE 0
          /\ \A n \in 1..Len(g) - (e + 1) + 1 :
                SubSeq(g, e + 1, Len(g))[n] = g[(e + 1) + n - 1]
      BY ONLY <3>1, g \in Seq(Nat), SubSeqProperties
    <3> QED
      BY <2>1, <2>2, <3>2
  <2>4. Len(l) = Len(b)
    BY <1>1, <1>3, <1>4, <2>1, <2>3
  <2>5. ASSUME NEW m \in 1..Len(b) PROVE l[m] = g[e + m]
    <3>1. m \in 1..Len(g) - (e + 1) + 1 /\ (e + 1) + m - 1 = e + m
      BY <1>1, <1>3, <1>4, <2>1
    <3> QED
      BY <2>3, <3>1
  <2> QED
    BY <2>3, <2>4, <2>5
<1> HIDE DEF l
<1>8. EndsIn(b, l, L, k)
  <2> SUFFICES ASSUME NEW m \in 1..Len(b), l[m] = L
               PROVE  Len(b) - m < Len(k) /\ b[m] = k[Len(k) - Len(b) + m]
    BY DEF EndsIn
  <2>1. /\ e + m \in 1..Len(c) /\ Len(k) - Len(c) + (e + m) = Len(k) - Len(b) + m
        /\ Len(c) - (e + m) = Len(b) - m
    BY <1>3, <1>4
  <2>2. g[e + m] = L
    BY <1>7
  <2> QED
    BY <1>2, <1>4, <2>1, <2>2 DEF EndsIn
<1>9. Len(b) <= Len(a) /\ e \in 0..Len(a) /\ Len(b) = Len(a) - e
  BY <1>1, <1>3, <1>4
<1> QED
  BY <1>4, <1>5, <1>6, <1>7, <1>8, <1>9 DEF b, l, c, k

-----------------------------------------------------------------------------
(* The limiter *)

Inserting(i) == {c \in Requests : pc[c] = "insert" /\ IdOf[c] = i}
Mine(i) == {c \in Requests : IdOf[c] = i}

WindowTypeOK ==
    /\ hits \in [Ids -> Seq(Ages)] /\ admitted \in [Ids -> Seq(Ages)]
    /\ lives \in [Ids -> Seq(Nat)] /\ life \in Nat
    /\ \A i \in Ids : Len(lives[i]) = Len(admitted[i])

(* What was let through in the last WINDOW_S in this life is the end of    *)
(* the recorded window: neither the pruning nor the eviction forgets a     *)
(* live hit.  The shared windows have one life.                            *)
WindowsCount == \A i \in Ids :
    /\ Falling(admitted[i]) /\ AllLive(admitted[i])
    /\ EndsIn(admitted[i], lives[i], life, hits[i])
Rising(g) == \A m, n \in 1..Len(g) : m <= n => g[m] <= g[n]
LivesPassed == \A i \in Ids :
    /\ Rising(lives[i])
    /\ \A m \in 1..Len(admitted[i]) : lives[i][m] <= life /\ (ha => lives[i][m] = life)

(* The shared limiter has counted for every request that has not inserted; *)
(* the one in memory lets no more than the limit through in one life.      *)
Apart(g) == \A m, n \in 1..Len(g) : n >= m + Limit => g[m] < g[n]
CapKept == Limit > 0 => \A i \in Ids :
    IF ha THEN Len(admitted[i]) + Cardinality(Inserting(i)) <= Limit + Cardinality(Mine(i))
          ELSE Apart(lives[i])
NoInsertAlone == ~ha => \A c \in Requests : pc[c] # "insert"

RateInv == WindowTypeOK /\ WindowsCount /\ LivesPassed /\ CapKept /\ NoInsertAlone

USE Limits, RequestsFinite

LEMMA Counted ==
    ASSUME NEW i \in Ids
    PROVE  /\ IsFiniteSet(Mine(i)) /\ Cardinality(Mine(i)) \in Nat
           /\ IsFiniteSet(Inserting(i)) /\ Cardinality(Inserting(i)) \in Nat
           /\ Cardinality(Inserting(i)) <= Cardinality(Mine(i))
<1>1. Mine(i) \subseteq Requests /\ Inserting(i) \subseteq Mine(i)
  BY DEF Mine, Inserting
<1>2. IsFiniteSet(Mine(i)) /\ IsFiniteSet(Inserting(i))
  BY <1>1, FS_Subset
<1> QED
  BY <1>1, <1>2, FS_Subset, FS_CardinalityType

LEMMA CountedNext ==
    ASSUME NEW i \in Ids
    PROVE  /\ Cardinality(Inserting(i)') \in Nat
           /\ Cardinality(Inserting(i)') <= Cardinality(Mine(i))
<1>1. Mine(i) \subseteq Requests /\ Inserting(i)' \subseteq Mine(i)
  BY DEF Mine, Inserting
<1>2. IsFiniteSet(Mine(i)) /\ IsFiniteSet(Inserting(i)')
  BY <1>1, FS_Subset
<1> QED
  BY <1>1, <1>2, FS_Subset, FS_CardinalityType

LEMMA PrunedProps ==
    ASSUME RateInv, NEW i \in Ids
    PROVE  /\ Pruned(i) \in [Ids -> Seq(Ages)]
           /\ \A j \in Ids : EndsIn(admitted[j], lives[j], life, Pruned(i)[j])
<1> USE DEF RateInv, WindowTypeOK
<1>1. Live(hits[i]) \in Seq(Ages)
  BY LiveProps
<1>2. Pruned(i) \in [Ids -> Seq(Ages)]
  BY <1>1 DEF Pruned
<1>3. EndsIn(admitted[i], lives[i], life, Live(hits[i]))
  BY EndsInLive DEF WindowsCount
<1>4. ASSUME NEW j \in Ids, hits[j] # <<>>, hits[j][Len(hits[j])] >= Window
      PROVE  EndsIn(admitted[j], lives[j], life, <<>>)
  <2> DEFINE a == admitted[j]
  <2>1. hits[j] \in Seq(Ages) /\ a \in Seq(Ages)
    OBVIOUS
  <2>2. Len(hits[j]) \in Nat /\ Len(a) \in Nat
    BY <2>1
  <2> SUFFICES ASSUME NEW m \in 1..Len(a), lives[j][m] = life PROVE FALSE
    BY DEF EndsIn
  <2>3. Len(a) - m < Len(hits[j]) /\ a[m] = hits[j][Len(hits[j]) - Len(a) + m]
    BY DEF WindowsCount, EndsIn
  <2>4. a[m] < Window /\ a[m] \in Nat /\ a[Len(a)] <= a[m] /\ a[Len(a)] \in Nat
    BY <2>1, <2>2 DEF WindowsCount, AllLive, Falling, Ages
  <2>5. lives[j][Len(a)] = life
    <3>1. Len(a) \in 1..Len(lives[j]) /\ m \in 1..Len(lives[j]) /\ m <= Len(a) /\ life \in Nat
      BY <2>2
    <3>2. lives[j][Len(a)] \in Nat /\ lives[j][Len(a)] <= life /\ life <= lives[j][Len(a)]
      BY <3>1 DEF LivesPassed, Rising
    <3> QED
      BY <3>1, <3>2
  <2>6. a[Len(a)] = hits[j][Len(hits[j])]
    BY <2>2, <2>5 DEF WindowsCount, EndsIn
  <2> QED
    BY <1>4, <2>4, <2>6
<1>5. \A j \in Ids : EndsIn(admitted[j], lives[j], life, Pruned(i)[j])
  BY <1>3, <1>4 DEF Pruned, WindowsCount
<1> QED
  BY <1>2, <1>5

(* A hit let through is counted in both. *)
LEMMA LetThroughWindows ==
    ASSUME RateInv, NEW i \in Ids, LetThrough(i)
    PROVE  /\ WindowTypeOK' /\ WindowsCount' /\ (UNCHANGED ha => LivesPassed')
           /\ Len(admitted'[i]) = Len(admitted[i]) + 1
           /\ lives'[i][Len(admitted[i]) + 1] = life
           /\ \A m \in 1..Len(admitted[i]) : lives'[i][m] = lives[i][m]
           /\ \A j \in Ids \ {i} : admitted'[j] = admitted[j] /\ lives'[j] = lives[j]
<1> USE DEF RateInv, WindowTypeOK
<1>1. /\ Pruned(i) \in [Ids -> Seq(Ages)]
      /\ \A j \in Ids : EndsIn(admitted[j], lives[j], life, Pruned(i)[j])
  BY PrunedProps
<1>2. /\ hits' = [Pruned(i) EXCEPT ![i] = Append(Pruned(i)[i], 0)]
      /\ admitted' = [admitted EXCEPT ![i] = Append(admitted[i], 0)]
      /\ lives' = [lives EXCEPT ![i] = Append(lives[i], life)] /\ life' = life
  BY <1>1 DEF LetThrough
<1> DEFINE x == Append(admitted[i], 0)
           y == Append(Pruned(i)[i], 0)
           z == Append(lives[i], life)
<1>3. /\ y \in Seq(Ages) /\ x \in Seq(Ages) /\ z \in Seq(Nat)
      /\ Len(x) = Len(admitted[i]) + 1 /\ Len(z) = Len(admitted[i]) + 1
      /\ z[Len(admitted[i]) + 1] = life /\ \A m \in 1..Len(admitted[i]) : z[m] = lives[i][m]
      /\ EndsIn(x, z, life, y) /\ Falling(x) /\ AllLive(x)
  <2>1. y \in Seq(Ages)
    BY <1>1 DEF Ages
  <2>2. Falling(admitted[i]) /\ AllLive(admitted[i])
    BY DEF WindowsCount
  <2> QED
    BY <1>1, <2>1, <2>2, AppendHit
<1> HIDE DEF x, y, z
<1>4. /\ hits' = [Pruned(i) EXCEPT ![i] = y] /\ admitted' = [admitted EXCEPT ![i] = x]
      /\ lives' = [lives EXCEPT ![i] = z] /\ life' = life
  BY <1>2 DEF x, y, z
<1>5. WindowTypeOK'
  BY <1>1, <1>3, <1>4
<1>6. ASSUME NEW j \in Ids
      PROVE  /\ Falling(admitted'[j]) /\ AllLive(admitted'[j])
             /\ EndsIn(admitted'[j], lives'[j], life', hits'[j])
  BY <1>1, <1>3, <1>4 DEF WindowsCount
<1>7. ASSUME NEW j \in Ids PROVE Rising(lives'[j])
  <2>1. CASE j # i
    BY <1>4, <2>1 DEF LivesPassed
  <2>2. CASE j = i
    <3>1. lives'[j] = z /\ Len(admitted[i]) \in Nat /\ Len(lives[i]) = Len(admitted[i])
      BY <1>4, <2>2
    <3>2. \A m \in 1..Len(lives[i]) : lives[i][m] \in Nat /\ lives[i][m] <= life /\ life \in Nat
      BY DEF LivesPassed
    <3>3. Rising(lives[i])
      BY DEF LivesPassed
    <3> SUFFICES ASSUME NEW m \in 1..Len(z), NEW n \in 1..Len(z), m <= n PROVE z[m] <= z[n]
      BY <3>1 DEF Rising
    <3>4. CASE n \in 1..Len(lives[i])
      <4>1. m \in 1..Len(lives[i]) /\ m \in 1..Len(admitted[i]) /\ n \in 1..Len(admitted[i])
        BY <3>1, <3>4
      <4>2. z[m] = lives[i][m] /\ z[n] = lives[i][n]
        BY <1>3, <4>1
      <4>3. lives[i][m] <= lives[i][n]
        BY <3>3, <3>4, <4>1 DEF Rising
      <4> QED
        BY <4>2, <4>3
    <3>5. CASE n = Len(lives[i]) + 1 /\ m = n
      BY <1>3, <3>1, <3>5
    <3>6. CASE n = Len(lives[i]) + 1 /\ m \in 1..Len(lives[i])
      BY <1>3, <3>1, <3>2, <3>6
    <3> QED
      BY <1>3, <3>1, <3>4, <3>5, <3>6
  <2> QED
    BY <2>1, <2>2
<1>8. ASSUME UNCHANGED ha PROVE LivesPassed'
  <2> SUFFICES ASSUME NEW j \in Ids, NEW m \in 1..Len(admitted'[j])
               PROVE  lives'[j][m] <= life /\ (ha => lives'[j][m] = life) 
    BY <1>4, <1>7, <1>8 DEF LivesPassed
  <2>1. CASE j # i
    BY <1>4, <2>1 DEF LivesPassed
  <2>2. CASE j = i
    <3>1. admitted'[j] = x /\ lives'[j] = z /\ Len(admitted[i]) \in Nat
      BY <1>4, <2>2
    <3>2. m \in 1..Len(admitted[i]) \/ m = Len(admitted[i]) + 1
      BY <1>3, <3>1
    <3>3. CASE m \in 1..Len(admitted[i])
      <4>1. lives'[j][m] = lives[i][m]
        BY <1>3, <3>1, <3>3
      <4>2. lives[i][m] <= life /\ (ha => lives[i][m] = life)
        BY <3>3 DEF LivesPassed
      <4> QED
        BY <4>1, <4>2
    <3>4. CASE m = Len(admitted[i]) + 1
      <4>1. lives'[j][m] = life /\ life \in Nat
        BY <1>3, <3>1, <3>4
      <4> QED
        BY <4>1
    <3> QED
      BY <3>2, <3>3, <3>4
  <2> QED
    BY <2>1, <2>2
<1> QED
  BY <1>3, <1>4, <1>5, <1>6, <1>8 DEF WindowsCount

(* A window that is not full has room for what this life let through. *)
LEMMA RoomLeft ==
    ASSUME RateInv, NEW i \in Ids, ~Full(i)
    PROVE  /\ \A m \in 1..Len(admitted[i]) :
                 lives[i][m] = life => Len(admitted[i]) + 1 < m + Limit
           /\ ha => Len(admitted[i]) < Limit
<1>1. EndsIn(admitted[i], lives[i], life, Live(hits[i]))
  BY EndsInLive DEF RateInv, WindowTypeOK, WindowsCount
<1>2. Live(hits[i]) \in Seq(Ages) /\ admitted[i] \in Seq(Ages)
  BY LiveProps DEF RateInv, WindowTypeOK
<1>3. Len(Live(hits[i])) \in Nat /\ Len(admitted[i]) \in Nat /\ Len(Live(hits[i])) < Limit
  BY <1>2 DEF Full
<1>4. ASSUME NEW m \in 1..Len(admitted[i]), lives[i][m] = life
      PROVE  Len(admitted[i]) + 1 < m + Limit
  <2>1. Len(admitted[i]) - m < Len(Live(hits[i]))
    BY <1>1, <1>4 DEF EndsIn
  <2> QED
    BY <1>3, <2>1
<1>5. ASSUME ha PROVE Len(admitted[i]) < Limit
  <2>1. CASE Len(admitted[i]) = 0
    BY <1>3, <2>1
  <2>2. CASE Len(admitted[i]) # 0
    <3>1. 1 \in 1..Len(admitted[i]) /\ lives[i][1] = life
      BY <1>3, <1>5, <2>2 DEF RateInv, LivesPassed
    <3> QED
      BY <1>3, <1>4, <3>1
  <2> QED
    BY <2>1, <2>2
<1> QED
  BY <1>4, <1>5

(* So a hit in it leaves the limit in every life. *)
LEMMA ApartStays ==
    ASSUME RateInv, NEW i \in Ids, ~Full(i), LetThrough(i), Limit > 0, Apart(lives[i])
    PROVE  Apart(lives'[i])
<1> DEFINE k == Len(admitted[i])
<1>1. /\ Len(lives'[i]) = k + 1 /\ k \in Nat /\ Len(lives[i]) = k
      /\ lives'[i][k + 1] = life
      /\ \A m \in 1..k : lives'[i][m] = lives[i][m] /\ lives[i][m] \in Nat /\ lives[i][m] <= life
      /\ life \in Nat
  BY LetThroughWindows DEF RateInv, WindowTypeOK, LivesPassed
<1>2. \A m \in 1..k : lives[i][m] = life => k + 1 < m + Limit
  BY RoomLeft
<1> SUFFICES ASSUME NEW m \in 1..k + 1, NEW n \in 1..k + 1, n >= m + Limit
             PROVE  lives'[i][m] < lives'[i][n]
  BY <1>1 DEF Apart
<1>3. m \in 1..k
  BY <1>1
<1>4. CASE n = k + 1
  BY <1>1, <1>2, <1>3, <1>4
<1>5. CASE n \in 1..k
  BY <1>1, <1>3, <1>5 DEF Apart
<1> QED
  BY <1>1, <1>4, <1>5

(* Everything but the limiter, the clock and a restart. *)
Quiet == /\ UNCHANGED <<ha, rateVars>>
         /\ \A c \in Requests : pc'[c] = "insert" <=> pc[c] = "insert"

LEMMA QuietSteps ==
    ASSUME FlowInv, [Next]_vars
    PROVE  \/ Quiet
           \/ Tick \/ \E K \in SUBSET Versions : Restart(K)
           \/ \E c \in Requests : Limit > 0 /\ Allow(c)
           \/ \E c \in Requests : InsertHit(c)
           \/ \E i \in Ids : OtherTraffic(i)
<1> USE DEF FlowInv, FlowTypeOK, Quiet, rateVars, Ended
<1>1. ASSUME NEW c \in Requests, NEW k \in Kinds, Arrive(c, k) PROVE Quiet
  BY <1>1 DEF Arrive
<1>2. ASSUME NEW c \in Requests,
             Lookup(c) \/ CheckInterval(c) \/ CheckActive(c) \/ Submit(c) \/ WaitEnds(c) \/ Leave(c)
      PROVE  Quiet
  BY <1>2 DEF Lookup, Found, CheckInterval, CheckActive, Submit, WaitEnds, Leave
<1>3. ASSUME NEW c \in Requests,
             FreshnessCall(c) \/ ValidateCall(c) \/ Describe(c) \/ DescribeRaises(c)
      PROVE  Quiet
  BY <1>3 DEF FreshnessCall, ValidateCall, Describe, DescribeRaises, Classified, Judged,
              Validated, Rejected
<1>4. ASSUME NEW c \in Requests, Limit = 0, Allow(c) PROVE Quiet
  BY <1>4 DEF Allow, Admitted
<1>5. ASSUME NEW k \in Versions, StartRender(k) \/ Publish(k) \/ RenderFails(k)
      PROVE  Quiet
  BY <1>5 DEF StartRender, Publish, RenderFails, JobEnds
<1>6. ASSUME ForcedElsewhere \/ \E v \in Versions : Deploy(v) PROVE Quiet
  BY <1>6 DEF Deploy, ForcedElsewhere
<1>7. ASSUME NEW how \in DctStates, DctBreaks(how) PROVE Quiet
  BY <1>7 DEF DctBreaks
<1>8. CASE Midnight \/ DctFixed \/ UNCHANGED vars
  BY <1>8 DEF Midnight, DctFixed, vars
<1> HIDE DEF FlowInv, Quiet
<1> QED
  BY <1>1, <1>2, <1>3, <1>4, <1>5, <1>6, <1>7, <1>8 DEF Next, RequestStep

LEMMA QuietKeeps == ASSUME RateInv, Quiet PROVE RateInv'
<1>1. \A i \in Ids : Inserting(i)' = Inserting(i)
  BY DEF Quiet, Inserting
<1> QED
  BY <1>1 DEF Quiet, rateVars, RateInv, WindowTypeOK, WindowsCount, LivesPassed, CapKept,
     NoInsertAlone, Mine

LEMMA TickKeeps == ASSUME RateInv, Tick PROVE RateInv'
<1> USE DEF RateInv, WindowTypeOK
<1>0. /\ UNCHANGED <<ha, life, pc>>
      /\ hits' = [i \in Ids |-> hits'[i]] /\ admitted' = [i \in Ids |-> admitted'[i]]
      /\ lives' = [i \in Ids |-> lives'[i]]
  BY DEF Tick, envVars
<1>1. ASSUME NEW i \in Ids
      PROVE  /\ admitted'[i] \in Seq(Ages) /\ hits'[i] \in Seq(Ages) /\ lives'[i] \in Seq(Nat)
             /\ Len(admitted'[i]) <= Len(admitted[i]) /\ Len(lives'[i]) = Len(admitted'[i])
             /\ \E e \in 0..Len(admitted[i]) :
                   /\ Len(admitted'[i]) = Len(admitted[i]) - e
                   /\ \A m \in 1..Len(admitted'[i]) : lives'[i][m] = lives[i][e + m]
             /\ Falling(admitted'[i]) /\ AllLive(admitted'[i])
             /\ EndsIn(admitted'[i], lives'[i], life, hits'[i])
  <2>1. /\ admitted'[i] = Live(OlderHits(admitted[i])) /\ hits'[i] = OlderHits(hits[i])
        /\ lives'[i] = LastOf(lives[i], Len(Live(OlderHits(admitted[i]))))
    BY DEF Tick
  <2>2. /\ Falling(admitted[i]) /\ EndsIn(admitted[i], lives[i], life, hits[i])
        /\ Len(lives[i]) = Len(admitted[i])
        /\ admitted[i] \in Seq(Ages) /\ hits[i] \in Seq(Ages) /\ lives[i] \in Seq(Nat)
    BY DEF WindowsCount
  <2> DEFINE b == Live(OlderHits(admitted[i]))
             l == LastOf(lives[i], Len(b))
  <2>3. /\ b \in Seq(Ages) /\ Len(b) <= Len(admitted[i])
        /\ l \in Seq(Nat) /\ Len(l) = Len(b)
        /\ \E e \in 0..Len(admitted[i]) :
              Len(b) = Len(admitted[i]) - e /\ \A m \in 1..Len(b) : l[m] = lives[i][e + m]
        /\ Falling(b) /\ AllLive(b) /\ EndsIn(b, l, life, OlderHits(hits[i]))
    BY <2>2, TickWindows
  <2>4. hits'[i] \in Seq(Ages)
    BY <2>1, <2>2, OlderProps
  <2>5. admitted'[i] = b /\ lives'[i] = l
    BY <2>1
  <2> HIDE DEF b, l
  <2> QED
    BY <2>1, <2>3, <2>4, <2>5
<1>2. WindowTypeOK'
  BY <1>0, <1>1
<1>3. WindowsCount'
  BY <1>0, <1>1 DEF WindowsCount
<1>4. ASSUME NEW i \in Ids
      PROVE  /\ Rising(lives'[i]) /\ (Apart(lives[i]) => Apart(lives'[i]))
             /\ \A m \in 1..Len(admitted'[i]) : \E n \in 1..Len(admitted[i]) :
                   lives'[i][m] = lives[i][n]
  <2>1. PICK e \in 0..Len(admitted[i]) :
           /\ Len(admitted'[i]) = Len(admitted[i]) - e
           /\ \A m \in 1..Len(admitted'[i]) : lives'[i][m] = lives[i][e + m]
    BY <1>1
  <2>2. /\ Len(admitted[i]) \in Nat /\ e \in Nat /\ Len(lives[i]) = Len(admitted[i])
        /\ Len(lives'[i]) = Len(admitted[i]) - e
    BY <1>1, <2>1
  <2>3. \A m \in 1..Len(lives'[i]) : e + m \in 1..Len(lives[i]) /\ lives'[i][m] = lives[i][e + m]
    BY <2>1, <2>2
  <2>4. \A m, n \in 1..Len(lives'[i]) :
           (m <= n => e + m <= e + n) /\ (n >= m + Limit => e + n >= (e + m) + Limit)
    BY <2>2
  <2>5. Rising(lives'[i])
    BY <2>3, <2>4 DEF Rising, LivesPassed
  <2>6. Apart(lives[i]) => Apart(lives'[i])
    BY <2>3, <2>4 DEF Apart
  <2>7. \A m \in 1..Len(admitted'[i]) : \E n \in 1..Len(admitted[i]) : lives'[i][m] = lives[i][n]
    BY <1>1, <2>2, <2>3
  <2> QED
    BY <2>5, <2>6, <2>7
<1>5. LivesPassed'
  <2> SUFFICES ASSUME NEW i \in Ids, NEW m \in 1..Len(admitted'[i])
               PROVE  lives'[i][m] <= life /\ (ha => lives'[i][m] = life)
    BY <1>0, <1>4 DEF LivesPassed
  <2>1. PICK n \in 1..Len(admitted[i]) : lives'[i][m] = lives[i][n]
    BY <1>4
  <2>2. lives[i][n] <= life /\ (ha => lives[i][n] = life)
    BY DEF LivesPassed
  <2> QED
    BY <2>1, <2>2
<1>6. CapKept'
  <2> SUFFICES ASSUME Limit > 0, NEW i \in Ids
               PROVE  IF ha THEN Len(admitted'[i]) + Cardinality(Inserting(i)')
                                     <= Limit + Cardinality(Mine(i))
                            ELSE Apart(lives'[i])
    BY <1>0 DEF CapKept, Mine
  <2>1. Inserting(i)' = Inserting(i)
    BY <1>0 DEF Inserting
  <2>2. /\ Len(admitted[i]) \in Nat /\ Len(admitted'[i]) \in Nat
        /\ Len(admitted'[i]) <= Len(admitted[i])
    BY <1>1
  <2> QED
    BY <1>4, <2>1, <2>2, Counted DEF CapKept
<1>7. NoInsertAlone'
  BY <1>0 DEF NoInsertAlone
<1> QED
  BY <1>2, <1>3, <1>5, <1>6, <1>7

(* On one node the windows start a new life, which has let nothing through. *)
LEMMA RestartKeeps ==
    ASSUME RateInv, NEW K \in SUBSET Versions, Restart(K)
    PROVE  RateInv'
<1> USE DEF RateInv
<1>0. /\ UNCHANGED <<ha, admitted, lives>>
      /\ hits' = IF ha THEN hits ELSE [i \in Ids |-> <<>>]
      /\ life' = IF ha THEN life ELSE life + 1
      /\ \A c \in Requests : pc'[c] = "none"
  BY DEF Restart
<1>1. WindowTypeOK' /\ LivesPassed'
  BY <1>0 DEF WindowTypeOK, LivesPassed
<1>2. WindowsCount'
  <2> SUFFICES ASSUME NEW i \in Ids
               PROVE  EndsIn(admitted[i], lives[i], life', hits'[i])
    BY <1>0 DEF WindowsCount
  <2>1. CASE ha
    BY <1>0, <2>1 DEF WindowsCount
  <2>2. CASE ~ha
    <3>1. \A m \in 1..Len(admitted[i]) : lives[i][m] \in Nat /\ lives[i][m] <= life /\ life \in Nat
      BY DEF LivesPassed, WindowTypeOK
    <3>2. \A m \in 1..Len(admitted[i]) : lives[i][m] # life'
      BY <1>0, <2>2, <3>1
    <3> QED
      BY <3>2 DEF EndsIn
  <2> QED
    BY <2>1, <2>2
<1>3. CapKept'
  <2> SUFFICES ASSUME Limit > 0, NEW i \in Ids
               PROVE  IF ha THEN Len(admitted[i]) + Cardinality(Inserting(i)')
                                     <= Limit + Cardinality(Mine(i))
                            ELSE Apart(lives[i])
    BY <1>0 DEF CapKept, Mine
  <2>1. CASE ~ha
    BY <2>1 DEF CapKept
  <2>2. CASE ha
    <3>1. Inserting(i)' = {}
      BY <1>0 DEF Inserting
    <3>2. Cardinality(Inserting(i)') = 0
      BY <3>1, FS_EmptySet
    <3>3. Len(admitted[i]) \in Nat
      BY DEF WindowTypeOK
    <3> QED
      BY <2>2, <3>2, <3>3, Counted DEF CapKept
  <2> QED
    BY <2>1, <2>2
<1>4. NoInsertAlone'
  BY <1>0 DEF NoInsertAlone
<1> QED
  BY <1>1, <1>2, <1>3, <1>4

LEMMA OtherTrafficKeeps ==
    ASSUME RateInv, NEW i \in Ids, OtherTraffic(i)
    PROVE  RateInv'
<1>0. UNCHANGED <<ha, pc>> /\ LetThrough(i) /\ ~Full(i) /\ Limit > 0
  BY DEF OtherTraffic
<1>1. /\ WindowTypeOK' /\ WindowsCount' /\ LivesPassed'
      /\ Len(admitted'[i]) = Len(admitted[i]) + 1
      /\ \A j \in Ids \ {i} : admitted'[j] = admitted[j] /\ lives'[j] = lives[j]
  BY <1>0, LetThroughWindows
<1>2. (ha => Len(admitted[i]) < Limit) /\ Len(admitted[i]) \in Nat
  BY <1>0, RoomLeft DEF RateInv, WindowTypeOK
<1>3. CapKept'
  <2> SUFFICES ASSUME NEW j \in Ids
               PROVE  IF ha THEN Len(admitted'[j]) + Cardinality(Inserting(j)')
                                     <= Limit + Cardinality(Mine(j))
                            ELSE Apart(lives'[j])
    BY <1>0 DEF CapKept, Mine
  <2>1. Inserting(j)' = Inserting(j)
    BY <1>0 DEF Inserting
  <2>2. /\ Cardinality(Inserting(j)) \in Nat /\ Cardinality(Mine(j)) \in Nat
        /\ Cardinality(Inserting(j)) <= Cardinality(Mine(j))
    BY Counted
  <2>3. CASE j = i /\ ha
    BY <1>1, <1>2, <2>1, <2>2, <2>3
  <2>4. CASE j = i /\ ~ha
    BY <1>0, <2>4, ApartStays DEF CapKept, RateInv
  <2>5. CASE j # i
    <3>1. IF ha THEN Len(admitted[j]) + Cardinality(Inserting(j)) <= Limit + Cardinality(Mine(j))
                ELSE Apart(lives[j])
      BY <1>0 DEF CapKept, RateInv
    <3>2. admitted'[j] = admitted[j] /\ lives'[j] = lives[j]
      BY <1>1, <2>5
    <3> QED
      BY <2>1, <3>1, <3>2
  <2> QED
    BY <2>3, <2>4, <2>5
<1>4. NoInsertAlone'
  BY <1>0 DEF RateInv, NoInsertAlone
<1> QED
  BY <1>1, <1>3, <1>4 DEF RateInv

LEMMA InsertHitKeeps ==
    ASSUME FlowInv, RateInv, NEW c \in Requests, InsertHit(c)
    PROVE  RateInv'
<1> DEFINE i == IdOf[c]
<1>0. i \in Ids
  OBVIOUS
<1>1. /\ WindowTypeOK' /\ WindowsCount' /\ LivesPassed'
      /\ Len(admitted'[i]) = Len(admitted[i]) + 1
      /\ \A j \in Ids \ {i} : admitted'[j] = admitted[j]
  BY <1>0, LetThroughWindows DEF InsertHit
<1>2. ha /\ UNCHANGED ha
  BY DEF InsertHit, RateInv, NoInsertAlone, FlowInv, FlowTypeOK
<1>3. pc[c] = "insert" /\ pc'[c] # "insert" /\ \A d \in Requests \ {c} : pc'[d] = pc[d]
  BY DEF InsertHit, Admitted, FlowInv, FlowTypeOK
<1>4. CapKept'
  <2> SUFFICES ASSUME Limit > 0, NEW j \in Ids
               PROVE  Len(admitted'[j]) + Cardinality(Inserting(j)')
                          <= Limit + Cardinality(Mine(j))
    BY <1>2 DEF CapKept, Mine
  <2>0. Len(admitted[j]) \in Nat
    BY DEF RateInv, WindowTypeOK
  <2>1. CASE j # i
    <3>1. Inserting(j)' = Inserting(j)
      BY <1>3, <2>1 DEF Inserting
    <3>2. admitted'[j] = admitted[j]
      BY <1>1, <2>1
    <3> QED
      BY <1>2, <3>1, <3>2 DEF CapKept, RateInv
  <2>2. CASE j = i
    <3>1. Inserting(j)' = Inserting(j) \ {c} /\ c \in Inserting(j)
      BY <1>3, <2>2 DEF Inserting
    <3>2. Cardinality(Inserting(j)') = Cardinality(Inserting(j)) - 1
      <4>1. IsFiniteSet(Inserting(j))
        BY Counted
      <4>2. Cardinality(Inserting(j) \ {c}) = Cardinality(Inserting(j)) - 1
        BY <3>1, <4>1, FS_RemoveElement
      <4> QED
        BY <3>1, <4>2
    <3>3. Len(admitted[j]) + Cardinality(Inserting(j)) <= Limit + Cardinality(Mine(j))
      BY <1>2 DEF CapKept, RateInv
    <3>4. Len(admitted'[j]) = Len(admitted[j]) + 1
      BY <1>1, <2>2
    <3>5. Cardinality(Inserting(j)) \in Nat /\ Cardinality(Mine(j)) \in Nat
      BY Counted
    <3> QED
      BY <2>0, <3>2, <3>3, <3>4, <3>5
  <2> QED
    BY <2>1, <2>2
<1>5. NoInsertAlone'
  BY <1>2 DEF NoInsertAlone
<1> QED
  BY <1>1, <1>4, <1>5 DEF RateInv

LEMMA AllowKeeps ==
    ASSUME FlowInv, RateInv, NEW c \in Requests, Limit > 0, Allow(c)
    PROVE  RateInv'
<1> DEFINE i == IdOf[c]
<1>0. i \in Ids /\ UNCHANGED ha
  BY DEF Allow
<1>1. CASE ~Full(i) /\ ~ha /\ LetThrough(i) /\ Goto(c, Admitted(c))
  <2>1. /\ WindowTypeOK' /\ WindowsCount' /\ LivesPassed'
        /\ \A j \in Ids \ {i} : lives'[j] = lives[j]
    BY <1>0, <1>1, LetThroughWindows
  <2>2. Apart(lives'[i])
    BY <1>0, <1>1, ApartStays DEF CapKept, RateInv
  <2>3. CapKept'
    BY <1>0, <1>1, <2>1, <2>2 DEF CapKept, RateInv
  <2>4. NoInsertAlone'
    BY <1>0, <1>1 DEF NoInsertAlone, RateInv, Admitted, FlowInv, FlowTypeOK
  <2> QED
    BY <2>1, <2>3, <2>4 DEF RateInv
<1>2. CASE ~Full(i) /\ ha /\ Goto(c, "insert") /\ UNCHANGED rateVars
  <2>1. Len(admitted[i]) < Limit
    BY <1>0, <1>2, RoomLeft
  <2>2. CapKept'
    <3> SUFFICES ASSUME NEW j \in Ids
                 PROVE  Len(admitted[j]) + Cardinality(Inserting(j)')
                            <= Limit + Cardinality(Mine(j))
      BY <1>0, <1>2 DEF CapKept, Mine, rateVars
    <3>0. Len(admitted[j]) \in Nat
      BY DEF RateInv, WindowTypeOK
    <3>1. CASE j = i
      BY <2>1, <3>0, <3>1, CountedNext, Counted
    <3>2. CASE j # i
      <4>1. Inserting(j)' = Inserting(j)
        BY <1>2, <3>2 DEF Inserting, FlowInv, FlowTypeOK
      <4> QED
        BY <1>2, <3>0, <4>1 DEF CapKept, RateInv
    <3> QED
      BY <3>1, <3>2
  <2> QED
    BY <1>0, <1>2, <2>2
    DEF RateInv, WindowTypeOK, WindowsCount, LivesPassed, NoInsertAlone, rateVars
<1>3. CASE RecordRefused(i) /\ Goto(c, Refused(c))
  <2>1. /\ Pruned(i) \in [Ids -> Seq(Ages)]
        /\ \A j \in Ids : EndsIn(admitted[j], lives[j], life, Pruned(i)[j])
    BY <1>0, PrunedProps
  <2>2. WindowTypeOK' /\ WindowsCount' /\ LivesPassed'
    BY <1>0, <1>3, <2>1 DEF RecordRefused, RateInv, WindowTypeOK, WindowsCount, LivesPassed
  <2>3. pc[c] = "admit" /\ pc'[c] # "insert" /\ \A d \in Requests \ {c} : pc'[d] = pc[d]
    BY <1>3 DEF Allow, Refused, FlowInv, FlowTypeOK
  <2>4. \A j \in Ids : Inserting(j)' = Inserting(j)
    BY <2>3 DEF Inserting
  <2>5. CapKept'
    BY <1>0, <1>3, <2>4 DEF RecordRefused, CapKept, Mine, RateInv
  <2>6. NoInsertAlone'
    BY <1>0, <2>3 DEF NoInsertAlone, RateInv
  <2> QED
    BY <2>2, <2>5, <2>6 DEF RateInv
<1> QED
  BY <1>1, <1>2, <1>3 DEF Allow

LEMMA RateStep == ASSUME FlowInv, RateInv, [Next]_vars PROVE RateInv'
  BY QuietSteps, QuietKeeps, TickKeeps, RestartKeeps, AllowKeeps, InsertHitKeeps,
     OtherTrafficKeeps

-----------------------------------------------------------------------------
(* The requests' invariant and the limiter's hold together. *)
THEOREM Invariance == Spec => [](FlowInv /\ RateInv)
<1>1. Init => RateInv
  <2> SUFFICES ASSUME Init PROVE RateInv
    OBVIOUS
  <2>1. WindowTypeOK /\ WindowsCount /\ LivesPassed /\ NoInsertAlone
    BY DEF Init, WindowTypeOK, WindowsCount, LivesPassed, NoInsertAlone, Falling, AllLive,
       EndsIn, Rising
  <2>2. ASSUME NEW i \in Ids
        PROVE  Len(admitted[i]) = 0 /\ Cardinality(Inserting(i)) = 0 /\ Apart(lives[i])
    <3>1. Inserting(i) = {}
      BY DEF Init, Inserting
    <3> QED
      BY <3>1, FS_EmptySet DEF Init, Apart
  <2>3. CapKept
    BY <2>2, Counted DEF CapKept
  <2> QED
    BY <2>1, <2>3 DEF RateInv
<1>2. FlowInv /\ RateInv /\ [Next]_vars => (FlowInv /\ RateInv)'
  BY FlowStep, RateStep
<1> QED
  BY InitFlow, <1>1, <1>2, PTL DEF Spec

(* Every variable keeps its type, the limiter's windows included. *)
THEOREM TypeCorrect == Spec => []TypeOK
<1>1. FlowInv /\ RateInv => TypeOK
  BY DEF FlowInv, FlowTypeOK, RateInv, WindowTypeOK, Ages, TypeOK
<1> QED
  BY Invariance, <1>1, PTL

(* However requests interleave, windows are pruned and evicted and         *)
(* processes restart: the shared limiter lets no more through in a window  *)
(* than the limit and one for each request of the identity, and the one in *)
(* memory no more than the limit in one life of the process.               *)
THEOREM RateCapHolds == Spec => []RateCap
<1>1. FlowInv /\ RateInv => RateCap
  <2> SUFFICES ASSUME FlowInv, RateInv, Limit > 0, NEW i \in Ids
               PROVE  IF ha THEN Len(admitted[i]) <= Limit + Cardinality(Mine(i))
                      ELSE \A m, n \in DOMAIN admitted[i] :
                              n >= m + Limit => lives[i][m] < lives[i][n]
    BY DEF RateCap, Mine
  <2>1. /\ Len(admitted[i]) \in Nat /\ DOMAIN admitted[i] = 1..Len(admitted[i])
        /\ Len(lives[i]) = Len(admitted[i])
    BY DEF RateInv, WindowTypeOK
  <2>2. CASE ha
    BY <2>1, <2>2, Counted DEF RateInv, CapKept
  <2>3. CASE ~ha
    BY <2>1, <2>3 DEF RateInv, CapKept, Apart
  <2> QED
    BY <2>2, <2>3
<1> QED
  BY Invariance, <1>1, PTL

=============================================================================
