---------------------------- MODULE LoginProofs ----------------------------
(***************************************************************************)
(* Theorems about Login for any number of tabs, accounts, transactions and *)
(* key rotations: its type invariant, that a rotation never refuses a      *)
(* genuine token (GenuineAccepted), and that a login nobody interfered     *)
(* with is never answered "bad OAuth state" (UndisturbedLogin).  And, from *)
(* what is proved of the access policy, that every caller is answered as   *)
(* due (AccessIsDue) and no reading route is an existence oracle.          *)
(***************************************************************************)
EXTENDS Login, AccessPolicyProofs

(* The redirect's session names the transaction the tab is sent with, and  *)
(* the browser keeps it until somebody else writes the cookie.             *)
RedirectNamesTxn == \A t \in Tabs : pc[t] \in Redirecting => sess[t].txn = txn[t]
CookieKept == \A t \in Tabs : pc[t] = "idp" /\ t \notin disturbed => cookie.txn = txn[t]

(* Keys are published once, when they are first signed with, and fetched   *)
(* after the token was signed.                                             *)
KeysAreOld == \A k \in published : k <= signing
TokensAreOld == \A t \in Tabs : pc[t] \in HasToken => tok[t].key <= signing
FetchedLater == \A t \in Tabs :
    pc[t] = "keys" => got[t] \in SUBSET Keys /\ (tok[t].key \in published => tok[t].key \in got[t])

TypeInv == LoginTypes /\ TabsHaveTxns /\ RequestsHaveSessions /\ CallbacksHaveTokens
CookieInv == RedirectNamesTxn /\ CookieKept /\ UndisturbedLogin
KeyInv == KeysAreOld /\ TokensAreOld /\ FetchedLater /\ GenuineAccepted
IInv == TypeInv /\ CookieInv /\ KeyInv

(***************************************************************************)
(* Init.                                                                   *)
(***************************************************************************)
LEMMA InitIInv == Init => IInv
<1> SUFFICES ASSUME Init PROVE IInv
  OBVIOUS
<1> USE DEF Init
<1>1. LoginTypes
  <2>1. signing \in Keys /\ published \in SUBSET Keys /\ signing \in published
    BY LoginBounds DEF Keys
  <2>2. cookie \in SessionsOf(account)
    BY DEF SessionsOf, Empty
  <2> QED
    BY <2>1, <2>2 DEF LoginTypes
<1>2. TabsHaveTxns /\ RequestsHaveSessions /\ CallbacksHaveTokens
  BY DEF TabsHaveTxns, RequestsHaveSessions, CallbacksHaveTokens, Redirecting, SignsIn, HasToken
<1>3. RedirectNamesTxn /\ CookieKept /\ UndisturbedLogin
  BY DEF RedirectNamesTxn, CookieKept, UndisturbedLogin, Redirecting
<1>4. KeysAreOld /\ TokensAreOld /\ FetchedLater /\ GenuineAccepted
  BY DEF KeysAreOld, TokensAreOld, FetchedLater, GenuineAccepted, HasToken
<1> QED
  BY <1>1, <1>2, <1>3, <1>4 DEF IInv, TypeInv, CookieInv, KeyInv

(***************************************************************************)
(* Types: what each step needs is there.                                   *)
(***************************************************************************)
LEMMA TypeStep ==
    ASSUME IInv, [Next]_vars
    PROVE  TypeInv'
<1> USE NoneIsNoTxn DEF IInv, TypeInv, LoginTypes, TabsHaveTxns, RequestsHaveSessions, CallbacksHaveTokens, SessionsOf,
           Redirecting, SignsIn, HasToken, Waiting, Answers
<1>1. ASSUME NEW t \in Tabs, NEW x \in Txns, Start(t, x)
     PROVE  TypeInv'
  BY <1>1 DEF Start, Stored, Goto, idpVars, clientVars
<1>2. ASSUME NEW t \in Tabs, Discover(t)
     PROVE  TypeInv'
  BY <1>2 DEF Discover, Goto, idpVars
<1>3. ASSUME NEW t \in Tabs, NEW how \in {"unavailable", "crashed"}, ProviderFails(t, how)
     PROVE  TypeInv'
  BY <1>3 DEF ProviderFails, Goto, idpVars, clientVars
<1>4. ASSUME NEW t \in Tabs, Callback(t)
     PROVE  TypeInv'
  BY <1>4 DEF Callback, Goto, idpVars, clientVars
<1>5. ASSUME NEW t \in Tabs, NEW valid \in BOOLEAN, Exchange(t, valid)
     PROVE  TypeInv'
  BY <1>5 DEF Exchange, Goto, idpVars, clientVars
<1>6. ASSUME NEW t \in Tabs, Validate(t)
     PROVE  TypeInv'
  BY <1>6 DEF Validate, Decode, CheckClaims, AttemptFails, Goto, idpVars
<1>7. ASSUME NEW t \in Tabs, ServeKeys(t)
     PROVE  TypeInv'
  BY <1>7 DEF ServeKeys, Goto, idpVars, clientVars
<1>8. ASSUME NEW t \in Tabs, ReceiveKeys(t)
     PROVE  TypeInv'
  BY <1>8 DEF ReceiveKeys, Decode, CheckClaims, AttemptFails, Goto, idpVars
<1>9. ASSUME NEW t \in Tabs, FetchLost(t)
     PROVE  TypeInv'
  BY <1>9 DEF FetchLost, AttemptFails, Goto, idpVars
<1>10. ASSUME NEW t \in Tabs, Respond(t)
     PROVE  TypeInv'
  BY <1>10 DEF Respond, WriteCookie, Goto, idpVars, clientVars
<1>11. ASSUME Logout
     PROVE  TypeInv'
  BY <1>11 DEF Logout, WriteCookie, Empty, tabVars, idpVars, clientVars
<1>12. ASSUME Rotate
     PROVE  TypeInv'
  BY <1>12, LoginBounds DEF Rotate, Keys, tabVars, clientVars
<1>13. ASSUME Restart
     PROVE  TypeInv'
  BY <1>13 DEF Restart, idpVars
<1>14. ASSUME NEW k \in Keys, Withdraw(k)
     PROVE  TypeInv'
  BY <1>14 DEF Withdraw, tabVars, clientVars
<1>15. ASSUME UNCHANGED vars
     PROVE  TypeInv'
  BY <1>15 DEF vars
<1> HIDE DEF IInv, TypeInv, LoginTypes, TabsHaveTxns, RequestsHaveSessions, CallbacksHaveTokens, SessionsOf,
           Redirecting, SignsIn, HasToken, Waiting, Answers
<1> QED
  BY <1>1, <1>2, <1>3, <1>4, <1>5, <1>6, <1>7, <1>8, <1>9, <1>10, <1>11, <1>12, <1>13, <1>14, <1>15 DEF Next, TabStep

(***************************************************************************)
(* Cookies: who writes one disturbs every other tab at the provider.       *)
(***************************************************************************)
LEMMA CookieStep ==
    ASSUME IInv, [Next]_vars
    PROVE  CookieInv'
<1> USE NoneIsNoTxn, NoneIsNoSession DEF IInv, TypeInv, CookieInv, RedirectNamesTxn, CookieKept, UndisturbedLogin, LoginTypes,
           TabsHaveTxns, RequestsHaveSessions, SessionsOf, Redirecting, SignsIn, Waiting, Answers
<1>1. ASSUME NEW t \in Tabs, NEW x \in Txns, Start(t, x)
     PROVE  CookieInv'
  BY <1>1 DEF Start, Stored, Goto, idpVars, clientVars
<1>2. ASSUME NEW t \in Tabs, Discover(t)
     PROVE  CookieInv'
  BY <1>2 DEF Discover, Goto, idpVars
<1>3. ASSUME NEW t \in Tabs, NEW how \in {"unavailable", "crashed"}, ProviderFails(t, how)
     PROVE  CookieInv'
  BY <1>3 DEF ProviderFails, Goto, idpVars, clientVars
<1>4. ASSUME NEW t \in Tabs, Callback(t)
     PROVE  CookieInv'
  BY <1>4 DEF Callback, Goto, idpVars, clientVars
<1>5. ASSUME NEW t \in Tabs, NEW valid \in BOOLEAN, Exchange(t, valid)
     PROVE  CookieInv'
  BY <1>5 DEF Exchange, Goto, idpVars, clientVars
<1>6. ASSUME NEW t \in Tabs, Validate(t)
     PROVE  CookieInv'
  BY <1>6 DEF Validate, Decode, CheckClaims, AttemptFails, Goto, idpVars
<1>7. ASSUME NEW t \in Tabs, ServeKeys(t)
     PROVE  CookieInv'
  BY <1>7 DEF ServeKeys, Goto, idpVars, clientVars
<1>8. ASSUME NEW t \in Tabs, ReceiveKeys(t)
     PROVE  CookieInv'
  BY <1>8 DEF ReceiveKeys, Decode, CheckClaims, AttemptFails, Goto, idpVars
<1>9. ASSUME NEW t \in Tabs, FetchLost(t)
     PROVE  CookieInv'
  BY <1>9 DEF FetchLost, AttemptFails, Goto, idpVars
<1>10. ASSUME NEW t \in Tabs, Respond(t)
     PROVE  CookieInv'
  BY <1>10 DEF Respond, WriteCookie, Goto, idpVars, clientVars
<1>11. ASSUME Logout
     PROVE  CookieInv'
  BY <1>11 DEF Logout, WriteCookie, Empty, tabVars, idpVars, clientVars
<1>12. ASSUME Rotate
     PROVE  CookieInv'
  BY <1>12 DEF Rotate, tabVars, clientVars
<1>13. ASSUME Restart
     PROVE  CookieInv'
  BY <1>13 DEF Restart, idpVars
<1>14. ASSUME NEW k \in Keys, Withdraw(k)
     PROVE  CookieInv'
  BY <1>14 DEF Withdraw, tabVars, clientVars
<1>15. ASSUME UNCHANGED vars
     PROVE  CookieInv'
  BY <1>15 DEF vars
<1> HIDE DEF IInv, TypeInv, CookieInv, RedirectNamesTxn, CookieKept, UndisturbedLogin, LoginTypes,
           TabsHaveTxns, RequestsHaveSessions, SessionsOf, Redirecting, SignsIn, Waiting, Answers
<1> QED
  BY <1>1, <1>2, <1>3, <1>4, <1>5, <1>6, <1>7, <1>8, <1>9, <1>10, <1>11, <1>12, <1>13, <1>14, <1>15 DEF Next, TabStep

(***************************************************************************)
(* Keys: what is fetched is at least as new as the token.                  *)
(***************************************************************************)
LEMMA KeyStep ==
    ASSUME IInv, [Next]_vars
    PROVE  KeyInv'
<1> USE LoginBounds DEF IInv, TypeInv, KeyInv, KeysAreOld, TokensAreOld, FetchedLater, GenuineAccepted, LoginTypes,
           CallbacksHaveTokens, HasToken, Keys, Waiting, Answers
<1>1. ASSUME NEW t \in Tabs, NEW x \in Txns, Start(t, x)
     PROVE  KeyInv'
  BY <1>1 DEF Start, Stored, Goto, idpVars, clientVars
<1>2. ASSUME NEW t \in Tabs, Discover(t)
     PROVE  KeyInv'
  BY <1>2 DEF Discover, Goto, idpVars
<1>3. ASSUME NEW t \in Tabs, NEW how \in {"unavailable", "crashed"}, ProviderFails(t, how)
     PROVE  KeyInv'
  BY <1>3 DEF ProviderFails, Goto, idpVars, clientVars
<1>4. ASSUME NEW t \in Tabs, Callback(t)
     PROVE  KeyInv'
  BY <1>4 DEF Callback, Goto, idpVars, clientVars
<1>5. ASSUME NEW t \in Tabs, NEW valid \in BOOLEAN, Exchange(t, valid)
     PROVE  KeyInv'
  BY <1>5 DEF Exchange, Goto, idpVars, clientVars
<1>6. ASSUME NEW t \in Tabs, Validate(t)
     PROVE  KeyInv'
  BY <1>6 DEF Validate, Decode, CheckClaims, AttemptFails, Goto, idpVars
<1>7. ASSUME NEW t \in Tabs, ServeKeys(t)
     PROVE  KeyInv'
  BY <1>7 DEF ServeKeys, Goto, idpVars, clientVars
<1>8. ASSUME NEW t \in Tabs, ReceiveKeys(t)
     PROVE  KeyInv'
  BY <1>8 DEF ReceiveKeys, Decode, CheckClaims, AttemptFails, Goto, idpVars
<1>9. ASSUME NEW t \in Tabs, FetchLost(t)
     PROVE  KeyInv'
  BY <1>9 DEF FetchLost, AttemptFails, Goto, idpVars
<1>10. ASSUME NEW t \in Tabs, Respond(t)
     PROVE  KeyInv'
  BY <1>10 DEF Respond, WriteCookie, Goto, idpVars, clientVars
<1>11. ASSUME Logout
     PROVE  KeyInv'
  BY <1>11 DEF Logout, WriteCookie, Empty, tabVars, idpVars, clientVars
<1>12. ASSUME Rotate
     PROVE  KeyInv'
  BY <1>12 DEF Rotate, tabVars, clientVars
<1>13. ASSUME Restart
     PROVE  KeyInv'
  BY <1>13 DEF Restart, idpVars
<1>14. ASSUME NEW k \in Keys, Withdraw(k)
     PROVE  KeyInv'
  BY <1>14 DEF Withdraw, tabVars, clientVars
<1>15. ASSUME UNCHANGED vars
     PROVE  KeyInv'
  BY <1>15 DEF vars
<1> HIDE DEF IInv, TypeInv, KeyInv, KeysAreOld, TokensAreOld, FetchedLater, GenuineAccepted, LoginTypes,
           CallbacksHaveTokens, HasToken, Keys, Waiting, Answers
<1> QED
  BY <1>1, <1>2, <1>3, <1>4, <1>5, <1>6, <1>7, <1>8, <1>9, <1>10, <1>11, <1>12, <1>13, <1>14, <1>15 DEF Next, TabStep

LEMMA Invariance == Spec => []IInv
<1>1. IInv /\ [Next]_vars => IInv'
  BY TypeStep, CookieStep, KeyStep DEF IInv
<1> QED
  BY InitIInv, <1>1, PTL DEF Spec

(* The login's state is well-typed (oidc.py login, callback): at each of   *)
(* its steps a request has the transaction, the session, the token and the *)
(* keys that its handler dereferences there, and a session's user is the   *)
(* person at the browser or nobody.                                        *)
THEOREM TypeCorrect == Spec => []LoginTypeOK
<1>1. IInv => LoginTypeOK
  BY DEF IInv, TypeInv, KeyInv, FetchedLater, KeysHaveArrived, LoginTypeOK
<1> QED
  BY Invariance, <1>1, PTL

(* validate_id_token survives key rotation: whatever other callbacks do to *)
(* the shared JWKS cache, a token with good claims is refused only if the  *)
(* provider has withdrawn its key or left a request for the keys           *)
(* unanswered.                                                             *)
THEOREM GenuineAcceptedHolds == Spec => []GenuineAccepted
<1>1. IInv => GenuineAccepted
  BY DEF IInv, KeyInv
<1> QED
  BY Invariance, <1>1, PTL

(* callback answers "bad OAuth state" only if another response wrote the   *)
(* session cookie, or it went, between the tab's redirect and its return.  *)
THEOREM UndisturbedLoginHolds == Spec => []UndisturbedLogin
<1>1. IInv => UndisturbedLogin
  BY DEF IInv, CookieInv
<1> QED
  BY Invariance, <1>1, PTL


-----------------------------------------------------------------------------
(* What the routes disclose *)

(* Whoever is not let view a board gets the same answers of all the routes *)
(* by key and by path, and in the listings, whatever exists of the board,  *)
(* if the reference is settled and the limit leaves no job out.            *)
LEMMA ToldNothing ==
    ASSUME NEW policy, NEW id, NEW r, Settled(r),
           id.via = "none" \/ ~allows(policy, id, "view", Name(r)),
           NEW limit, Covers(limit, r), NEW v \in Worlds, NEW w \in Worlds
    PROVE  Learns(policy, id, r, v, limit) = Learns(policy, id, r, w, limit)
<1> DEFINE b == Name(r)
           closed == IF id.via = "none" THEN 401 ELSE 404
           barred == IF InvalidBoardRef(b) THEN 400
                     ELSE IF id.via = "none" THEN 401 ELSE 403
<1>0. Resolved(r) = b
  BY DEF Settled
<1>1. \A found : ByKey(policy, id, b, found) = closed
  BY DEF ByKey
<1>2. \A found : ByPath(policy, id, r, b, found) = barred
  BY DEF ByPath, require, allows
<1>3. closed # 200 /\ barred # 200
  OBVIOUS
<1> HIDE DEF closed, barred, b
<1>4. render_status(policy, id, r, v) = render_status(policy, id, r, w)
  BY <1>0, <1>1 DEF render_status
<1>5. render_artifact(policy, id, r, v) = render_artifact(policy, id, r, w)
  BY <1>0, <1>1 DEF render_artifact
<1>6. job_status(policy, id, r, v) = job_status(policy, id, r, w)
  BY <1>1, <1>3 DEF job_status, b
<1>7. board_detail(policy, id, r, v) = board_detail(policy, id, r, w)
  BY <1>2 DEF board_detail, b
<1>8. board_page(policy, id, r, v) = board_page(policy, id, r, w)
  BY <1>0, <1>2, <1>3 DEF board_page
<1>9. raw_board(policy, id, r, v) = raw_board(policy, id, r, w)
  BY <1>0, <1>2, <1>3 DEF raw_board
<1>10. Listings(policy, id, r, v, limit) = Listings(policy, id, r, w, limit)
  <2>1. CASE id.via = "none"
    BY <2>1 DEF Listings
  <2>2. CASE id.via # "none"
    <3>1. ~allows(policy, id, "view", b)
      BY <2>2 DEF b
    <3>2. ASSUME NEW x \in Worlds
          PROVE  {k \in list_jobs(JobsTable(r, x), limit) : allows(policy, id, "view", k.board)}
                   = {k \in OtherJobs : allows(policy, id, "view", k.board)}
      <4>1. list_jobs(JobsTable(r, x), limit) = JobsTable(r, x)
        BY <3>2 DEF Covers
      <4>2. \A k \in JobsTable(r, x) : k \in OtherJobs \/ k.board = b
        BY DEF JobsTable, b
      <4>3. OtherJobs \subseteq JobsTable(r, x)
        BY DEF JobsTable
      <4> QED
        BY <3>1, <4>1, <4>2, <4>3
    <3>3. jobs(policy, id, r, v, limit) = jobs(policy, id, r, w, limit)
      BY <3>2, Zenon DEF jobs
    <3>4. ~boards(policy, id, r, v) /\ ~boards(policy, id, r, w)
      BY <1>0, <3>1 DEF boards
    <3>5. boards(policy, id, r, v) = FALSE /\ boards(policy, id, r, w) = FALSE
      BY <3>4 DEF boards
    <3>6. home(policy, id, r, v) = {} /\ home(policy, id, r, w) = {}
      BY <3>4 DEF home
    <3> QED
      BY <2>2, <3>3, <3>5, <3>6, Zenon DEF Listings
  <2> QED
    BY <2>1, <2>2
<1> QED
  BY <1>4, <1>5, <1>6, <1>7, <1>8, <1>9, <1>10, Zenon DEF Learns, LearnsByPath

(* Whoever is not let view a board is oblivious of it. *)
LEMMA BarredIsOblivious ==
    ASSUME NEW policy, NEW id, NEW r, Settled(r),
           id.via = "none" \/ ~allows(policy, id, "view", Name(r))
    PROVE  Oblivious(policy, id, r)
<1> SUFFICES ASSUME NEW limit \in PageSizes, Covers(limit, r)
             PROVE  Cardinality({Learns(policy, id, r, w, limit) : w \in Worlds}) = 1
  BY DEF Oblivious
<1> DEFINE none == [board |-> FALSE, row |-> FALSE, blob |-> FALSE, job |-> FALSE]
<1>1. none \in Worlds
  BY DEF Worlds
<1> HIDE DEF none
<1>2. \A w \in Worlds : Learns(policy, id, r, w, limit) = Learns(policy, id, r, none, limit)
  BY <1>1, ToldNothing
<1>3. {Learns(policy, id, r, w, limit) : w \in Worlds} = {Learns(policy, id, r, none, limit)}
  BY <1>1, <1>2, Zenon
<1> QED
  BY <1>3, FS_Singleton, Zenon

(* Whoever may view gets every render that can be served, and of a job's   *)
(* error what is due.                                                      *)
LEMMA ViewerIsAnswered ==
    ASSUME NEW policy, NEW id, NEW r, Settled(r), id.via # "none",
           "view" \in capabilities(policy, id, Name(r))
    PROVE  Answered(policy, id, r, capabilities(policy, id, Name(r)))
<1> DEFINE b == Name(r)
<1>0. Resolved(r) = b
  BY DEF Settled
<1>1. \A found : found => ByKey(policy, id, b, found) = 200
  BY DEF ByKey, allows
<1>2. ASSUME NEW w \in Worlds, w.row, w.blob
      PROVE  render_artifact(policy, id, r, w).code = 200
  <2>1. w.row /\ w.blob
    BY <1>2
  <2>2. ByKey(policy, id, b, w.row /\ w.blob) = 200
    BY <2>1, <1>1
  <2> HIDE DEF b
  <2> QED
    BY <1>0, <2>2 DEF render_artifact
<1>3. ASSUME NEW w \in Worlds, w.job
      PROVE  job_status(policy, id, r, w)
                = [code |-> 200, error |-> IF "refresh" \in capabilities(policy, id, b)
                                          THEN "stderr" ELSE "None"]
  BY <1>1, <1>3 DEF job_status, JobJson, may_see_error, allows
<1> QED
  BY <1>2, <1>3 DEF Answered

(* resolve_identity answers Nobody or an identity that came from somewhere. *)
LEMMA NobodyIsVia ==
    ASSUME NEW a, NEW header, NEW user \in {IdentityOf(a), Nobody}
    PROVE  LET id == resolve_identity(header, user) IN id # Nobody <=> id.via # "none"
<1>1. Nobody.via = "none" /\ IdentityOf(a).via = "oidc" /\ \A e : TokenIdentity(e).via = "token"
  BY DEF Nobody, IdentityOf, TokenIdentity
<1>2. \/ resolve_identity(header, user) \in {IdentityOf(a), Nobody}
      \/ \E e : resolve_identity(header, user) = TokenIdentity(e)
  BY DEF resolve_identity
<1> QED
  BY <1>1, <1>2

(* A bearer is the first entry of the list that has the token; whoever is  *)
(* not authenticated is no caller.                                         *)
LEMMA CallersResolved ==
    ASSUME NEW a, NEW header, NEW user \in {IdentityOf(a), Nobody}
    PROVE  LET id == resolve_identity(header, user)
           IN  Callers(header, user) = IF id = Nobody THEN {} ELSE {id}
<1> DEFINE D == DOMAIN ServiceTokens
           has(i) == ServiceTokens[i].token = header
           S == {i \in D : ServiceTokens[i].token # NoToken /\ ServiceTokens[i].token = header}
           J == {j \in D : has(j) /\ \A k \in 1..(j - 1) : ServiceTokens[k].token # header}
<1>1. D = 1..Len(ServiceTokens) /\ Len(ServiceTokens) \in Nat
  BY TokensAreListed
<1>2. header # NoToken => \A i \in D : i \in S <=> has(i)
  OBVIOUS
<1>3. CASE header \in {"absent", NoToken}
  BY <1>3 DEF Callers, resolve_identity
<1>4. CASE header \notin {"absent", NoToken}
  <2>1. Callers(header, user) = {TokenIdentity(ServiceTokens[i]) : i \in J}
    BY <1>4, Zenon DEF Callers
  <2>2. resolve_identity(header, user)
          = IF S # {} THEN TokenIdentity(ServiceTokens[Min(S)]) ELSE Nobody
    BY <1>4 DEF resolve_identity
  <2>3. CASE S = {}
    <3>1. J = {}
      BY <1>2, <1>4, <2>3
    <3> QED
      BY <2>1, <2>2, <2>3, <3>1
  <2>4. CASE S # {}
    <3>1. S \subseteq Nat
      BY <1>1
    <3>2. \E x \in S : \A y \in S : ~(y < x)
      BY <2>4, <3>1, LeastNumber
    <3>3. \E x \in S : \A y \in S : x <= y
      BY <3>1, <3>2
    <3>4. Min(S) \in S /\ \A y \in S : Min(S) <= y
      BY <3>3 DEF Min
    <3>5. Min(S) \in J
      <4>1. Min(S) \in D /\ has(Min(S)) /\ Min(S) \in Nat
        BY <3>1, <3>4
      <4>2. ASSUME NEW k \in 1..(Min(S) - 1) PROVE ServiceTokens[k].token # header
        <5>1. k \in D /\ k < Min(S)
          BY <1>1, <4>1
        <5>2. k \notin S
          BY <3>1, <3>4, <5>1
        <5> QED
          BY <3>4, <5>1, <5>2
      <4> QED
        BY <4>1, <4>2
    <3>6. ASSUME NEW j \in J PROVE j = Min(S)
      <4>1. j \in S /\ Min(S) <= j /\ j \in Nat /\ Min(S) \in Nat
        BY <1>1, <1>2, <3>1, <3>4
      <4>2. ~(Min(S) < j)
        BY <1>1, <1>2, <3>4, <4>1
      <4> QED
        BY <4>1, <4>2
    <3>7. J = {Min(S)}
      BY <3>5, <3>6
    <3>8. TokenIdentity(ServiceTokens[Min(S)]) # Nobody
      BY DEF TokenIdentity, Nobody
    <3> HIDE DEF S, J
    <3> QED
      BY <2>1, <2>2, <2>4, <3>7, <3>8
  <2> QED
    BY <2>3, <2>4
<1> QED
  BY <1>3, <1>4

(* Every policy of a configuration applies its grants as due. *)
LEMMA PoliciesAreDue ==
    ASSUME NEW p \in Policies, NEW id, NEW b \in Boards
    PROVE  capabilities(p.grants, id, b) = Due(p.config, id, b)
<1>1. PICK grants \in Configs : p = [config |-> grants, grants |-> Sorted(grants)]
  BY Zenon DEF Policies
<1>2. p.config = grants /\ p.grants = Sorted(grants)
  BY <1>1
<1>3. WellFormed(grants) /\ Apart(grants)
  BY BoardsTellApart
<1>4. capabilities(Sorted(grants), id, b) = Due(grants, id, b)
  BY <1>3, CapabilitiesAreDue
<1> QED
  BY <1>2, <1>4

(* Somebody signed in, or nobody. *)
LEMMA CookieUser ==
    ASSUME LoginTypeOK
    PROVE  /\ account \in Accounts /\ cookie.user \in {IdentityOf(account), Nobody}
           /\ cookie.user \in Users
<1>1. account \in Accounts /\ cookie.user \in {IdentityOf(account), Nobody}
  BY DEF LoginTypeOK, LoginTypes, SessionsOf
<1> QED
  BY <1>1 DEF Users

(* access.py: for every configuration, set of boards, list of tokens and   *)
(* person, in every state of the logins: who may do what is what the       *)
(* grants for the fewest boards say, whatever the order they are listed    *)
(* in, and a caller the code does not know is told 401.                    *)
THEOREM AccessIsDueHolds == Spec => []AccessIsDue
<1>1. ASSUME LoginTypeOK PROVE AccessIsDue
  <2> DEFINE user == cookie.user
  <2>1. user \in {IdentityOf(account), Nobody}
    BY <1>1, CookieUser
  <2>2. ASSUME NEW p \in Policies, NEW header \in Headers,
               NEW c \in {"view", "refresh", "manage"}, NEW b \in Boards
        PROVE  require(p.grants, resolve_identity(header, user), c, b)
                  = Promised(p.config, header, user, c, b)
    <3> DEFINE id == resolve_identity(header, user)
    <3>1. Callers(header, user) = IF id = Nobody THEN {} ELSE {id}
      BY <2>1, CallersResolved
    <3>2. id # Nobody <=> id.via # "none"
      BY <2>1, NobodyIsVia
    <3> HIDE DEF id, user
    <3>3. capabilities(p.grants, id, b) = Due(p.config, id, b)
      BY PoliciesAreDue
    <3>4. require(p.grants, id, c, b) = Promised(p.config, header, user, c, b)
      BY <3>1, <3>2, <3>3 DEF require, Promised
    <3> QED
      BY <3>4 DEF id
  <2>3. user \in Users
    BY <1>1, CookieUser
  <2> HIDE DEF user
  <2>4. AnsweredAsDue[user]
    BY <2>2, <2>3 DEF AnsweredAsDue
  <2> QED
    BY <2>4 DEF AccessIsDue, user
<1> QED
  BY TypeCorrect, <1>1, PTL

(* api.py "no existence oracle": with a settled reference and a limit that *)
(* leaves no job out, whoever is not due to view a board learns nothing of *)
(* it from any reading route, in whatever order the route looks up and     *)
(* authorizes; whoever is due, is not told less than there is.             *)
THEOREM NoExistenceOracleHolds == Spec => []NoExistenceOracle
<1>1. ASSUME LoginTypeOK PROVE NoExistenceOracle
  <2> DEFINE user == cookie.user
  <2>1. user \in {IdentityOf(account), Nobody}
    BY <1>1, CookieUser
  <2>2. ASSUME NEW p \in Policies, NEW header \in Headers, NEW b \in Boards,
               NEW r \in {x \in LeadingTo(b) : Settled(x)}
        PROVE  LET id == resolve_identity(header, user)
               IN  IF MayView(p, id, b) THEN Answered(p.grants, id, r, Due(p.config, id, b))
                   ELSE Oblivious(p.grants, id, r)
    <3> DEFINE id == resolve_identity(header, user)
               due == Due(p.config, id, b)
    <3>1. id # Nobody <=> id.via # "none"
      BY <2>1, NobodyIsVia
    <3> HIDE DEF id, user
    <3>2. Settled(r) /\ Name(r) = b
      BY DEF LeadingTo, Settled
    <3>3. capabilities(p.grants, id, Name(r)) = due
      BY <3>2, PoliciesAreDue
    <3>4. MayView(p, id, b) <=> id.via # "none" /\ "view" \in due
      BY <3>1 DEF MayView
    <3> HIDE DEF due
    <3>5. MayView(p, id, b) => Answered(p.grants, id, r, due)
      BY <3>2, <3>3, <3>4, ViewerIsAnswered
    <3>6. ~MayView(p, id, b) => Oblivious(p.grants, id, r)
      BY <3>2, <3>3, <3>4, BarredIsOblivious DEF allows
    <3> QED
      BY <3>5, <3>6 DEF id, due
  <2>3. user \in Users
    BY <1>1, CookieUser
  <2> HIDE DEF user
  <2>4. Disclosed[user]
    BY <2>2, <2>3, Zenon DEF Disclosed
  <2> QED
    BY <2>4 DEF NoExistenceOracle, user
<1> QED
  BY TypeCorrect, <1>1, PTL

=============================================================================
