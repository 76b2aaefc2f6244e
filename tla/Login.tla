------------------------------- MODULE Login -------------------------------
(***************************************************************************)
(* OIDC login (auth/oidc.py): the login and callback routes, the client's  *)
(* discovery and JWKS caches, shared by all requests of the process, and   *)
(* the session, a cookie each response writes back as a whole.  Every      *)
(* await is a step; what the identity provider answers and when the answer *)
(* arrives are two, so it may rotate its keys in between.  One browser of  *)
(* one person, several tabs.  What a session may do is AccessPolicy's.     *)
(***************************************************************************)
EXTENDS Routes, FiniteSets

CONSTANTS
    Tabs,
    Accounts,   \* at the provider: [sub, email, claim], claim the groups claim
    Configs,    \* the access.grants lists considered
    MaxKeys,    \* bound on the provider's signing keys
    Txns,       \* login transactions: the secrets new_txn may draw
    None

ASSUME LoginBounds == MaxKeys \in Nat \ {0}
ASSUME ConfigsLoad == \A grants \in Configs : Loads(grants)
ASSUME BoardsTellApart == \A grants \in Configs : WellFormed(grants) /\ Apart(grants)
ASSUME NoneIsNoTxn == None \notin Txns \cup Tabs

VARIABLES
    account,              \* the person at the browser
    signing, published,   \* the provider: the key it signs with, its JWKS
    metadata, jwks,       \* OidcClient._metadata (cached or not), ._jwks
    cookie,               \* the browser's session: [txn, user]
    pc, txn,              \* each tab, and the transaction it was redirected with
    sess,                 \* the session of its request; None: nothing to write back
    tok, got, attempt,    \* its ID token, the JWKS in transit, validate_id_token's loop
    lost,                 \* tabs whose JWKS request got no answer at all
    disturbed             \* tabs at the provider while another wrote the cookie

idpVars == <<signing, published>>
clientVars == <<metadata, jwks>>
tabVars == <<pc, txn, sess, tok, got, attempt, lost>>
vars == <<account, signing, published, metadata, jwks, cookie, pc, txn, sess, tok, got,
          attempt, lost, disturbed>>

Keys == 1..MaxKeys
Headers == {"absent", NoToken, "unknown"} \cup {e.token : e \in ToSet(ServiceTokens)}
Empty == [txn |-> None, user |-> Nobody]
Waiting == {"discover", "rediscover", "exchange", "token", "fetch", "keys"}
Answers == {"redirect", "signed_in", "bad_state", "refused", "unavailable", "crashed"}

Init ==
    /\ account \in Accounts
    /\ signing = 1 /\ published = {1}
    /\ metadata = FALSE /\ jwks = None
    /\ cookie = Empty
    /\ pc = [t \in Tabs |-> "none"] /\ txn = [t \in Tabs |-> None]
    /\ sess = [t \in Tabs |-> None] /\ tok = [t \in Tabs |-> None]
    /\ got = [t \in Tabs |-> None] /\ attempt = [t \in Tabs |-> 0]
    /\ lost = {} /\ disturbed = {}

Goto(t, label) == pc' = [pc EXCEPT ![t] = label]

-----------------------------------------------------------------------------
(* GET /auth/login *)

InUse == {cookie.txn} \cup {txn[t] : t \in Tabs}
             \cup {sess[t].txn : t \in {u \in Tabs : sess[u] # None}}

MutKeepOldTxn(x) == IF cookie.txn = None THEN x ELSE cookie.txn
Stored(x) == x

(* A tab at the provider may have been given up.  The secrets of new_txn   *)
(* are long: x is not in use.                                              *)
Start(t, x) ==
    /\ pc[t] \in {"none", "idp"} /\ x \notin InUse
    /\ txn' = [txn EXCEPT ![t] = x]
    /\ sess' = [sess EXCEPT ![t] = [cookie EXCEPT !.txn = Stored(x)]]
    /\ Goto(t, IF metadata THEN "redirect" ELSE "discover")
    /\ UNCHANGED <<account, cookie, tok, got, attempt, lost, disturbed, idpVars, clientVars>>

(* OidcClient.metadata, of the login and of the exchange. *)
Discover(t) ==
    /\ pc[t] \in {"discover", "rediscover"}
    /\ metadata' = TRUE
    /\ Goto(t, IF pc[t] = "discover" THEN "redirect" ELSE "exchange")
    /\ UNCHANGED <<account, cookie, txn, sess, tok, got, attempt, lost, disturbed, jwks, idpVars>>

(* The provider answers with an error, which is a 502, or not at all,      *)
(* which nothing handles outside validate_id_token.                        *)
ProviderFails(t, how) ==
    /\ pc[t] \in {"discover", "rediscover", "exchange"} \/ (pc[t] = "fetch" /\ how = "unavailable")
    /\ Goto(t, how)
    /\ UNCHANGED <<account, cookie, txn, sess, tok, got, attempt, lost, disturbed,
                   idpVars, clientVars>>

-----------------------------------------------------------------------------
(* GET /auth/callback: the browser comes back with the state it was sent.  *)

Callback(t) ==
    /\ pc[t] = "idp"
    /\ sess' = [sess EXCEPT ![t] =
                   IF cookie.txn = None THEN None ELSE [cookie EXCEPT !.txn = None]]
    /\ Goto(t, IF cookie.txn # txn[t] THEN "bad_state"
               ELSE IF metadata THEN "exchange" ELSE "rediscover")
    /\ UNCHANGED <<account, cookie, txn, tok, got, attempt, lost, disturbed, idpVars, clientVars>>

(* The token endpoint signs a token, whose claims may fail the checks of   *)
(* expiry, issuer, audience or nonce.                                      *)
Exchange(t, valid) ==
    /\ pc[t] = "exchange"
    /\ tok' = [tok EXCEPT ![t] = [key |-> signing, valid |-> valid]]
    /\ Goto(t, "token")
    /\ UNCHANGED <<account, cookie, txn, sess, got, attempt, lost, disturbed, idpVars, clientVars>>

-----------------------------------------------------------------------------
(* validate_id_token *)

(* The groups claim is missing, one string, or a list. *)
GroupsOf(claim) == CASE claim.form = "missing" -> {}
                     [] claim.form = "string"  -> {claim.value}
                     [] claim.form = "list"    -> claim.value

IdentityOf(a) == [sub |-> a.sub, email |-> a.email, groups |-> GroupsOf(a.claim), via |-> "oidc"]

CheckClaims(t) ==
    IF tok[t].valid
    THEN /\ sess' = [sess EXCEPT ![t].user = IdentityOf(account)]
         /\ Goto(t, "signed_in")
    ELSE Goto(t, "refused") /\ UNCHANGED sess

(* An attempt failed: forget the keys; the second time give up. *)
MutGiveUpAtOnce(t, n) == Goto(t, "refused") /\ jwks' = None /\ UNCHANGED attempt
MutRetryForever(t, n) ==
    /\ jwks' = None
    /\ attempt' = [attempt EXCEPT ![t] = n + 1]
    /\ Goto(t, "fetch")
AttemptFails(t, n) ==
    /\ jwks' = None
    /\ attempt' = [attempt EXCEPT ![t] = 1]
    /\ Goto(t, IF n = 1 THEN "refused" ELSE "fetch")

Decode(t, keys, n) ==
    \/ /\ tok[t].key \in keys /\ CheckClaims(t)
       /\ jwks' = keys /\ UNCHANGED attempt
    \/ /\ tok[t].key \notin keys /\ AttemptFails(t, n)
       /\ UNCHANGED sess

(* The token has arrived: the first attempt uses the cached keys, if any. *)
Validate(t) ==
    /\ pc[t] = "token"
    /\ \/ jwks # None /\ Decode(t, jwks, 0)
       \/ jwks = None /\ Goto(t, "fetch") /\ UNCHANGED <<sess, jwks, attempt>>
    /\ UNCHANGED <<account, cookie, txn, tok, got, lost, disturbed, metadata, idpVars>>

ServeKeys(t) ==
    /\ pc[t] = "fetch"
    /\ got' = [got EXCEPT ![t] = published]
    /\ Goto(t, "keys")
    /\ UNCHANGED <<account, cookie, txn, sess, tok, attempt, lost, disturbed, idpVars, clientVars>>

ReceiveKeys(t) ==
    /\ pc[t] = "keys"
    /\ Decode(t, got[t], attempt[t])
    /\ got' = [got EXCEPT ![t] = None]
    /\ UNCHANGED <<account, cookie, txn, tok, lost, disturbed, metadata, idpVars>>

(* No answer is caught with the decoding errors, and retried like them. *)
FetchLost(t) ==
    /\ pc[t] = "fetch"
    /\ AttemptFails(t, attempt[t])
    /\ lost' = lost \cup {t}
    /\ UNCHANGED <<account, cookie, txn, sess, tok, got, disturbed, metadata, idpVars>>

-----------------------------------------------------------------------------
(* The response: its session replaces the browser's cookie.  One that      *)
(* crashed carries none.                                                   *)

WriteCookie(session, by) ==
    /\ cookie' = session
    /\ disturbed' = (disturbed \cup {u \in Tabs : pc[u] = "idp"}) \ {by}

Respond(t) ==
    /\ pc[t] \in Answers
    /\ IF pc[t] = "crashed" \/ sess[t] = None
       THEN cookie' = cookie /\ disturbed' = disturbed \ {t}
       ELSE WriteCookie(sess[t], t)
    /\ Goto(t, IF pc[t] = "redirect" THEN "idp" ELSE "none")
    /\ txn' = IF pc[t] = "redirect" THEN txn ELSE [txn EXCEPT ![t] = None]
    /\ sess' = [sess EXCEPT ![t] = None] /\ tok' = [tok EXCEPT ![t] = None]
    /\ attempt' = [attempt EXCEPT ![t] = 0] /\ lost' = lost \ {t}
    /\ UNCHANGED <<account, got, idpVars, clientVars>>

(* POST /auth/logout, or session_max_age_s has passed. *)
Logout ==
    /\ cookie # Empty /\ WriteCookie(Empty, None)
    /\ UNCHANGED <<account, tabVars, idpVars, clientVars>>

-----------------------------------------------------------------------------
(* The environment *)

Rotate ==
    /\ signing < MaxKeys
    /\ signing' = signing + 1 /\ published' = published \cup {signing + 1}
    /\ UNCHANGED <<account, cookie, disturbed, tabVars, clientVars>>

Withdraw(k) ==
    /\ k \in published \ {signing} /\ published' = published \ {k}
    /\ UNCHANGED <<account, signing, cookie, disturbed, tabVars, clientVars>>

(* The process starts anew: its caches and the requests in it are gone. *)
Restart ==
    LET Cut == {t \in Tabs : pc[t] \in Waiting} IN
    /\ metadata' = FALSE /\ jwks' = None
    /\ pc' = [t \in Tabs |-> IF t \in Cut THEN "none" ELSE pc[t]]
    /\ txn' = [t \in Tabs |-> IF t \in Cut THEN None ELSE txn[t]]
    /\ sess' = [t \in Tabs |-> IF t \in Cut THEN None ELSE sess[t]]
    /\ tok' = [t \in Tabs |-> IF t \in Cut THEN None ELSE tok[t]]
    /\ got' = [t \in Tabs |-> None]
    /\ attempt' = [t \in Tabs |-> IF t \in Cut THEN 0 ELSE attempt[t]]
    /\ lost' = lost \ Cut /\ disturbed' = disturbed \ Cut
    /\ UNCHANGED <<account, cookie, idpVars>>

TabStep(t) ==
    \/ Discover(t) \/ Callback(t) \/ Validate(t)
    \/ ServeKeys(t) \/ ReceiveKeys(t) \/ FetchLost(t) \/ Respond(t)
    \/ \E x \in Txns : Start(t, x)
    \/ \E how \in {"unavailable", "crashed"} : ProviderFails(t, how)
    \/ \E valid \in BOOLEAN : Exchange(t, valid)

Next ==
    \/ \E t \in Tabs : TabStep(t)
    \/ Logout \/ Rotate \/ Restart
    \/ \E k \in Keys : Withdraw(k)

Spec == Init /\ [][Next]_vars

-----------------------------------------------------------------------------
(* Properties *)

Redirecting == {"discover", "redirect"}
SignsIn == {"rediscover", "exchange", "token", "fetch", "keys"}
HasToken == {"token", "fetch", "keys", "refused"}

SessionsOf(a) == [txn : Txns \cup {None}, user : {IdentityOf(a), Nobody}]
ASSUME NoneIsNoSession == \A a \in Accounts : None \notin SessionsOf(a)

LoginTypes ==
    /\ account \in Accounts
    /\ signing \in Keys /\ published \in SUBSET Keys /\ signing \in published
    /\ metadata \in BOOLEAN /\ jwks \in (SUBSET Keys) \cup {None}
    /\ cookie \in SessionsOf(account) /\ sess \in [Tabs -> SessionsOf(account) \cup {None}]
    /\ pc \in [Tabs -> {"none", "idp"} \cup Waiting \cup Answers]
    /\ txn \in [Tabs -> Txns \cup {None}]
    /\ tok \in [Tabs -> [key : Keys, valid : BOOLEAN] \cup {None}]
    /\ got \in [Tabs -> (SUBSET Keys) \cup {None}] /\ attempt \in [Tabs -> {0, 1}]
    /\ lost \in SUBSET Tabs /\ disturbed \in SUBSET Tabs

(* What the handlers dereference is there: the transaction of a tab on its *)
(* way to the provider, the session and the token of a request, the keys   *)
(* it has been sent.                                                       *)
TabsHaveTxns == \A t \in Tabs : pc[t] \in Redirecting \cup {"idp"} => txn[t] \in Txns
RequestsHaveSessions == \A t \in Tabs :
    pc[t] \in Redirecting \cup SignsIn => sess[t] \in SessionsOf(account)
CallbacksHaveTokens == \A t \in Tabs :
    pc[t] \in HasToken => tok[t] \in [key : Keys, valid : BOOLEAN]
KeysHaveArrived == \A t \in Tabs : pc[t] = "keys" => got[t] \in SUBSET Keys

(* oidc.py login, callback, validate_id_token: the state is well-typed,    *)
(* and at each of its steps a request has what its handler dereferences.   *)
LoginTypeOK ==
    LoginTypes /\ TabsHaveTxns /\ RequestsHaveSessions /\ CallbacksHaveTokens /\ KeysHaveArrived

(* oidc.py: "The JWKS is refetched once on validation failure to survive   *)
(* key rotation": whatever other callbacks do to the shared cache, with    *)
(* answers however old, a token with good claims is only refused once the  *)
(* provider has withdrawn its key, or did not answer.                      *)
GenuineAccepted ==
    \A t \in Tabs :
        pc[t] = "refused" /\ tok[t].valid /\ t \notin lost => tok[t].key \notin published

(* oidc.py: a callback only fails with "bad OAuth state" when some other   *)
(* response, a logout or the cookie's expiry came between its redirect and *)
(* its return; logins given up before do no harm.                          *)
UndisturbedLogin == \A t \in Tabs : pc[t] = "bad_state" => t \in disturbed

(* The policy that a process makes of its configuration when it starts. *)
Policies == {[config |-> grants, grants |-> Sorted(grants)] : grants \in Configs}

(* access.py: "The most specific path pattern wins and less specific       *)
(* patterns do NOT fall through", "Grants sharing the winning pattern are  *)
(* unioned", "No matching grant means deny": under every configuration,    *)
(* whoever is signed in, and every bearer of a token, is answered as the   *)
(* grants for the fewest boards say. A token that is listed twice belongs  *)
(* to its first entry.                                                     *)
Callers(header, user) ==
    IF header \in {"absent", NoToken} THEN {user} \ {Nobody}
    ELSE {TokenIdentity(ServiceTokens[i]) : i \in
             {j \in DOMAIN ServiceTokens :
                 /\ ServiceTokens[j].token = header
                 /\ \A k \in 1..(j - 1) : ServiceTokens[k].token # header}}

Users == {IdentityOf(x) : x \in Accounts} \cup {Nobody}

Promised(grants, header, user, capability, board) ==
    IF Callers(header, user) = {} THEN 401
    ELSE IF \E id \in Callers(header, user) : capability \in Due(grants, id, board) THEN 200 ELSE 403

AnsweredAsDue ==
    [user \in Users |->
        \A p \in Policies, header \in Headers, c \in {"view", "refresh", "manage"}, b \in Boards :
            require(p.grants, resolve_identity(header, user), c, b)
                = Promised(p.config, header, user, c, b)]

AccessIsDue == AnsweredAsDue[cookie.user]

(* api.py: "same 404 for unknown and unauthorized keys: no existence       *)
(* oracle": whoever is not due to view a board learns the same from every  *)
(* reading route, whatever exists of it; whoever is, and may not refresh,  *)
(* never gets a job's stderr; and no one who may view is told 404 of a     *)
(* render that can be served.  This is for the references that normalise   *)
(* to a name that is normal, and job lists with a limit that leaves no job *)
(* of the table out.                                                       *)
Settled(r) == Resolved(r) = Name(r)
LeadingTo(b) == {r \in References : Resolved(r) = b}
Covers(limit, r) == \A w \in Worlds : list_jobs(JobsTable(r, w), limit) = JobsTable(r, w)

Oblivious(policy, id, r) ==
    \A limit \in {l \in PageSizes : Covers(l, r)} :
        Cardinality({Learns(policy, id, r, w, limit) : w \in Worlds}) = 1

Answered(policy, id, r, due) ==
    \A w \in Worlds :
        /\ w.row /\ w.blob => render_artifact(policy, id, r, w).code = 200
        /\ w.job => job_status(policy, id, r, w)
                       = [code |-> 200, error |-> IF "refresh" \in due THEN "stderr" ELSE "None"]

MayView(p, id, b) == id # Nobody /\ "view" \in Due(p.config, id, b)

Disclosed ==
    [user \in Users |->
        \A p \in Policies, header \in Headers, b \in Boards :
            LET id == resolve_identity(header, user) IN
            \A r \in {x \in LeadingTo(b) : Settled(x)} :
                IF MayView(p, id, b) THEN Answered(p.grants, id, r, Due(p.config, id, b))
                ELSE Oblivious(p.grants, id, r)]

NoExistenceOracle == Disclosed[cookie.user]

=============================================================================
