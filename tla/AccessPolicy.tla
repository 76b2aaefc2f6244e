---------------------------- MODULE AccessPolicy ----------------------------
(***************************************************************************)
(* Who is calling and what they may do: resolve_identity (identity.py),    *)
(* AccessPolicy.capabilities and require (access.py), over a configuration *)
(* that passed its validators (auth/config.py).  Nothing here suspends, so *)
(* it is all operators; Due defines the same answer without the sort, the  *)
(* lengths and the loop.  auth.enabled is set: without it there is no      *)
(* policy, and require lets every request through.                         *)
(*                                                                         *)
(* A board is the sequence of its path's segments.  A pattern is "*", the  *)
(* tree below a path, or one path.                                         *)
(***************************************************************************)
EXTENDS Integers, FiniteSets, SequencesExt

CONSTANTS
    Boards,          \* sequences of segments
    Size,            \* the characters of each segment
    Roles,           \* role name -> capabilities
    ServiceTokens,   \* a sequence of [token, name, groups]
    NoToken          \* a ${ENV_VAR} that is not set expands to this

ASSUME RolesGiveCapabilities ==
    \A r \in DOMAIN Roles : Roles[r] \subseteq {"view", "refresh", "manage"}

Segments == DOMAIN Size
ASSUME SegmentsHaveSizes == Size \in [Segments -> Nat]
ASSUME BoardsAreSegments == Boards \subseteq Seq(Segments)
ASSUME TokensAreListed == ServiceTokens \in Seq(ToSet(ServiceTokens))

Nobody == [sub |-> "", email |-> "", groups |-> {}, via |-> "none"]

-----------------------------------------------------------------------------
(* resolve_identity.  A bearer token decides alone, also over a session;   *)
(* "Bearer" without one, which is NoToken, is no bearer header.            *)

TokenIdentity(e) == [sub |-> e.name, email |-> "", groups |-> e.groups, via |-> "token"]

resolve_identity(header, user) ==
    LET S == {i \in DOMAIN ServiceTokens :
                 ServiceTokens[i].token # NoToken /\ ServiceTokens[i].token = header}
    IN  IF header \in {"absent", NoToken} THEN user
        ELSE IF S # {} THEN TokenIdentity(ServiceTokens[Min(S)]) ELSE Nobody

-----------------------------------------------------------------------------
(* A grant is [slash, pattern, role, groups, users]; slash says that its   *)
(* path was written with a leading "/", which lstrip takes away.           *)

Patterns == [kind : {"all"}, path : {<<>>}]
                \cup [kind : {"tree", "exact"}, path : Seq(Segments) \ {<<>>}]

MutUnstripped(g) == [slash |-> g.slash] @@ g.pattern
Path(g) == g.pattern

(* The characters of a path and its "/", and those of a pattern with "*". *)
Chars(path) ==
    LET upto[n \in 0..Len(path)] == IF n = 0 THEN 0 ELSE upto[n - 1] + Size[path[n]] + 1
    IN  upto[Len(path)]

Length(p) == IF p.kind = "tree" THEN Chars(p.path) + 1 ELSE Chars(p.path) - 1

Specificity(p) == CASE p.kind = "all"   -> <<0, 0>>
                    [] p.kind = "tree"  -> <<1, Length(p)>>
                    [] p.kind = "exact" -> <<2, Length(p)>>

Precedes(g, h) ==
    LET x == Specificity(Path(g))
        y == Specificity(Path(h))
    IN  x[1] > y[1] \/ (x[1] = y[1] /\ x[2] > y[2])

(* AccessPolicy.__init__ sorts the grants once, stably: each goes where its *)
(* rank is.  This is the policy the operators below take.                  *)
Before(grants, i, j) ==
    \/ Precedes(grants[i], grants[j])
    \/ ~Precedes(grants[j], grants[i]) /\ i < j

Rank(grants, i) == Cardinality({j \in DOMAIN grants : Before(grants, j, i)}) + 1

Sorted(grants) ==
    [n \in DOMAIN grants |-> grants[CHOOSE i \in DOMAIN grants : Rank(grants, i) = n]]

Matches(p, board) == CASE p.kind = "all"   -> TRUE
                       [] p.kind = "tree"  -> IsStrictPrefix(p.path, board)
                       [] p.kind = "exact" -> p.path = board

GrantMatchesIdentity(g, id) == g.groups \cap id.groups # {} \/ {id.sub, id.email} \cap g.users # {}

(* One turn of the loop over the sorted grants, and its break. *)
Visit(acc, g, id, board) ==
    IF acc.broken \/ ~Matches(Path(g), board) THEN acc
    ELSE IF acc.best # {} /\ Path(g) \notin acc.best THEN [acc EXCEPT !.broken = TRUE]
    ELSE [acc EXCEPT !.best = {Path(g)},
                     !.caps = @ \cup (IF GrantMatchesIdentity(g, id) THEN Roles[g.role] ELSE {})]

capabilities(policy, id, board) ==
    LET turn[n \in 0..Len(policy)] ==
            IF n = 0 THEN [best |-> {}, caps |-> {}, broken |-> FALSE]
            ELSE Visit(turn[n - 1], policy[n], id, board)
    IN  turn[Len(policy)].caps

(* require: what the route answers to. *)
require(policy, id, capability, board) ==
    IF id.via = "none" THEN 401
    ELSE IF capability \notin capabilities(policy, id, board) THEN 403 ELSE 200

-----------------------------------------------------------------------------
(* The promise: of the grants that reach a board, those that no grant for  *)
(* fewer boards overrules give their roles.                                *)

Reach(g) == {b \in Boards : Matches(g.pattern, b)}
Narrower(g, h) == Reach(g) \subseteq Reach(h) /\ Reach(g) # Reach(h)
Ruling(grants, board) ==
    {g \in ToSet(grants) : /\ board \in Reach(g)
                           /\ \A h \in ToSet(grants) : board \in Reach(h) => ~Narrower(h, g)}
Due(grants, id, board) ==
    UNION {Roles[g.role] : g \in {h \in Ruling(grants, board) : GrantMatchesIdentity(h, id)}}

(* What a configuration file can say, and that there are boards enough for *)
(* two patterns of it to reach different ones.                             *)
WellFormed(grants) ==
    grants \in Seq(ToSet(grants)) /\ \A g \in ToSet(grants) : g.pattern \in Patterns
Apart(grants) ==
    \A g, h \in ToSet(grants) : Reach(g) = Reach(h) => g.pattern = h.pattern

=============================================================================
