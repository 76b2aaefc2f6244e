------------------------------- MODULE Routes -------------------------------
(***************************************************************************)
(* What the reading routes answer a caller who refers to a board: those    *)
(* that take the key of a render or the id of a job (api.py render_status, *)
(* render_artifact, job_status), those that take the reference itself      *)
(* (board_detail, raw_board, and board_page in ui.py), and the listings.   *)
(* They change nothing, so each is an operator over what exists when it    *)
(* looks:                                                                  *)
(*   board   the source file the reference leads to                        *)
(*   row, blob   a render asked for with this reference, and its artifact  *)
(*   job     a job asked for with it, which failed, the newest of all      *)
(* dct answers and a render succeeds; when not is RequestFlow's.           *)
(*                                                                         *)
(* A reference is the sequence of what stands between its "/".             *)
(***************************************************************************)
EXTENDS AccessPolicy

CONSTANTS
    References,   \* what callers write for a board
    Stem,         \* a segment without the .yml or .yaml it ends with
    OtherJobs,    \* the jobs of the table asked for with other references: [board, age]
    PageSizes     \* values of the limit that a caller of /api/jobs gives

ASSUME ReferencesAreSegments == References \subseteq Seq(Segments) /\ Stem \in [Segments -> Segments]
ASSUME JobsHaveAges ==
    \A j \in OtherJobs : j.age \in Nat \ {0} /\ \A k \in OtherJobs : j.age = k.age => j = k

Worlds == [board : BOOLEAN, row : BOOLEAN, blob : BOOLEAN, job : BOOLEAN]

allows(policy, id, capability, board) == capability \in capabilities(policy, id, board)

(* The validators of Grant and AccessConfig. *)
Loads(grants) == \A g \in ToSet(grants) : g.groups \cup g.users # {} /\ g.role \in DOMAIN Roles

-----------------------------------------------------------------------------
(* normalize_board takes off the leading "/", one "charts/" and one suffix, *)
(* and then the empty parts and the dots.  It is not idempotent: what it    *)
(* returns may start with "charts/" or end with a suffix again.             *)

Unslashed(ref) ==
    LET S == {n \in DOMAIN ref : ref[n] # ""}
    IN  IF S = {} THEN <<>> ELSE SubSeq(ref, Min(S), Len(ref))
Uncharted(ref) == IF Len(ref) > 1 /\ ref[1] = "charts" THEN Tail(ref) ELSE ref
Stemmed(ref) == IF ref = <<>> THEN ref ELSE Append(Front(ref), Stem[Last(ref)])

normalize_board(ref) ==
    SelectSeq(Stemmed(Uncharted(Unslashed(ref))), LAMBDA part : part \notin {"", "."})
InvalidBoardRef(board) == board = <<>> \/ ".." \in ToSet(board)

(* The routes authorize the normal form of a reference, and have a key or  *)
(* a job for it.  lookup and execute_render resolve that once more: this   *)
(* board is rendered and is what the renders row names.                    *)
Name(ref) == normalize_board(ref)
Resolved(ref) == normalize_board(Name(ref))

-----------------------------------------------------------------------------
(* By key or id: the record is read first, its board is what is authorized. *)

MutForbiddenKey(policy, id, b, found) ==
    IF id.via = "none" THEN 401
    ELSE IF ~found THEN 404
    ELSE IF ~allows(policy, id, "view", b) THEN 403 ELSE 200
ByKey(policy, id, b, found) ==
    IF id.via = "none" THEN 401
    ELSE IF ~found \/ ~allows(policy, id, "view", b) THEN 404 ELSE 200

render_status(policy, id, r, w) == [code |-> ByKey(policy, id, Resolved(r), w.row)]
render_artifact(policy, id, r, w) == [code |-> ByKey(policy, id, Resolved(r), w.row /\ w.blob)]

(* _job_json: the error is dct's stderr, None to whoever may not render. *)
may_see_error(policy, id, b) == allows(policy, id, "refresh", b)
JobJson(policy, id, b) == [error |-> IF may_see_error(policy, id, b) THEN "stderr" ELSE "None"]

job_status(policy, id, r, w) ==
    LET code == ByKey(policy, id, Name(r), w.job)
    IN  IF code # 200 THEN [code |-> code]
        ELSE [code |-> code, error |-> JobJson(policy, id, Name(r)).error]

-----------------------------------------------------------------------------
(* By reference r: its name is authorized before the board b that the      *)
(* route resolves is looked for: the name itself in board_detail, which    *)
(* finds no file if that is another board than the one in question.        *)

ByPath(policy, id, r, b, found) ==
    LET code == require(policy, id, "view", Name(r))
    IN  IF InvalidBoardRef(Name(r)) THEN 400
        ELSE IF code # 200 THEN code
        ELSE IF InvalidBoardRef(b) THEN 400
        ELSE IF ~found THEN 404 ELSE 200

board_detail(policy, id, r, w) ==
    [code |-> ByPath(policy, id, r, Name(r), w.board /\ Name(r) = Resolved(r))]

(* The shell shows the refresh button and the latest renders of the name.  *)
board_page(policy, id, r, w) ==
    LET code == ByPath(policy, id, r, Resolved(r), w.board)
    IN  IF code # 200 THEN [code |-> code]
        ELSE [code |-> code, can_refresh |-> allows(policy, id, "refresh", Name(r)),
              renders |-> w.row /\ Name(r) = Resolved(r)]

(* Without a render to serve it starts one, which takes another grant. *)
raw_board(policy, id, r, w) ==
    LET code == ByPath(policy, id, r, Resolved(r), w.board)
    IN  [code |-> IF code # 200 THEN code
                  ELSE IF ~w.row THEN require(policy, id, "refresh", Name(r))
                  ELSE IF ~w.blob THEN 404 ELSE 200]

-----------------------------------------------------------------------------
(* The listings: boards, the cards of the home page (of a search, those    *)
(* that it finds among them), and jobs.                                    *)

boards(policy, id, r, w) == w.board /\ allows(policy, id, "view", Resolved(r))
home(policy, id, r, w) ==
    IF boards(policy, id, r, w) THEN {[last_rendered |-> w.row]} ELSE {}

(* list_jobs reads the newest rows of the table, as many as the limit      *)
(* says; the route drops from these what the caller may not view.          *)
JobsTable(r, w) == OtherJobs \cup (IF w.job THEN {[board |-> Name(r), age |-> 0]} ELSE {})
list_jobs(T, limit) == {j \in T : Cardinality({k \in T : k.age < j.age}) < limit}
jobs(policy, id, r, w, limit) ==
    {[job |-> j, error |-> JobJson(policy, id, j.board).error] :
        j \in {k \in list_jobs(JobsTable(r, w), limit) : allows(policy, id, "view", k.board)}}

Listings(policy, id, r, w, limit) ==
    IF id.via = "none" THEN [code |-> 401]
    ELSE [code |-> 200, boards |-> boards(policy, id, r, w), home |-> home(policy, id, r, w),
          jobs |-> jobs(policy, id, r, w, limit)]

(* All that a caller can learn with one reference and one limit. *)
LearnsByPath(policy, id, r, w) ==
    <<board_detail(policy, id, r, w), board_page(policy, id, r, w), raw_board(policy, id, r, w)>>
Learns(policy, id, r, w, limit) ==
    <<render_status(policy, id, r, w), render_artifact(policy, id, r, w),
      job_status(policy, id, r, w), LearnsByPath(policy, id, r, w),
      Listings(policy, id, r, w, limit)>>

=============================================================================
