------------------------------ MODULE MCLogin ------------------------------
(* A small instance of login and access control: two tabs, three accounts, *)
(* grants that nest, overlap and share a pattern: every list of up to      *)
(* two of them, and all together.                                          *)
EXTENDS Login

a == "a"
b == "bb2"

MCStem == (a :> a) @@ (b :> b) @@ ("charts" :> "charts") @@ ("bb2.yml" :> b)
              @@ ("bb2.yml.yaml" :> "bb2.yml") @@ (".yml" :> "")
              @@ ("" :> "") @@ ("." :> ".") @@ (".." :> "..")
MCSize == [x \in DOMAIN MCStem |->
              CASE x = "" -> 0 [] x \in {a, "."} -> 1 [] x = ".." -> 2
                [] x = b -> 3 [] x = ".yml" -> 4 [] x = "charts" -> 6
                [] x = "bb2.yml" -> 7 [] x = "bb2.yml.yaml" -> 12]
MCBoards == {<<a>>, <<b>>, <<a, a>>, <<a, b>>, <<a, b, a>>, <<b, a>>}

(* The board itself and what normalises to it, to "charts/..." or to a     *)
(* name with a suffix; and references that are refused.                    *)
MCReferences ==
    MCBoards \cup {<<"charts">> \o x : x \in MCBoards}
        \cup {<<"charts", "charts">> \o x : x \in MCBoards}
        \cup {<<"", "", a, "", ".", b>>, <<a, "bb2.yml">>, <<"charts", a, "bb2.yml.yaml">>,
              <<".", "charts", a, b>>, <<"charts", "">>, <<".yml">>, <<a, "..", b>>}

MCOtherJobs == {[board |-> <<a, b>>, age |-> 1], [board |-> <<b>>, age |-> 2]}

MCRoles == ("viewer" :> {"view"}) @@ ("operator" :> {"view", "refresh"})
               @@ ("admin" :> {"view", "refresh", "manage"})

MCServiceTokens == <<[token |-> "", name |-> "unset", groups |-> {"fin"}],
                     [token |-> "ci", name |-> "ci", groups |-> {"ops"}]>>

MCAccounts ==
    {[sub |-> "ann", email |-> "", claim |-> [form |-> "list", value |-> {"staff", "fin"}]],
     [sub |-> "ceo", email |-> "ceo@corp", claim |-> [form |-> "missing"]],
     [sub |-> "bob", email |-> "", claim |-> [form |-> "string", value |-> "staff"]]}

G(slash, kind, path, role, groups, users) ==
    [slash |-> slash, pattern |-> [kind |-> kind, path |-> path], role |-> role,
     groups |-> groups, users |-> users]

Everything == G(FALSE, "all", <<>>, "viewer", {"staff", "ops"}, {})
TreeA      == G(FALSE, "tree", <<a>>, "operator", {"fin"}, {})
SlashTreeA == G(TRUE, "tree", <<a>>, "viewer", {"staff", "ops"}, {})
TreeAB     == G(FALSE, "tree", <<a, b>>, "viewer", {"ops"}, {"ceo@corp"})
ExactAB    == G(FALSE, "exact", <<a, b>>, "admin", {}, {"ceo"})
ExactB     == G(FALSE, "exact", <<b>>, "operator", {"staff"}, {})
AllGrants  == <<Everything, TreeA, ExactB, SlashTreeA, ExactAB, TreeAB>>

LoginSymmetry == Permutations(Tabs) \cup Permutations(Txns)

MCConfigs == BoundedSeq(ToSet(AllGrants), 2) \cup {AllGrants, Reverse(AllGrants)}

=============================================================================
