----------------------------- MODULE MCPipeline -----------------------------
(* Instances of Pipeline: a handful of items, one of them a repost by another *)
(* account in another source family.                                         *)
EXTENDS Pipeline

MCAuthorOf == [i \in Items |-> i]
MCFamilyOf == [i \in Items |-> IF i = 1 THEN "github" ELSE "forum"]

\* 3 is a repost of 1.  The texts of 2 and 3 are similar in a window of these two
\* only, where what they have in common counts more.
OneRepost ==
  [w \in SUBSET Items |-> {{1, 3}} \cup (IF w = {2, 3} THEN {{2, 3}} ELSE {})]

AllTime == [r \in Runs |-> 0]
SecondIsRecent == [r \in Runs |-> IF r = "first" THEN 0 ELSE 2]

Label(k, rel) == [key |-> k, relevant |-> rel, problem |-> rel, workaround |-> rel]
RelevantOnly == {Label(k, TRUE) : k \in Keys}
AnyRelevance == RelevantOnly \cup {Label(CHOOSE k \in Keys : TRUE, FALSE)}

Opinion(f, rec) == [fatal |-> f, recommended |-> rec]
Approve == {Opinion(FALSE, "experiment_ready")}
ApproveOrObject == Approve \cup {Opinion(TRUE, "investigate")}
=============================================================================
