-------------------------- MODULE MCReviewWorkflow --------------------------
(* Instances of ReviewWorkflow: one card and two texts, or two cards. *)
EXTENDS ReviewWorkflow, TLC

Opinion(f, rec) == [fatal |-> f, recommended |-> rec]
Approve == {Opinion(FALSE, "experiment_ready")}
ApproveOrObject == Approve \cup {Opinion(TRUE, "investigate")}

\* Every other run finds the card o.
FindsO == [q \in Others |-> "o"]

\* Nothing tells one text, or one other run, from another.
Symmetry == Permutations(Texts) \cup Permutations(Others)
=============================================================================
