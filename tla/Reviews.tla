------------------------------ MODULE Reviews ------------------------------
(***************************************************************************)
(* Batches of reviews and the conditions under which a run accepts one     *)
(* (import_reviews, src/demand_radar/review.py).  A batch is one file of   *)
(* envelopes: its kind, and the cards it gives a verdict on.  The verdicts *)
(* themselves are abstracted to the batch they come from.                  *)
(***************************************************************************)

CONSTANTS
  Opps,        \* the opportunity cards of the run under review
  Batches,     \* the review files an operator may import
  RunMarked    \* task.yaml of the run says test_fixture: true

Kinds == {"human", "test_fixture"}

\* A batch has at least one envelope: an empty file is refused.
ASSUME BatchesAssumption ==
  \A b \in Batches : /\ b.kind \in Kinds
                     /\ b.opps \subseteq Opps
                     /\ b.opps # {}

ASSUME RunMarkedAssumption == RunMarked \in BOOLEAN

NoVerdict == [id |-> "none", kind |-> "none", opps |-> {}]

\* The provenance lines of a batch: one per envelope.
RecordsOf(b) == {[opp |-> o, batch |-> b] : o \in b.opps}

Record == [opp : Opps, batch : Batches]

KindsOf(ls) == {r.batch.kind : r \in ls}

\* A fixture only enters a run that was marked for it.  The second gate, the
\* operator's --allow-test-fixture, is the choice to import it at all.
FixtureAllowed(b) == b.kind = "test_fixture" => RunMarked

\* Human and fixture reviews never share a run.
SameKind(b, ls) == KindsOf(ls) \subseteq {b.kind}

NotYetReviewed(b, v) == \A o \in b.opps : v[o] = NoVerdict
=============================================================================
