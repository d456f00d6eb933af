--------------------------- MODULE MCReviewImport ---------------------------
(* Instances of ReviewImport for TLC: two cards, and batches that overlap,  *)
(* that are disjoint, and that are of the two kinds.                        *)
EXTENDS SoleImporter

MCOpps == {"o1", "o2"}

MCBatches ==
  {[id |-> "both", kind |-> "human", opps |-> {"o1", "o2"}],
   [id |-> "first", kind |-> "human", opps |-> {"o1"}],
   [id |-> "second", kind |-> "human", opps |-> {"o2"}],
   [id |-> "fixture1", kind |-> "test_fixture", opps |-> {"o1"}],
   [id |-> "fixture2", kind |-> "test_fixture", opps |-> {"o2"}]}

\* Crashes leave files behind, so a batch less of each kind is enough to keep
\* the state space small.
MCFewBatches == {b \in MCBatches : b.id \in {"both", "first", "fixture2"}}
=============================================================================
