--------------------------- MODULE MCTwoImporters ---------------------------
(* Two `review import` processes on one run directory and one store.        *)
EXTENDS ReviewImport

MCOpps == {"o1", "o2"}

MCBatches ==
  {[id |-> "human", kind |-> "human", opps |-> {"o1"}],
   [id |-> "fixture", kind |-> "test_fixture", opps |-> {"o2"}]}
=============================================================================
