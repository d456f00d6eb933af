CONSTANTS
  Opps <- MCOpps
  Batches <- MCFewBatches
  RunMarked = TRUE
  Importers = {p1}
  NoImporter = NoImporter
  CanFail = TRUE
  CanCrash = TRUE
SPECIFICATION Spec
INVARIANTS TypeOK CommittedIsAudited WholeBatches NeverMixed
