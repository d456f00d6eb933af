CONSTANTS
  Opps <- MCOpps
  Batches <- MCBatches
  RunMarked = TRUE
  Importers = {p1, p2}
  NoImporter = NoImporter
  CanFail = TRUE
  CanCrash = FALSE
SPECIFICATION FairSpec
INVARIANTS LockIsReleased
PROPERTIES ImportReturns
