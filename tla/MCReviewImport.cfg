CONSTANTS
  Opps <- MCOpps
  Batches <- MCBatches
  RunMarked = TRUE
  Importers = {p1}
  NoImporter = NoImporter
  CanFail = TRUE
  CanCrash = FALSE
SPECIFICATION Spec
PROPERTY ImportIsAtomic
