CONSTANTS
  Ids = {"post1", "post2", "post3", "post4"}
  Texts = {"t", "u"}
  Names = {"ann", "bob"}
  NoName = "no name"
  Inputs <- MCInputs
  Processes = {"p", "q"}
  Statements <- MCStatements
  MaxInits = 2
  MaxCommands = 3
  MaxCrashes = 2
SPECIFICATION Spec
INVARIANTS TypeOK OpenedIsComplete NothingIsDropped ReportIsTrue
PROPERTY RowsAreFirstLines
CHECK_DEADLOCK FALSE
