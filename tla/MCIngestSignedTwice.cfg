CONSTANTS
  Ids = {"post1", "post2", "post3", "post4"}
  Texts = {"t", "u"}
  Names = {"ann", "bob"}
  NoName = "no name"
  Inputs <- SignedTwice
  Processes = {"p", "q"}
  Statements <- MCStatements
  MaxInits = 2
  MaxCommands = 2
  MaxCrashes = 0
SPECIFICATION Spec
INVARIANT SamePersonSameAuthor
CHECK_DEADLOCK FALSE
