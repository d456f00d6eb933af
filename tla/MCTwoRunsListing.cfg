CONSTANTS
  Items = {1, 2, 3}
  Similar <- OneRepost
  AuthorOf <- MCAuthorOf
  FamilyOf <- MCFamilyOf
  MinAuthors = 2
  MinFamilies = 2
  MinProblem = 1
  MinWorkaround = 1
  Runs = {"first", "second"}
  NoRun = NoRun
  Since <- AllTime
  Critics = {"agent"}
  Keys = {"a"}
  Labels <- RelevantOnly
  Texts = {"t"}
  MaxGroups = 2
  Verdicts <- Approve
  Failures = {}
  Stored = {1, 2, 3}
  MaxCrashes = 0
SPECIFICATION Spec
INVARIANTS OwnResultsListed
CHECK_DEADLOCK FALSE
