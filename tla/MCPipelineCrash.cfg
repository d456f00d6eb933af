CONSTANTS
  Items = {1, 2, 3}
  Similar <- OneRepost
  AuthorOf <- MCAuthorOf
  FamilyOf <- MCFamilyOf
  MinAuthors = 2
  MinFamilies = 2
  MinProblem = 1
  MinWorkaround = 1
  Runs = {"first"}
  NoRun = NoRun
  Since <- AllTime
  Critics = {"agent", "human"}
  Keys = {"a", "b"}
  Labels <- AnyRelevance
  Texts = {"t", "u"}
  MaxGroups = 2
  Verdicts <- ApproveOrObject
  Failures = {"invalid", "systemic"}
  Stored = {1, 2, 3}
  MaxCrashes = 2
SPECIFICATION FairSpec
INVARIANTS TypeOK PassIsComplete ReadyIsReviewed HumanReviewIsAwaited GapsAreReported ClustersPartitionEvidence
PROPERTY InvocationEnds
CHECK_DEADLOCK FALSE
