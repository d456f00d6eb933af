CONSTANTS
  MinAuthors = 2
  MinFamilies = 2
  MinProblem = 1
  MinWorkaround = 1
  q = q
  Opps = {"o", "p"}
  Texts = {"t"}
  Verdicts <- Approve
  OtherCritic = "human"
  Others = {q}
  Finds <- FindsO
  MaxEnvelopes = 3
  MaxCrashes = 0
SPECIFICATION Spec
INVARIANTS PassIsReviewed ChannelIsTrue BeforeAndAfter OutstandingReviewsStayValid ReadyNeedsAPerson
