CONSTANTS
  MinAuthors = 2
  MinFamilies = 2
  MinProblem = 1
  MinWorkaround = 1
  t = t
  u = u
  q = q
  Opps = {"o"}
  Texts = {t, u}
  Verdicts <- Approve
  OtherCritic = "agent"
  Others = {q}
  Finds <- FindsO
  MaxEnvelopes = 2
  MaxCrashes = 1
SPECIFICATION Spec
INVARIANT TypeOK
PROPERTY FixturesNeverHelp
SYMMETRY Symmetry
