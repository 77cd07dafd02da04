\* The admin page alone, CI runs alone, and both on one ledger file.
SPECIFICATION Spec
CONSTANTS
  h1 = h1
  h2 = h2
  j1 = j1
  c1 = c1
  c2 = c2
  Inputs <- PublishInputs
  Trees <- CommittedTrees
  ValidAppIDs <- PatternAppIDs
  HttpsRepositories <- Https
  Requests = {h1, h2}
  Jobs = {j1}
  Deployments <- AllDeployments
  None = None
  Torn = Torn
  MaxRuns = 3
  MaxCrashes = 2
  WritesMayFail = TRUE
  AcksMayBeLost = TRUE
SYMMETRY Symmetry
INVARIANTS
  TypeOK
  RecordedWasPosted
  UndeclaredNotesAreReported
  SuccessMeansPublished
  AttestedReleaseVerifies
PROPERTIES
  LedgerOnlyGrows
  RecordedIsNotRepeated
CHECK_DEADLOCK FALSE
