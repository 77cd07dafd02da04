\* No write fails and every answer arrives; one process may be killed, or restart.
SPECIFICATION Spec
CONSTANTS
  h1 = h1
  h2 = h2
  j1 = j1
  c1 = c1
  c2 = c2
  Inputs <- NoteInputs
  Trees <- CommittedTrees
  ValidAppIDs <- PatternAppIDs
  HttpsRepositories <- Https
  Requests = {h1, h2}
  Jobs = {j1}
  Deployments <- AllDeployments
  None = None
  Torn = Torn
  MaxRuns = 2
  MaxCrashes = 1
  WritesMayFail = FALSE
  AcksMayBeLost = FALSE
INVARIANTS
  NeverDoublePosts
CHECK_DEADLOCK FALSE
