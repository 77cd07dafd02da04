\* Two goroutines save: the older copy may be written last.
SPECIFICATION Spec
CONSTANTS
  Publishers = {1, 2}
  Apps = {"app"}
  MaxRevisions = 1
  DeclEvents <- OneRelease
  AttEvents <- FirstAttested
  EndorsementEvents <- NoEndorsements
  Configs <- Require
  None = None
  Torn = Torn
  MaxRestarts = 0
  WritesMayFail = FALSE
INVARIANTS
  QuiescentCacheIsCurrent
CHECK_DEADLOCK FALSE
