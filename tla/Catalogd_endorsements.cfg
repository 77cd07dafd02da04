\* A contested app, decided by an endorsement, and a restart.
SPECIFICATION Spec
CONSTANTS
  Publishers = {1, 2}
  Apps = {"app"}
  MaxRevisions = 1
  DeclEvents <- Contested
  AttEvents <- NoAttestations
  EndorsementEvents <- ForPublisher1
  Configs <- AnyCuration
  None = None
  Torn = Torn
  MaxRestarts = 1
  WritesMayFail = FALSE
PROPERTIES
  RestartKeepsListedApps
CHECK_DEADLOCK FALSE
