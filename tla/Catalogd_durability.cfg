\* Concurrent saves, failing writes, a crash anywhere, a new configuration, a
\* page or port that cannot be opened, clones that hang.
SPECIFICATION FairSpec
CONSTANTS
  Publishers = {1, 2}
  Apps = {"app"}
  MaxRevisions = 1
  DeclEvents <- TwoReleases
  AttEvents <- FirstAttested
  EndorsementEvents <- ForPublisher1
  Configs <- Reconfigured
  None = None
  Torn = Torn
  MaxRestarts = 2
  WritesMayFail = TRUE
INVARIANTS
  TypeOK
PROPERTIES
  DurableCacheSpec
  RestartOffersWhatWasSaved
  SavesFinish
  OnlyAHangingCloneStopsStartup
CHECK_DEADLOCK FALSE
