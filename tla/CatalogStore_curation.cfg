\* Three publishers claim one app; endorsements in every order,
\* declarations through Ingest as well as through IngestVerifiedPackage.
SPECIFICATION Spec
CONSTANTS
  Publishers = {1, 2, 3}
  Apps = {"app"}
  MaxRevisions = 2
  DeclEvents <- CurationDecls
  AttEvents <- NoAttestations
  EndorsementEvents <- CurationEndorsements
  Configs <- CurationConfigs
  UnverifiedPath = TRUE
INVARIANTS
  SnapshotIsDeterministic
  ContestedAppsAreResolved
  SameSourceNewestVersion
  ListedAppsHaveEvidence
PROPERTIES
  EndorsementNeverHurts
