\* The attested commit is declared again from another source.
SPECIFICATION Spec
CONSTANTS
  Publishers = {1}
  Apps = {"app"}
  MaxRevisions = 2
  DeclEvents <- Mirrored
  AttEvents <- UpgradeAtts
  EndorsementEvents <- NoEndorsements
  Configs <- RequireOnly
  UnverifiedPath = FALSE
PROPERTIES
  InstallableRevisionPinned
