\* A newer event that carries an older package version.
SPECIFICATION Spec
CONSTANTS
  Publishers = {1}
  Apps = {"app"}
  MaxRevisions = 2
  DeclEvents <- OlderVersionLater
  AttEvents <- NoAttestations
  EndorsementEvents <- NoEndorsements
  Configs <- OffOnly
  UnverifiedPath = FALSE
PROPERTIES
  NeverDowngrades
