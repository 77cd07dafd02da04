\* Releases, re-publications and attestations in every order; two slots.
SPECIFICATION Spec
CONSTANTS
  Publishers = {1, 2, 3}
  Apps = {"app"}
  MaxRevisions = 2
  DeclEvents <- UpgradeDecls
  AttEvents <- UpgradeAtts
  EndorsementEvents <- NoEndorsements
  Configs <- UpgradeConfigs
  UnverifiedPath = FALSE
INVARIANTS
  TypeOK
  RevisionsWellFormed
  NewestRevisionsRetained
  NewestAttestationWins
  OneAttestationPerSlot
  ListedAppsHaveEvidence
  LabelsAgreeWithPolicy
  ReloadPreservesOffers
PROPERTIES
  InstallableRevisionPinned
  AttestationsAdvance
  UnacceptedDeclarationIsInert
  OlderEventsNeverDowngrade
