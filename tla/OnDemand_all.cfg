\* Every part, one at a time; the browser has visited the page before.
SPECIFICATION Spec
CONSTANTS
  Parts = {"session", "endorsements", "profile", "check", "command"}
  Tabs = {"t1", "t2"}
  FirstVisit = FALSE
  MaxLoads = 5
  Self <- OwnKey
  Releases <- AppReleases
  Snapshots <- InstalledApps
  Calls = {"h1", "h2"}
  Absent = Absent
  MaxCalls = 3
  MaxSeconds = 1
  MaxRestarts = 1
  Profiles = {"p1", "p2", "p3"}
  NoProfile = NoProfile
  TornProfile = TornProfile
  Edits = {"h1", "h2"}
  MaxEdits = 4
  Publishers = {1, 2, 3}
  Apps = {"app", "tool"}
  MaxRevisions = 10
  CheckedDecls <- DeclaredEvents
  CheckedAtts <- AttestedEvents
  Contents = {"c1", "c2"}
  Gone = Gone
  CheckTimeout = 2
  MaxRewrites = 1
  Offered <- OfferedEvents
  CommandConfig <- TrustBoth
  PerApp = 2
  Budget = 5
  Delays = {0, 1, 3}
INVARIANTS
  TypeOK
  LoadedTabsWork
  RecordedWasEndorsed
  CandidatesAreInstalled
  LatestShownIsLast
  ProfileFormIsLive
  MatchIsEvidence
  SlowHostsAreIsolated
  PrintedIsNewest
PROPERTIES
  AuditTrailOnlyGrows
CHECK_DEADLOCK FALSE
