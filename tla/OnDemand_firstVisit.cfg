\* The first visit of a browser to the admin page.
SPECIFICATION Spec
CONSTANTS
  Parts = {"session"}
  Tabs = {"t1"}
  FirstVisit = TRUE
  MaxLoads = 4
  Self <- OwnKey
  Releases <- AppReleases
  Snapshots <- InstalledApps
  Calls = {"h1", "h2"}
  Absent = Absent
  MaxCalls = 3
  MaxSeconds = 1
  MaxRestarts = 1
  Profiles = {"p1", "p2", "p3"}
  NoProfile = NoProfile
  TornProfile = TornProfile
  Edits = {"h1", "h2"}
  MaxEdits = 4
  Publishers = {1, 2, 3}
  Apps = {"app", "tool"}
  MaxRevisions = 10
  CheckedDecls <- DeclaredEvents
  CheckedAtts <- AttestedEvents
  Contents = {"c1", "c2"}
  Gone = Gone
  CheckTimeout = 2
  MaxRewrites = 1
  Offered <- OfferedEvents
  CommandConfig <- TrustBoth
  PerApp = 2
  Budget = 5
  Delays = {0, 1, 3}
INVARIANT
  LoadedTabsWork
CHECK_DEADLOCK FALSE
