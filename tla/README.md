# Specifications of the Nostr-backed YunoHost catalogue

`nostr-catalogd` follows Nostr relays, decides which package releases the
administrator's YunoHost may install, and serves them as `/v3/apps.json`.
`nostr-ynh` is the publisher's side: it signs declarations, attestations and
announcements. This directory specifies that system in TLA+: modules translated
from the Go source, configurations that TLC checks on small instances, and
theorems that TLAPS proves for every value of the constants.

    tlc -config CatalogStore_upgrade.cfg MCCatalogStore.tla    # one run
    tlapm CatalogStoreProofs.tla                               # one module's proofs

Contents: [the system](#the-system), [modules](#modules),
[runs](#runs-and-what-they-show), [fairness and other assumptions](#assumptions),
[proofs](#proofs), [disagreements found](#where-code-and-documents-disagree),
[what is not modelled](#what-is-not-modelled), [plan](#order-of-the-work-and-what-could-follow).

## The system

| component | code | state | operations |
|---|---|---|---|
| Catalogue store | `internal/catalog` | `entries` (revisions of each publisher/app pair), `attestations` (one for each revision and verifier), `endorsements`, three policies; locks `mu`, `saveMu`; the cache file | `Ingest`, `IngestVerified(Package)`, `IngestAttestation`, `IngestEndorsement`, `Save`, `Load`, `WriteSnapshot`, read-only queries |
| Trust policy | `internal/trust` | none (configuration) | `Validate`, `Evaluate` |
| Curation policy | `internal/curation` | none | `Accept`, `EndorsementCounts`, `SelectCanonical` |
| Daemon | `cmd/nostr-catalogd/main.go` | its goroutines | start from file and relays, three subscriptions, HTTP |
| Relay client | `internal/relay` | the pool of connections | `FetchAppDeclarations`, `Subscribe...`, `Publish` |
| Event formats | `internal/protocol`, `verification`, `curation/endorsement.go` | none | parsers and signature checks |
| Repository verification | `internal/repository` | a temporary checkout | `VerifyDeclaration` |
| Publishing and announcements | `internal/announce`, `publisher`, `handleAnnounce`, `runPublish` | ledger in memory, ledger file, `path.tmp`; the events a run has got accepted | `publish`, `LoadLedger`, `HasAnnounced`, `Record` |
| Admin page | `cmd/nostr-catalogd/admin.go`, `csrf.go`, `internal/localstate`, `admin_static/index.html` | CSRF cookie and each tab's token; attestation ledger; profile file; a request's deadline | attest, re-verify, profile, announce |
| Attestation ledger | `internal/attestation` | ledger and its file | `Candidates`, `Record`, `LatestRecord` |
| Re-verification | `internal/reverify` | none | `Run`, from the page and from `nostr-ynh reverify` |
| CI results | `internal/ciresult` | none | `Parse`, `Validate` |
| Command line | `cmd/nostr-ynh` | none of its own | publish, reverify, catalog; endorse, attest, profile, verify, ... |
| Packaging, workflows | `packaging/`, `action.yml`, `.github/` | files of the host | install, upgrade, remove |

How they interact. Main configures the store, loads the cache file, fetches the
latest declaration of each trusted publisher's apps and ingests one after
another; each ingestion clones a repository, takes `mu`, inserts the revision and
evicts, and is followed by a `Save`. Then three goroutines follow the relays:
declarations (clone, insert, save), attestations (insert, save) and, when
curators are configured, endorsements (insert, no save). HTTP handlers call
`WriteSnapshot` under `mu` at any moment. The admin page posts announcements and
records them in a ledger file that `nostr-ynh publish --announce` writes too, from
other processes.

What is hard about it:

- Relays deliver at any time, in any order, twice, and what anybody publishes. The
  store is bounded, so that deliveries also evict; eviction must not lose the
  release that may be installed, although it depends on attestations that arrive
  in an order of their own.
- `Save` copies under one lock and writes under another, from several goroutines; a
  crash may hit between any two of its steps. `Load` replays the file through the
  same eviction, under a configuration that may have changed.
- The catalogue iterates over Go maps: its result must not depend on the order.
- The announcement check and the record of it lie on both sides of a network
  call, in several processes that share one file and one temporary file; a run
  publishes three events under one deadline and goes on after a failure.
- The admin page's requests run at once: a version may be declared between the
  page, the click and the record of an endorsement; profile edits share a file
  without a lock; each response may bring a token, for one cookie.
- Re-verification and `nostr-ynh catalog` clone one repository after another under
  deadlines nested in a deadline, while repositories are rewritten and events
  appear.

What makes each part correct:

- *Store*: an installable release stays installable or is superseded, as long as
  its evidence stays; unaccepted declarations change nothing; a verifier's newest
  word counts; nothing is listed without its evidence; contested apps are listed
  for a reason; the choice is a function of the store.
- *Daemon*: the file is one whole copy of the store whatever crashes; a restart
  offers what the file holds; saves end; only a clone that hangs keeps the daemon
  from serving.
- *Publishing and announcements*: nothing is recorded that was not announced; the
  ledger grows; what is recorded is not announced again; exit code 0 means that
  all is out; what is attested is evidence for the daemon that reads it.
- *Admin page*: a tab that has loaded can post; the ledger holds what was really
  endorsed; the form shows the profile that is live.
- *Re-verification*: MATCH is evidence, whatever changes between the steps.
- *`nostr-ynh catalog`*: a slow host costs only its own apps, and an older
  declaration never stands in for a newer one.

`PROJECT.json` lists the hazards at their source lines with the properties that
would catch them.

## Modules

| module | models | code behind it |
|---|---|---|
| `TrustPolicy` | policies as operators on a configuration record; the data of events | `trust/policy.go`, `attestation_policy.go`, `ComputeAttestationStatus` |
| `Curation` | acceptance, counting and the canonical choice | `curation/policy.go`, `IngestEndorsement` |
| `PackageVersions` | `comparePackageVersions`, and the order its comment describes | `catalog/store.go` |
| `CatalogData` | the store's data structures and functions: insertion, eviction, selection, snapshot, cache file | `catalog/store.go` |
| `CatalogEvents` | what may be delivered and configured, with its assumptions | `protocol/types.go`, the parsers |
| `CatalogStore` | the store as a state machine, with its properties | the `Ingest...` operations |
| `Catalogd` | the daemon: goroutines, `Save` step by step, crash, restart, reconfiguration | `main.go`, `Save`, `Load` |
| `DurableCache` | the abstract promise of the cache file | `store.go:557-560` |
| `EventFormats` | which tags events are built with and parsed from; CI results | `publisher/event.go`, `protocol/types.go`, `verification/attestation.go`, `ciresult` |
| `Announcements` | `nostr-ynh publish` and the page's announcements on one ledger file, file operations one by one | `runPublish`, `announce/ledger.go`, `handleAnnounce`, `Client.Publish` |
| `AdminSession` | the CSRF token between browser, tabs and handlers | `csrf.go`, `admin.go`, `index.html` |
| `AdminEndorsements` | candidates, endorsing, the attestation ledger and its file | `attestation.go`, `handleAttest`, `localstate` |
| `AdminProfile` | profile edits and the file behind the form | `handleProfile`, `saveProfileState` |
| `Reverification` | checking an attestation against relays and a fresh clone | `reverify.go`, `handleReverify`, `runReverify` |
| `CatalogCommand` | `nostr-ynh catalog`: fetch, verify within a budget, print | `runCatalog`, `FetchAppDeclarations` |
| `OnDemand` | the five preceding modules as the parts of one specification | `adminServer.mux` |
| `MC...` | events, configurations and deployments for TLC | |
| `FiniteLemmas`, `CatalogLemmas` | lemmas on finite sets, sums and folds; on the operators of `CatalogData` | |
| `CatalogStoreProofs`, `SnapshotProofs`, `PackageVersionsProofs`, `CatalogdProofs`, `AnnouncementsProofs`, `OnDemandProofs` | the theorems | |

`CatalogStore` and `Catalogd` are two views of one store that share every operator
of `CatalogData`. In `CatalogStore` an operation is one action, since the code
does everything slow before it takes `mu` and everything under `mu` at once; that
is the view in which sequences of deliveries are explored and proved about. In
`Catalogd` one goroutine runs each step of `main`'s loops and of `Save`, and the
others come between.

The parts of `OnDemand` share no variable that one of them changes: endorsing, the
profile, the session and a check use different files and fields, and
`nostr-ynh` is a process of its own. Interleaving two of them would only multiply
their states, so a behaviour is one of a single part, chosen initially. Within
a part every request, tab, relay and rewriting of a repository interleaves.
Announcements are kept apart, because their ledger is shared with processes
outside.

Correspondence of the state:

| variable | code |
|---|---|
| `entries[<<publisher, app>>]` | `Store.entries[publisher:app]`, newest first; `manifest` is `record.manifest != nil` |
| `attestations` | `Store.attestations`, its two levels (revision key, verifier) flattened into a set that holds one event per slot |
| `endorsements` | `Store.endorsements`, likewise, one per curator and pair |
| `config` | the daemon's flags, as `ExplicitPublishers`, `Policy` and `AttestationPolicy` hold them |
| `thread[t]` | program counter, event and copy (`Save`'s local `cached`) of a goroutine |
| `disk`, `tmp` | the cache file and `path.tmp`: absent, incomplete (`Torn`) or a copy |
| `actor`, `ledger`, `mu` | an admin request or `publish` process with its input and the kinds of event accepted so far, `Ledger.records` of each process, the holder of `Ledger.mu` |
| `content`, `path`, `tmpPath` | inodes and the two names of the ledger file that point to them; `profileFile`, `profilePath`, `profileTmp` likewise |
| `cookie`, `tab[t].token`, `tab[t].loader` | the browser's CSRF cookie, the page's `csrfToken`, and its two loaders' requests under way |
| `records`, `recordsFile`, `call` | `Ledger.entries` of the attestation ledger, its file, the POSTs to `/admin/attest` |
| `newest`, `installed` | what `Store.Declarations` and the snapshot file of installed apps say |
| `check`, `hosted`, `published` | a re-verification with what is left of its deadline; what cloning finds; what relays hold |
| `run`, `store`, `delay` | the loop of `runCatalog` with the time it has `spent` and how much of that was past a clone's deadline (`overrun`), the command's store, how long each host takes |

The order of the steps is the code's. `runPublish` signs everything, then
publishes declaration, attestation and note one after another whatever becomes
of each (`Publish`, `PublishRefused`, `PublishUnacknowledged`, followed by
`NextPc`), records an accepted note (`Record`, `OpenTmp`, `WriteTmp`,
`RenameTmp`, or `FailRecord`) and looks at the results only then (`EndWith`).
`handleAttest` looks the candidate up, publishes, records; `handleProfile`
publishes, then writes; `handleReverify` reads the store once and clones for
each attestation; `runReverify` fetches the attestation, then the declaration, then clones.

History variables: `ingested` and `attested` (everything accepted so far); in
`Announcements` `declared`, `attested`, `posted` (what relays have),
`interrupted` (notes sent without a record) and `reported` (releases whose run
failed or was killed); `endorsed`, `matches` and `settled` in the modules of the page.

Abstractions. Keys, hashes and commits are values of small sets; a repository URL
is a source and a spelling (`normalizeRepository` keeps the source); manifest and
content hash are one field `hashes`; whether an event passes its parser and
signature check is `signed`, whether the clone agrees with it `hashesMatch` and
`manifestMatches`, which are facts of the world and not of the event, so that any
combination may be delivered. A package version is the
sequence of digit runs and single characters that the comparison moves along. An event is compared
by its timestamp, ties included. In `EventFormats` tags are kept, with how often
each occurs; patterns of single fields are sets of the values that match. An
`os.WriteFile` is three steps (open or truncate, write, and the rename that
follows), on inodes, since two writers may hold the same one. Deadlines are
counted in ticks. Operators whose name ends in `_fault` words
(`CapRevisions_recencyOnly`) are plausible mistakes that no specification uses;
each property has one that violates it, listed under "mutants".

## Runs, and what they show

| run | distinct states | checks |
|---|---|---|
| `upgrade` | 52 704 | six declarations of one app by two publishers (four releases, one of them re-published under another spelling of its URL), four that must be refused, eight attestations (repeated, withdrawn, of the same second, about other content, forged), policy off and three kinds of require, two slots per pair; declarations by the verified path only, as the programs ingest them |
| `curation` | 241 250 | three publishers, two of one source, with versions that differ in a digit run or before their `~ynh`; endorsements by three curators and a stranger; declarations through the unverified path too |
| `durability` | 36 995 | the daemon under fairness: two releases, an attestation, an endorsement, two restarts anywhere, three configurations (with curators and without), failing writes, clones that hang, `log.Fatal` at either end of serving, one slot |
| `announce` | 328 937 | whole runs of `publish`, the page alone with two concurrent requests, and page and job together; work trees committed, edited, cloned over SSH, with a CI result of this or another revision; two crashes, failing writes, lost answers, a deadline |
| `on_demand` | 203 862 | session, endorsements, profile, re-verification and `nostr-ynh catalog`, each with concurrent requests or slow hosts, error answers, clones that outlast their deadline, lost answers and restarts |
| `downgrade`, `mirror`, `staleSave`, `endorsements`, `double_post`, `first_visit`, `budget` | | counterexamples: see [below](#where-code-and-documents-disagree) |

Properties of the passing runs:

- `RevisionsWellFormed`: lists are newest first, hold a commit once, and exceed the
  cap only by the one revision kept for its acceptance.
- `NewestRevisionsRetained`: recency alone drops nothing: whatever was ingested is
  still represented, or `MaxRevisions` revisions no older are in front of it.
- `InstallableRevisionPinned`: a step that leaves the evidence of an installable
  release in place never removes it nor moves the offer back.
- `UnacceptedDeclarationIsInert`: a declaration that is not installable, new or
  delivered again, changes no entry of the catalogue, although it may evict.
- `OlderEventsNeverDowngrade`: nor does one that is not newer than what its
  publisher offers, installable or not: the first half of the rule of
  `docs/event-schema.md` whose other half `downgrade` refutes.
- `NewestAttestationWins`, `OneAttestationPerSlot`, `AttestationsAdvance`: in any
  order of delivery, each verifier's newest word on a revision is what is stored.
- `ListedAppsHaveEvidence`: a listed app was fetched, and under require enough
  different trusted verifiers' *last words* on exactly this source, commit and
  content are acceptable. It is stated on the history `attested`, independently
  of how the store keeps and selects attestations.
- `LabelsAgreeWithPolicy`: the `attestation_status` shown, computed without the
  policy, does not contradict the policy that listed the app.
- `ReloadPreservesOffers`: saving and loading at any moment changes no offer, even
  though `Load` replays revisions newest first through eviction.
- `SnapshotIsDeterministic`, `ContestedAppsAreResolved`, `EndorsementNeverHurts`: all
  orders of Go's map iteration give one result; a contested app is listed only if
  its sources agree or one publisher leads strictly; an endorsement never costs
  its publisher its place.
- `DurableCacheSpec` (refinement of `DurableCache`), `RestartOffersWhatWasSaved`:
  the cache file is always one whole copy that some `Save` of the running process
  took, and a restart, under any configuration, offers what the file holds.
- `SameSourceNewestVersion`: of several publishers of one source, the one whose
  version is the latest in the documented order is listed.
- `SavesFinish`: every `Save` ends, whatever the other goroutines do and whichever
  of them fail.
- `OnlyAHangingCloneStopsStartup`: the daemon comes to serve, or exits by `log.Fatal`,
  or is stuck in one clone for ever; no number of declarations, rejections or
  failed saves keeps it in its first loop.
- `RecordedWasPosted`, `LedgerOnlyGrows`, `RecordedIsNotRepeated`: an announcement is
  suppressed only if one is out; one process by itself never removes a record from
  the file, whatever fails, and never begins to announce again what the file holds.
- `UndeclaredNotesAreReported`, `SuccessMeansPublished`: a run announces even a release
  whose declaration no relay has taken, but then it is under way, was killed, or
  says so by its exit code; code 0 means that all it was given is out.
- `AttestedReleaseVerifies`: an attestation published with code 0 parses, and the
  daemon's own `AttestationsFor` counts it toward the declaration of the same
  run; if the tests ran on the commit, the repository confirms that declaration.
  It composes publisher, formats and store.
- `LoadedTabsWork`: the token of every loaded tab is the browser's cookie.
- `RecordedWasEndorsed`, `AuditTrailOnlyGrows`, `LatestShownIsLast`,
  `CandidatesAreInstalled`: the attestation ledger holds only endorsements that are
  out, each with the version that was declared when it was built (the signed event
  names none), loses nothing, and shows the last entry of an app; what may be
  endorsed is what is installed from its source.
- `ProfileFormIsLive`: after an edit that ran alone the form shows the live profile,
  whatever earlier overlapping edits left behind.
- `MatchIsEvidence`: a MATCH is an attestation the store would count, about content
  the repository held when it was looked at.
- `SlowHostsAreIsolated`, `PrintedIsNewest`: if the budget of `nostr-ynh catalog` is more
  than all shares together and whatever clones took past their deadlines, every
  host that answers in time is in; nothing older than what the relays answered is
  printed.

Why the bounds are enough. The cap matters as soon as one revision is beyond it:
with two slots (`upgrade`) four commits give lists that evict unaccepted,
accepted and re-published revisions, before and after their attestations, and the
theorems cover every cap. One slot (`durability`) makes the order of `Load`
matter after two releases. Two verifiers distinguish minimum one from two, three
publishers distinguish a tie that stands from a tie a third candidate breaks.
Two goroutines racing in `Save` and a third at the lock are what `main` has. Two
restarts let a file written after a restart be loaded again. For the ledger file
two processes, two revisions and two crashes suffice for every pair of steps to
meet; `MaxRuns` bounds the requests and runs. Two tabs and five
loads (`MaxLoads`) let one tab load while the other is used and loads again; three
endorsement calls (`MaxCalls`), two seconds (`MaxSeconds` = 1) and one restart give
two records of one app in one second and in different ones; four edits
(`MaxEdits`) with two at a time let an overlap be followed by a quiet edit and
another overlap. One rewriting (`MaxRewrites`) may hit between any two steps of a
check; a deadline of two ticks (`CheckTimeout`) can be met, spent exactly and
overrun by a clone of 0 to 3. `PerApp` = 2, `Budget` = 5 and delays 0, 1, 3 make
hosts that answer at once, in time and too late, with room for all of them or not;
a clone of the last kind holds the loop for 2 ticks or for 3. `double_post` needs
two actors (`MaxRuns` = 2) and one crash, no failing write and no lost answer.

Every named bound: `MaxRevisions`, `MaxRestarts` (`Catalogd`, `AdminEndorsements`),
`MaxRuns`, `MaxCrashes` (`Announcements`), `MaxLoads`, `MaxCalls`, `MaxSeconds`,
`MaxEdits`, `MaxRewrites`, `CheckTimeout`, `PerApp`, `Budget`, and the sets of
events. The announcement and on-demand runs may stop (every request and run
begun and ended, the catalogue printed), and the daemon stops in `LogFatal`, so
these switch the deadlock check off; elsewhere relays may always deliver something
again.

## Assumptions

- *Fairness* (`Catalogd!Fairness`, used by `durability`). Weak fairness for each
  goroutine's next step: the Go scheduler is preemptive. Strong fairness for
  taking `saveMu`: `sync.Mutex` hands the lock over to a waiter that has starved
  for a millisecond. None for the end of a clone: `main` passes a context without
  deadline and `VerifyDeclaration` adds none. Opening a port or setting the page up
  ends, well or in `log.Fatal`. Nothing is assumed of the relays.
- *Deadlines of a clone.* A deadline kills git, and the clone has failed; but
  `gitCommandContext` is `Output` without a `WaitDelay`, which returns only when
  git's helpers have closed its standard error too. So a call may return at any
  moment from the deadline until the host lets go (`CatalogCommand!Waits`).
  `Reverification` does not count that time: its clones after the first late one
  fail anyway, and no property speaks of when they do.
- *Atomicity.* An action is what happens under a lock, or one system call.
  `rename` replaces the file at once and survives the death of the process; loss
  of power, for which the code has no `fsync`, is not considered.
- *Sorting.* Lists have at most 12 elements when they are sorted (the cap is 10),
  which `sort.Slice` sorts by insertion, hence stably.
- *Clocks*. Profile events are ordered by the second they are made in; two edits of
  the same second, between which a relay chooses by the event's hash, are taken
  to be ordered as they arrive.
- *One daemon.* The attestation ledger and the profile file are written by one
  `nostr-catalogd`; the announcement ledger also by CI jobs.
- *Content.* Hashes in a declaration are of some content, never of a missing
  repository (`ContentAssumption`), and do not collide: a work tree with the hashes
  of a commit equals it (`HashesAssumption`).
- *Data.* Timestamps, versions, publishers, apps and flags are what their parsers
  let through (`DeclEventsAssumption`, `AttEventsAssumption`,
  `EndorsementEventsAssumption`, `ConfigsAssumption`, `OfferedAssumption`); the
  printed catalogue uses no attestation and no curator (`CommandConfigAssumption`,
  as `runCatalog` builds its store). These say what the sets of inputs consist of,
  and TLC evaluates each of them on the runs.
- *Pinned commits* (`CommitPinsSource`, an assumption of two theorems and of no
  run). Of the declarations that their repositories confirm, a publisher's
  declarations of one commit name one source and one content. The
  content follows from git's object names; the source is what `mirror` drops. What a
  repository does not confirm may claim anything. TLC evaluates the formula on
  the events of `upgrade`, rejected ones included (`PinningAssumption`).
- *Signatures* cannot be forged: an event with `signed` is its author's.

## Proofs

Every theorem is for all values of the constants that satisfy the named
assumptions of the modules; nothing else is assumed unless the table says so.

| module | theorem | states |
|---|---|---|
| `CatalogStoreProofs` | `Invariance` | `Spec => []StoreInvariant` |
| | `TypeCorrect` | `Spec => []TypeOK` |
| | `ListsStayWellFormed` | `Spec => []RevisionsWellFormed` |
| | `NewestStayRetained` | `Spec => []NewestRevisionsRetained` |
| | `OneWordPerVerifier` | `Spec => []OneAttestationPerSlot` |
| | `VerifiersNewestWord` | `Spec => []NewestAttestationWins` |
| | `AttestationsOnlyAdvance` | `Spec => AttestationsAdvance` |
| | `InstallableReleasesStay` | `Spec => InstallableRevisionPinned`, assuming `CommitPinsSource` and `~UnverifiedPath` |
| `SnapshotProofs` | `SnapshotInvariance` | `Spec => []SnapshotInvariant` |
| | `ListingIgnoresMapOrder` | `Spec => []SnapshotIsDeterministic` |
| | `DisputesAreSettledByCurators` | `Spec => []ContestedAppsAreResolved` |
| | `OneSourceListsItsLatest` | `Spec => []SameSourceNewestVersion` |
| | `ListingRestsOnEvidence` | `Spec => []ListedAppsHaveEvidence` |
| | `LabelsMatchThePolicy` | `Spec => []LabelsAgreeWithPolicy` |
| | `EndorsementsOnlyHelp` | `Spec => EndorsementNeverHurts` |
| | `UnacceptedNewsIsInert` | `Spec => UnacceptedDeclarationIsInert`, assuming `CommitPinsSource` |
| | `OlderEventsAreInert` | `Spec => OlderEventsNeverDowngrade` |
| | `ReloadingKeepsOffers` | `Spec => []ReloadPreservesOffers` |
| `PackageVersionsProofs` | `ComparesAsDocumented` | `comparePackageVersions` is the documented order, antisymmetric, and 0 only on equal versions |
| | `LaterIsTransitive` | that order is transitive |
| `CatalogdProofs` | `CacheFileIsDurable` | `Spec => DurableCacheSpec`, the refinement |
| | `WhatIsSavedCanBeLoaded` | `Spec => []DaemonInvariant` |
| | `TypeCorrect` | `Spec => []TypeOK` |
| | `RestartLosesNoOffer` | `Spec => RestartOffersWhatWasSaved` |
| | | all four assuming `NoneIsNoCache` (`None` is no copy and no goroutine) |
| `AnnouncementsProofs` | `TypeCorrect` | `Spec => []TypeOK` |
| | `NothingUnpostedIsRecorded` | `Spec => []RecordedWasPosted` |
| | `CodeZeroIsTrue` | `Spec => []SuccessMeansPublished` |
| | `UndeclaredNotesAreKnown` | `Spec => []UndeclaredNotesAreReported` |
| | `AttestedIsVerifiable` | `Spec => []AttestedReleaseVerifies` |
| | `LedgerGrowsAlone` | `Spec => LedgerOnlyGrows` |
| | `RecordedStaysRefused` | `Spec => RecordedIsNotRepeated` |
| | `RepeatsBounded` | `Spec => []RepeatsAreBounded` (the most that one process posts; no run's property) |
| `OnDemandProofs` | `TypeCorrect` | `Spec => []TypeOK` |
| | `TabsWorkOnReturn` | `Spec => []LoadedTabsWork`, assuming `~FirstVisit` |
| | `OnlyEndorsedIsRecorded` | `Spec => []RecordedWasEndorsed` |
| | `AuditTrailGrows` | `Spec => AuditTrailOnlyGrows` |
| | `CandidatesMatchInstalledApps` | `Spec => []CandidatesAreInstalled` |
| | `PageShowsTheLastEndorsement` | `Spec => []LatestShownIsLast` |
| | `MatchesAreEvidence` | `Spec => []MatchIsEvidence` |
| | `SlowHostsCostNoOther` | `Spec => []SlowHostsAreIsolated` |
| | `OnlyTheNewestIsPrinted` | `Spec => []PrintedIsNewest` |
| | `FormShowsLiveProfile` | `Spec => []ProfileFormIsLive` |

### The store

`StoreInvariant` is `TypeOK`, `RevisionsWellFormed`, `NewestRevisionsRetained`,
`OneAttestationPerSlot`, `NewestAttestationWins`, `FetchedOnly` and the finiteness of
`attestations`. None of the larger parts is inductive alone:

- insertion puts a revision behind all that are not older *because* the list was
  sorted, and keeps commits distinct because it removes the one it replaces; so
  retention needs `NewestFirst` and `DistinctCommits` before the step;
- retention of an old revision through a step is by position: either its commit is
  still there, or the revision at position `MaxRevisions` only gets newer
  (`AddRetains`);
- `NewestAttestationWins` needs one attestation per slot, or replacing a slot's
  content might discard a newer one;
- `FetchedOnly` (every stored revision with a manifest was confirmed by its
  repository, and without the unverified path all have one) and finiteness are needed for the pinning theorem: acceptance counts a set of
  attestations, and more evidence never withdraws it only for finite sets
  (`AcceptedIsMonotone`).

The functions meet in two contracts: `UpsertProperties` (a list grows by at most
one, positions only get newer, what leaves has been replaced by its own commit)
and `CapProperties` (a prefix survives and, if anything beyond it is
installable, the newest such does). `AddKeepsInstallable` combines them.

The two assumptions of `InstallableReleasesStay` are what the code needs. If a
repository may confirm a commit under two sources the theorem is false, which is
what run `mirror` shows (declarations that no repository confirms are unrestricted); with `Store.Ingest`, which only tests call, an unfetched record
could replace a fetched one of its commit.

`ComparesAsDocumented` needs no induction: two versions that differ have a first
place where they do (`Stop`, as a least element), and there the loop and the ranking
of the elements agree, case by case. For `LaterIsTransitive` the earlier of two first
differences decides.

### The generated catalogue

`SnapshotInvariant` adds `Origin` to `StoreInvariant`: what is stored was delivered, is
genuine and finite, and has a manifest only if its repository confirmed it.

`WriteSnapshot` loops over candidates in the order a Go map yields them, twice: to
choose by endorsements (`SelectCanonical`) and to choose the latest version of one
source (`SelectSameSourceLatest`). Each loop is a fold over a sequence, and
`FiniteLemmas` gives for a fold the sequence of its intermediate states. Of those
an invariant is proved by induction over positions:

- the loop of `SelectCanonical` has selected someone with the highest count so far
  that is at least the minimum, and `tied` says whether another has it as well;
- the loop of `SelectSameSourceLatest` has selected the one that supersedes all before
  it, which exists and is unique because version, timestamp and publisher
  together are a strict total order (`SupersedesOrders`, by `LaterIsTransitive`).

So both compute what `Choice` says, in which no order occurs, and
`ListingIgnoresMapOrder` follows. The other properties are then proved of `Choice`: a
further endorsement raises one count only (`EndorsementsOnlyHelp`); evidence is
counted over the verifiers' last words, since those are what the slots hold
(`ListingRestsOnEvidence`).

What is offered of a pair depends on its first installable revision alone
(`SameFirst`). Inserting a revision that is not installable, removing one, and the
cap, which always keeps the first that is, leave that one alone (`InsertIsInert`,
`RemoveIsInert`, `CapKeepsOffer`), hence `UnacceptedNewsIsInert`. A revision that is not
newer than the offer goes in behind it, and one it replaces is older still
(`OlderIsInert`), hence `OlderEventsAreInert`, with no assumption. `ReloadingKeepsOffers`
replays the file: the attestations come back as they were, since no two meet in a slot
(`AttestationsReload`), and a list comes back entry by entry from its newest,
each prefix offering what it would offer in the store (`EntriesReload`).

### The daemon and the cache file

`CacheFileIsDurable` maps `Catalogd` to `DurableCache` (the file, and the copies that
may be put there). The invariant says that a goroutine past `BeginWrite` holds `saveMu`,
that whoever is about to rename has filled `path.tmp` with its own copy, and that a
goroutine has a copy exactly between taking it and ending `Save`. Without the first
part two goroutines could share `path.tmp`; without the second `Rename` might
publish an incomplete file.

`DaemonInvariant` adds what those copies contain: the store, each copy under way and
the file are `Sound`, that is, lists in order with distinct commits, of verified genuine
revisions, and one genuine attestation in each slot. The file has to be in it because
a restart makes it the store, the copies because they become the file. From it and
the lemmas on loading, `RestartLosesNoOffer` for any point of a crash and any
new configuration.

### Announcements

Five inductive invariants, each proved with one lemma for every action or
group of like ones.

- `LedgerInvariant`: types; the holder of a lock is the actor inside `Record`; and
  wherever a revision is about to be recorded, is in the data to be written, in a
  ledger or in an inode, its note is out (`OnlyOut`). `RecordedWasPosted` alone says
  nothing of the data a process is still to write, nor of the inode that `path.tmp`
  names, which any process may rename. Several processes that truncate and
  overwrite each other's inode are allowed: whatever results is one of their
  data or `Torn`. Inodes never run out since each actor holds at most one
  (`OneIsFree`, by counting).
- `ReportInvariant`: what a run has in `accepted` is out, a run with code 0 has
  all it was given out (`Honest`), and a note without a declaration is on the
  books of a run or `reported`. It needs `LedgerInvariant` for the skipped note: that
  it was in the file means that it is out.
- `InputInvariant`: a run under way or ended has an input that passed the checks
  `RunPublish` makes first. Whatever such a run publishes is then read as what it is
  (`EvidenceIsRead`), through the publisher's, the parser's and the store's definitions.
- `SingleInvariant`: with `OneProcess`, `path.tmp` is not the ledger file, belongs to the
  one that holds the lock, and contains its ledger when it is renamed; and the
  ledger of everyone who may record contains the file. So the rename can only
  add. Each part fails with two processes, which is why the property is stated
  for one. `RecordedStaysRefused` rests on it too: whoever begins sees at least the
  file (`BeginningIsChecked`).
- `RoundsInvariant`: notes about a revision come in rounds, each with at most one of
  every actor, and each ended by a record or paid for by an interruption. While the
  revision is nowhere recorded the notes of this round are those whose actors are
  about to record; once it is, those whose actors are about to post are in the bound
  too; and when it is in memory but nobody is left to write it, an interruption has
  already paid for the next round (`Bounded`).

### The page and the command line

`OnDemandProofs` proves each part's invariants from that part's actions; steps of
other parts leave its variables alone (`PartsStep`).

- *Session*: with a cookie every token under way, in a loader or in a tab, is that
  cookie, since `IssueCSRFToken` answers with the cookie the request came with
  (`SessionInvariant`). That never more than two tokens are minted for a load needs
  the requests still unanswered in the count (`SessionTyped`).
- *Endorsements*: what a call is about to record is in `endorsed`; the records in memory
  begin with those in the file; both are in the order of their seconds, none later
  than `now` (`PageInvariant`), so that the page's latest is the last.
- *Check*: every found MATCH was compared with what the repository held at that
  moment, of a declaration at least as new as all the relays answered with.
- *Command* (`CommandInvariant`): the store holds of every pair nothing, or the one
  fetched declaration that was verified; as long as the budget is not spent,
  everything fine so far is in; and the time spent with the shares of what is left
  is at most the sum of all shares and the overrun. A sum over a set is a fold too:
  `SumsLose` takes one element out of it.
- *Profile*: if the edit under way ran alone so far, then its
  inode is not the form's and no other edit will write to it, and after its
  rename the form is `live`. Overlapping edits are not excluded, only not relied on.

Looking for `SlowHostsAreIsolated`'s invariant showed what the promise needs: shares
that sum to exactly the budget may spend it to the last tick, after which nothing
more is cloned, not even what would take no time. The property is stated for shares
below the budget; a clone that outlasts its deadline counts against it with the time
it really took.

### Only model-checked

Every invariant and every action property of a passing run has a theorem. Liveness
(`SavesFinish`, `OnlyAHangingCloneStopsStartup`) is beyond the prover, as fairness is;
so are the seven counterexamples, which are runs and not theorems.

## Where code and documents disagree

Each is a run whose only property is the documented statement.

1. `staleSave`: `Save` takes `saveMu` after it has made its copy, so an older copy can
   be renamed over a newer one; the file then lacks an accepted event until
   something else is saved (`store.go:578`; `store.go:229-235`, `main.go:127-131`).
   With `DurableCacheSpec` holding, that is all that can go wrong with the file.
2. `endorsements`: endorsements are not in the file, and a contested app they had
   decided leaves the catalogue over a restart; `docs/attestations.md:209-212`
   gives as the reason for not saving them that this cannot happen.
3. `downgrade`: revisions are ordered by event age, so a newer event with an older
   package version is offered (`docs/event-schema.md:84-85`). The other half of that
   rule, about older events, holds (`OlderEventsNeverDowngrade`).
4. `mirror`: the same commit declared from a mirror replaces the attested record
   (`store.go:163`), and the app leaves the catalogue under require, against the
   rule quoted at `store.go:154-155`.
5. `double_post`: a revision is announced twice, against `admin.go:431-433`,
   `index.html:319` ("A revision is only ever announced once"), `main.go:239-243`
   ("can never double-post") and `docs/profile-and-announcements.md:89-97,123-125`.
   `HasAnnounced` is asked before the note goes out and `Record` called after it,
   with no lock between (`admin.go:457-479`): two requests of the page both pass.
   Two other ways show with other values of `Deployments` in the same
   configuration: with `{{j1}}` a job dies after its note and before `Record` has
   renamed the file, and its re-run posts again; with `{{h1, j1}}` the page checks
   the ledger as it was when the daemon started and posts what a job has recorded
   since. What one process does keep is `RecordedIsNotRepeated`.
6. `first_visit`: a browser without the cookie sends two requests at once when it
   first opens the page (`index.html:799-800`); each is answered with a token of
   its own, and the page may keep the one that the cookie does not hold, so that
   every POST is refused until it is loaded again. The comment at
   `admin.go:83-91` and the test at `admin_test.go:196-197` hold the token to be
   stable. `on_demand` and `TabsWorkOnReturn` show that a returning browser is fine.
7. `budget`: the loop of `nostr-ynh catalog` runs beyond its budget, which "caps the
   sum" (`main.go:917-927`), when git's helper outlives the killed git on a host
   that hangs (`metadata.go:247-255`). Up to that, `SlowHostsAreIsolated` holds.

With two processes on one ledger file each writes its own records over those the
other has added, which the model has; `LedgerOnlyGrows` is stated for one
process.

Seen while translating, and no run of their own, because no sentence of the
repository promises otherwise or the model takes them as they are:

- Overlapping profile edits may leave an incomplete file, so that the form cannot
  be loaded until the next save (`admin.go:331`; `ProfileFormIsLive` speaks of edits
  that ran alone).
- An endorsement has no `d` tag (`curation/endorsement.go:34`); a relay that keeps
  one event per author, kind and `d` keeps a curator's last one only.
- URLs that differ in `.git` are one source to the store but a mismatch to
  `reverify.Run`, which compares them as they are spelled.
- `comparePackageVersions` puts the end of a version before everything, Debian's
  order puts `~` before the end; the comment describes the code's order only where
  both have a character.
- `BuildDeclaration` accepts an app ID that `ParseAppDeclaration` refuses; a run can
  end with code 0 and a declaration nobody will read (with a CI result it is
  refused before).
- The manifest hash is of the work tree, the content hash of `HEAD`: a tree with an
  edited manifest gives a declaration that no repository confirms.
- Of several apps installed from one source only the last can be endorsed.

## What is not modelled

- *JSON, logos, translation texts and HTTP headers*: they depend on the chosen
  revision and decide nothing.
- *Git, hashing, TOML and key formats*: their verdict is an input; a clone also has
  a duration and may never end. *Patterns of single fields*: a set of values.
- *Connections to relays*: which relays answer in time is a choice; what is done
  with the answers (`Publish`, `FetchReplaceable`, `FetchAppDeclarations`) is modelled.
- *`handleTrust`, `handleHistory`, `handleAnnouncements`* and the catalogue's own
  handlers: they read. *`endorse`, `attest`, `profile`* of the command line build one
  event and publish it as `publish` does, without a ledger; *`keygen`, `inspect`,
  `verify`, `preview`* compute and print.
- *Front end*, beyond when it asks for a token and which it keeps: presentation.
- *Packaging, workflows*: shell and YAML that install files and call the programs.
- *Loss of power*: no `fsync` in the code, and no promise about it.

## Order of the work, and what could follow

Done, in this order: policies, the store and its daemon; announcements; versions
and formats; the whole of `publish`; the admin page; re-verification and the
printed catalogue; proofs of the store, the file and the ledgers; then of the
generated catalogue, of loading, and of all that counts or folds.

What could follow: the daemon's catalogue and the announcements in one composition,
so that what `handleAnnounce` accepts is the store's own state rather than a set of
trees.
