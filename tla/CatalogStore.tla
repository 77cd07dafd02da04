---------------------------- MODULE CatalogStore ----------------------------
(***************************************************************************)
(* catalog.Store: what the daemon knows, and what it offers for install.   *)
(* Each operation takes the store's lock once, after everything slow       *)
(* (signature checks, the git clone) is over, so each is one action.  An   *)
(* operation that returns an error leaves the store alone: it is a         *)
(* stuttering step.  Relays deliver any event, at any time, any number of  *)
(* times and in any order: the parameters of the actions are unconstrained.*)
(*                                                                         *)
(* ingested and attested are history variables: every revision and every   *)
(* attestation an operation has accepted so far.                           *)
(***************************************************************************)
EXTENDS CatalogEvents

CONSTANT UnverifiedPath      \* whether Store.Ingest is used (tests only)

ASSUME UnverifiedPathAssumption == UnverifiedPath \in BOOLEAN

VARIABLES config,        \* policy, curationPolicy and attestationPolicy
          entries,
          attestations,
          endorsements,
          ingested,
          attested

vars == <<config, entries, attestations, endorsements, ingested, attested>>

TypeOK ==
  /\ config \in Configs
  /\ entries \in [Pairs -> Seq(Revisions)]
  /\ attestations \subseteq AttEvents
  /\ endorsements \subseteq EndorsementEvents
  /\ ingested \subseteq Revisions
  /\ attested \subseteq AttEvents

-----------------------------------------------------------------------------
\* NewStore, SetCurationPolicy and SetAttestationPolicy: main configures the
\* store before anything else uses it.
Init ==
  /\ config \in Configs
  /\ entries = [k \in Pairs |-> <<>>]
  /\ attestations = {}
  /\ endorsements = {}
  /\ ingested = {}
  /\ attested = {}

Add(r) ==
  LET k == PairOf(r.event)
  IN  /\ entries' = [entries EXCEPT ![k] = AddRevision(config, attestations, @, r)]
      /\ ingested' = ingested \cup {r}
      /\ UNCHANGED <<config, attestations, endorsements, attested>>

\* What the store keeps of a declaration whose repository it has looked at.
Fetched(e) == [event |-> e, manifest |-> TRUE]

\* The declaration and its repository agree.
IngestVerifiedPackage(e) ==
  /\ Validate(config, e)
  /\ RepositoryConfirms(e)
  /\ Translates(e)
  /\ Add(Fetched(e))

\* The cheap path: the repository is never looked at.
Ingest(e) ==
  /\ UnverifiedPath
  /\ Validate(config, e)
  /\ Add([event |-> e, manifest |-> FALSE])

\* Accepted whether or not a matching declaration is known.
IngestAttestation(a) ==
  /\ a.signed
  /\ attestations' = StoreAttestation(attestations, a)
  /\ attested' = attested \cup {a}
  /\ UNCHANGED <<config, entries, endorsements, ingested>>

IngestEndorsement(n) ==
  /\ CurationConfigured(config)
  /\ AcceptEndorsement(config, n)
  /\ endorsements' = RecordEndorsement(endorsements, n)
  /\ UNCHANGED <<config, entries, attestations, ingested, attested>>

Next ==
  \/ \E e \in DeclEvents : IngestVerifiedPackage(e)
  \/ \E e \in DeclEvents : Ingest(e)
  \/ \E a \in AttEvents : IngestAttestation(a)
  \/ \E n \in EndorsementEvents : IngestEndorsement(n)

Spec == Init /\ [][Next]_vars

-----------------------------------------------------------------------------
(* What is offered, in the current state *)

Offer(k) == SelectAccepted(config, attestations, entries[k])

Evidence(r) == AttestationsFor(attestations, r.event)

ListedFor(app) == Listed(config, entries, attestations, endorsements, app)

\* What some configuration may let in: signed by a publisher it trusts, and found
\* in its repository as declared.
Genuine(e) ==
  /\ \E p \in Configs : Validate(p, e)
  /\ RepositoryConfirms(e)
  /\ Translates(e)

\* Of what may be let in, a publisher declares a commit of an app from one source
\* only, never from a mirror under another URL as well; and it holds one content,
\* as git guarantees for a commit of one repository.  What is rejected may claim
\* anything.
CommitPinsSource ==
  \A d, e \in {x \in DeclEvents : Genuine(x)} :
    PairOf(d) = PairOf(e) /\ d.commit = e.commit
      => AttestationKey(d) = AttestationKey(e) /\ d.hashes = e.hashes

-----------------------------------------------------------------------------
(* Invariants *)

\* Each pair's list is newest first, holds a commit once, belongs to a trusted
\* publisher, and exceeds MaxRevisions only by one revision, that was kept
\* because the policy accepts it (upsertRevision, capRevisionsLocked).
RevisionsWellFormed ==
  \A k \in Pairs :
    /\ NewestFirst(entries[k])
    /\ DistinctCommits(entries[k])
    /\ Len(entries[k]) <= MaxRevisions + 1
    /\ \A i \in DOMAIN entries[k] : /\ PairOf(entries[k][i].event) = k
                                    /\ Validate(config, entries[k][i].event)

\* Recency alone never drops a release: whatever has been ingested is still
\* listed, or its commit is by a newer event, or MaxRevisions revisions that
\* are no older stand in front (upsertRevision, capRevisionsLocked).
NewestRevisionsRetained ==
  \A r \in ingested : Retained(entries[PairOf(r.event)], r)

\* The store holds the newest word of each verifier on each revision, in
\* whatever order relays deliver (storeAttestationLocked).
NewestAttestationWins ==
  \A a \in attested : \E b \in attestations :
    SameSlot(a, b) /\ b.created >= a.created

OneAttestationPerSlot ==
  \A a, b \in attestations : SameSlot(a, b) => a = b

\* A listed app's repository has been checked, and under require it rests on
\* that many different trusted verifiers whose last word on exactly this source,
\* commit and content is acceptable (WriteSnapshot, Evaluate).
LastWord(v, r) ==
  {a \in attested :
     /\ a.verifier = v
     /\ AttestationKey(a) = AttestationKey(r.event)
     /\ \A b \in attested : SameSlot(a, b) => a.created >= b.created}

Vouching(r) ==
  {v \in {a.verifier : a \in attested} :
     /\ TrustedVerifier(config, v)
     /\ \E a \in LastWord(v, r) : a.hashes = r.event.hashes /\ Acceptable(config, a)}

ListedAppsHaveEvidence ==
  \A app \in Apps : \A r \in ListedFor(app) :
    /\ r.manifest
    /\ config.mode = "require" =>
         Cardinality(Vouching(r)) >= EffectiveMinimumAttestations(config)

\* What the catalogue says of a listed app agrees with why it is listed: its
\* repository has been checked and, where the policy asks for passing results of
\* so many verifiers, they show in its attestation_status, which is computed
\* without the policy (ComputeAttestationStatus).
LabelsAgreeWithPolicy ==
  \A app \in Apps : \A r \in ListedFor(app) :
    LET status == AttestationStatus(r.manifest, Evidence(r))
    IN  /\ status # "unverified"
        /\ config.mode = "require" /\ config.requiredChecks = {} =>
             IF EffectiveMinimumAttestations(config) >= 2
               THEN status = "multi_verified"
               ELSE status \in {"ci_verified", "multi_verified"}

\* The order in which Go's map iteration yields the publishers of an app never
\* decides what the catalogue lists (WriteSnapshot, selectSameSourceLatest,
\* SelectCanonical).
SnapshotIsDeterministic ==
  \A app \in Apps :
    Cardinality(SnapshotOutcomes(config, entries, attestations, endorsements, app)) = 1

\* A contested app is listed only when its sources agree, or when one publisher
\* has strictly more endorsements than every rival and enough of them.
OneSource(candidates) ==
  \A c, d \in candidates : NormalizeRepository(c.event.repository)
                            = NormalizeRepository(d.event.repository)

ContestedAppsAreResolved ==
  \A app \in Apps :
    LET candidates == Candidates(config, entries, attestations, app)
        count(c)   == EndorsementCount(endorsements, c.event.publisher, app)
    IN  \A r \in ListedFor(app) : \A c \in candidates \ {r} :
          \/ OneSource(candidates)
          \/ /\ count(r) > count(c)
             /\ count(r) >= config.minimumEndorsements
             /\ CurationConfigured(config)

\* Publishers of one source are never in dispute: the app is listed, at the
\* latest package version any of them offers, whichever event is the newest and
\* whatever the endorsements (selectSameSourceLatest, comparePackageVersions).
SameSourceNewestVersion ==
  \A app \in Apps :
    LET candidates == Candidates(config, entries, attestations, app)
    IN  candidates # {} /\ OneSource(candidates) =>
          \E r \in ListedFor(app) : \A c \in candidates :
            ~LaterVersion(c.event.version, r.event.version)

\* Saving the store and loading the file under the same configuration offers
\* the same revision for every pair, at every moment (Save, Load).
ReloadPreservesOffers ==
  LET cache == CacheOf(entries, attestations)
  IN  \A k \in Pairs :
        SelectAccepted(config, LoadAttestations(cache), LoadEntries(config, cache)[k])
          = Offer(k)

-----------------------------------------------------------------------------
(* Action properties *)

\* An installable revision is never taken away, nor moved back to an older one,
\* by a step that leaves its evidence in place: whatever arrives, the catalogue
\* stays on it or advances (Phase 11, "do not let the new unverified release
\* replace a previously trusted catalogue entry").
OfferAdvances ==
  \A k \in Pairs : \A r \in Offer(k) :
    Evidence(r) \subseteq Evidence(r)' =>
      \E s \in Offer(k)' : s.event.created >= r.event.created

InstallableRevisionPinned == [][OfferAdvances]_vars

\* The catalogue changes with what the store has of some publisher.
Relists ==
  /\ entries' # entries
  /\ \E app \in Apps : ListedFor(app)' # ListedFor(app)

\* A declaration the policy does not accept changes nothing in the generated
\* catalogue, for its own app or any other, whoever published it, whatever its
\* arrival evicts from the store and how often it has arrived before.
UnacceptedDeclarationIsInert ==
  [][ Relists =>
        \A e \in DeclEvents : IngestVerifiedPackage(e) =>
          Installable(config, attestations, Fetched(e)) ]_vars

\* "A catalogue must not downgrade an accepted package because it received an
\* older event" (docs/event-schema.md:84-85): a declaration that is not newer than
\* what its publisher offers of the app changes nothing in the catalogue, replayed
\* or late, installable or not, whatever it evicts.
OlderEventsNeverDowngrade ==
  [][ Relists =>
        \A e \in DeclEvents : IngestVerifiedPackage(e) =>
          \A q \in Offer(PairOf(e)) : e.created > q.event.created ]_vars

\* A further endorsement of a publisher never costs that publisher its place in
\* the catalogue (IngestEndorsement, SelectCanonical).
EndorsementNeverHurts ==
  [][ \A n \in endorsements' \ endorsements :
        \A r \in ListedFor(n.app) :
          r.event.publisher = n.publisher => r \in ListedFor(n.app)' ]_vars

\* A verifier's stored attestation is replaced by a strictly newer one only,
\* and never simply disappears (storeAttestationLocked).
AttestationsAdvance ==
  [][ \A a \in attestations \ attestations' :
        \E b \in attestations' : SameSlot(a, b) /\ b.created > a.created ]_vars

\* The sentence's other half, "or an older package version": the installable
\* revision of a pair never goes back to an older version.  The code orders a
\* publisher's revisions by the age of the event, not by version (store.go:170).
NeverDowngrades ==
  [][ \A k \in Pairs : \A r \in Offer(k) : \A s \in Offer(k)' :
        Evidence(r) \subseteq Evidence(r)' =>
          ~LaterVersion(r.event.version, s.event.version) ]_vars
=============================================================================
