---------------------------- MODULE CatalogData ----------------------------
(***************************************************************************)
(* The data structures of catalog.Store (internal/catalog/store.go) and    *)
(* the functions on them.  No state: CatalogStore and Catalogd run these   *)
(* operators under the store's lock.                                       *)
(*                                                                         *)
(*   revisions     what one publisher/app pair holds, newest first: a      *)
(*                 sequence of [event, manifest] (manifest is FALSE for a  *)
(*                 record whose repository was never fetched)              *)
(*   entries       [pair -> revisions]                                     *)
(*   attestations  a set of attestation events, at most one for each slot  *)
(*                 (revision key, verifier): the two-level map flattened   *)
(*                                                                         *)
(* An operator named Op_fault is Op with one plausible mistake.  Nothing   *)
(* uses it: putting it in the place of Op must violate a property.         *)
(***************************************************************************)
EXTENDS Integers, FiniteSets, SequencesExt, TrustPolicy, Curation, PackageVersions

CONSTANTS Publishers,    \* public keys, ordered as their hex strings are
          Apps,
          MaxRevisions   \* maxRevisionsPerKey

ASSUME PublishersAssumption == Publishers \subseteq Int
ASSUME MaxRevisionsAssumption == MaxRevisions \in Nat \ {0}

Pairs == Publishers \X Apps

PairOf(e) == <<e.publisher, e.app>>

-----------------------------------------------------------------------------
(* Revisions *)

\* sort.Slice on a list that is newest first but for r: r goes after every
\* revision that is not older (at most MaxRevisions + 2 = 12 elements, which
\* sort.Slice sorts by insertion and therefore stably).
InsertNewestFirst(revisions, r) ==
  [i \in 1 .. Len(revisions) + 1 |->
     IF i <= Len(revisions) /\ revisions[i].event.created >= r.event.created
       THEN revisions[i]
       ELSE IF i = 1 \/ revisions[i-1].event.created >= r.event.created
              THEN r
              ELSE revisions[i-1]]

UpsertRevision_commitTwice(revisions, r) == InsertNewestFirst(revisions, r)

UpsertRevision_latestOnly(revisions, r) ==
  IF revisions # <<>> /\ revisions[1].event.created >= r.event.created
    THEN revisions ELSE <<r>>

UpsertRevision_replaces(revisions, r) ==
  LET same == {i \in DOMAIN revisions :
                 revisions[i].event.commit = r.event.commit}
  IN  IF same = {} THEN InsertNewestFirst(revisions, r)
      ELSE InsertNewestFirst(RemoveAt(revisions, Min(same)), r)

\* upsertRevision: one revision for each commit, replaced only by a newer event.
UpsertRevision(revisions, r) ==
  LET same == {i \in DOMAIN revisions :
                 revisions[i].event.commit = r.event.commit}
  IN  IF same = {} THEN InsertNewestFirst(revisions, r)
      ELSE LET i == Min(same)
           IN  IF revisions[i].event.created >= r.event.created
                 THEN revisions
                 ELSE InsertNewestFirst(RemoveAt(revisions, i), r)

AttestationsFor_anyContent(attestations, e) ==
  {a \in attestations : AttestationKey(a) = AttestationKey(e)}

\* attestationsForLocked: same revision key and the same declared hashes.
AttestationsFor(attestations, e) ==
  {a \in attestations : AttestationKey(a) = AttestationKey(e) /\ a.hashes = e.hashes}

Installable_unverified(p, attestations, r) ==
  Accepted(p, AttestationsFor(attestations, r.event))

\* Repository-verified, and accepted on the evidence for its exact revision.
Installable(p, attestations, r) ==
  r.manifest /\ Accepted(p, AttestationsFor(attestations, r.event))

CapRevisions_recencyOnly(p, attestations, revisions) ==
  IF Len(revisions) <= MaxRevisions THEN revisions
                                    ELSE SubSeq(revisions, 1, MaxRevisions)

CapRevisions_offByOne(p, attestations, revisions) ==
  IF Len(revisions) < MaxRevisions THEN revisions
                                   ELSE SubSeq(revisions, 1, MaxRevisions - 1)

\* capRevisionsLocked: the first MaxRevisions and, beyond them, the newest
\* revision the policy accepts.
CapRevisions(p, attestations, revisions) ==
  IF Len(revisions) <= MaxRevisions THEN revisions
  ELSE LET beyond == {i \in MaxRevisions + 1 .. Len(revisions) :
                        Installable(p, attestations, revisions[i])}
           kept   == SubSeq(revisions, 1, MaxRevisions)
       IN  IF beyond = {} THEN kept ELSE Append(kept, revisions[Min(beyond)])

AddRevision(p, attestations, revisions, r) ==
  CapRevisions(p, attestations, UpsertRevision(revisions, r))

\* selectAcceptedRevisionLocked: {} or the newest installable revision.
SelectAccepted(p, attestations, revisions) ==
  LET ok == {i \in DOMAIN revisions : Installable(p, attestations, revisions[i])}
  IN  IF ok = {} THEN {} ELSE {revisions[Min(ok)]}

-----------------------------------------------------------------------------
(* Attestations *)

SameSlot(a, b) == AttestationKey(a) = AttestationKey(b) /\ a.verifier = b.verifier

StoreAttestation_lastDelivered(attestations, a) ==
  {b \in attestations : ~SameSlot(a, b)} \cup {a}

StoreAttestation_datesOnly(attestations, a) ==
  LET slot == {b \in attestations : SameSlot(a, b)}
  IN  IF slot = {} THEN attestations \cup {a}
      ELSE (attestations \ slot) \cup
             {[b EXCEPT !.created = Max({b.created, a.created})] : b \in slot}

StoreAttestation_sameSecond(attestations, a) ==
  IF \E b \in attestations : SameSlot(a, b) /\ b.created > a.created
    THEN attestations
    ELSE {b \in attestations : ~SameSlot(a, b)} \cup {a}

StoreAttestation_keepsBoth(attestations, a) ==
  IF \E b \in attestations : SameSlot(a, b) /\ b.created >= a.created
    THEN attestations
    ELSE attestations \cup {a}

\* storeAttestationLocked: a slot is refilled only by a strictly newer event.
StoreAttestation(attestations, a) ==
  IF \E b \in attestations : SameSlot(a, b) /\ b.created >= a.created
    THEN attestations
    ELSE {b \in attestations : ~SameSlot(a, b)} \cup {a}

-----------------------------------------------------------------------------
(* The generated catalogue *)

\* newerRecord.  Candidates of one app have different publishers, so the last
\* tie-break, on event IDs, is never reached.
NewerRecord(l, r) ==
  IF l.event.created # r.event.created
    THEN l.event.created > r.event.created
    ELSE l.event.publisher > r.event.publisher

Supersedes_newestEvent(l, r) == NewerRecord(l, r)

\* The comparison inside selectSameSourceLatest.
Supersedes(l, r) ==
  LET order == ComparePackageVersions(l.event.version, r.event.version)
  IN  order > 0 \/ (order = 0 /\ NewerRecord(l, r))

SelectSameSourceLatest(candidates) ==
  LET source(c) == NormalizeRepository(c.event.repository)
  IN  IF \E i \in DOMAIN candidates : source(candidates[i]) # source(candidates[1])
        THEN {}
        ELSE {FoldLeft(LAMBDA selected, c :
                         IF Supersedes(c, selected) THEN c ELSE selected,
                       candidates[1], Tail(candidates))}

\* byAppID[app]: what each publisher of app offers.
Candidates(p, entries, attestations, app) ==
  UNION {SelectAccepted(p, attestations, entries[<<q, app>>]) : q \in Publishers}

\* WriteSnapshot's decision for one app, given the candidates in the order the
\* Go map happened to yield them: {} (left out) or the one selected revision.
SelectForApp(p, candidates, endorsements) ==
  IF Len(candidates) <= 1 THEN ToSet(candidates)
  ELSE LET sameSource == SelectSameSourceLatest(candidates)
       IN  IF sameSource # {} THEN sameSource
           ELSE IF ~CurationConfigured(p) THEN {}
           ELSE SelectCanonical(p, candidates, endorsements)

\* Every decision some iteration order leads to.
SnapshotOutcomes(p, entries, attestations, endorsements, app) ==
  {SelectForApp(p, candidates, endorsements) :
     candidates \in SetToSeqs(Candidates(p, entries, attestations, app))}

\* The app's entry in /v3/apps.json: {} or {revision}.
Listed(p, entries, attestations, endorsements, app) ==
  CHOOSE outcome \in SnapshotOutcomes(p, entries, attestations, endorsements, app) :
    TRUE

-----------------------------------------------------------------------------
(* The cache file *)

\* Save's copy of the store: endorsements are not part of it.
CacheOf(entries, attestations) == [entries |-> entries, attestations |-> attestations]

\* Load, first loop: replay the cached attestations.
LoadAttestations(cache) ==
  FoldSet(LAMBDA a, loaded : IF a.signed THEN StoreAttestation(loaded, a) ELSE loaded,
          {}, cache.attestations)

LoadRevision_trusted(p, attestations, loaded, r) ==
  IF r.manifest THEN AddRevision(p, attestations, loaded, r) ELSE loaded

\* Load, second loop: each cached revision is validated again, under the policy
\* of today, and goes through the same insertion and eviction as a live one.
LoadRevision(p, attestations, loaded, r) ==
  IF Validate(p, r.event) /\ r.manifest /\ Translates(r.event)
    THEN AddRevision(p, attestations, loaded, r)
    ELSE loaded

LoadEntries_declarationsFirst(p, cache) ==
  [k \in DOMAIN cache.entries |->
     FoldLeft(LAMBDA loaded, r : LoadRevision(p, {}, loaded, r), <<>>, cache.entries[k])]

LoadEntries(p, cache) ==
  LET restored == LoadAttestations(cache)
  IN  [k \in DOMAIN cache.entries |->
         FoldLeft(LAMBDA loaded, r : LoadRevision(p, restored, loaded, r),
                  <<>>, cache.entries[k])]
=============================================================================
