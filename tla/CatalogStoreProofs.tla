------------------------- MODULE CatalogStoreProofs -------------------------
(***************************************************************************)
(* Theorems about CatalogStore, for every set of events, configurations    *)
(* and publishers and every MaxRevisions > 0.  They rest on one inductive  *)
(* invariant, StoreInvariant; the facts about the operators are the lemmas *)
(* of CatalogLemmas.                                                       *)
(***************************************************************************)
EXTENDS CatalogStore, CatalogLemmas

\* A stored revision that counts as checked was found in its repository as
\* declared; and outside tests each one has been checked.
FetchedOnly ==
  \A k \in Pairs : \A i \in DOMAIN entries[k] :
    /\ UnverifiedPath \/ entries[k][i].manifest
    /\ entries[k][i].manifest =>
         RepositoryConfirms(entries[k][i].event) /\ Translates(entries[k][i].event)

\* The inductive invariant.  The list lemmas need NewestFirst and
\* DistinctCommits of what they start from, retention needs them to survive
\* each step, and the acceptance of more evidence needs a finite store.
StoreInvariant ==
  /\ TypeOK
  /\ RevisionsWellFormed
  /\ NewestRevisionsRetained
  /\ OneAttestationPerSlot
  /\ NewestAttestationWins
  /\ FetchedOnly
  /\ IsFiniteSet(attestations)

-----------------------------------------------------------------------------
(* The invariant is inductive *)

\* It holds in an empty store.
LEMMA InitEstablishes == Init => StoreInvariant
<1> SUFFICES ASSUME Init PROVE StoreInvariant
  OBVIOUS
<1>1. <<>> \in Seq(Revisions) /\ Len(<<>>) = 0 /\ DOMAIN <<>> = {}
  OBVIOUS
<1>2. TypeOK
  BY <1>1 DEF Init, TypeOK
<1>3. RevisionsWellFormed
  BY <1>1, MaxRevisionsAssumption
     DEF Init, RevisionsWellFormed, NewestFirst, DistinctCommits
<1>4. NewestRevisionsRetained /\ OneAttestationPerSlot /\ NewestAttestationWins
  BY DEF Init, NewestRevisionsRetained, OneAttestationPerSlot, NewestAttestationWins
<1>5. FetchedOnly
  BY <1>1 DEF Init, FetchedOnly
<1>6. IsFiniteSet(attestations)
  BY FS_EmptySet DEF Init
<1> QED
  BY <1>2, <1>3, <1>4, <1>5, <1>6 DEF StoreInvariant

\* Adding a valid revision, verified or on the unverified path, preserves it.
LEMMA AddPreserves ==
  ASSUME StoreInvariant,
         NEW r \in Revisions, Validate(config, r.event),
         UnverifiedPath \/ r.manifest,
         r.manifest => RepositoryConfirms(r.event) /\ Translates(r.event),
         Add(r)
  PROVE  StoreInvariant'
<1> DEFINE k == PairOf(r.event)
           a == AddRevision(config, attestations, entries[k], r)
<1>1. /\ k \in Pairs
      /\ entries \in [Pairs -> Seq(Revisions)]
      /\ entries[k] \in Seq(Revisions)
      /\ NewestFirst(entries[k]) /\ DistinctCommits(entries[k])
  BY RevisionFields DEF StoreInvariant, TypeOK, RevisionsWellFormed
<1>2. /\ entries' = [entries EXCEPT ![k] = a]
      /\ ingested' = ingested \cup {r}
      /\ UNCHANGED <<config, attestations, endorsements, attested>>
  BY DEF Add
<1>3. /\ a \in Seq(Revisions)
      /\ NewestFirst(a) /\ DistinctCommits(a)
      /\ Len(a) <= MaxRevisions + 1
      /\ \A i \in 1 .. Len(a) : a[i] = r \/ \E j \in 1 .. Len(entries[k]) : a[i] = entries[k][j]
  BY <1>1, AddProperties
<1>4. DOMAIN a = 1 .. Len(a) /\ DOMAIN entries[k] = 1 .. Len(entries[k])
  BY <1>1, <1>3, LenProperties
<1>5. /\ entries'[k] = a
      /\ \A l \in Pairs : l # k => entries'[l] = entries[l]
      /\ entries' \in [Pairs -> Seq(Revisions)]
  <2> HIDE DEF a, k
  <2> QED
    BY <1>1, <1>2, <1>3
<1>6. \A q \in Revisions : q = r \/ Retained(entries[k], q) => Retained(a, q)
  BY <1>1, AddRetains
<1> HIDE DEF a
<1>7. TypeOK'
  BY <1>2, <1>5 DEF StoreInvariant, TypeOK
<1>8. RevisionsWellFormed'
  <2> SUFFICES ASSUME NEW l \in Pairs
               PROVE  /\ NewestFirst(entries'[l])
                      /\ DistinctCommits(entries'[l])
                      /\ Len(entries'[l]) <= MaxRevisions + 1
                      /\ \A i \in DOMAIN entries'[l] :
                           /\ PairOf(entries'[l][i].event) = l
                           /\ Validate(config, entries'[l][i].event)
    BY <1>2 DEF RevisionsWellFormed
  <2>1. CASE l # k
    BY <1>5, <2>1 DEF StoreInvariant, RevisionsWellFormed
  <2>2. CASE l = k
    <3>1. \A i \in DOMAIN entries[k] : /\ PairOf(entries[k][i].event) = k
                                       /\ Validate(config, entries[k][i].event)
      BY <1>1 DEF StoreInvariant, RevisionsWellFormed
    <3>2. \A i \in 1 .. Len(a) : PairOf(a[i].event) = k /\ Validate(config, a[i].event)
      BY <1>3, <1>4, <3>1
    <3> QED
      BY <1>3, <1>4, <1>5, <2>2, <3>2
  <2> QED
    BY <2>1, <2>2
<1>9. NewestRevisionsRetained'
  <2> SUFFICES ASSUME NEW q \in ingested \cup {r}
               PROVE  Retained(entries'[PairOf(q.event)], q)
    BY <1>2 DEF NewestRevisionsRetained, Retained
  <2>1. q \in Revisions /\ PairOf(q.event) \in Pairs
    BY RevisionFields DEF StoreInvariant, TypeOK
  <2>2. q # r => Retained(entries[PairOf(q.event)], q)
    BY DEF StoreInvariant, NewestRevisionsRetained
  <2>3. CASE PairOf(q.event) = k
    BY <1>5, <1>6, <2>1, <2>2, <2>3
  <2>4. CASE PairOf(q.event) # k
    BY <1>5, <2>1, <2>2, <2>4
  <2> QED
    BY <2>3, <2>4
<1>10. OneAttestationPerSlot' /\ NewestAttestationWins'
  BY <1>2 DEF StoreInvariant, OneAttestationPerSlot, NewestAttestationWins
<1>11. FetchedOnly'
  <2> DEFINE Checked(q) ==
               /\ UnverifiedPath \/ q.manifest
               /\ q.manifest => RepositoryConfirms(q.event) /\ Translates(q.event)
  <2> SUFFICES ASSUME NEW l \in Pairs, NEW i \in DOMAIN entries'[l]
               PROVE  Checked(entries'[l][i])
    BY DEF FetchedOnly
  <2>1. Checked(r) /\ \A m \in Pairs : \A j \in DOMAIN entries[m] : Checked(entries[m][j])
    BY DEF StoreInvariant, FetchedOnly
  <2> HIDE DEF Checked
  <2>2. CASE l # k
    BY <1>5, <2>1, <2>2
  <2>3. CASE l = k
    BY <1>3, <1>4, <1>5, <2>1, <2>3
  <2> QED
    BY <2>2, <2>3
<1>12. IsFiniteSet(attestations')
  BY <1>2 DEF StoreInvariant
<1> QED
  BY <1>7, <1>8, <1>9, <1>10, <1>11, <1>12 DEF StoreInvariant

\* So does an attestation, early, late, duplicated or forged.
LEMMA AttestationPreserves ==
  ASSUME StoreInvariant, NEW a \in AttEvents, IngestAttestation(a)
  PROVE  StoreInvariant'
<1>1. /\ attestations' = StoreAttestation(attestations, a)
      /\ attested' = attested \cup {a}
      /\ UNCHANGED <<config, entries, endorsements, ingested>>
  BY DEF IngestAttestation
<1>2. attestations \in SUBSET AttEvents /\ attested \in SUBSET AttEvents
  BY DEF StoreInvariant, TypeOK
<1>3. /\ attestations' \subseteq attestations \cup {a}
      /\ \A b \in attestations \ attestations' :
           SameSlot(a, b) /\ a.created > b.created /\ a \in attestations'
      /\ \E b \in attestations' : SameSlot(a, b) /\ b.created >= a.created
      /\ (\A b, c \in attestations : SameSlot(b, c) => b = c)
           => (\A b, c \in attestations' : SameSlot(b, c) => b = c)
  BY <1>1, <1>2, StoreAttestationProperties
<1>4. TypeOK'
  BY <1>1, <1>2, <1>3 DEF StoreInvariant, TypeOK
<1>5. RevisionsWellFormed' /\ NewestRevisionsRetained' /\ FetchedOnly'
  BY <1>1 DEF StoreInvariant, RevisionsWellFormed, NewestRevisionsRetained, FetchedOnly
<1>6. OneAttestationPerSlot'
  BY <1>3 DEF StoreInvariant, OneAttestationPerSlot
<1>7. NewestAttestationWins'
  <2> SUFFICES ASSUME NEW c \in attested \cup {a}
               PROVE  \E b \in attestations' : SameSlot(c, b) /\ b.created >= c.created
    BY <1>1 DEF NewestAttestationWins, SameSlot
  <2>1. CASE c = a
    BY <1>3, <2>1
  <2>2. CASE c \in attested
    <3>1. PICK b \in attestations : SameSlot(c, b) /\ b.created >= c.created
      BY <2>2 DEF StoreInvariant, NewestAttestationWins
    <3>2. CASE b \in attestations'
      BY <3>1, <3>2
    <3>3. CASE b \notin attestations'
      <4>1. SameSlot(a, b) /\ a.created > b.created /\ a \in attestations'
        BY <1>3, <3>3
      <4>2. SameSlot(c, a)
        BY <3>1, <4>1, SlotsPartition
      <4>3. a.created \in Nat /\ b.created \in Nat /\ c.created \in Nat
        BY <1>2, <2>2, AttEventsAssumption
      <4> QED
        BY <3>1, <4>1, <4>2, <4>3
    <3> QED
      BY <3>2, <3>3
  <2> QED
    BY <2>1, <2>2
<1>8. IsFiniteSet(attestations')
  <2>1. IsFiniteSet(attestations \cup {a})
    BY FS_AddElement DEF StoreInvariant
  <2> QED
    BY <1>3, <2>1, FS_Subset
<1> QED
  BY <1>4, <1>5, <1>6, <1>7, <1>8 DEF StoreInvariant

\* Endorsements touch nothing the invariant is about.
LEMMA EndorsementPreserves ==
  ASSUME StoreInvariant, NEW n \in EndorsementEvents, IngestEndorsement(n)
  PROVE  StoreInvariant'
<1>1. /\ endorsements' \subseteq endorsements \cup {n}
      /\ UNCHANGED <<config, entries, attestations, ingested, attested>>
  BY DEF IngestEndorsement, RecordEndorsement
<1>2. TypeOK'
  BY <1>1 DEF StoreInvariant, TypeOK
<1>3. RevisionsWellFormed' /\ NewestRevisionsRetained' /\ FetchedOnly'
  BY <1>1 DEF StoreInvariant, RevisionsWellFormed, NewestRevisionsRetained, FetchedOnly
<1>4. OneAttestationPerSlot' /\ NewestAttestationWins' /\ IsFiniteSet(attestations')
  BY <1>1 DEF StoreInvariant, OneAttestationPerSlot, NewestAttestationWins
<1> QED
  BY <1>2, <1>3, <1>4 DEF StoreInvariant

\* Every step preserves the invariant.
LEMMA StepPreserves == StoreInvariant /\ [Next]_vars => StoreInvariant'
<1> SUFFICES ASSUME StoreInvariant, [Next]_vars PROVE StoreInvariant'
  OBVIOUS
<1>1. ASSUME NEW e \in DeclEvents, IngestVerifiedPackage(e) PROVE StoreInvariant'
  <2>1. Fetched(e) \in Revisions /\ Fetched(e).event = e /\ Fetched(e).manifest
    BY DEF Revisions, Fetched
  <2>2. Validate(config, e) /\ RepositoryConfirms(e) /\ Translates(e) /\ Add(Fetched(e))
    BY <1>1 DEF IngestVerifiedPackage
  <2> QED
    BY <2>1, <2>2, AddPreserves
<1>2. ASSUME NEW e \in DeclEvents, Ingest(e) PROVE StoreInvariant'
  <2> DEFINE r == [event |-> e, manifest |-> FALSE]
  <2>1. r \in Revisions /\ r.event = e /\ ~r.manifest
    BY DEF Revisions
  <2>2. UnverifiedPath /\ Validate(config, e) /\ Add(r)
    BY <1>2 DEF Ingest
  <2> HIDE DEF r
  <2> QED
    BY <2>1, <2>2, AddPreserves
<1>3. ASSUME NEW a \in AttEvents, IngestAttestation(a) PROVE StoreInvariant'
  BY <1>3, AttestationPreserves
<1>4. ASSUME NEW n \in EndorsementEvents, IngestEndorsement(n) PROVE StoreInvariant'
  BY <1>4, EndorsementPreserves
<1>5. CASE UNCHANGED vars
  BY <1>5 DEF vars, StoreInvariant, TypeOK, RevisionsWellFormed, NewestRevisionsRetained,
              OneAttestationPerSlot, NewestAttestationWins, FetchedOnly
<1> QED
  BY <1>1, <1>2, <1>3, <1>4, <1>5 DEF Next

\* The invariant holds in every reachable state.
THEOREM Invariance == Spec => []StoreInvariant
BY InitEstablishes, StepPreserves, PTL DEF Spec

-----------------------------------------------------------------------------
(* What follows from it *)

\* Every variable has its type, whatever is delivered.
THEOREM TypeCorrect == Spec => []TypeOK
<1>1. StoreInvariant => TypeOK
  BY DEF StoreInvariant
<1> QED
  BY <1>1, Invariance, PTL

\* Each pair's list is newest first, holds a commit once, belongs to a trusted
\* publisher and is bounded, whatever order declarations arrive in.
THEOREM ListsStayWellFormed == Spec => []RevisionsWellFormed
<1>1. StoreInvariant => RevisionsWellFormed
  BY DEF StoreInvariant
<1> QED
  BY <1>1, Invariance, PTL

\* Recency alone never drops a release: every ingested revision is still listed
\* by its commit, or MaxRevisions others that are no older stand in front.
THEOREM NewestStayRetained == Spec => []NewestRevisionsRetained
<1>1. StoreInvariant => NewestRevisionsRetained
  BY DEF StoreInvariant
<1> QED
  BY <1>1, Invariance, PTL

\* A verifier has one stored word on a revision, however often relays deliver
\* its attestations.
THEOREM OneWordPerVerifier == Spec => []OneAttestationPerSlot
<1>1. StoreInvariant => OneAttestationPerSlot
  BY DEF StoreInvariant
<1> QED
  BY <1>1, Invariance, PTL

\* That word is its newest, in whatever order its attestations are delivered.
THEOREM VerifiersNewestWord == Spec => []NewestAttestationWins
<1>1. StoreInvariant => NewestAttestationWins
  BY DEF StoreInvariant
<1> QED
  BY <1>1, Invariance, PTL

\* A stored attestation goes only to make room for a strictly newer one of the
\* same verifier about the same revision.
THEOREM AttestationsOnlyAdvance == Spec => AttestationsAdvance
<1> DEFINE Advance == \A a \in attestations \ attestations' :
                        \E b \in attestations' : SameSlot(a, b) /\ b.created > a.created
<1>1. StoreInvariant /\ [Next]_vars => [Advance]_vars
  <2> SUFFICES ASSUME StoreInvariant, [Next]_vars PROVE Advance
    OBVIOUS
  <2>1. CASE attestations' = attestations
    BY <2>1
  <2>2. ASSUME NEW a \in AttEvents, IngestAttestation(a) PROVE Advance
    <3>1. attestations \in SUBSET AttEvents /\ attestations' = StoreAttestation(attestations, a)
      BY <2>2 DEF IngestAttestation, StoreInvariant, TypeOK
    <3>2. \A b \in attestations \ attestations' :
            SameSlot(a, b) /\ a.created > b.created /\ a \in attestations'
      BY <3>1, StoreAttestationProperties
    <3> QED
      BY <3>2, SlotsPartition
  <2> QED
    BY <2>1, <2>2 DEF Next, vars, IngestVerifiedPackage, Ingest, IngestEndorsement, Add
<1> QED
  BY <1>1, Invariance, PTL DEF Spec, AttestationsAdvance

-----------------------------------------------------------------------------
(* Installable releases stay *)

\* Revisions of one pair and commit that were both let in by the verified path have
\* the same evidence.
LEMMA SameEvidence ==
  ASSUME CommitPinsSource, NEW r \in Revisions, NEW q \in Revisions,
         Genuine(r.event), Genuine(q.event),
         PairOf(r.event) = PairOf(q.event), r.event.commit = q.event.commit
  PROVE  AttestationsFor(attestations, r.event) = AttestationsFor(attestations, q.event)
<1>1. r.event \in DeclEvents /\ q.event \in DeclEvents
  BY RevisionFields
<1>2. AttestationKey(r.event) = AttestationKey(q.event) /\ r.event.hashes = q.event.hashes
  BY <1>1 DEF CommitPinsSource
<1> QED
  BY <1>2 DEF AttestationsFor

\* A stored revision that counts as checked is one that may be let in.
LEMMA StoredIsGenuine ==
  ASSUME StoreInvariant, NEW k \in Pairs, NEW i \in DOMAIN entries[k],
         entries[k][i].manifest
  PROVE  Genuine(entries[k][i].event)
BY DEF StoreInvariant, TypeOK, RevisionsWellFormed, FetchedOnly, Genuine

\* The step that ingests a declaration keeps the offer of its pair or advances it.
LEMMA AddAdvancesOffers ==
  ASSUME CommitPinsSource, StoreInvariant,
         NEW r \in Revisions, r.manifest, Genuine(r.event), Add(r)
  PROVE  OfferAdvances
<1> SUFFICES ASSUME NEW k \in Pairs, NEW q \in Offer(k)
             PROVE  \E s \in Offer(k)' : s.event.created >= q.event.created
  BY DEF OfferAdvances
<1>1. /\ entries \in [Pairs -> Seq(Revisions)]
      /\ entries[k] \in Seq(Revisions)
      /\ NewestFirst(entries[k]) /\ DistinctCommits(entries[k])
  BY DEF StoreInvariant, TypeOK, RevisionsWellFormed
<1>2. /\ Installable(config, attestations, q)
      /\ \E i \in 1 .. Len(entries[k]) : entries[k][i] = q
  BY <1>1, SelectAcceptedProperties DEF Offer
<1>3. /\ q \in Revisions /\ PairOf(q.event) = k /\ q.event.created \in Nat
      /\ Genuine(q.event)
  <2>1. PICK i \in 1 .. Len(entries[k]) : entries[k][i] = q
    BY <1>2
  <2>2. i \in DOMAIN entries[k] /\ entries[k][i] \in Revisions
    BY <1>1, LenProperties, ElementOfSeq
  <2>3. q.manifest
    BY <1>2 DEF Installable
  <2> QED
    BY <2>1, <2>2, <2>3, RevisionFields, StoredIsGenuine DEF StoreInvariant, RevisionsWellFormed
<1>4. /\ entries' = [entries EXCEPT ![PairOf(r.event)] =
                       AddRevision(config, attestations, @, r)]
      /\ config' = config /\ attestations' = attestations
  BY DEF Add
<1>5. CASE k # PairOf(r.event)
  <2>1. entries'[k] = entries[k]
    BY <1>1, <1>4, <1>5
  <2>2. Offer(k)' = Offer(k)
    BY <1>4, <2>1 DEF Offer
  <2> QED
    BY <1>3, <2>2
<1>6. CASE k = PairOf(r.event)
  <2>1. entries'[k] = AddRevision(config, attestations, entries[k], r)
    BY <1>1, <1>4, <1>6
  <2>2. Offer(k)' =
          SelectAccepted(config, attestations,
                         AddRevision(config, attestations, entries[k], r))
    BY <1>4, <2>1 DEF Offer
  <2>3. r.event.commit = q.event.commit
          => AttestationsFor(attestations, r.event) = AttestationsFor(attestations, q.event)
    BY <1>3, <1>6, SameEvidence
  <2>4. \E s \in SelectAccepted(config, attestations,
                                AddRevision(config, attestations, entries[k], r)) :
          s.event.created >= q.event.created
    BY <1>1, <1>2, <1>3, <2>3, AddKeepsInstallable
  <2> QED
    BY <2>2, <2>4
<1> QED
  BY <1>5, <1>6

\* The step that ingests an attestation keeps every offer whose evidence it
\* leaves in place, or advances it.
LEMMA AttestationAdvancesOffers ==
  ASSUME StoreInvariant, NEW a \in AttEvents, IngestAttestation(a)
  PROVE  OfferAdvances
<1> SUFFICES ASSUME NEW k \in Pairs, NEW q \in Offer(k), Evidence(q) \subseteq Evidence(q)'
             PROVE  \E s \in Offer(k)' : s.event.created >= q.event.created
  BY DEF OfferAdvances
<1>1. entries' = entries /\ config' = config /\ config \in Configs
  BY DEF IngestAttestation, StoreInvariant, TypeOK
<1>2. entries[k] \in Seq(Revisions) /\ NewestFirst(entries[k])
  BY DEF StoreInvariant, TypeOK, RevisionsWellFormed
<1>3. /\ Installable(config, attestations, q)
      /\ \E i \in 1 .. Len(entries[k]) : entries[k][i] = q
  BY <1>2, SelectAcceptedProperties DEF Offer
<1>4. IsFiniteSet(attestations')
  BY AttestationPreserves DEF StoreInvariant
<1>5. IsFiniteSet(AttestationsFor(attestations', q.event))
  <2>1. AttestationsFor(attestations', q.event) \subseteq attestations'
    BY DEF AttestationsFor
  <2> QED
    BY <1>4, <2>1, FS_Subset
<1>6. /\ AttestationsFor(attestations, q.event) \subseteq AttestationsFor(attestations', q.event)
      /\ Accepted(config, AttestationsFor(attestations, q.event))
      /\ q.manifest
  BY <1>3 DEF Evidence, Installable
<1>7. Accepted(config, AttestationsFor(attestations', q.event))
  BY <1>1, <1>5, <1>6, AcceptedIsMonotone, ConfigsAssumption
<1>8. Installable(config, attestations', q)
  BY <1>6, <1>7 DEF Installable
<1>9. \A i \in 1 .. Len(entries[k]) : Installable(config, attestations', entries[k][i]) =>
        \E s \in SelectAccepted(config, attestations', entries[k]) :
          s.event.created >= entries[k][i].event.created
  BY <1>2, SelectAcceptedProperties
<1>10. Offer(k)' = SelectAccepted(config, attestations', entries[k])
  BY <1>1 DEF Offer
<1> QED
  BY <1>3, <1>8, <1>9, <1>10

\* An installable release is never taken away, nor moved back to an older one,
\* by anything that leaves its evidence in place: not by newer declarations, not
\* by any number of them, not by attestations or endorsements.  It needs that no
\* publisher declares one commit of an app from two sources, of what may be let in
\* at all, and that every declaration comes through the verified path, as all of
\* main's do.
THEOREM InstallableReleasesStay ==
  ASSUME CommitPinsSource, ~UnverifiedPath
  PROVE  Spec => InstallableRevisionPinned
<1>1. StoreInvariant /\ [Next]_vars => [OfferAdvances]_vars
  <2> SUFFICES ASSUME StoreInvariant, Next PROVE OfferAdvances
    BY DEF Next
  <2>1. ASSUME NEW e \in DeclEvents, IngestVerifiedPackage(e) PROVE OfferAdvances
    <3>1. Fetched(e) \in Revisions /\ Fetched(e).event = e /\ Fetched(e).manifest
      BY DEF Revisions, Fetched
    <3>2. Genuine(e) /\ Add(Fetched(e))
      BY <2>1 DEF IngestVerifiedPackage, Genuine, StoreInvariant, TypeOK
    <3> QED
      BY <3>1, <3>2, AddAdvancesOffers
  <2>2. ASSUME NEW e \in DeclEvents, Ingest(e) PROVE OfferAdvances
    BY <2>2 DEF Ingest
  <2>3. ASSUME NEW a \in AttEvents, IngestAttestation(a) PROVE OfferAdvances
    BY <2>3, AttestationAdvancesOffers
  <2>4. ASSUME NEW n \in EndorsementEvents, IngestEndorsement(n) PROVE OfferAdvances
    <3> SUFFICES ASSUME NEW k \in Pairs, NEW q \in Offer(k)
                 PROVE  \E s \in Offer(k)' : s.event.created >= q.event.created
      BY DEF OfferAdvances
    <3>1. Offer(k)' = Offer(k)
      BY <2>4 DEF IngestEndorsement, Offer
    <3>2. entries[k] \in Seq(Revisions) /\ NewestFirst(entries[k])
      BY DEF StoreInvariant, TypeOK, RevisionsWellFormed
    <3>3. \E i \in 1 .. Len(entries[k]) : entries[k][i] = q
      BY <3>2, SelectAcceptedProperties DEF Offer
    <3>4. q.event.created \in Nat
      BY <3>2, <3>3, ElementOfSeq, RevisionFields
    <3> QED
      BY <3>1, <3>4
  <2> QED
    BY <2>1, <2>2, <2>3, <2>4 DEF Next
<1> QED
  BY <1>1, Invariance, PTL DEF Spec, InstallableRevisionPinned
=============================================================================
