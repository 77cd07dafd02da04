---------------------------- MODULE CatalogEvents ----------------------------
(***************************************************************************)
(* What the store and the daemon around it are told: the events relays can *)
(* deliver, the configurations an administrator may choose, the revisions  *)
(* made of declarations, and what is said of lists of them.                *)
(***************************************************************************)
EXTENDS CatalogData

CONSTANTS DeclEvents,         \* declaration events (kind 30078)
          AttEvents,          \* attestation events (kind 30080)
          EndorsementEvents,  \* endorsement events (kind 30079)
          Configs             \* the configurations an administrator may choose

ASSUME DeclEventsAssumption ==
  \A e \in DeclEvents : /\ PairOf(e) \in Pairs
                        /\ e.created \in Nat
                        /\ e.signed \in BOOLEAN
                        /\ e.hashesMatch \in BOOLEAN
                        /\ e.manifestMatches \in BOOLEAN
                        /\ e.version \in Versions
ASSUME AttEventsAssumption ==
  \A a \in AttEvents : a.created \in Nat /\ a.signed \in BOOLEAN
ASSUME EndorsementEventsAssumption ==
  \A n \in EndorsementEvents : n.app \in Apps
ASSUME ConfigsAssumption ==
  \A p \in Configs : /\ p.minimum \in Int
                      /\ p.mode \in AttestationModes
                      /\ p.minimumEndorsements \in Int

Revisions == [event : DeclEvents, manifest : BOOLEAN]

NewestFirst(revisions) ==
  \A i, j \in DOMAIN revisions :
    i < j => revisions[i].event.created >= revisions[j].event.created

DistinctCommits(revisions) ==
  \A i, j \in DOMAIN revisions :
    revisions[i].event.commit = revisions[j].event.commit => i = j

\* Of r or of a newer event for its commit, or behind MaxRevisions revisions
\* that are no older.
Retained(revisions, r) ==
  \/ \E i \in DOMAIN revisions :
       /\ revisions[i].event.commit = r.event.commit
       /\ revisions[i].event.created >= r.event.created
  \/ /\ Len(revisions) >= MaxRevisions
     /\ revisions[MaxRevisions].event.created >= r.event.created
=============================================================================
