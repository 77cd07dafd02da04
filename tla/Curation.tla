------------------------------ MODULE Curation ------------------------------
(***************************************************************************)
(* internal/curation: endorsements of a publisher/app pair by curators the *)
(* administrator trusts, and the choice they make between publishers that  *)
(* claim the same app ID from different repositories.                      *)
(*                                                                         *)
(* An endorsement event has curator, publisher, app, claim and signed.     *)
(* A candidate is a revision, [event, manifest].                           *)
(* Op_fault is Op with one plausible mistake; see CatalogData.             *)
(***************************************************************************)
EXTENDS Integers, FiniteSets, SequencesExt

\* Claims that carry weight; any other claim is stored and counts for nothing.
WeightyClaims == {"recommend", "tested"}

\* main passes no curation policy to the store when no curator is configured.
CurationConfigured(p) == p.curators # {}

\* Policy.Accept: a genuine event of a trusted curator.
AcceptEndorsement(p, n) == n.signed /\ n.curator \in p.curators

RecordEndorsement_lastClaim(endorsements, n) ==
  {x \in endorsements : x.curator # n.curator} \cup {n}

\* Store.IngestEndorsement: the first claim of a curator about a pair stays.
RecordEndorsement(endorsements, n) ==
  IF \E x \in endorsements : /\ x.curator = n.curator
                             /\ x.publisher = n.publisher
                             /\ x.app = n.app
    THEN endorsements
    ELSE endorsements \cup {n}

\* EndorsementCounts: distinct curators with a weighty claim.
EndorsementCount(endorsements, publisher, app) ==
  Cardinality({n.curator : n \in {x \in endorsements :
                  /\ x.publisher = publisher
                  /\ x.app = app
                  /\ x.claim \in WeightyClaims}})

ConsiderCandidate_firstWins(p, endorsements, state, c) ==
  LET count == EndorsementCount(endorsements, c.event.publisher, c.event.app)
  IN  IF count < p.minimumEndorsements \/ count <= state.best THEN state
      ELSE [selected |-> {c}, best |-> count, tied |-> FALSE]

ConsiderCandidate_noMinimum(p, endorsements, state, c) ==
  LET count == EndorsementCount(endorsements, c.event.publisher, c.event.app)
  IN  IF count < state.best THEN state
      ELSE IF count = state.best THEN [state EXCEPT !.tied = TRUE]
      ELSE [selected |-> {c}, best |-> count, tied |-> FALSE]

\* One iteration of SelectCanonical's loop over the candidates.
ConsiderCandidate(p, endorsements, state, c) ==
  LET count == EndorsementCount(endorsements, c.event.publisher, c.event.app)
  IN  IF count < p.minimumEndorsements \/ count < state.best THEN state
      ELSE IF count = state.best THEN [state EXCEPT !.tied = TRUE]
      ELSE [selected |-> {c}, best |-> count, tied |-> FALSE]

\* SelectCanonical: {} when no selection is safe, else the one candidate.
SelectCanonical(p, candidates, endorsements) ==
  LET start  == [selected |-> {}, best |-> 0, tied |-> FALSE]
      result == FoldLeft(LAMBDA state, c :
                           ConsiderCandidate(p, endorsements, state, c),
                         start, candidates)
  IN  IF result.tied THEN {} ELSE result.selected
=============================================================================
