--------------------------- MODULE Reverification ---------------------------
(***************************************************************************)
(* Checking a published attestation again (internal/reverify): against the *)
(* declaration it is about, and against a fresh clone of the repository at *)
(* the attested commit.  Two callers:                                      *)
(*   - handleReverify of the admin page: all the attestations the store    *)
(*     counts for one revision, in order of verifier, within one deadline; *)
(*   - nostr-ynh reverify: the newest attestation and declaration that the *)
(*     relays have, each fetched and cloned under a deadline of its own.   *)
(* Repositories may be rewritten, and events published, at any time.       *)
(*                                                                         *)
(*   hosted[r]    what cloning revision r = <<source, commit>> finds: the  *)
(*                hashes, or Gone                                          *)
(*   published    the declarations and attestations on the relays          *)
(*   check        the request, or the command: pc "idle", "declaration"    *)
(*                (the command is about to fetch it) or "clone" (the first *)
(*                of todo comes next); left is what remains of the         *)
(*                deadline; known are the declarations the relays returned *)
(* How long the answer takes is not modelled: git's helpers may outlive    *)
(* the git that the deadline kills, and keep its caller waiting.           *)
(* matches is a history variable: each result that says MATCH, with what   *)
(* the repository held when it was cloned.                                 *)
(* Op_fault is Op with one plausible mistake.                              *)
(***************************************************************************)
EXTENDS CatalogData

CONSTANTS CheckedDecls,      \* declaration events
          CheckedAtts,       \* attestation events; each names its app
          Contents,          \* hashes a rewritten repository may have
          Gone,              \* no such repository or commit
          CheckTimeout,      \* reverifyTimeout, relayTimeout, in ticks
          MaxRewrites        \* bound on the rewritten repositories

ASSUME CheckTimeoutAssumption == CheckTimeout \in Nat \ {0}
ASSUME MaxRewritesAssumption == MaxRewrites \in Nat
ASSUME ContentAssumption == \A d \in CheckedDecls : d.hashes # Gone

VARIABLES hosted, published, check, matches, rewrites

checkVars == <<hosted, published, check, matches, rewrites>>

CheckedEvents == CheckedDecls \cup CheckedAtts

HostedRevisions == {AttestationKey(x) : x \in CheckedEvents}

IdleCheck == [pc |-> "idle", decl |-> {}, todo |-> <<>>, left |-> 0, known |-> {}]

CheckInit ==
  /\ hosted = [r \in HostedRevisions |-> Gone]
  /\ published = {}
  /\ check = IdleCheck
  /\ matches = {}
  /\ rewrites = 0

-----------------------------------------------------------------------------
(* The world outside *)

\* With the first event about a revision there is a repository, though perhaps
\* not with the content the event claims.
PublishEvent(x) ==
  /\ x \notin published
  /\ published' = published \cup {x}
  /\ LET r == AttestationKey(x)
     IN  IF \E y \in published : AttestationKey(y) = r
           THEN UNCHANGED hosted
           ELSE \E found \in Contents : hosted' = [hosted EXCEPT ![r] = found]
  /\ UNCHANGED <<check, matches, rewrites>>

\* A force-push, or a repository taken down.
RewriteRepository(r, found) ==
  /\ rewrites < MaxRewrites
  /\ rewrites' = rewrites + 1
  /\ hosted' = [hosted EXCEPT ![r] = found]
  /\ hosted' # hosted
  /\ UNCHANGED <<published, check, matches>>

-----------------------------------------------------------------------------
(* reverify.Run *)

Mismatches_notHashes(a, d, found) ==
  {field \in {"app", "repository", "commit"} : a[field] # d[field]}
    \cup (IF found # a.hashes THEN {"repository content"} ELSE {})

\* The two URLs are compared as they are spelled.  The clone is compared with
\* the attestation's claims; one that fails or is cut off agrees with nothing.
Mismatches(a, d, found) ==
  {field \in {"app", "repository", "commit", "hashes"} : a[field] # d[field]}
    \cup (IF found # a.hashes THEN {"repository content"} ELSE {})

Least(m, n) == IF m <= n THEN m ELSE n

\* Past the deadline no git command is begun, and one that is still running is
\* killed: the clone fails, whenever its call may return.
Found(a, time) ==
  IF check.left = 0 \/ time > check.left THEN Gone ELSE hosted[AttestationKey(a)]

CloneWith(time, left) ==
  /\ check.pc = "clone"
  /\ check.todo # <<>>
  /\ LET a == Head(check.todo)
     IN  matches' = IF Mismatches(a, check.decl, Found(a, time)) = {}
                      THEN matches \cup {[att |-> a, decl |-> check.decl,
                                          held |-> hosted[AttestationKey(a)],
                                          known |-> check.known]}
                      ELSE matches
  /\ check' = [check EXCEPT !.todo = Tail(@), !.left = left]
  /\ UNCHANGED <<hosted, published, rewrites>>

CloneNext_overdrawn(time) == CloneWith(time, check.left - time)

\* The next attestation, in what the earlier ones have left of the deadline.
CloneNext(time) == CloneWith(time, check.left - Least(time, check.left))

\* The results go out; the command's exit code is 0 for a MATCH.
Report ==
  /\ check.pc = "clone"
  /\ check.todo = <<>>
  /\ check' = IdleCheck
  /\ UNCHANGED <<hosted, published, matches, rewrites>>

-----------------------------------------------------------------------------
(* The admin page *)

\* What the store has of the published attestations: one for each slot.
StoredOf(known) ==
  {a \in known : a.signed /\
     \A b \in known : b.signed /\ SameSlot(a, b) => b.created <= a.created}

\* handleReverify: RevisionAttestations looks an accepted revision up once, in a
\* store that has received some of the attestations.
HandleReverify(d, known) ==
  /\ check.pc = "idle"
  /\ d \in published
  /\ d.signed
  /\ LET counted == AttestationsFor(StoredOf(known), d)
     IN  check' = [pc |-> "clone", decl |-> d, left |-> CheckTimeout,
                   todo |-> SetToSortSeq(counted, LAMBDA a, b : a.verifier < b.verifier),
                   known |-> {}]
  /\ UNCHANGED <<hosted, published, matches, rewrites>>

-----------------------------------------------------------------------------
(* nostr-ynh reverify *)

\* FetchReplaceable: the newest of the events under one address.
Newest(events) == {x \in events : \A y \in events : y.created <= x.created}

\* The command is given an attestation's address: verifier, app and commit.
\* answered is what the relays return for it before the deadline; an event that
\* does not verify or parse, or none, ends the command with code 1.
FetchAttestation(address, answered) ==
  /\ check.pc = "idle"
  /\ \A a \in answered : address = <<a.verifier, a.app, a.commit>>
  /\ \E a \in Newest(answered) :
       /\ a.signed
       /\ check' = [IdleCheck EXCEPT !.pc = "declaration", !.todo = <<a>>]
  /\ UNCHANGED <<hosted, published, matches, rewrites>>

\* The declaration is looked up under the attestation's own verifier.
FetchDeclaration(answered) ==
  /\ check.pc = "declaration"
  /\ LET a == Head(check.todo)
     IN  \A d \in answered : PairOf(d) = <<a.verifier, a.app>>
  /\ IF \E d \in Newest(answered) : d.signed
       THEN \E d \in Newest(answered) :
              /\ d.signed
              /\ check' = [check EXCEPT !.pc = "clone", !.decl = d, !.known = answered,
                                        !.left = CheckTimeout]
       ELSE check' = IdleCheck
  /\ UNCHANGED <<hosted, published, matches, rewrites>>

Addresses == {<<a.verifier, a.app, a.commit>> : a \in CheckedAtts}

CheckNext ==
  \/ \E x \in CheckedEvents : PublishEvent(x)
  \/ \E r \in HostedRevisions, found \in Contents \cup {Gone} : RewriteRepository(r, found)
  \/ \E d \in CheckedDecls, known \in SUBSET (published \cap CheckedAtts) :
       HandleReverify(d, known)
  \/ \E answered \in SUBSET (published \cap CheckedAtts) :
       \E address \in Addresses : FetchAttestation(address, answered)
  \/ \E answered \in SUBSET (published \cap CheckedDecls) : FetchDeclaration(answered)
  \/ \E time \in 0 .. CheckTimeout + 1 : CloneNext(time)
  \/ Report

CheckTypeOK ==
  /\ published \subseteq CheckedEvents
  /\ check.pc \in {"idle", "declaration", "clone"}
  /\ check.left \in 0 .. CheckTimeout
  /\ check.pc = "clone" => check.decl \in CheckedDecls

\* A MATCH is worth something to who reads it: the store would count the
\* attestation toward that declaration, the repository held what both describe
\* when it was looked at, and, for the command, no relay that answered had a newer
\* declaration of the app: "a repository whose branch/tag has been force-pushed",
\* "a declaration silently republished pointing at a different commit" and "an
\* attestation whose claimed hashes never matched" (docs/attestations.md:154-160)
\* do not give one, whatever changes between the steps.
MatchIsEvidence ==
  \A m \in matches :
    /\ m.att.app = m.decl.app
    /\ AttestationsFor({m.att}, m.decl) = {m.att}
    /\ m.held = m.decl.hashes
    /\ \A d \in m.known : d.created <= m.decl.created
=============================================================================
