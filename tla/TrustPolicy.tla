---------------------------- MODULE TrustPolicy ----------------------------
(***************************************************************************)
(* The administrator's local trust policy, as pure operators:              *)
(*   - trust.ExplicitPublishers: which publishers may put a declaration    *)
(*     into the store at all (internal/trust/policy.go);                   *)
(*   - trust.AttestationPolicy: what the CI attestations of one exact      *)
(*     revision are worth (internal/trust/attestation_policy.go);          *)
(*   - catalog.ComputeAttestationStatus: the policy-independent reading of *)
(*     the same evidence (internal/catalog/yunohost.go).                   *)
(*                                                                         *)
(* Data.  A declaration event e is a record with the fields                *)
(*   publisher, app, repository, commit, hashes, version, created,         *)
(*   signed           its ID, signature and tags pass protocol's checks,   *)
(*   hashesMatch      the repository at that commit has those hashes,      *)
(*   manifestMatches  its manifest names that app and that version.        *)
(* An attestation event a has verifier, repository, commit, hashes, result,*)
(* passed (the checks it reports as "pass"), created and signed.           *)
(* hashes stands for the pair (manifest hash, content hash).               *)
(* A repository URL is [source, form]: two spellings of the same source    *)
(* differ in form only (a trailing slash, a ".git" suffix).                *)
(* A configuration p has the daemon's flags: publishers, mode, minimum,    *)
(* requiredChecks, verifiers, curators, minimumEndorsements.               *)
(* Op_fault is Op with one plausible mistake; see CatalogData.             *)
(***************************************************************************)
EXTENDS Integers, FiniteSets

AttestationModes == {"off", "prefer", "require"}

\* normalizeRepository: what is left of a URL once the spelling is removed.
NormalizeRepository(url) == url.source

\* attestationKey: the revision an attestation, or a declaration, is about.
AttestationKey(x) == <<NormalizeRepository(x.repository), x.commit>>

\* ExplicitPublishers.Validate: allow-listed publisher, genuine event.
Validate(p, e) == e.publisher \in p.publishers /\ e.signed

\* VerifyDeclaration, then TranslateWithBranch: the checks a declaration passes
\* once its repository has been fetched.  Fetching may also fail for reasons of
\* its own (an unreachable host, a cancelled context).
RepositoryConfirms(e) == e.hashesMatch

Translates(e) == e.manifestMatches

\* acceptable: required checks, when configured, replace the overall result.
Acceptable(p, a) ==
  IF p.requiredChecks = {} THEN a.result = "pass"
                           ELSE p.requiredChecks \subseteq a.passed

\* trustedVerifier: an empty allow-list trusts every verifier.
TrustedVerifier(p, verifier) ==
  p.verifiers = {} \/ verifier \in p.verifiers

\* Zero or a negative minimum means one.
EffectiveMinimumAttestations(p) == IF p.minimum <= 0 THEN 1 ELSE p.minimum

\* The attestations of one revision that count toward Verified.
Counted(p, evidence) ==
  {a \in evidence : TrustedVerifier(p, a.verifier) /\ Acceptable(p, a)}

\* Evaluate(...).Verified
Verified(p, evidence) ==
  Cardinality(Counted(p, evidence)) >= EffectiveMinimumAttestations(p)

\* Evaluate(...).Accepted: only require makes the evidence decide.
Accepted(p, evidence) == p.mode = "require" => Verified(p, evidence)

Passing(evidence) == {a \in evidence : a.result = "pass"}

AttestationStatus_anyFailure(manifest, evidence) ==
  CASE ~manifest                         -> "unverified"
    [] manifest /\ evidence = {}         -> "integrity_verified"
    [] manifest /\ evidence # {} /\ Passing(evidence) # evidence -> "failed"
    [] OTHER -> IF Cardinality(evidence) >= 2 THEN "multi_verified" ELSE "ci_verified"

\* ComputeAttestationStatus: no verifier allow-list and no required checks here.
AttestationStatus(manifest, evidence) ==
  LET passing == Cardinality(Passing(evidence))
  IN  IF ~manifest          THEN "unverified"
      ELSE IF passing >= 2  THEN "multi_verified"
      ELSE IF passing = 1   THEN "ci_verified"
      ELSE IF evidence # {} THEN "failed"
      ELSE "integrity_verified"
=============================================================================
