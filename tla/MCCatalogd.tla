----------------------------- MODULE MCCatalogd -----------------------------
(***************************************************************************)
(* Instances of Catalogd for TLC.                                          *)
(***************************************************************************)
EXTENDS Catalogd

V(n) == <<Run(n)>>

Declaration(publisher, source, commit, version, created) ==
  [publisher |-> publisher, app |-> "app",
   repository |-> [source |-> source, form |-> "plain"],
   commit |-> commit, hashes |-> commit, version |-> version,
   created |-> created, signed |-> TRUE, hashesMatch |-> TRUE,
   manifestMatches |-> TRUE]

Attestation(commit, created, result) ==
  [verifier |-> "v1", repository |-> [source |-> "main", form |-> "dotgit"],
   commit |-> commit, hashes |-> commit, result |-> result, passed |-> {},
   created |-> created, signed |-> TRUE]

Config(mode, publishers, curators) ==
  [publishers |-> publishers, mode |-> mode, minimum |-> 1,
   requiredChecks |-> {}, verifiers |-> {}, curators |-> curators,
   minimumEndorsements |-> 1]

R1 == Declaration(1, "main", "c1", V(1), 1)
R2 == Declaration(1, "main", "c2", V(2), 2)
Fork == Declaration(2, "fork", "f1", V(9), 2)
PassC1 == Attestation("c1", 1, "pass")

\* Two releases and the attestation of the first, with one slot in the store.
TwoReleases == {R1, R2}
OneRelease == {R1}
FirstAttested == {PassC1}
NoAttestations == {}
NoEndorsements == {}
Contested == {R1, Fork}
ForPublisher1 ==
  {[curator |-> "a", publisher |-> 1, app |-> "app", claim |-> "recommend",
    signed |-> TRUE]}

Require == {Config("require", {1, 2}, {})}
Reconfigured == { Config("require", {1, 2}, {}), Config("off", {1, 2}, {}),
                  Config("off", {2}, {"a"}) }
AnyCuration == { Config("off", {1, 2}, {"a"}), Config("off", {1, 2}, {}) }
=============================================================================
