--------------------------- MODULE MCCatalogStore ---------------------------
(***************************************************************************)
(* Instances of CatalogStore for TLC: the events that relays may deliver.  *)
(***************************************************************************)
EXTENDS CatalogStore

Url(source, form) == [source |-> source, form |-> form]

\* "1.<minor>~ynh1", and "1.<minor>.<patch>~ynh1"
Dot == Char(46)
Ynh1 == <<Tilde, Char(121), Char(110), Char(104), Run(1)>>
V(minor) == <<Run(1), Dot, Run(minor)>> \o Ynh1
Patch(minor, patch) == <<Run(1), Dot, Run(minor), Dot, Run(patch)>> \o Ynh1

Declaration(publisher, repository, commit, version, created) ==
  [publisher |-> publisher, app |-> "app", repository |-> repository,
   commit |-> commit, hashes |-> commit, version |-> version,
   created |-> created, signed |-> TRUE, hashesMatch |-> TRUE,
   manifestMatches |-> TRUE]

Attestation(verifier, source, commit, created, result) ==
  [verifier |-> verifier, repository |-> Url(source, "dotgit"), commit |-> commit,
   hashes |-> commit, result |-> result,
   passed |-> IF result = "pass" THEN {"package_check", "lint"} ELSE {"package_check"},
   created |-> created, signed |-> TRUE]

\* Publisher 1 releases four commits, and re-publishes the first one later under
\* another spelling of its URL; publisher 2 claims the app from another source.
R1 == Declaration(1, Url("main", "plain"), "c1", V(1), 1)
R2 == Declaration(1, Url("main", "plain"), "c2", V(2), 2)
R3 == Declaration(1, Url("main", "plain"), "c3", V(3), 3)
R4 == Declaration(1, Url("main", "plain"), "c4", V(4), 3)
R1Again == Declaration(1, Url("main", "dotgit"), "c1", V(1), 4)
Fork == Declaration(2, Url("fork", "plain"), "f1", V(9), 2)

\* Declarations no operation may accept: an untrusted publisher, a forged
\* signature, a repository that does not match, a manifest of another app.
Rejects ==
  { Declaration(3, Url("main", "plain"), "c1", V(1), 5),
    [R1 EXCEPT !.created = 6, !.signed = FALSE],
    [R1 EXCEPT !.created = 7, !.hashesMatch = FALSE, !.hashes = "wrong"],
    [R2 EXCEPT !.created = 8, !.manifestMatches = FALSE, !.version = V(7)] }

\* What verifiers say: two passes for the first commit, one of them withdrawn
\* later; a pass for the second commit; a verdict on other content; a forgery.
PassC1 == Attestation("v1", "main", "c1", 1, "pass")
AlsoPassC1 == Attestation("v2", "main", "c1", 1, "pass")
FailC1 == [Attestation("v1", "main", "c1", 3, "fail") EXCEPT
             !.repository = Url("main", "plain")]
FailC1SameSecond == Attestation("v1", "main", "c1", 1, "fail")
PassC2 == Attestation("v1", "main", "c2", 2, "pass")
OtherContent == [Attestation("v2", "main", "c2", 2, "pass") EXCEPT !.hashes = "c1"]
PassFork == Attestation("v3", "fork", "f1", 2, "pass")
Forged == [Attestation("v2", "main", "c3", 9, "pass") EXCEPT !.signed = FALSE]

Config(mode, minimum) ==
  [publishers |-> {1, 2}, mode |-> mode, minimum |-> minimum,
   requiredChecks |-> {}, verifiers |-> {}, curators |-> {},
   minimumEndorsements |-> 1]

Endorsement(curator, publisher, claim) ==
  [curator |-> curator, publisher |-> publisher, app |-> "app",
   claim |-> claim, signed |-> TRUE]

\* Upgrade gating: releases and attestations in every order.
UpgradeConfigs ==
  { Config("off", 0), Config("require", 0),
    [Config("require", 2) EXCEPT !.verifiers = {"v1", "v2"}],
    [Config("require", 1) EXCEPT !.requiredChecks = {"package_check"},
                                 !.verifiers = {"v1"}] }
UpgradeDecls == {R1, R2, R3, R4, R1Again, Fork} \cup Rejects
UpgradeAtts ==
  {PassC1, AlsoPassC1, FailC1, FailC1SameSecond, PassC2, OtherContent, PassFork, Forged}
NoEndorsements == {}
NoAttestations == {}

\* Curation: three publishers claim one app, two of them from one source: the
\* first has 1.10.1 and, declared later, 1.10, the second has 1.10 of that time.
CurationDecls ==
  { Declaration(1, Url("main", "plain"), "c2", V(10), 3),
    Declaration(1, Url("main", "plain"), "c1", Patch(10, 1), 2),
    Declaration(2, Url("main", "dotgit"), "c2", V(10), 3),
    Declaration(3, Url("fork", "plain"), "f1", V(9), 2) }
CurationConfigs ==
  { [Config("off", 0) EXCEPT !.publishers = {1, 2, 3}, !.curators = curators,
                             !.minimumEndorsements = minimum] :
      curators \in {{}, {"a", "b", "c"}}, minimum \in {1, 2} }
CurationEndorsements ==
  { Endorsement("a", p, "tested") : p \in {1, 2, 3} } \cup
  { Endorsement("b", p, "tested") : p \in {1, 3} } \cup
  { Endorsement("c", 1, "recommend"), Endorsement("c", 3, "avoid"),
    Endorsement("c", 3, "tested"), Endorsement("stranger", 3, "tested"),
    [Endorsement("a", 3, "recommend") EXCEPT !.signed = FALSE] }

\* The publisher issues, later, a declaration of a package version that is older.
OlderVersionLater == { R2, Declaration(1, Url("main", "plain"), "c0", V(1), 3) }
OffOnly == { Config("off", 0) }

\* The publisher declares the released commit again, from a mirror.
Mirrored == { R1, Declaration(1, Url("mirror", "plain"), "c1", V(1), 2) }
RequireOnly == { Config("require", 1) }

\* What CatalogStoreProofs and SnapshotProofs assume where they need it holds of
\* the releases, their re-publication and the rejected declarations.
ASSUME PinningAssumption == DeclEvents = UpgradeDecls => CommitPinsSource
=============================================================================
