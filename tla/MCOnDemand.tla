----------------------------- MODULE MCOnDemand -----------------------------
(***************************************************************************)
(* Instances of OnDemand for TLC.                                          *)
(***************************************************************************)
EXTENDS OnDemand

Url(source, form) == [source |-> source, form |-> form]

V(n) == <<Run(n)>>

Declaration(publisher, app, source, commit, version, created) ==
  [publisher |-> publisher, app |-> app, repository |-> Url(source, "plain"),
   commit |-> commit, hashes |-> commit, version |-> V(version), created |-> created,
   signed |-> TRUE, hashesMatch |-> TRUE, manifestMatches |-> TRUE]

-----------------------------------------------------------------------------
(* Endorsements: another publisher's app in two versions, an app of a second   *)
(* publisher from the same source, and one of our own.                        *)

OwnKey == 9

AppReleases ==
  { Declaration(1, "app", "main", "c1", 1, 1), Declaration(1, "app", "main", "c2", 2, 2),
    Declaration(2, "tool", "main", "c3", 1, 1), Declaration(OwnKey, "app", "main", "c1", 1, 1) }

InstalledApp(app) == [app |-> app, repository |-> Url("main", "dotgit")]

InstalledApps == { <<InstalledApp("app")>>, <<InstalledApp("tool"), InstalledApp("app")>> }

-----------------------------------------------------------------------------
(* Re-verification: a self-attested commit, spelled alike or with ".git"; the  *)
(* next commit, declared over it; another verifier; claims of other content.   *)

Attestation(verifier, form, commit, hashes, created) ==
  [verifier |-> verifier, app |-> "app", repository |-> Url("main", form),
   commit |-> commit, hashes |-> hashes, result |-> "pass", passed |-> {},
   created |-> created, signed |-> TRUE]

DeclaredEvents ==
  { Declaration(1, "app", "main", "c1", 1, 1), Declaration(1, "app", "main", "c2", 2, 2) }

AttestedEvents ==
  { Attestation(1, "plain", "c1", "c1", 1), Attestation(1, "plain", "c1", "c2", 2),
    Attestation(2, "dotgit", "c1", "c1", 1), Attestation(3, "plain", "c1", "c1", 1) }

-----------------------------------------------------------------------------
(* The printed catalogue: two publishers, three sources, a newer release that  *)
(* its repository does not confirm, an event of an untrusted key.              *)

OfferedEvents ==
  { Declaration(1, "app", "main", "c1", 1, 1),
    [Declaration(1, "app", "main", "c2", 2, 2) EXCEPT !.hashesMatch = FALSE],
    Declaration(1, "tool", "tools", "t1", 1, 1),
    Declaration(1, "tool", "tools", "t2", 2, 2),
    Declaration(2, "app", "fork", "f1", 3, 3),
    [Declaration(2, "tool", "fork", "f2", 3, 3) EXCEPT !.signed = FALSE],
    Declaration(3, "app", "main", "c1", 9, 9) }

TrustBoth ==
  [publishers |-> {1, 2}, mode |-> "off", minimum |-> 1, requiredChecks |-> {},
   verifiers |-> {}, curators |-> {}, minimumEndorsements |-> 1]
=============================================================================
