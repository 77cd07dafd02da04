---------------------------- MODULE EventFormats ----------------------------
(***************************************************************************)
(* The signed events a publisher builds and a daemon parses: declarations  *)
(* (internal/publisher/event.go, internal/protocol/types.go), CI           *)
(* attestations (internal/verification/attestation.go) and the CI results  *)
(* they are built from (internal/ciresult/ciresult.go).  No state.         *)
(*                                                                         *)
(*   metadata m    [app, repository, version, commit, manifest, content]:  *)
(*                 what ReadMetadata finds in a work tree.  The manifest   *)
(*                 hash is of the file in the work tree, the content hash  *)
(*                 of the tree of HEAD.                                    *)
(*   CI result c   [app, repository, commit, manifest, content, checks,    *)
(*                 result]: what a CI run reports of the tree it tested;   *)
(*                 checks is the set of checks with their outcomes.        *)
(*   tags          [tag name -> the sequence of values it occurs with]     *)
(*                                                                         *)
(* Commits are what git prints and hashes what HashBytes returns, so they  *)
(* satisfy every pattern; app IDs, URLs and outcomes need not.             *)
(* Op_fault is Op with one plausible mistake; see CatalogData.             *)
(***************************************************************************)
EXTENDS Integers, Sequences, FiniteSets

CONSTANTS ValidAppIDs,         \* those appIDPattern matches
          HttpsRepositories    \* URLs with https, a host and a path

Results == {"pass", "fail", "error"}
Outcomes == Results \cup {"skip"}

\* parseTags and verification.Parse ask for these tags.
DeclarationTags == {"d", "platform", "repo", "version", "commit", "manifest", "content"}
AttestationTags == {"d", "app_id", "repo", "commit", "manifest", "content",
                    "ci_provider", "ci_ref", "result"}

OccursOnce(tags, name) == name \in DOMAIN tags /\ Len(tags[name]) = 1

Value(tags, name) == tags[name][1]

-----------------------------------------------------------------------------
(* Declarations *)

\* validateMetadata: an app ID is asked for, but not that it fits the pattern.
MetadataIsValid(m) == m.repository \in HttpsRepositories

BuildDeclaration(m) ==
  [d |-> <<m.app>>, platform |-> <<"yunohost">>, repo |-> <<m.repository>>,
   version |-> <<m.version>>, commit |-> <<m.commit>>,
   manifest |-> <<m.manifest>>, content |-> <<m.content>>]

\* ParseAppDeclaration and parseTags, for an event that is genuine.
DeclarationParses(tags) ==
  /\ \A name \in DeclarationTags : OccursOnce(tags, name)
  /\ Value(tags, "d") \in ValidAppIDs
  /\ Value(tags, "platform") = "yunohost"
  /\ Value(tags, "repo") \in HttpsRepositories

AppDeclaration(tags) ==
  [app |-> Value(tags, "d"), repository |-> Value(tags, "repo"),
   version |-> Value(tags, "version"), commit |-> Value(tags, "commit"),
   hashes |-> <<Value(tags, "manifest"), Value(tags, "content")>>]

-----------------------------------------------------------------------------
(* CI results and attestations *)

ChecksAreValid(checks) == checks # {} /\ \A check \in checks : check.outcome \in Outcomes

\* Result.Validate.  Here the app ID must fit the pattern.
CiResultIsValid(c) ==
  /\ c.app \in ValidAppIDs
  /\ c.repository \in HttpsRepositories
  /\ ChecksAreValid(c.checks)
  /\ c.result \in Results

\* verification.Build.  The d tag is app_id:commit.
BuildAttestation(c) ==
  [d |-> << <<c.app, c.commit>> >>, app_id |-> <<c.app>>, repo |-> <<c.repository>>,
   commit |-> <<c.commit>>, manifest |-> <<c.manifest>>, content |-> <<c.content>>,
   ci_provider |-> <<"ci">>, ci_ref |-> <<"run">>, result |-> <<c.result>>]

\* verification.Parse, for an event that is genuine: no tag may occur twice.
AttestationParses(tags, checks) ==
  /\ \A name \in DOMAIN tags : OccursOnce(tags, name)
  /\ AttestationTags \subseteq DOMAIN tags
  /\ Value(tags, "d") = <<Value(tags, "app_id"), Value(tags, "commit")>>
  /\ Value(tags, "result") \in Results
  /\ ChecksAreValid(checks)

AttestationOf(tags, checks) ==
  [app |-> Value(tags, "app_id"), repository |-> Value(tags, "repo"),
   commit |-> Value(tags, "commit"),
   hashes |-> <<Value(tags, "manifest"), Value(tags, "content")>>,
   result |-> Value(tags, "result"),
   passed |-> {check.name : check \in {k \in checks : k.outcome = "pass"}}]

-----------------------------------------------------------------------------
(* nostr-ynh publish --ci-result *)

ResultMatches_notHashes(c, m) ==
  c.app = m.app /\ c.repository = m.repository /\ c.commit = m.commit

\* runPublish refuses to attest anything but the revision it publishes.
ResultMatches(c, m) ==
  /\ c.app = m.app
  /\ c.repository = m.repository
  /\ c.commit = m.commit
  /\ c.manifest = m.manifest
  /\ c.content = m.content
=============================================================================
