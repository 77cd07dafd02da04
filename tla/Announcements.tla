--------------------------- MODULE Announcements ---------------------------
(***************************************************************************)
(* nostr-ynh publish (runPublish), which publishes a declaration, a CI     *)
(* attestation of it and an announcement note (kind 1) in one run, and the *)
(* ledger that is to keep a release from being announced twice             *)
(* (internal/announce/ledger.go).  One ledger file is shared by            *)
(*   - the admin page of nostr-catalogd (handleAnnounce): its concurrent   *)
(*     requests share one Ledger, loaded when the daemon starts;           *)
(*   - runs of nostr-ynh publish --announce: each process loads a Ledger   *)
(*     of its own from the file.                                           *)
(*                                                                         *)
(* actor[a] is a request or a run: pc, the revision rev it announces, the  *)
(* records data it is going to write and the inode fd it writes to.        *)
(*      "declare", "attest", "post"   about to publish the declaration, the*)
(*                  attestation, the note; all are signed already          *)
(*      "record"    a relay has accepted the note                          *)
(*      "open", "write", "rename"   inside Record, which holds the Ledger's*)
(*                  mu: creating, filling and renaming path.tmp            *)
(* A request or run that ends is back at "idle".  A run also has its input,*)
(* the kinds of event a relay has accepted from it so far, whether the one *)
(* deadline of its three publications is over (late), and its exit code    *)
(* when it ends, which stays until the next run.                           *)
(*                                                                         *)
(* Files are inodes: content[i] is a set of records, or Torn; path and     *)
(* tmpPath name one or NoInode.  os.WriteFile truncates the inode it finds *)
(* at path.tmp, so that two processes may write to the same one, and one   *)
(* may still be writing to it once the other has renamed it.               *)
(*                                                                         *)
(* declared, attested, posted, interrupted and reported are history        *)
(* variables: the declarations and attestations some relay has, how many   *)
(* notes about a revision are out, how often one went out that was not     *)
(* recorded, and the revisions a failed or killed run was to announce.     *)
(* Op_fault is Op with one plausible mistake.                              *)
(***************************************************************************)
EXTENDS Integers, FiniteSets, EventFormats

CONSTANTS Inputs,      \* what a run may be given: [tree, ci, announce]
          Trees,       \* the metadata of work trees that equal their commit
          Requests,    \* concurrent POSTs to the admin page
          Jobs,        \* processes of nostr-ynh publish
          Deployments, \* which of them may share the ledger file
          None, Torn,
          MaxRuns,     \* bound on the requests and runs begun
          MaxCrashes,  \* bound on crashes and kills
          WritesMayFail,
          AcksMayBeLost

ASSUME ActorsAssumption == IsFiniteSet(Requests \cup Jobs)
ASSUME NamesAssumption == "daemon" \notin Jobs /\ Requests \cap Jobs = {}
ASSUME CodesAssumption == None \notin {0, 1}
ASSUME DeploymentsAssumption == Deployments \subseteq SUBSET (Requests \cup Jobs)
ASSUME MaxRunsAssumption == MaxRuns \in Nat
ASSUME MaxCrashesAssumption == MaxCrashes \in Nat
ASSUME FailuresAssumption == WritesMayFail \in BOOLEAN /\ AcksMayBeLost \in BOOLEAN

VARIABLES active,      \* the requests and jobs of this deployment
          actor,
          ledger,      \* Ledger.records of the daemon and of each job
          mu,          \* Ledger.mu: the actor that holds it, or {}
          content, path, tmpPath,
          declared, attested, posted, interrupted, reported,
          runs, crashes

files == <<content, path, tmpPath>>
events == <<declared, attested, posted>>
vars == <<active, actor, ledger, mu, files, events, interrupted, reported,
          runs, crashes>>

RevOf(m) == <<m.app, m.commit>>

\* What is announced: (app_id, commit), of the own key.
Revs == {RevOf(i.tree) : i \in Inputs} \cup {RevOf(m) : m \in Trees}

\* Hashes do not collide: a work tree with the hashes of a commit equals it, if
\* its metadata can be published at all.
ASSUME HashesAssumption ==
  \A i \in Inputs, m \in Trees :
    /\ MetadataIsValid(i.tree)
    /\ i.tree.manifest = m.manifest
    /\ i.tree.content = m.content
    => i.tree \in Trees

\* An incomplete file is not mistaken for records.
ASSUME TornAssumption == \A records \in SUBSET Revs : Torn # records

Actors == Requests \cup Jobs
Ledgers == Jobs \cup {"daemon"}
NoInode == 0
Inodes == 1 .. Cardinality(Actors) + 2

LedgerOf(a) == IF a \in Jobs THEN a ELSE "daemon"

Idle == [pc |-> "idle", rev |-> {}, data |-> {}, fd |-> NoInode,
         input |-> None, accepted |-> {}, late |-> FALSE, code |-> None]

Holds(a) == actor[a].pc \in {"open", "write", "rename"}

\* LoadLedger: a missing file is an empty ledger, an incomplete one an error.
File == IF path = NoInode THEN {} ELSE content[path]

Readable == File # Torn

FileRecords == IF Readable THEN File ELSE {}

\* What the run is to get out, apart from a note that is in the ledger already.
Wanted(input) ==
  {"declaration"} \cup (IF input.ci # None THEN {"attestation"} ELSE {})

Succeeds_noteOnly(input, rev, accepted) == rev # {} => "note" \in accepted

Succeeds_anyEvent(input, rev, accepted) == accepted # {}

\* The exit code is 0: the declaration, the attestation that was asked for and
\* the note that was not skipped have each been accepted by some relay.
Succeeds(input, rev, accepted) ==
  /\ Wanted(input) \subseteq accepted
  /\ rev # {} => "note" \in accepted

-----------------------------------------------------------------------------
Init ==
  /\ active \in Deployments
  /\ actor = [a \in Actors |-> Idle]
  /\ ledger = [l \in Ledgers |-> {}]
  /\ mu = [l \in Ledgers |-> {}]
  /\ content = [i \in Inodes |-> Torn]
  /\ path = NoInode
  /\ tmpPath = NoInode
  /\ declared \in SUBSET Trees
  /\ attested = {}
  /\ posted = [r \in Revs |-> 0]
  /\ interrupted = [r \in Revs |-> 0]
  /\ reported = {}
  /\ runs = 0
  /\ crashes = 0

Start(a, state) ==
  /\ a \in active
  /\ actor[a].pc = "idle"
  /\ runs < MaxRuns
  /\ runs' = runs + 1
  /\ actor' = [actor EXCEPT ![a] = state]
  /\ UNCHANGED <<active, mu, files, events, interrupted, reported, crashes>>

\* A declaration of r whose repository the daemon has verified.
Accepted(r) == \E m \in declared \cap Trees : RevOf(m) = r

HandleAnnounce_unchecked(h, r) ==
  /\ Accepted(r)
  /\ Start(h, [Idle EXCEPT !.pc = "post", !.rev = {r}])
  /\ UNCHANGED ledger

\* A request for an accepted revision the daemon's ledger does not hold; for one
\* it does, it answers 409 and nothing changes.  HasAnnounced waits for mu.
HandleAnnounce(h, r) ==
  /\ Accepted(r)
  /\ mu["daemon"] = {}
  /\ r \notin ledger["daemon"]
  /\ Start(h, [Idle EXCEPT !.pc = "post", !.rev = {r}])
  /\ UNCHANGED ledger

\* A run that gets as far as publishing: its events can be built, its CI result
\* is about this very revision, the ledger, if it announces, can be read.  For a
\* revision the file holds the note is skipped.  Any other run stops before it
\* has published anything.
RunPublish(j, input) ==
  /\ MetadataIsValid(input.tree)
  /\ input.ci # None =>
       CiResultIsValid(input.ci) /\ ResultMatches(input.ci, input.tree)
  /\ input.announce => Readable
  /\ ledger' = [ledger EXCEPT ![j] = IF input.announce THEN FileRecords ELSE {}]
  /\ Start(j, [Idle EXCEPT !.pc = "declare", !.input = input, !.rev =
       IF input.announce THEN {RevOf(input.tree)} \ FileRecords ELSE {}])

\* The actor is done, having got these kinds of event accepted.  A run leaves
\* its exit code, and a report of the note it was to post if that is not 0.
EndWith(a, accepted, failed) ==
  LET input == actor[a].input
      code  == IF ~failed /\ Succeeds(input, actor[a].rev, accepted) THEN 0 ELSE 1
  IN  IF a \in Requests
        THEN actor' = [actor EXCEPT ![a] = Idle] /\ UNCHANGED reported
        ELSE /\ actor' = [actor EXCEPT ![a] =
                  [Idle EXCEPT !.input = input, !.code = code]]
             /\ reported' = IF code = 0 THEN reported ELSE reported \cup actor[a].rev

End(a) == EndWith(a, actor[a].accepted, FALSE)

\* Record has failed: whatever was accepted, the exit code is 1.
FailEnd(a) == EndWith(a, actor[a].accepted, TRUE)

Count(f, a) == [r \in Revs |-> IF r \in actor[a].rev THEN f[r] + 1 ELSE f[r]]

-----------------------------------------------------------------------------
(* Client.Publish *)

Kind(a) ==
  CASE actor[a].pc = "declare" -> "declaration"
    [] actor[a].pc = "attest"  -> "attestation"
    [] actor[a].pc = "post"    -> "note"

Publishing(a) == actor[a].pc \in {"declare", "attest", "post"}

\* Some relay has the event a is publishing.
Delivered(a) ==
  CASE Kind(a) = "declaration" -> /\ declared' = declared \cup {actor[a].input.tree}
                                  /\ UNCHANGED <<attested, posted>>
    [] Kind(a) = "attestation" -> /\ attested' = attested \cup {actor[a].input.ci}
                                  /\ UNCHANGED <<declared, posted>>
    [] Kind(a) = "note"        -> /\ posted' = Count(posted, a)
                                  /\ UNCHANGED <<declared, attested>>

\* What a run publishes next: the attestation if it has one, then the note
\* unless it was skipped, whatever became of what it published before.
NextPc(a) ==
  IF actor[a].pc = "declare" /\ actor[a].input.ci # None THEN "attest"
  ELSE IF actor[a].pc # "post" /\ actor[a].rev # {}      THEN "post"
  ELSE "end"

\* The deadline of a run may pass while it waits for its relays.
LateAfter(a) == IF a \in Jobs THEN {actor[a].late, TRUE} ELSE {FALSE}

Refuse(a) ==
  LET pc == NextPc(a)
  IN  \E late \in LateAfter(a) :
        IF pc = "end"
          THEN End(a)
          ELSE /\ actor' = [actor EXCEPT ![a] = [@ EXCEPT !.pc = pc, !.late = late]]
               /\ UNCHANGED reported

\* Some relay accepts the event; a note that is accepted will be recorded.
Publish(a) ==
  /\ Publishing(a)
  /\ ~actor[a].late
  /\ Delivered(a)
  /\ LET accepted == actor[a].accepted \cup {Kind(a)}
         pc       == IF Kind(a) = "note" THEN "record" ELSE NextPc(a)
     IN  \E late \in IF pc = "record" THEN {FALSE} ELSE LateAfter(a) :
           IF pc = "end"
             THEN EndWith(a, accepted, FALSE)
             ELSE /\ actor' = [actor EXCEPT ![a] =
                       [@ EXCEPT !.pc = pc, !.late = late, !.accepted = accepted]]
                  /\ UNCHANGED reported
  /\ UNCHANGED <<active, ledger, mu, files, interrupted, runs, crashes>>

PublishRefused_recorded(a) ==
  /\ Publishing(a)
  /\ IF actor[a].pc = "post"
       THEN actor' = [actor EXCEPT ![a].pc = "record"] /\ UNCHANGED reported
       ELSE Refuse(a)
  /\ UNCHANGED <<active, ledger, mu, files, events, interrupted, runs, crashes>>

\* No relay answers that it does: all refused, or the time was up, or the
\* request's client went away.
PublishRefused(a) ==
  /\ Publishing(a)
  /\ Refuse(a)
  /\ UNCHANGED <<active, ledger, mu, files, events, interrupted, runs, crashes>>

\* The same to the program, but a relay has the event.
PublishUnacknowledged(a) ==
  /\ AcksMayBeLost
  /\ Publishing(a)
  /\ ~actor[a].late
  /\ Refuse(a)
  /\ Delivered(a)
  /\ interrupted' = IF Kind(a) = "note" THEN Count(interrupted, a) ELSE interrupted
  /\ UNCHANGED <<active, ledger, mu, files, runs, crashes>>

-----------------------------------------------------------------------------
(* Ledger.Record *)

AppendRecord(a, lock) ==
  LET l == LedgerOf(a)
  IN  /\ actor[a].pc = "record"
      /\ IF actor[a].rev \subseteq ledger[l]
           THEN End(a) /\ UNCHANGED <<ledger, mu>>
           ELSE /\ UNCHANGED reported
                /\ ledger' = [ledger EXCEPT ![l] = @ \cup actor[a].rev]
                /\ mu' = [mu EXCEPT ![l] = lock]
                /\ actor' = [actor EXCEPT ![a] = [@ EXCEPT !.pc = "open", !.data = ledger'[l]]]
      /\ UNCHANGED <<active, files, events, interrupted, runs, crashes>>

Record_unlocked(a) == AppendRecord(a, {})

\* Take mu; a revision already recorded is left alone, another is appended to
\* the records and all of them are encoded.
Record(a) == mu[LedgerOf(a)] = {} /\ AppendRecord(a, {a})

FreshInode ==
  CHOOSE i \in Inodes : i \notin {path, tmpPath} \cup {actor[a].fd : a \in Actors}

\* os.WriteFile opens path.tmp: created, or truncated where it is.
OpenTmp(a) ==
  /\ actor[a].pc = "open"
  /\ LET i == IF tmpPath = NoInode THEN FreshInode ELSE tmpPath
     IN  /\ tmpPath' = i
         /\ content' = [content EXCEPT ![i] = Torn]
         /\ actor' = [actor EXCEPT ![a] = [@ EXCEPT !.pc = "write", !.fd = i]]
  /\ UNCHANGED <<active, ledger, mu, path, events, interrupted, reported, runs, crashes>>

\* The data go to the start of the inode.  What another process has written
\* there since is overwritten, or its tail left behind when it was longer.
WriteTmp(a) ==
  /\ actor[a].pc = "write"
  /\ LET i == actor[a].fd
     IN  \E result \in IF content[i] \in {Torn, actor[a].data}
                         THEN {actor[a].data} ELSE {actor[a].data, Torn} :
           content' = [content EXCEPT ![i] = result]
  /\ actor' = [actor EXCEPT ![a] = [@ EXCEPT !.pc = "rename", !.fd = NoInode]]
  /\ UNCHANGED <<active, ledger, mu, path, tmpPath, events, interrupted, reported, runs,
                 crashes>>

Unlock(a) == mu' = [mu EXCEPT ![LedgerOf(a)] = @ \ {a}]

\* os.Rename fails when another process has already renamed path.tmp.
RenameTmp(a) ==
  /\ actor[a].pc = "rename"
  /\ IF tmpPath = NoInode
       THEN /\ interrupted' = Count(interrupted, a)
            /\ FailEnd(a)
            /\ UNCHANGED <<path, tmpPath>>
       ELSE /\ path' = tmpPath
            /\ tmpPath' = NoInode
            /\ End(a)
            /\ UNCHANGED interrupted
  /\ Unlock(a)
  /\ UNCHANGED <<active, ledger, content, events, runs, crashes>>

FailRecord_keepsLock(a) ==
  /\ WritesMayFail
  /\ Holds(a)
  /\ FailEnd(a)
  /\ interrupted' = Count(interrupted, a)
  /\ UNCHANGED <<active, ledger, mu, files, events, runs, crashes>>

\* Creating the directory, writing path.tmp or renaming it fails: the record
\* stays in memory.
FailRecord(a) ==
  /\ WritesMayFail
  /\ Holds(a)
  /\ FailEnd(a)
  /\ Unlock(a)
  /\ interrupted' = Count(interrupted, a)
  /\ UNCHANGED <<active, ledger, files, events, runs, crashes>>

-----------------------------------------------------------------------------
(* Processes that die *)

\* Whose note is out but not in the file when the processes of S die.
Unrecorded(S) == {a \in S : actor[a].pc = "record" \/ Holds(a)}

Die(S) ==
  /\ crashes < MaxCrashes
  /\ crashes' = crashes + 1
  /\ actor' = [a \in Actors |-> IF a \in S THEN Idle ELSE actor[a]]
  /\ interrupted' = [r \in Revs |-> interrupted[r] +
       Cardinality({a \in Unrecorded(S) : r \in actor[a].rev})]
  /\ reported' = reported \cup UNION {actor[a].rev : a \in S \cap Jobs}
  /\ UNCHANGED <<active, files, events, runs>>

\* The daemon restarts and loads the file; with one that does not decode it
\* would stop again at once.
RestartDaemon ==
  /\ active \cap Requests # {}
  /\ Readable
  /\ Die(Requests)
  /\ ledger' = [ledger EXCEPT !["daemon"] = FileRecords]
  /\ mu' = [mu EXCEPT !["daemon"] = {}]

\* The CI system cancels a run.
KillJob(j) ==
  /\ actor[j].pc # "idle"
  /\ Die({j})
  /\ mu' = [mu EXCEPT ![j] = {}]
  /\ UNCHANGED ledger

Next ==
  \/ \E h \in Requests, r \in Revs : HandleAnnounce(h, r)
  \/ \E j \in Jobs, i \in Inputs : RunPublish(j, i)
  \/ \E a \in Actors : Publish(a) \/ PublishRefused(a) \/ PublishUnacknowledged(a)
  \/ \E a \in Actors : Record(a) \/ OpenTmp(a) \/ WriteTmp(a)
  \/ \E a \in Actors : RenameTmp(a) \/ FailRecord(a)
  \/ RestartDaemon
  \/ \E j \in Jobs : KillJob(j)

Spec == Init /\ [][Next]_vars

-----------------------------------------------------------------------------
(* Properties *)

ActorStates ==
  [pc : {"idle", "declare", "attest", "post", "record", "open", "write", "rename"},
   rev : SUBSET Revs, data : SUBSET Revs, fd : Inodes \cup {NoInode},
   input : Inputs \cup {None}, late : BOOLEAN, code : {0, 1, None},
   accepted : SUBSET {"declaration", "attestation", "note"}]

\* Types, and whoever is inside Record holds the lock of its ledger.
TypeOK ==
  /\ actor \in [Actors -> ActorStates]
  /\ ledger \in [Ledgers -> SUBSET Revs]
  /\ \A l \in Ledgers : mu[l] = {a \in Actors : LedgerOf(a) = l /\ Holds(a)}
  /\ path \in Inodes \cup {NoInode}
  /\ tmpPath \in Inodes \cup {NoInode}
  /\ \A i \in Inodes : content[i] = Torn \/ content[i] \subseteq Revs

\* What keeps a note from being posted is that it has been: no ledger, in
\* memory or on disk, holds a revision nobody has been told of, whatever fails.
RecordedWasPosted ==
  \A r \in FileRecords \cup UNION {ledger[l] : l \in Ledgers} : posted[r] >= 1

\* A single process has the file to itself: the daemon, or one job.
OneProcess == active \subseteq Requests \/ Cardinality(active) = 1

\* "The ledger only ever grows" (ledger.go:81-82), on disk and across crashes and
\* failed writes, as long as one process writes it.
LedgerOnlyGrows == [][OneProcess => FileRecords \subseteq FileRecords']_vars

\* One process that finds a revision in the ledger file does not set out to
\* announce it again, over restarts, kills and failed writes: what memory holds
\* always covers what the file holds.
RecordedIsNotRepeated ==
  [][ OneProcess =>
        \A a \in Actors : actor[a].pc = "idle" /\ actor'[a].pc # "idle" =>
          actor'[a].rev \cap FileRecords = {} ]_vars

\* "A revision is only ever announced once" (index.html:319): "so a repeated publish
\* for an unchanged revision ... can never double-post" (main.go:239-243), and one
\* "already announced (by this page or by publish --announce sharing the same
\* ledger file) cannot be posted again from here either" (admin.go:431-433).
NeverDoublePosts == \A r \in Revs : posted[r] <= 1

\* How often one process does announce a revision: once, or again after a note
\* went out whose record was lost (a crash between the two, a failed write, a
\* lost answer), each time at most once for every request that ran at the same
\* time, since the ledger is not locked between HasAnnounced and Record.
RepeatsAreBounded ==
  OneProcess =>
    \A r \in Revs : posted[r] <= Cardinality(active) * (1 + interrupted[r])

\* A release is announced that no relay has a declaration of only by a run that
\* says so: it is still under way, was killed, or ends with a code other than 0
\* (runPublish publishes and records the note whatever became of the rest).
UndeclaredNotesAreReported ==
  \A r \in Revs :
    posted[r] >= 1 /\ (\A m \in declared : RevOf(m) # r) =>
      r \in reported \/ \E j \in Jobs : r \in actor[j].rev

\* Exit code 0 means that what was asked for is out: the declaration, the
\* attestation, and the note, by this run or, skipped, by whoever recorded it.
SuccessMeansPublished ==
  \A j \in Jobs : actor[j].code = 0 =>
    LET input == actor[j].input
    IN  /\ input.tree \in declared
        /\ input.ci # None => input.ci \in attested
        /\ input.announce => posted[RevOf(input.tree)] >= 1

\* What a run that ends well has published with --ci-result is evidence where it
\* is read: the daemon parses both events, counts the attestation toward the
\* declaration and, if the tests ran on the commit itself, finds its repository
\* as declared, so that a work tree edited since is refused ("or a stale
\* --ci-result could be signed against whatever repo/ref happens to be checked
\* out", main.go:188-190).
Daemon == INSTANCE CatalogData WITH
  Publishers <- {1}, Apps <- ValidAppIDs, MaxRevisions <- 10

RanOnCommit(c) ==
  \E m \in Trees : c.manifest = m.manifest /\ c.content = m.content

AttestedReleaseVerifies ==
  \A j \in Jobs : actor[j].code = 0 /\ actor[j].input.ci # None =>
    LET ci          == actor[j].input.ci
        declaration == BuildDeclaration(actor[j].input.tree)
        attestation == BuildAttestation(ci)
    IN  /\ DeclarationParses(declaration)
        /\ AttestationParses(attestation, ci.checks)
        /\ Daemon!AttestationsFor({AttestationOf(attestation, ci.checks)},
                                  AppDeclaration(declaration)) # {}
        /\ RanOnCommit(ci) => actor[j].input.tree \in Trees
=============================================================================
