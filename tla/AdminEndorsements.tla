------------------------- MODULE AdminEndorsements -------------------------
(***************************************************************************)
(* Endorsing installed apps on the admin page: internal/attestation, and   *)
(* handleAttest, handleAttestable and handleHistory in cmd/nostr-catalogd/ *)
(* admin.go.  What can be endorsed follows from the store's newest         *)
(* declarations and from a snapshot of the installed apps that a timer     *)
(* writes; what has been endorsed is in a ledger file.                     *)
(*                                                                         *)
(*   newest[k]     the newest declaration of pair k, or Absent: what       *)
(*                 Store.Declarations returns                              *)
(*   installed     the snapshot file: a sequence of [app, repository],     *)
(*                 empty while there is no file                            *)
(*   records       Ledger.entries, in the order they were recorded; each   *)
(*                 has pair, claim, version and the second it was made, at *)
(*   recordsFile   the ledger file                                         *)
(*   call[h]       a POST to /admin/attest: pc "publish" with the signed   *)
(*                 endorsement, "record" once a relay has accepted it      *)
(* Record holds the Ledger's mu from its first look at the entries to the  *)
(* rename, and nothing else writes the file, so it is one action: a crash  *)
(* in the middle leaves what a crash before it leaves.                     *)
(* endorsed is a history variable: the endorsements some relay has.  The   *)
(* signed event names a publisher, an app and a claim and no version; the  *)
(* version of an endorsement is history too, the one that was declared     *)
(* when handleAttest built it, which is what it passes to Record.          *)
(* Op_fault is Op with one plausible mistake.                              *)
(***************************************************************************)
EXTENDS Integers, SequencesExt, TrustPolicy

CONSTANTS Self,           \* selfPublisher
          Releases,       \* declarations: [publisher, app, repository, version, created]
          Snapshots,      \* what the timer may find installed
          Calls,          \* concurrent POSTs
          Absent,
          MaxCalls,       \* bound on the POSTs begun
          MaxSeconds,     \* bound on the clock
          MaxRestarts     \* bound on the restarts of the daemon

ASSUME MaxCallsAssumption == MaxCalls \in Nat
ASSUME MaxSecondsAssumption == MaxSeconds \in Nat
ASSUME MaxRestartsAssumption == MaxRestarts \in Nat
ASSUME SnapshotsAssumption == \A s \in Snapshots : s \in Seq(ToSet(s))

VARIABLES newest, installed, records, recordsFile, call, endorsed, now, calls,
          restarted

endorsementVars == <<newest, installed, records, recordsFile, call, endorsed, now,
                     calls, restarted>>

Pair(d) == <<d.publisher, d.app>>
ReleasePairs == {Pair(d) : d \in Releases}

Claims == {"recommend", "tested"}

IdleCall == [pc |-> "idle", pair |-> Absent, claim |-> Absent, version |-> Absent]

-----------------------------------------------------------------------------
(* Candidates *)

\* byRepo[source]: of several apps installed from one source the last one.
ByRepo(source) ==
  LET found == {i \in DOMAIN installed :
                  NormalizeRepository(installed[i].repository) = source}
  IN  IF found = {} THEN {}
      ELSE {installed[CHOOSE i \in found : \A j \in found : j <= i]}

Attestable_bySourceOnly ==
  {d \in {newest[k] : k \in ReleasePairs} \ {Absent} :
     d.publisher # Self /\ ByRepo(NormalizeRepository(d.repository)) # {}}

\* Candidates: declared by another publisher, and installed from where it is declared.
Attestable ==
  {d \in {newest[k] : k \in ReleasePairs} \ {Absent} :
     /\ d.publisher # Self
     /\ \E i \in ByRepo(NormalizeRepository(d.repository)) : i.app = d.app}

OfPair(pair) == {i \in DOMAIN records : records[i].pair = pair}

LatestRecord_first(pair) ==
  {records[i] : i \in {j \in OfPair(pair) : \A k \in OfPair(pair) : j <= k}}

\* The latest, and among those of one second the first: {} or {record}.
LatestRecord(pair) ==
  {records[i] : i \in {j \in OfPair(pair) : \A k \in OfPair(pair) :
     records[j].at > records[k].at \/ (records[j].at = records[k].at /\ j <= k)}}

-----------------------------------------------------------------------------
EndorsementInit ==
  /\ newest = [k \in ReleasePairs |-> Absent]
  /\ installed = <<>>
  /\ records = <<>>
  /\ recordsFile = <<>>
  /\ call = [h \in Calls |-> IdleCall]
  /\ endorsed = {}
  /\ now = 0
  /\ calls = 0
  /\ restarted = 0

\* IngestVerifiedPackage accepts a release that is newer than what the store has
\* of the pair, so that Declarations returns it from now on.
Declare(d) ==
  /\ newest[Pair(d)] # Absent => d.created > newest[Pair(d)].created
  /\ newest' = [newest EXCEPT ![Pair(d)] = d]
  /\ UNCHANGED <<installed, records, recordsFile, call, endorsed, now, calls, restarted>>

\* The timer's helper, which is not part of the Go program, writes the file that
\* localstate.Load reads.
RefreshSnapshot(snapshot) ==
  /\ installed' = snapshot
  /\ installed' # installed
  /\ UNCHANGED <<newest, records, recordsFile, call, endorsed, now, calls, restarted>>

Tick ==
  /\ now < MaxSeconds
  /\ now' = now + 1
  /\ UNCHANGED <<newest, installed, records, recordsFile, call, endorsed, calls, restarted>>

\* The target is looked up among the candidates of this moment: the version is
\* the one declared now, neither the one the page shows nor the installed one.
HandleAttest(h, d, claim) ==
  /\ call[h].pc = "idle"
  /\ calls < MaxCalls
  /\ d \in Attestable
  /\ calls' = calls + 1
  /\ call' = [call EXCEPT ![h] = [pc |-> "publish", pair |-> Pair(d), claim |-> claim,
                                  version |-> d.version]]
  /\ UNCHANGED <<newest, installed, records, recordsFile, endorsed, now, restarted>>

\* What is being published, with the version that was declared when it was built.
Endorsement(h) ==
  [pair |-> call[h].pair, claim |-> call[h].claim, version |-> call[h].version]

EndorsementAccepted(h) ==
  /\ call[h].pc = "publish"
  /\ endorsed' = endorsed \cup {Endorsement(h)}
  /\ call' = [call EXCEPT ![h].pc = "record"]
  /\ UNCHANGED <<newest, installed, records, recordsFile, now, calls, restarted>>

\* No relay says that it has it, though one may.
EndorsementRefused(h) ==
  /\ call[h].pc = "publish"
  /\ \/ endorsed' = endorsed
     \/ endorsed' = endorsed \cup {Endorsement(h)}
  /\ call' = [call EXCEPT ![h] = IdleCall]
  /\ UNCHANGED <<newest, installed, records, recordsFile, now, calls, restarted>>

Appended(h, version) ==
  Append(records, [pair |-> call[h].pair, claim |-> call[h].claim,
                   version |-> version, at |-> now])

Recorded(h) ==
  \E i \in DOMAIN records :
    /\ records[i].pair = call[h].pair
    /\ records[i].claim = call[h].claim
    /\ records[i].version = call[h].version

RecordAttestation_currentVersion(h) ==
  /\ call[h].pc = "record"
  /\ records' = Appended(h, newest[call[h].pair].version)
  /\ recordsFile' = records'
  /\ call' = [call EXCEPT ![h] = IdleCall]
  /\ UNCHANGED <<newest, installed, endorsed, now, calls, restarted>>

\* Ledger.Record.  When the file cannot be written the record stays in memory,
\* and in the file as soon as a later one is recorded.
RecordAttestation(h) ==
  /\ call[h].pc = "record"
  /\ IF Recorded(h)
       THEN UNCHANGED <<records, recordsFile>>
       ELSE /\ records' = Appended(h, call[h].version)
            /\ recordsFile' \in {recordsFile, records'}
  /\ call' = [call EXCEPT ![h] = IdleCall]
  /\ UNCHANGED <<newest, installed, endorsed, now, calls, restarted>>

LoadRecords_empty == <<>>

LoadRecords == recordsFile

\* The daemon stops anywhere and starts again; its store comes from the cache.
Restart ==
  /\ restarted < MaxRestarts
  /\ restarted' = restarted + 1
  /\ records' = LoadRecords
  /\ call' = [h \in Calls |-> IdleCall]
  /\ UNCHANGED <<newest, installed, recordsFile, endorsed, now, calls>>

EndorsementNext ==
  \/ \E d \in Releases : Declare(d)
  \/ \E snapshot \in Snapshots : RefreshSnapshot(snapshot)
  \/ Tick
  \/ \E h \in Calls :
       \/ \E d \in Releases, claim \in Claims : HandleAttest(h, d, claim)
       \/ EndorsementAccepted(h) \/ EndorsementRefused(h) \/ RecordAttestation(h)
  \/ Restart

EndorsementTypeOK ==
  /\ newest \in [ReleasePairs -> Releases \cup {Absent}]
  /\ installed \in Snapshots \cup {<<>>}
  /\ \A h \in Calls : call[h].pc # "idle" => call[h].pair \in ReleasePairs
  /\ now \in 0 .. MaxSeconds

\* A version counts as endorsed only if some relay has an endorsement that was
\* built while exactly that version was declared: a total failure "leaves the
\* candidate visible", and a newer version that appears while the endorsement is
\* being published "re-surfaces the candidate" (attestation.go:31-34, 203-210).
RecordedWasEndorsed ==
  \A r \in ToSet(records) \cup ToSet(recordsFile) :
    [pair |-> r.pair, claim |-> r.claim, version |-> r.version] \in endorsed

\* What may be endorsed has been declared by another and is installed from the
\* declared source; and all of that may be, except apps that share their source
\* with another installed app: only the last of these is found.
InstalledFromSource(d) ==
  {i \in ToSet(installed) : i.app = d.app /\
     NormalizeRepository(i.repository) = NormalizeRepository(d.repository)}

SharesItsSource(d) ==
  \E i \in ToSet(installed) : i.app # d.app /\
    NormalizeRepository(i.repository) = NormalizeRepository(d.repository)

CandidatesAreInstalled ==
  \A k \in ReleasePairs : newest[k] # Absent =>
    LET d      == newest[k]
        wanted == k[1] # Self /\ InstalledFromSource(d) # {}
    IN  /\ d \in Attestable => wanted
        /\ wanted /\ ~SharesItsSource(d) => d \in Attestable

\* "a simple audit trail independent of the current candidate list": the ledger
\* file never loses a record, over failed writes and restarts.
AuditTrailOnlyGrows == [][ToSet(recordsFile) \subseteq ToSet(recordsFile')]_recordsFile

\* The page shows the most recent endorsement of an app: the last one recorded,
\* or an earlier one of the very same second.
LatestShownIsLast ==
  \A k \in ReleasePairs : OfPair(k) # {} =>
    \E r \in LatestRecord(k) : \A i \in OfPair(k) :
      (\A j \in OfPair(k) : j <= i) => r.at = records[i].at
=============================================================================
