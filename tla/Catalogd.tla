------------------------------ MODULE Catalogd ------------------------------
(***************************************************************************)
(* The daemon nostr-catalogd (cmd/nostr-catalogd/main.go) around its store:*)
(* the startup loop of main, the three goroutines that follow the relays,  *)
(* Store.Save taken apart into the steps other goroutines can come between,*)
(* and restarts, which lose everything but the cache file.                 *)
(*                                                                         *)
(*   thread[t].pc   main starts at "fetch", is "starting" the servers and  *)
(*                  then "serving", or has "exited" by log.Fatal; the other*)
(*                  goroutines wait at "idle" for their relays.            *)
(*      "verify"    the declaration's repository is being cloned           *)
(*      "save"      the event is in the store, Save has been called        *)
(*      "copied"    Save has copied the store under mu and released it     *)
(*      "writing"   saveMu is held, the temporary file is being written    *)
(*      "renaming"  the temporary file is complete                         *)
(*   thread[t].copy is Save's local copy, None outside Save.               *)
(*   disk and tmp are the cache file and path.tmp: None (no file), Torn (a *)
(*   part of one) or a cache.                                              *)
(* Op_fault is Op with one plausible mistake; see CatalogData.             *)
(***************************************************************************)
EXTENDS CatalogEvents

CONSTANTS None, Torn,      \* no file (or no copy), an incomplete file
          MaxRestarts,     \* bound on the restarts explored
          WritesMayFail    \* whether writing the temporary file can fail

ASSUME MaxRestartsAssumption == MaxRestarts \in Nat
ASSUME WritesMayFailAssumption == WritesMayFail \in BOOLEAN

VARIABLES config, entries, attestations, endorsements,  \* the store
          thread,    \* the goroutines
          todo,      \* fetched declarations main has not come to yet
          saveMu,    \* the goroutine that holds Store.saveMu, or None
          disk, tmp,
          restarts

memory == <<entries, attestations, endorsements>>
vars == <<config, entries, attestations, endorsements, thread, todo, saveMu,
          disk, tmp, restarts>>

Threads == {"main", "declarations", "attestations", "endorsements"}
Savers == {"main", "declarations", "attestations"}

Cache == CacheOf(entries, attestations)

NotSaving == {"fetch", "verify", "starting", "serving", "exited", "idle", "off"}

At(t, pc) == thread[t].pc = pc

Goto_keepsCopy(t, pc) == thread' = [thread EXCEPT ![t].pc = pc]

\* Goroutine t goes on to pc; event and copy are what it still carries.
Goto(t, pc) == thread' = [thread EXCEPT ![t] = [pc |-> pc, event |-> None, copy |-> None]]

\* Where a goroutine waits for its next event.
Home(t) == IF t = "main" THEN "fetch" ELSE "idle"

-----------------------------------------------------------------------------
\* Process start up to the subscriptions: configure a new store and load the
\* cache file into it.
StartWith(p, cache, k) ==
  IF cache = None THEN <<>> ELSE LoadEntries(p, cache)[k]

\* FetchAppDeclarations: the latest known declaration of each pair, as far as
\* the relays answer.
Fetched == {S \in SUBSET DeclEvents : \A d, e \in S : PairOf(d) = PairOf(e) => d = e}

\* Main is the only goroutine, at pc.
OnlyMain(pc) ==
  [t \in Threads |-> [pc |-> IF t = "main" THEN pc ELSE "off",
                      event |-> None, copy |-> None]]

StartedThreads == OnlyMain("fetch")

Init ==
  /\ config \in Configs
  /\ entries = [k \in Pairs |-> <<>>]
  /\ attestations = {}
  /\ endorsements = {}
  /\ thread = StartedThreads
  /\ todo \in Fetched
  /\ saveMu = None
  /\ disk = None
  /\ tmp = None
  /\ restarts = 0

\* A crash or a stop at any point, then a new process, perhaps configured anew.
Restart(p) ==
  /\ restarts < MaxRestarts
  /\ restarts' = restarts + 1
  /\ config' = p
  /\ entries' = [k \in Pairs |-> StartWith(p, disk, k)]
  /\ attestations' = IF disk = None THEN {} ELSE LoadAttestations(disk)
  /\ endorsements' = {}
  /\ thread' = StartedThreads
  /\ todo' \in Fetched
  /\ saveMu' = None
  /\ UNCHANGED <<disk, tmp>>

\* Main's loop over the fetched declarations ends: the goroutines start, the
\* endorsement one only when curators are configured.
StartSubscriptions ==
  /\ At("main", "fetch")
  /\ todo = {}
  /\ thread' = [t \in Threads |->
       [thread[t] EXCEPT !.pc =
          IF t = "main" THEN "starting"
          ELSE IF t = "endorsements" /\ ~CurationConfigured(config) THEN "off"
          ELSE "idle"]]
  /\ UNCHANGED <<config, memory, todo, saveMu, disk, tmp, restarts>>

\* The admin page could be set up, the catalogue's port could be opened.
Serve ==
  /\ At("main", "starting")
  /\ thread' = [thread EXCEPT !["main"].pc = "serving"]
  /\ UNCHANGED <<config, memory, todo, saveMu, disk, tmp, restarts>>

\* newAdminServer fails, or ListenAndServe, at once or later: the process is gone
\* with all its goroutines, wherever they are, and what it had in memory.
LogFatal ==
  /\ At("main", "starting") \/ At("main", "serving")
  /\ thread' = OnlyMain("exited")
  /\ entries' = [k \in Pairs |-> <<>>]
  /\ attestations' = {}
  /\ endorsements' = {}
  /\ saveMu' = None
  /\ UNCHANGED <<config, todo, disk, tmp, restarts>>

-----------------------------------------------------------------------------
(* Declarations: main's startup loop and the subscription *)

Verify(t, e) ==
  thread' = [thread EXCEPT ![t] = [pc |-> "verify", event |-> e, copy |-> None]]

NextFetched_again(e) ==
  /\ At("main", "fetch")
  /\ e \in todo
  /\ IF Validate(config, e) THEN Verify("main", e) ELSE UNCHANGED thread
  /\ UNCHANGED <<config, memory, todo, saveMu, disk, tmp, restarts>>

NextFetched(e) ==
  /\ At("main", "fetch")
  /\ e \in todo
  /\ todo' = todo \ {e}
  /\ IF Validate(config, e) THEN Verify("main", e) ELSE UNCHANGED thread
  /\ UNCHANGED <<config, memory, saveMu, disk, tmp, restarts>>

ReceiveDeclaration(e) ==
  /\ At("declarations", "idle")
  /\ Validate(config, e)
  /\ Verify("declarations", e)
  /\ UNCHANGED <<config, memory, todo, saveMu, disk, tmp, restarts>>

\* The clone is there and agrees; only now is the store locked.
IngestDeclaration(t) ==
  /\ At(t, "verify")
  /\ LET e == thread[t].event
     IN  /\ RepositoryConfirms(e)
         /\ Translates(e)
         /\ entries' = [entries EXCEPT ![PairOf(e)] =
              AddRevision(config, attestations, @, [event |-> e, manifest |-> TRUE])]
  /\ Goto(t, "save")
  /\ UNCHANGED <<config, attestations, endorsements, todo, saveMu, disk, tmp, restarts>>

\* The clone fails, or the repository disagrees: logged, nothing is saved.
RejectDeclaration(t) ==
  /\ At(t, "verify")
  /\ Goto(t, Home(t))
  /\ UNCHANGED <<config, memory, todo, saveMu, disk, tmp, restarts>>

-----------------------------------------------------------------------------
(* Attestations and endorsements: parsed and stored in one go *)

ReceiveAttestation(a) ==
  /\ At("attestations", "idle")
  /\ a.signed
  /\ attestations' = StoreAttestation(attestations, a)
  /\ Goto("attestations", "save")
  /\ UNCHANGED <<config, entries, endorsements, todo, saveMu, disk, tmp, restarts>>

ReceiveEndorsement(n) ==
  /\ At("endorsements", "idle")
  /\ AcceptEndorsement(config, n)
  /\ endorsements' = RecordEndorsement(endorsements, n)
  /\ UNCHANGED <<config, entries, attestations, thread, todo, saveMu, disk, tmp, restarts>>

-----------------------------------------------------------------------------
(* Store.Save *)

\* Copy under mu, which is released before anything is written.
CopyStore(t) ==
  /\ At(t, "save")
  /\ thread' = [thread EXCEPT ![t].pc = "copied", ![t].copy = Cache]
  /\ UNCHANGED <<config, memory, todo, saveMu, disk, tmp, restarts>>

BeginWrite_unlocked(t) ==
  /\ At(t, "copied")
  /\ saveMu' = t
  /\ tmp' = Torn
  /\ thread' = [thread EXCEPT ![t].pc = "writing"]
  /\ UNCHANGED <<config, memory, todo, disk, restarts>>

\* Take saveMu and begin os.WriteFile: the temporary file is truncated.
BeginWrite(t) ==
  /\ At(t, "copied")
  /\ saveMu = None
  /\ saveMu' = t
  /\ tmp' = Torn
  /\ thread' = [thread EXCEPT ![t].pc = "writing"]
  /\ UNCHANGED <<config, memory, todo, disk, restarts>>

FinishWrite(t) ==
  /\ At(t, "writing")
  /\ tmp' = thread[t].copy
  /\ thread' = [thread EXCEPT ![t].pc = "renaming"]
  /\ UNCHANGED <<config, memory, todo, saveMu, disk, restarts>>

FailWrite_keepsLock(t) ==
  /\ WritesMayFail
  /\ thread[t].pc \in {"writing", "renaming"}
  /\ Goto(t, Home(t))
  /\ UNCHANGED <<config, memory, todo, saveMu, disk, tmp, restarts>>

\* os.WriteFile or os.Rename fails: logged, and whatever there is at path.tmp
\* stays there; the file stays as it is until the next Save.
FailWrite(t) ==
  /\ WritesMayFail
  /\ thread[t].pc \in {"writing", "renaming"}
  /\ Goto(t, Home(t))
  /\ saveMu' = None
  /\ UNCHANGED <<config, memory, todo, disk, tmp, restarts>>

RenameTmp(t) ==
  /\ At(t, "renaming")
  /\ disk' = tmp
  /\ tmp' = None
  /\ saveMu' = None
  /\ Goto(t, Home(t))
  /\ UNCHANGED <<config, memory, todo, restarts>>

SaveStep(t) ==
  \/ CopyStore(t)
  \/ BeginWrite(t)
  \/ FinishWrite(t)
  \/ FailWrite(t)
  \/ RenameTmp(t)

Next ==
  \/ \E p \in Configs : Restart(p)
  \/ StartSubscriptions
  \/ Serve
  \/ LogFatal
  \/ \E e \in DeclEvents : NextFetched(e) \/ ReceiveDeclaration(e)
  \/ \E t \in {"main", "declarations"} : IngestDeclaration(t) \/ RejectDeclaration(t)
  \/ \E a \in AttEvents : ReceiveAttestation(a)
  \/ \E n \in EndorsementEvents : ReceiveEndorsement(n)
  \/ \E t \in Savers : SaveStep(t)

Spec == Init /\ [][Next]_vars

\* The scheduler runs every goroutine; sync.Mutex does not starve a waiter, hence
\* strong fairness for taking saveMu.  A clone may never end: main passes a
\* context without a deadline, and VerifyDeclaration adds none.
Fairness ==
  /\ WF_vars(StartSubscriptions)
  /\ WF_vars(Serve)
  /\ WF_vars(\E e \in DeclEvents : NextFetched(e))
  /\ \A t \in Savers :
       /\ WF_vars(CopyStore(t))
       /\ SF_vars(BeginWrite(t))
       /\ WF_vars(FinishWrite(t) \/ RenameTmp(t) \/ FailWrite(t))

FairSpec == Spec /\ Fairness

-----------------------------------------------------------------------------
(* Properties *)

TypeOK ==
  /\ config \in Configs
  /\ DOMAIN entries = Pairs
  /\ \A k \in Pairs : \A i \in DOMAIN entries[k] :
       entries[k][i] \in [event : DeclEvents, manifest : {TRUE}]
  /\ attestations \subseteq AttEvents
  /\ endorsements \subseteq EndorsementEvents
  /\ todo \subseteq DeclEvents
  /\ saveMu \in Savers \cup {None}
  /\ \A t \in Threads : thread[t].pc \in NotSaving => thread[t].copy = None

ListedFor(app) == Listed(config, entries, attestations, endorsements, app)

\* What a cache offers for a pair under configuration p: the newest revision of
\* it that p accepts, if p trusts the publisher.
CachedOffer(p, cache, k) ==
  IF cache = None \/ k[1] \notin p.publishers THEN {}
  ELSE SelectAccepted(p, cache.attestations, cache.entries[k])

\* Whatever point a crash hits, and however the new process is configured, it
\* offers for every pair what the last completed save offers: no installable
\* revision is lost in the file, in the reload, or to the order Load replays
\* entries and attestations in (Save, Load).
RestartOffersWhatWasSaved ==
  [][ restarts' # restarts =>
        \A k \in Pairs :
          SelectAccepted(config', attestations', entries'[k])
            = CachedOffer(config', disk, k) ]_vars

\* When no save is under way and none has failed, the file holds the store:
\* "Saved on every accepted attestation" (main.go:127-131).
Quiescent == \A t \in Savers : thread[t].pc \in NotSaving

QuiescentCacheIsCurrent ==
  Quiescent /\ Cache # CacheOf([k \in Pairs |-> <<>>], {}) => disk = Cache

\* Under the same configuration, a restart from a file that holds the whole
\* store keeps every listed app: "nothing excludes an app from the catalogue for
\* lacking an endorsement" (docs/attestations.md:211-212).
RestartKeepsListedApps ==
  [][ restarts' # restarts /\ config' = config /\ disk = Cache =>
        \A app \in Apps :
          ListedFor(app) # {} =>
            Listed(config', entries', attestations', endorsements', app) # {} ]_vars

\* The abstract promise of the cache file: see DurableCache.
Durable == INSTANCE DurableCache WITH
  memory <- Cache,
  taken  <- {thread[t].copy : t \in {u \in Savers : thread[u].copy # None}},
  file   <- disk

DurableCacheSpec == Durable!Spec

\* Every Save that was begun ends, whatever the other goroutines do.
SavesFinish == \A t \in Savers : At(t, "save") ~> thread[t].pc \in NotSaving

\* Nothing but a clone that never ends keeps the daemon from serving its
\* catalogue, or from saying why it does not: neither the number of fetched
\* declarations, nor one that is rejected, nor a Save that fails (the loop of
\* main, main.go:94-102, which the subscriptions and the server wait for).
OnlyAHangingCloneStopsStartup ==
  At("main", "fetch") ~>
    \/ At("main", "serving")
    \/ At("main", "exited")
    \/ []At("main", "verify")
=============================================================================
