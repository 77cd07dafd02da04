--------------------------- MODULE CatalogdProofs ---------------------------
(***************************************************************************)
(* Catalogd implements DurableCache, for every set of events and every     *)
(* configuration: whatever the goroutines do, whichever writes fail and    *)
(* wherever a crash hits, the cache file is one whole copy of the store    *)
(* that a Save of the running process took.  And what such a file holds    *)
(* can be loaded: a restart offers what it offers.                         *)
(***************************************************************************)
EXTENDS Catalogd, CatalogLemmas

Pcs == NotSaving \cup {"save", "copied", "writing", "renaming"}

\* A thread's state, with a copy only inside Save.
ThreadsWellFormed ==
  /\ DOMAIN thread = Threads
  /\ \A t \in Threads :
       /\ thread[t] = [pc |-> thread[t].pc, event |-> thread[t].event,
                       copy |-> thread[t].copy]
       /\ thread[t].pc \in Pcs
       /\ thread[t].copy = None <=> thread[t].pc \in NotSaving \cup {"save"}

\* saveMu is held by the one goroutine that writes, and by no other.
LockIsHeld ==
  \A t \in Threads : thread[t].pc \in {"writing", "renaming"} <=> saveMu = t

\* What is about to be renamed is the writer's own copy.
TmpIsOwnCopy == \A t \in Threads : At(t, "renaming") => tmp = thread[t].copy

\* The subscriptions begin when main has come to the end of its loop.
StartsAlone ==
  \A t \in Threads \ {"main"} :
    thread[t].pc # "off" => thread["main"].pc \in {"starting", "serving"}

\* The inductive invariant: without the lock another goroutine could truncate
\* path.tmp between FinishWrite and RenameTmp, and a goroutine
\* that was saving already would be set back by StartSubscriptions.
SaveInvariant ==
  /\ ThreadsWellFormed
  /\ LockIsHeld
  /\ TmpIsOwnCopy
  /\ StartsAlone

\* A cache, which is a record, is not the value that stands for "no file", and
\* no goroutine has its name.
NoneIsNoCache ==
  /\ \A e, a : CacheOf(e, a) # None
  /\ None \notin Threads

\* Main alone: in a process that starts, the first or a later one, and in one that
\* has ended.
LEMMA MainAlone ==
  ASSUME NEW pc \in {"fetch", "exited"}, thread = OnlyMain(pc), saveMu = None,
         None \notin Threads
  PROVE  /\ SaveInvariant
         /\ \A t \in Threads : thread[t].copy = None
<1>1. /\ DOMAIN thread = Threads
      /\ \A t \in Threads : thread[t] =
           [pc |-> IF t = "main" THEN pc ELSE "off", event |-> None, copy |-> None]
  BY DEF OnlyMain
<1>2. ThreadsWellFormed
  BY <1>1 DEF ThreadsWellFormed, Pcs, NotSaving
<1>3. \A t \in Threads : thread[t].pc \in {"fetch", "exited", "off"}
  BY <1>1
<1>4. LockIsHeld /\ TmpIsOwnCopy
  BY <1>3 DEF LockIsHeld, TmpIsOwnCopy, At
<1>5. StartsAlone
  BY <1>1 DEF StartsAlone
<1> QED
  BY <1>1, <1>2, <1>4, <1>5 DEF SaveInvariant

LEMMA MainAloneNext ==
  ASSUME NEW pc \in {"fetch", "exited"}, thread' = OnlyMain(pc), saveMu' = None,
         None \notin Threads
  PROVE  /\ SaveInvariant'
         /\ \A t \in Threads : (thread[t].copy)' = None
<1>1. /\ DOMAIN thread' = Threads
      /\ \A t \in Threads : thread'[t] =
           [pc |-> IF t = "main" THEN pc ELSE "off", event |-> None, copy |-> None]
  BY DEF OnlyMain
<1>2. ThreadsWellFormed'
  BY <1>1 DEF ThreadsWellFormed, Pcs, NotSaving
<1>3. \A t \in Threads : thread'[t].pc \in {"fetch", "exited", "off"}
  BY <1>1
<1>4. LockIsHeld' /\ TmpIsOwnCopy'
  BY <1>3 DEF LockIsHeld, TmpIsOwnCopy, At
<1>5. StartsAlone'
  BY <1>1 DEF StartsAlone
<1> QED
  BY <1>1, <1>2, <1>4, <1>5 DEF SaveInvariant

\* A goroutine that runs is main at its loop, or one main has started.
LEMMA OthersWait ==
  ASSUME SaveInvariant, NEW t \in Threads, thread[t].pc \notin {"off", "starting", "serving"},
         \A u \in Threads : u # t => thread'[u] = thread[u]
  PROVE  StartsAlone'
<1>1. CASE t = "main"
  BY <1>1 DEF SaveInvariant, StartsAlone, Threads
<1>2. CASE t # "main"
  BY <1>2 DEF SaveInvariant, StartsAlone, Threads
<1> QED
  BY <1>1, <1>2

\* One goroutine moves on and leaves lock and temporary file alone; it neither
\* was writing nor is now.
LEMMA OneThreadMoves ==
  ASSUME SaveInvariant, NEW t \in Threads, NEW pc \in Pcs, NEW event, NEW copy,
         thread' = [thread EXCEPT ![t] = [pc |-> pc, event |-> event, copy |-> copy]],
         copy = None <=> pc \in NotSaving \cup {"save"},
         thread[t].pc \notin {"writing", "renaming", "off", "starting", "serving"},
         pc \notin {"writing", "renaming"},
         UNCHANGED <<saveMu, tmp>>
  PROVE  SaveInvariant'
<1>1. /\ DOMAIN thread' = Threads
      /\ thread'[t] = [pc |-> pc, event |-> event, copy |-> copy]
      /\ \A u \in Threads : u # t => thread'[u] = thread[u]
  BY DEF SaveInvariant, ThreadsWellFormed
<1>2. ThreadsWellFormed'
  BY <1>1 DEF SaveInvariant, ThreadsWellFormed
<1>3. LockIsHeld'
  BY <1>1 DEF SaveInvariant, LockIsHeld
<1>4. TmpIsOwnCopy'
  BY <1>1 DEF SaveInvariant, TmpIsOwnCopy, At
<1>5. StartsAlone'
  BY <1>1, OthersWait
<1> QED
  BY <1>2, <1>3, <1>4, <1>5 DEF SaveInvariant

-----------------------------------------------------------------------------
(* The copies of the Saves under way, and the steps of DurableCache *)

Taken == {thread[t].copy : t \in {u \in Savers : thread[u].copy # None}}

\* A step in which no copy is made or dropped and the file stays.
LEMMA CopiesStay ==
  ASSUME \A t \in Savers : (thread[t].copy)' = thread[t].copy,
         disk' = disk
  PROVE  Durable!Change
<1>1. Taken' = Taken
  BY DEF Taken
<1> QED
  BY <1>1 DEF Durable!Change, Taken

\* A process that has just started has no copies.
LEMMA NoCopies ==
  ASSUME \A t \in Threads : (thread[t].copy)' = None,
         disk' = disk
  PROVE  Durable!Crash
<1>1. Taken' = {}
  BY DEF Taken, Savers, Threads
<1> QED
  BY <1>1 DEF Durable!Crash, Taken

\* One goroutine goes on, carrying another event perhaps, but no copy.
LEMMA QuietStep ==
  ASSUME SaveInvariant, NEW t \in Threads, NEW pc \in NotSaving \cup {"save"}, NEW event,
         thread' = [thread EXCEPT ![t] = [pc |-> pc, event |-> event, copy |-> None]],
         thread[t].pc \in {"fetch", "verify", "idle"},
         UNCHANGED <<saveMu, tmp, disk>>
  PROVE  SaveInvariant' /\ Durable!Change
<1>1. /\ pc \in Pcs
      /\ thread[t].pc \notin {"writing", "renaming", "off", "starting", "serving"}
      /\ pc \notin {"writing", "renaming"}
  BY DEF Pcs, NotSaving
<1>2. SaveInvariant'
  BY <1>1, OneThreadMoves
<1>3. \A u \in Threads : thread'[u].copy = thread[u].copy
  <2>1. thread[t].copy = None
    BY DEF SaveInvariant, ThreadsWellFormed, NotSaving
  <2>2. /\ thread'[t].copy = None
        /\ \A u \in Threads : u # t => thread'[u] = thread[u]
    BY DEF SaveInvariant, ThreadsWellFormed
  <2> QED
    BY <2>1, <2>2
<1>4. Durable!Change
  BY <1>3, CopiesStay DEF Savers, Threads
<1> QED
  BY <1>2, <1>4

\* The same for a step that leaves even the goroutines alone.
LEMMA NoThreadMoves ==
  ASSUME SaveInvariant, UNCHANGED <<thread, saveMu, tmp, disk>>
  PROVE  SaveInvariant' /\ Durable!Change
<1>1. SaveInvariant'
  BY DEF SaveInvariant, ThreadsWellFormed, LockIsHeld, TmpIsOwnCopy, StartsAlone, At
<1>2. Durable!Change
  BY CopiesStay
<1> QED
  BY <1>1, <1>2

-----------------------------------------------------------------------------
(* The steps of Save *)

\* Copying the store is DurableCache's Take.
LEMMA CopyStep ==
  ASSUME SaveInvariant, NoneIsNoCache, NEW t \in Savers, CopyStore(t)
  PROVE  SaveInvariant' /\ Durable!Take
<1>1. t \in Threads /\ thread[t].pc = "save" /\ Cache # None
  BY DEF CopyStore, At, Savers, Threads, NoneIsNoCache, Cache
<1>2. thread' = [thread EXCEPT ![t] =
                   [pc |-> "copied", event |-> thread[t].event, copy |-> Cache]]
  BY <1>1 DEF CopyStore, SaveInvariant, ThreadsWellFormed
<1>3. UNCHANGED <<saveMu, tmp, disk, entries, attestations>>
  BY DEF CopyStore, memory
<1>4. SaveInvariant'
  <2>1. /\ "copied" \in Pcs
        /\ Cache = None <=> "copied" \in NotSaving \cup {"save"}
        /\ thread[t].pc \notin {"writing", "renaming", "off", "starting", "serving"}
        /\ "copied" \notin {"writing", "renaming"}
    BY <1>1 DEF Pcs, NotSaving
  <2> HIDE DEF Cache
  <2> QED
    BY <1>1, <1>2, <1>3, <2>1, OneThreadMoves
<1>5. /\ thread'[t].copy = Cache
      /\ \A u \in Threads : u # t => thread'[u].copy = thread[u].copy
      /\ thread[t].copy = None
  BY <1>1, <1>2 DEF SaveInvariant, ThreadsWellFormed
<1>6. Taken' = Taken \cup {Cache}
  BY <1>1, <1>5 DEF Taken, Savers, Threads
<1>7. Cache' = Cache
  BY <1>3 DEF Cache
<1> QED
  BY <1>3, <1>4, <1>6, <1>7 DEF Durable!Take, Taken

\* Taking the lock and truncating path.tmp: whoever is about to rename would
\* hold the lock.
LEMMA BeginStep ==
  ASSUME SaveInvariant, None \notin Threads, NEW t \in Savers, BeginWrite(t)
  PROVE  SaveInvariant' /\ Durable!Change
<1>1. t \in Threads /\ thread[t].pc = "copied" /\ saveMu = None /\ saveMu' = t
  BY DEF BeginWrite, At, Savers, Threads
<1>2. /\ DOMAIN thread' = Threads
      /\ thread'[t] = [pc |-> "writing", event |-> thread[t].event, copy |-> thread[t].copy]
      /\ \A u \in Threads : u # t => thread'[u] = thread[u]
  BY <1>1 DEF BeginWrite, SaveInvariant, ThreadsWellFormed
<1>3. \A u \in Threads : thread[u].pc \notin {"writing", "renaming"}
  BY <1>1 DEF SaveInvariant, LockIsHeld
<1>4. thread[t].copy # None
  BY <1>1 DEF SaveInvariant, ThreadsWellFormed, NotSaving
<1>5. ThreadsWellFormed'
  BY <1>1, <1>2, <1>4 DEF SaveInvariant, ThreadsWellFormed, Pcs, NotSaving
<1>6. LockIsHeld'
  BY <1>1, <1>2, <1>3 DEF LockIsHeld
<1>7. TmpIsOwnCopy'
  BY <1>2, <1>3 DEF TmpIsOwnCopy, At
<1>8. \A u \in Threads : thread'[u].copy = thread[u].copy
  BY <1>2
<1>9. Durable!Change
  BY <1>8, CopiesStay DEF BeginWrite, Savers, Threads
<1>10. StartsAlone'
  BY <1>1, <1>2, OthersWait
<1> QED
  BY <1>5, <1>6, <1>7, <1>9, <1>10 DEF SaveInvariant

\* The writer alone has the temporary file, which then is its copy.
LEMMA FinishStep ==
  ASSUME SaveInvariant, NEW t \in Savers, FinishWrite(t)
  PROVE  SaveInvariant' /\ Durable!Change
<1>1. /\ t \in Threads /\ thread[t].pc = "writing"
      /\ saveMu' = saveMu /\ tmp' = thread[t].copy
  BY DEF FinishWrite, At, Savers, Threads
<1>2. /\ DOMAIN thread' = Threads
      /\ thread'[t] = [pc |-> "renaming", event |-> thread[t].event, copy |-> thread[t].copy]
      /\ \A u \in Threads : u # t => thread'[u] = thread[u]
  BY <1>1 DEF FinishWrite, SaveInvariant, ThreadsWellFormed
<1>3. \A u \in Threads : u # t => thread[u].pc \notin {"writing", "renaming"}
  BY <1>1 DEF SaveInvariant, LockIsHeld
<1>4. thread[t].copy # None
  BY <1>1 DEF SaveInvariant, ThreadsWellFormed, NotSaving
<1>5. ThreadsWellFormed'
  BY <1>1, <1>2, <1>4 DEF SaveInvariant, ThreadsWellFormed, Pcs, NotSaving
<1>6. LockIsHeld'
  BY <1>1, <1>2 DEF SaveInvariant, LockIsHeld
<1>7. TmpIsOwnCopy'
  BY <1>1, <1>2, <1>3 DEF TmpIsOwnCopy, At
<1>8. \A u \in Threads : thread'[u].copy = thread[u].copy
  BY <1>2
<1>9. Durable!Change
  BY <1>8, CopiesStay DEF FinishWrite, Savers, Threads
<1>10. StartsAlone'
  BY <1>1, <1>2, OthersWait
<1> QED
  BY <1>5, <1>6, <1>7, <1>9, <1>10 DEF SaveInvariant

\* A goroutine that was writing leaves Save and gives the lock back.
LEMMA LeavesSave ==
  ASSUME SaveInvariant, None \notin Threads, NEW t \in Savers,
         thread[t].pc \in {"writing", "renaming"},
         Goto(t, Home(t)), saveMu' = None
  PROVE  /\ SaveInvariant'
         /\ thread'[t].copy = None
         /\ \A u \in Threads : u # t => thread'[u].copy = thread[u].copy
<1>1. t \in Threads /\ Home(t) \in {"fetch", "idle"}
  BY DEF Savers, Threads, Home
<1>2. /\ DOMAIN thread' = Threads
      /\ thread'[t] = [pc |-> Home(t), event |-> None, copy |-> None]
      /\ \A u \in Threads : u # t => thread'[u] = thread[u]
  BY <1>1 DEF Goto, SaveInvariant, ThreadsWellFormed
<1>3. \A u \in Threads : u # t => thread[u].pc \notin {"writing", "renaming"}
  BY <1>1 DEF SaveInvariant, LockIsHeld
<1>4. ThreadsWellFormed'
  BY <1>1, <1>2 DEF SaveInvariant, ThreadsWellFormed, Pcs, NotSaving
<1>5. \A u \in Threads : thread'[u].pc \notin {"writing", "renaming"}
  BY <1>1, <1>2, <1>3
<1>6. LockIsHeld' /\ TmpIsOwnCopy'
  BY <1>5 DEF LockIsHeld, TmpIsOwnCopy, At
<1>7. StartsAlone'
  BY <1>1, <1>2, OthersWait
<1> QED
  BY <1>2, <1>4, <1>6, <1>7 DEF SaveInvariant

\* A write that fails is DurableCache's Abandon.
LEMMA FailStep ==
  ASSUME SaveInvariant, None \notin Threads, NEW t \in Savers, FailWrite(t)
  PROVE  SaveInvariant' /\ Durable!Abandon
<1>1. /\ SaveInvariant'
      /\ thread'[t].copy = None
      /\ \A u \in Threads : u # t => thread'[u].copy = thread[u].copy
  BY LeavesSave DEF FailWrite
<1>2. Taken' \subseteq Taken
  BY <1>1 DEF Taken, Savers, Threads
<1>3. Cache' = Cache /\ disk' = disk
  BY DEF FailWrite, Cache, memory
<1> QED
  BY <1>1, <1>2, <1>3 DEF Durable!Abandon, Taken

\* The rename puts the writer's own copy in place: DurableCache's Install.
LEMMA RenameStep ==
  ASSUME SaveInvariant, None \notin Threads, NEW t \in Savers, RenameTmp(t)
  PROVE  SaveInvariant' /\ Durable!Install
<1> DEFINE c == thread[t].copy
<1>1. /\ SaveInvariant'
      /\ thread'[t].copy = None
      /\ \A u \in Threads : u # t => thread'[u].copy = thread[u].copy
  BY LeavesSave DEF RenameTmp, At
<1>2. t \in Threads /\ thread[t].pc = "renaming"
  BY DEF RenameTmp, At, Savers, Threads
<1>3. tmp = c /\ c # None
  BY <1>2 DEF SaveInvariant, ThreadsWellFormed, TmpIsOwnCopy, At, NotSaving
<1>4. c \in Taken /\ disk' = c
  BY <1>3 DEF Taken, RenameTmp
<1>5. Taken' \in {Taken, Taken \ {c}}
  <2>1. \A x : x \in Taken' <=> \E u \in Savers : u # t /\ thread[u].copy = x /\ x # None
    BY <1>1 DEF Taken, Savers, Threads
  <2>2. \A x : x \in Taken <=> \E u \in Savers : thread[u].copy = x /\ x # None
    BY DEF Taken
  <2>3. CASE \E u \in Savers : u # t /\ thread[u].copy = c
    <3>1. \A x : x \in Taken' <=> x \in Taken
      BY <2>1, <2>2, <2>3, <1>3
    <3> QED
      BY <3>1
  <2>4. CASE ~ \E u \in Savers : u # t /\ thread[u].copy = c
    <3>1. \A x : x \in Taken' <=> x \in Taken /\ x # c
      BY <2>1, <2>2, <2>4, <1>3
    <3> QED
      BY <3>1
  <2> QED
    BY <2>3, <2>4
<1>6. Cache' = Cache
  BY DEF RenameTmp, Cache, memory
<1>7. Durable!Install
  BY <1>4, <1>5, <1>6 DEF Durable!Install, Taken
<1> QED
  BY <1>1, <1>7

-----------------------------------------------------------------------------
(* The refinement *)

\* The loop of main has ended: the subscriptions begin, and none was saving.
LEMMA SubscriptionsStart ==
  ASSUME SaveInvariant, None \notin Threads, StartSubscriptions
  PROVE  SaveInvariant' /\ Durable!Change
<1>1. thread["main"].pc = "fetch" /\ \A t \in Threads \ {"main"} : thread[t].pc = "off"
  BY DEF StartSubscriptions, At, SaveInvariant, StartsAlone
<1>2. \A t \in Threads :
        /\ thread[t] = [pc |-> thread[t].pc, event |-> thread[t].event, copy |-> thread[t].copy]
        /\ thread[t].copy = None
  BY <1>1 DEF SaveInvariant, ThreadsWellFormed, NotSaving
<1> DEFINE next(t) == IF t = "main" THEN "starting"
                      ELSE IF t = "endorsements" /\ ~CurationConfigured(config) THEN "off"
                      ELSE "idle"
<1>3. thread' = [t \in Threads |-> [thread[t] EXCEPT !.pc = next(t)]]
  BY DEF StartSubscriptions
<1>4. \A t \in Threads : next(t) \in {"starting", "off", "idle"}
  OBVIOUS
<1>5. next("main") = "starting"
  OBVIOUS
<1> HIDE DEF next
<1>6. /\ DOMAIN thread' = Threads
      /\ \A t \in Threads :
           thread'[t] = [pc |-> next(t), event |-> thread[t].event, copy |-> None]
  <2> SUFFICES ASSUME NEW t \in Threads
               PROVE  thread'[t] = [pc |-> next(t), event |-> thread[t].event, copy |-> None]
    BY <1>3
  <2>1. thread'[t] = [thread[t] EXCEPT !.pc = next(t)]
    BY <1>3
  <2>2. thread[t] = [pc |-> thread[t].pc, event |-> thread[t].event, copy |-> None]
    BY <1>2
  <2> QED
    BY <2>1, <2>2
<1>7. ThreadsWellFormed'
  BY <1>4, <1>6 DEF ThreadsWellFormed, Pcs, NotSaving
<1>8. UNCHANGED <<saveMu, tmp, disk>>
  BY DEF StartSubscriptions
<1>9. saveMu \notin Threads
  BY <1>1 DEF SaveInvariant, LockIsHeld, Threads
<1>10. LockIsHeld' /\ TmpIsOwnCopy'
  BY <1>4, <1>6, <1>8, <1>9 DEF LockIsHeld, TmpIsOwnCopy, At
<1>11. StartsAlone'
  BY <1>5, <1>6 DEF StartsAlone, Threads
<1>12. Durable!Change
  BY <1>2, <1>6, <1>8, CopiesStay DEF Savers, Threads
<1> QED
  BY <1>7, <1>10, <1>11, <1>12 DEF SaveInvariant

\* The server is up; the subscriptions may be anywhere.
LEMMA ServeStep ==
  ASSUME SaveInvariant, Serve
  PROVE  SaveInvariant' /\ Durable!Change
<1>1. /\ "main" \in Threads /\ thread["main"].pc = "starting"
      /\ UNCHANGED <<saveMu, tmp, disk>>
  BY DEF Serve, At, Threads
<1>2. /\ DOMAIN thread' = Threads
      /\ thread'["main"] = [pc |-> "serving", event |-> thread["main"].event,
                            copy |-> thread["main"].copy]
      /\ \A u \in Threads : u # "main" => thread'[u] = thread[u]
  BY <1>1 DEF Serve, SaveInvariant, ThreadsWellFormed
<1>3. ThreadsWellFormed'
  BY <1>1, <1>2 DEF SaveInvariant, ThreadsWellFormed, Pcs, NotSaving
<1>4. LockIsHeld'
  BY <1>1, <1>2 DEF SaveInvariant, LockIsHeld
<1>5. TmpIsOwnCopy'
  BY <1>1, <1>2 DEF SaveInvariant, TmpIsOwnCopy, At
<1>6. StartsAlone'
  BY <1>2 DEF StartsAlone
<1>7. Durable!Change
  BY <1>1, <1>2, CopiesStay DEF Savers, Threads
<1> QED
  BY <1>3, <1>4, <1>5, <1>6, <1>7 DEF SaveInvariant

\* Going to verify an event, and going on from there, are quiet steps.
LEMMA VerifyStep ==
  ASSUME SaveInvariant, NEW t \in Threads, NEW e,
         thread[t].pc \in {"fetch", "idle"},
         Verify(t, e), UNCHANGED <<saveMu, tmp, disk>>
  PROVE  SaveInvariant' /\ Durable!Change
<1>1. "verify" \in NotSaving \cup {"save"}
  BY DEF NotSaving
<1> QED
  BY <1>1, QuietStep DEF Verify

LEMMA GotoStep ==
  ASSUME SaveInvariant, NEW t \in Threads, NEW pc \in {"fetch", "idle", "save"},
         thread[t].pc \in {"verify", "idle"},
         Goto(t, pc), UNCHANGED <<saveMu, tmp, disk>>
  PROVE  SaveInvariant' /\ Durable!Change
<1>1. pc \in NotSaving \cup {"save"}
  BY DEF NotSaving
<1> QED
  BY <1>1, QuietStep DEF Goto

\* Every step keeps the invariant and is a step of DurableCache.
LEMMA StepRefines ==
  ASSUME SaveInvariant, NoneIsNoCache, [Next]_vars
  PROVE  SaveInvariant' /\ (Durable!Next \/ UNCHANGED Durable!vars)
<1>0. None \notin Threads
  BY DEF NoneIsNoCache
<1>1. ASSUME NEW p \in Configs, Restart(p)
      PROVE  SaveInvariant' /\ Durable!Crash
  BY <1>0, <1>1, MainAloneNext, NoCopies DEF Restart, StartedThreads
<1>2. ASSUME StartSubscriptions \/ Serve
      PROVE  SaveInvariant' /\ Durable!Change
  BY <1>0, <1>2, SubscriptionsStart, ServeStep
<1>2a. ASSUME LogFatal
       PROVE  SaveInvariant' /\ Durable!Crash
  BY <1>0, <1>2a, MainAloneNext, NoCopies DEF LogFatal
<1>3. ASSUME NEW e \in DeclEvents, NextFetched(e)
      PROVE  SaveInvariant' /\ Durable!Change
  <2>1. "main" \in Threads /\ thread["main"].pc = "fetch" /\ UNCHANGED <<saveMu, tmp, disk>>
    BY <1>3 DEF NextFetched, At, Threads
  <2>2. CASE Verify("main", e)
    BY <2>1, <2>2, VerifyStep
  <2>3. CASE UNCHANGED thread
    BY <2>1, <2>3, NoThreadMoves
  <2> QED
    BY <1>3, <2>2, <2>3 DEF NextFetched
<1>4. ASSUME NEW e \in DeclEvents, ReceiveDeclaration(e)
      PROVE  SaveInvariant' /\ Durable!Change
  BY <1>4, VerifyStep DEF ReceiveDeclaration, At, Threads
<1>5. ASSUME NEW t \in {"main", "declarations"}, IngestDeclaration(t) \/ RejectDeclaration(t)
      PROVE  SaveInvariant' /\ Durable!Change
  <2>1. t \in Threads /\ thread[t].pc = "verify" /\ UNCHANGED <<saveMu, tmp, disk>>
    BY <1>5 DEF IngestDeclaration, RejectDeclaration, At, Threads
  <2>2. Home(t) \in {"fetch", "idle", "save"}
    BY DEF Home
  <2>3. Goto(t, "save") \/ Goto(t, Home(t))
    BY <1>5 DEF IngestDeclaration, RejectDeclaration
  <2> QED
    BY <2>1, <2>2, <2>3, GotoStep
<1>6. ASSUME NEW a \in AttEvents, ReceiveAttestation(a)
      PROVE  SaveInvariant' /\ Durable!Change
  BY <1>6, GotoStep DEF ReceiveAttestation, At, Threads
<1>7. ASSUME NEW n \in EndorsementEvents, ReceiveEndorsement(n)
      PROVE  SaveInvariant' /\ Durable!Change
  BY <1>7, NoThreadMoves DEF ReceiveEndorsement
<1>8. ASSUME NEW t \in Savers, SaveStep(t)
      PROVE  SaveInvariant' /\ Durable!Next
  BY <1>0, <1>8, CopyStep, BeginStep, FinishStep, FailStep, RenameStep
     DEF SaveStep, Durable!Next
<1>9. CASE UNCHANGED vars
  <2>1. UNCHANGED <<thread, saveMu, tmp, disk>>
    BY <1>9 DEF vars
  <2> QED
    BY <2>1, NoThreadMoves DEF Durable!Next
<1>10. Durable!Change \/ Durable!Crash => Durable!Next
  BY DEF Durable!Next
<1> QED
  BY <1>1, <1>2, <1>2a, <1>3, <1>4, <1>5, <1>6, <1>7, <1>8, <1>9, <1>10 DEF Next

\* "The write is atomic within the target directory": whatever the goroutines do,
\* wherever the process stops, and whichever writes fail, the cache file is one
\* whole copy of the store, taken by a Save of the process that wrote it.
THEOREM CacheFileIsDurable ==
  ASSUME NoneIsNoCache
  PROVE  Spec => DurableCacheSpec
<1>1. Init => SaveInvariant /\ Durable!Init
  <2> SUFFICES ASSUME Init PROVE SaveInvariant /\ Durable!Init
    OBVIOUS
  <2>1. SaveInvariant
    BY MainAlone DEF Init, StartedThreads, NoneIsNoCache
  <2>2. \A t \in Savers : thread[t].copy = None
    BY DEF Init, StartedThreads, OnlyMain, Savers, Threads
  <2>3. disk = None
    BY DEF Init
  <2> QED
    BY <2>1, <2>2, <2>3 DEF Durable!Init
<1>2. SaveInvariant /\ [Next]_vars => SaveInvariant' /\ [Durable!Next]_(Durable!vars)
  BY StepRefines
<1> QED
  BY <1>1, <1>2, PTL DEF Spec, DurableCacheSpec, Durable!Spec

-----------------------------------------------------------------------------
(* What the store, the copies and the file hold *)

\* A cache that can be loaded as it was saved: lists in the store's order, of
\* repository-verified revisions of genuine events, and one genuine attestation
\* in each slot.
Sound(c) ==
  /\ c.entries \in [Pairs -> Seq(Revisions)]
  /\ \A k \in Pairs :
       /\ NewestFirst(c.entries[k])
       /\ DistinctCommits(c.entries[k])
       /\ \A i \in 1 .. Len(c.entries[k]) :
            /\ c.entries[k][i].manifest
            /\ PairOf(c.entries[k][i].event) = k
            /\ c.entries[k][i].event.signed
            /\ Translates(c.entries[k][i].event)
  /\ c.attestations \subseteq AttEvents
  /\ IsFiniteSet(c.attestations)
  /\ \A a \in c.attestations : a.signed
  /\ \A a, b \in c.attestations : SameSlot(a, b) => a = b

\* The store is sound, and with it whatever copy of it a Save has taken, and the
\* file; what is being verified has been validated.
ContentsSound ==
  /\ Sound(Cache)
  /\ \A t \in Threads : thread[t].copy # None => Sound(thread[t].copy)
  /\ disk # None => Sound(disk)
  /\ \A t \in Threads : At(t, "verify") =>
       thread[t].event \in DeclEvents /\ thread[t].event.signed

Bookkeeping ==
  /\ config \in Configs
  /\ endorsements \subseteq EndorsementEvents
  /\ todo \subseteq DeclEvents
  /\ saveMu \in Savers \cup {None}

DaemonInvariant == SaveInvariant /\ ContentsSound /\ Bookkeeping

\* A store that has just been set up.
LEMMA EmptyIsSound == Sound(CacheOf([k \in Pairs |-> <<>>], {}))
<1> DEFINE c == CacheOf([k \in Pairs |-> <<>>], {})
<1>1. c.entries = [k \in Pairs |-> <<>>] /\ c.attestations = {}
  BY DEF CacheOf
<1>2. <<>> \in Seq(Revisions) /\ Len(<<>>) = 0 /\ DOMAIN <<>> = {}
  OBVIOUS
<1>3. \A i \in 1 .. 0 : FALSE
  OBVIOUS
<1> HIDE DEF c
<1> QED
  BY <1>1, <1>2, <1>3, FS_EmptySet DEF Sound, NewestFirst, DistinctCommits, c

\* One more revision that has been through everything main does to a declaration.
LEMMA AddKeepsSound ==
  ASSUME NEW c, Sound(c), NEW p, NEW e \in DeclEvents, e.signed, Translates(e),
         NEW d, d.attestations = c.attestations,
         d.entries = [c.entries EXCEPT ![PairOf(e)] =
                        AddRevision(p, c.attestations, @, [event |-> e, manifest |-> TRUE])]
  PROVE  Sound(d)
<1> DEFINE k == PairOf(e)
           r == [event |-> e, manifest |-> TRUE]
           l == AddRevision(p, c.attestations, c.entries[k], r)
<1>1. k \in Pairs /\ r \in Revisions /\ r.event = e /\ r.manifest
  BY DeclEventsAssumption DEF Revisions
<1>2. /\ c.entries[k] \in Seq(Revisions)
      /\ NewestFirst(c.entries[k]) /\ DistinctCommits(c.entries[k])
      /\ DOMAIN c.entries = Pairs
  BY <1>1 DEF Sound
<1>3. d.entries = [c.entries EXCEPT ![k] = l]
  OBVIOUS
<1> HIDE DEF r, k
<1>4. /\ l \in Seq(Revisions) /\ NewestFirst(l) /\ DistinctCommits(l)
      /\ \A i \in 1 .. Len(l) : l[i] = r \/ \E j \in 1 .. Len(c.entries[k]) : l[i] = c.entries[k][j]
  BY <1>1, <1>2, AddProperties
<1> HIDE DEF l
<1>5. \A i \in 1 .. Len(l) : /\ l[i].manifest
                             /\ PairOf(l[i].event) = k
                             /\ l[i].event.signed
                             /\ Translates(l[i].event)
  <2>1. /\ r.manifest /\ PairOf(r.event) = k /\ r.event.signed /\ Translates(r.event)
    BY <1>1 DEF k
  <2>2. \A j \in 1 .. Len(c.entries[k]) : /\ c.entries[k][j].manifest
                                          /\ PairOf(c.entries[k][j].event) = k
                                          /\ c.entries[k][j].event.signed
                                          /\ Translates(c.entries[k][j].event)
    BY <1>1 DEF Sound
  <2> QED
    BY <1>4, <2>1, <2>2
<1>6. /\ d.entries \in [Pairs -> Seq(Revisions)]
      /\ d.entries[k] = l
      /\ \A q \in Pairs : q # k => d.entries[q] = c.entries[q]
  BY <1>1, <1>3, <1>4 DEF Sound
<1>7. ASSUME NEW q \in Pairs
      PROVE  /\ NewestFirst(d.entries[q])
             /\ DistinctCommits(d.entries[q])
             /\ \A i \in 1 .. Len(d.entries[q]) :
                  /\ d.entries[q][i].manifest
                  /\ PairOf(d.entries[q][i].event) = q
                  /\ d.entries[q][i].event.signed
                  /\ Translates(d.entries[q][i].event)
  <2>1. CASE q = k
    BY <1>4, <1>5, <1>6, <2>1
  <2>2. CASE q # k
    BY <1>6, <2>2 DEF Sound
  <2> QED
    BY <2>1, <2>2
<1> QED
  BY <1>6, <1>7 DEF Sound

\* One more attestation.
LEMMA AttestKeepsSound ==
  ASSUME NEW c, Sound(c), NEW a \in AttEvents, a.signed,
         NEW d, d.entries = c.entries,
         d.attestations = StoreAttestation(c.attestations, a)
  PROVE  Sound(d)
<1>1. /\ d.attestations \subseteq c.attestations \cup {a}
      /\ \A x, y \in d.attestations : SameSlot(x, y) => x = y
  <2>1. CASE d.attestations = c.attestations
    BY <2>1 DEF Sound
  <2>2. CASE d.attestations = {b \in c.attestations : ~SameSlot(a, b)} \cup {a}
    <3>1. ASSUME NEW x \in d.attestations, NEW y \in d.attestations, SameSlot(x, y)
          PROVE  x = y
      <4>1. SameSlot(y, x)
        BY <3>1 DEF SameSlot
      <4> QED
        BY <2>2, <3>1, <4>1 DEF Sound
    <3> QED
      BY <2>2, <3>1
  <2> QED
    BY <2>1, <2>2 DEF StoreAttestation
<1>2. c.attestations \subseteq AttEvents /\ IsFiniteSet(c.attestations)
      /\ \A b \in c.attestations : b.signed
  BY DEF Sound
<1>3. IsFiniteSet(c.attestations \cup {a})
  BY <1>2, FS_AddElement
<1>4. IsFiniteSet(d.attestations)
  BY <1>1, <1>3, FS_Subset
<1>5. d.attestations \subseteq AttEvents /\ \A b \in d.attestations : b.signed
  BY <1>1, <1>2
<1> QED
  BY <1>1, <1>4, <1>5 DEF Sound

\* A sound file is loaded into a sound store, whatever the configuration; its
\* attestations are restored as they were.
LEMMA LoadKeepsSound ==
  ASSUME NEW c, Sound(c), NEW p, NEW d,
         d.entries = LoadEntries(p, c), d.attestations = LoadAttestations(c)
  PROVE  /\ Sound(d)
         /\ d.attestations = c.attestations
         /\ \A k \in Pairs : d.entries[k] = LoadAll(p, c.attestations, c.entries[k])
<1>1. d.attestations = c.attestations
  BY AttestationsReload DEF Sound
<1>2. d.entries = [k \in Pairs |-> LoadAll(p, c.attestations, c.entries[k])]
  <2>1. DOMAIN c.entries = Pairs
    BY DEF Sound
  <2>2. LoadEntries(p, c) =
          [k \in DOMAIN c.entries |-> LoadAll(p, LoadAttestations(c), c.entries[k])]
    BY DEF LoadEntries, LoadAll
  <2> QED
    BY <1>1, <2>1, <2>2
<1>3. \A k \in Pairs : d.entries[k] = LoadAll(p, c.attestations, c.entries[k])
  BY <1>2
<1>4. ASSUME NEW k \in Pairs
      PROVE  /\ d.entries[k] \in Seq(Revisions)
             /\ NewestFirst(d.entries[k]) /\ DistinctCommits(d.entries[k])
             /\ \A l \in 1 .. Len(d.entries[k]) :
                  \E m \in 1 .. Len(c.entries[k]) : d.entries[k][l] = c.entries[k][m]
  <2>1. c.entries[k] \in Seq(Revisions)
    BY DEF Sound
  <2> QED
    BY <1>3, <2>1, LoadAllWellFormed
<1>5. d.entries \in [Pairs -> Seq(Revisions)]
  BY <1>2, <1>3, <1>4
<1>6. ASSUME NEW k \in Pairs, NEW i \in 1 .. Len(d.entries[k])
      PROVE  /\ d.entries[k][i].manifest
             /\ PairOf(d.entries[k][i].event) = k
             /\ d.entries[k][i].event.signed
             /\ Translates(d.entries[k][i].event)
  <2>1. PICK m \in 1 .. Len(c.entries[k]) : d.entries[k][i] = c.entries[k][m]
    BY <1>4
  <2> QED
    BY <2>1 DEF Sound
<1> QED
  BY <1>1, <1>3, <1>4, <1>5, <1>6 DEF Sound

\* It offers what the file offers to whoever trusts the publisher.
LEMMA LoadOffersTheSame ==
  ASSUME NEW c, Sound(c), NEW p, NEW k \in Pairs
  PROVE  SelectAccepted(p, c.attestations, LoadAll(p, c.attestations, c.entries[k]))
           = IF k[1] \in p.publishers
               THEN SelectAccepted(p, c.attestations, c.entries[k]) ELSE {}
<1>1. /\ c.entries[k] \in Seq(Revisions)
      /\ NewestFirst(c.entries[k]) /\ DistinctCommits(c.entries[k])
      /\ \A i \in 1 .. Len(c.entries[k]) :
           /\ c.entries[k][i].event.publisher = k[1]
           /\ c.entries[k][i].event.signed
           /\ Translates(c.entries[k][i].event)
  <2>1. \A i \in 1 .. Len(c.entries[k]) : PairOf(c.entries[k][i].event) = k
    BY DEF Sound
  <2> QED
    BY <2>1 DEF Sound, PairOf
<1>2. CASE k[1] \in p.publishers
  <2>1. \A i \in 1 .. Len(c.entries[k]) :
          /\ Validate(p, c.entries[k][i].event)
          /\ c.entries[k][i].manifest => Translates(c.entries[k][i].event)
    BY <1>1, <1>2 DEF Validate
  <2> QED
    BY <1>1, <1>2, <2>1, EntriesReload
<1>3. CASE k[1] \notin p.publishers
  <2>1. \A i \in 1 .. Len(c.entries[k]) : ~Validate(p, c.entries[k][i].event)
    BY <1>1, <1>3 DEF Validate
  <2>2. LoadAll(p, c.attestations, c.entries[k]) = <<>>
    BY <1>1, <2>1, LoadAllTrusted
  <2>3. SelectAccepted(p, c.attestations, <<>>) = {}
    <3>1. DOMAIN <<>> = {}
      OBVIOUS
    <3> QED
      BY <3>1 DEF SelectAccepted
  <2> QED
    BY <1>3, <2>2, <2>3
<1> QED
  BY <1>2, <1>3

\* The goroutines of a process that has just started, and its book-keeping.
LEMMA RestartThreads ==
  ASSUME NEW p \in Configs, Restart(p), Sound(Cache'), disk' # None => Sound(disk')
  PROVE  ContentsSound' /\ Bookkeeping'
<1>1. \A t \in Threads : thread'[t].copy = None /\ thread'[t].pc # "verify"
  BY DEF Restart, StartedThreads, OnlyMain
<1>2. ContentsSound'
  BY <1>1 DEF ContentsSound, At, Sound
<1>3. Bookkeeping'
  BY DEF Restart, Fetched, Bookkeeping
<1> QED
  BY <1>2, <1>3

\* One goroutine moves on with what is sound.
LEMMA ContentsFollow ==
  ASSUME ContentsSound, NEW t \in Threads,
         Sound(Cache'), disk' # None => Sound(disk'),
         \A u \in Threads : u # t => thread'[u] = thread[u],
         thread'[t].copy # None => Sound(thread'[t].copy),
         thread'[t].pc = "verify" => thread'[t].event \in DeclEvents /\ thread'[t].event.signed
  PROVE  ContentsSound'
<1>1. \A u \in Threads : thread'[u].copy # None => Sound(thread'[u].copy)
  BY DEF ContentsSound
<1>2. \A u \in Threads : thread'[u].pc = "verify" =>
        thread'[u].event \in DeclEvents /\ thread'[u].event.signed
  BY DEF ContentsSound, At
<1> QED
  BY <1>1, <1>2 DEF ContentsSound, At, Sound

\* Start and restart: from nothing or from the file.
LEMMA RestartContents ==
  ASSUME DaemonInvariant, NEW p \in Configs, Restart(p)
  PROVE  /\ ContentsSound' /\ Bookkeeping'
         /\ \A k \in Pairs :
              SelectAccepted(p, attestations', entries'[k]) = CachedOffer(p, disk, k)
<1>1. /\ entries' = [k \in Pairs |-> StartWith(p, disk, k)]
      /\ attestations' = IF disk = None THEN {} ELSE LoadAttestations(disk)
      /\ disk' = disk
  BY DEF Restart
<1>2. CASE disk = None
  <2>1. entries' = [k \in Pairs |-> <<>>] /\ attestations' = {}
    BY <1>1, <1>2 DEF StartWith
  <2>2. Sound(Cache')
    BY <2>1, EmptyIsSound DEF Cache
  <2>3. SelectAccepted(p, {}, <<>>) = {}
    <3>1. DOMAIN <<>> = {}
      OBVIOUS
    <3> QED
      BY <3>1 DEF SelectAccepted
  <2> QED
    BY <1>1, <1>2, <2>1, <2>2, <2>3, RestartThreads DEF CachedOffer
<1>3. CASE disk # None
  <2> DEFINE d == CacheOf(entries', attestations')
  <2>1. Sound(disk)
    BY <1>3 DEF DaemonInvariant, ContentsSound
  <2>2. /\ d.entries = entries' /\ d.attestations = attestations'
        /\ d = Cache'
    BY DEF CacheOf, Cache
  <2>3. entries' = LoadEntries(p, disk) /\ attestations' = LoadAttestations(disk)
    <3>1. entries' = [k \in Pairs |-> LoadEntries(p, disk)[k]]
      BY <1>1, <1>3 DEF StartWith
    <3>2. DOMAIN disk.entries = Pairs
      BY <2>1 DEF Sound
    <3>3. LoadEntries(p, disk) = [k \in Pairs |-> LoadEntries(p, disk)[k]]
      BY <3>2 DEF LoadEntries
    <3> QED
      BY <1>1, <1>3, <3>1, <3>3
  <2> HIDE DEF d
  <2>4. /\ Sound(d)
        /\ d.attestations = disk.attestations
        /\ \A k \in Pairs : d.entries[k] = LoadAll(p, disk.attestations, disk.entries[k])
    BY <2>1, <2>2, <2>3, LoadKeepsSound
  <2>5. \A k \in Pairs :
          SelectAccepted(p, attestations', entries'[k]) = CachedOffer(p, disk, k)
    BY <1>3, <2>1, <2>2, <2>4, LoadOffersTheSame DEF CachedOffer
  <2> QED
    BY <1>1, <2>1, <2>2, <2>4, <2>5, RestartThreads
<1> QED
  BY <1>2, <1>3

\* Every step keeps the contents sound.
LEMMA StepKeepsContents ==
  ASSUME DaemonInvariant, NoneIsNoCache, [Next]_vars
  PROVE  ContentsSound' /\ Bookkeeping'
<1>0. /\ DOMAIN thread = Threads
      /\ \A t \in Threads :
           thread[t] = [pc |-> thread[t].pc, event |-> thread[t].event,
                        copy |-> thread[t].copy]
      /\ Sound(Cache) /\ (disk # None => Sound(disk))
      /\ \A t \in Threads : thread[t].copy # None => Sound(thread[t].copy)
  BY DEF DaemonInvariant, SaveInvariant, ThreadsWellFormed, ContentsSound
<1>1. ASSUME NEW p \in Configs, Restart(p) PROVE ContentsSound' /\ Bookkeeping'
  BY <1>1, RestartContents
<1>2. ASSUME StartSubscriptions \/ Serve PROVE ContentsSound' /\ Bookkeeping'
  <2>1. UNCHANGED <<config, entries, attestations, endorsements, todo, saveMu, disk>>
    BY <1>2 DEF StartSubscriptions, Serve, memory
  <2>2. Cache' = Cache
    BY <2>1 DEF Cache
  <2>3. \A t \in Threads : /\ thread'[t].copy = thread[t].copy
                           /\ thread'[t].event = thread[t].event
                           /\ thread'[t].pc = "verify" => thread[t].pc = "verify"
    <3>1. CASE StartSubscriptions
      <4> TAKE t \in Threads
      <4>1. PICK pc \in {"starting", "off", "idle"} :
              thread'[t] = [thread[t] EXCEPT !.pc = pc]
        BY <3>1 DEF StartSubscriptions
      <4> QED
        BY <1>0, <4>1
    <3>2. CASE Serve
      BY <1>0, <3>2 DEF Serve, Threads
    <3> QED
      BY <1>2, <3>1, <3>2
  <2> QED
    BY <1>0, <2>1, <2>2, <2>3 DEF ContentsSound, At, DaemonInvariant, Bookkeeping, Sound
<1>2a. ASSUME LogFatal PROVE ContentsSound' /\ Bookkeeping'
  <2>1. \A t \in Threads : thread'[t].copy = None /\ thread'[t].pc # "verify"
    BY <1>2a DEF LogFatal, OnlyMain
  <2>2. Sound(Cache')
    BY <1>2a, EmptyIsSound DEF LogFatal, Cache
  <2>3. ContentsSound'
    BY <1>0, <1>2a, <2>1, <2>2 DEF ContentsSound, At, LogFatal
  <2> QED
    BY <1>2a, <2>3 DEF LogFatal, DaemonInvariant, Bookkeeping
<1>3. ASSUME NEW t \in {"main", "declarations"}, NEW e \in DeclEvents,
             Validate(config, e), Verify(t, e), todo' \subseteq todo,
             UNCHANGED <<config, entries, attestations, endorsements, saveMu, disk>>
      PROVE  ContentsSound' /\ Bookkeeping'
  <2>1. /\ t \in Threads
        /\ thread'[t].copy = None
        /\ thread'[t].event = e
        /\ e.signed
        /\ \A u \in Threads : u # t => thread'[u] = thread[u]
    BY <1>0, <1>3 DEF Verify, Validate, Threads
  <2>2. Cache' = Cache
    BY <1>3 DEF Cache
  <2>3. ContentsSound'
    BY <1>0, <1>3, <2>1, <2>2, ContentsFollow DEF DaemonInvariant
  <2> QED
    BY <1>3, <2>3 DEF DaemonInvariant, Bookkeeping
<1>4. ASSUME NEW e \in DeclEvents, NextFetched(e) PROVE ContentsSound' /\ Bookkeeping'
  <2>1. /\ UNCHANGED <<config, entries, attestations, endorsements, saveMu, disk>>
        /\ todo' \subseteq todo
    BY <1>4 DEF NextFetched, memory
  <2>2. CASE Validate(config, e) /\ Verify("main", e)
    BY <1>3, <2>1, <2>2
  <2>3. CASE UNCHANGED thread
    BY <1>0, <2>1, <2>3 DEF ContentsSound, At, DaemonInvariant, Bookkeeping, Cache, Sound
  <2> QED
    BY <1>4, <2>2, <2>3 DEF NextFetched
<1>5. ASSUME NEW e \in DeclEvents, ReceiveDeclaration(e) PROVE ContentsSound' /\ Bookkeeping'
  <2>1. /\ UNCHANGED <<config, entries, attestations, endorsements, saveMu, disk>>
        /\ todo' \subseteq todo /\ Validate(config, e) /\ Verify("declarations", e)
    BY <1>5 DEF ReceiveDeclaration, memory
  <2> QED
    BY <1>3, <2>1
<1>6. ASSUME NEW t \in Threads, NEW pc \in {"save", "fetch", "idle"}, Goto(t, pc),
             Sound(Cache'), disk' # None => Sound(disk'),
             UNCHANGED <<config, todo>>,
             endorsements' \subseteq EndorsementEvents, saveMu' \in Savers \cup {None}
      PROVE  ContentsSound' /\ Bookkeeping'
  <2>1. /\ thread'[t].copy = None
        /\ thread'[t].pc # "verify"
        /\ \A u \in Threads : u # t => thread'[u] = thread[u]
    BY <1>0, <1>6 DEF Goto
  <2>2. ContentsSound'
    BY <1>6, <2>1, ContentsFollow DEF DaemonInvariant
  <2> QED
    BY <1>6, <2>2 DEF DaemonInvariant, Bookkeeping
<1>7. ASSUME NEW t \in {"main", "declarations"}, IngestDeclaration(t)
      PROVE  ContentsSound' /\ Bookkeeping'
  <2> DEFINE e == thread[t].event
  <2>1. /\ t \in Threads /\ At(t, "verify")
        /\ Translates(e) /\ Goto(t, "save")
        /\ entries' = [entries EXCEPT ![PairOf(e)] =
             AddRevision(config, attestations, @, [event |-> e, manifest |-> TRUE])]
        /\ UNCHANGED <<config, attestations, endorsements, todo, saveMu, disk>>
    BY <1>7 DEF IngestDeclaration, Threads
  <2>2. e \in DeclEvents /\ e.signed
    BY <2>1 DEF DaemonInvariant, ContentsSound
  <2>3. /\ Cache.entries = entries /\ Cache.attestations = attestations
        /\ Cache'.entries = entries' /\ Cache'.attestations = attestations'
    BY DEF Cache, CacheOf
  <2> HIDE DEF e
  <2>4. ASSUME NEW c, c = Cache, NEW d, d = Cache' PROVE Sound(d)
    <3>1. Sound(c) /\ d.attestations = c.attestations
      BY <1>0, <2>1, <2>3, <2>4
    <3>2. d.entries = [c.entries EXCEPT ![PairOf(e)] =
            AddRevision(config, c.attestations, @, [event |-> e, manifest |-> TRUE])]
      BY <2>1, <2>3, <2>4
    <3> QED
      BY <2>1, <2>2, <3>1, <3>2, AddKeepsSound
  <2> QED
    BY <1>0, <1>6, <2>1, <2>4 DEF DaemonInvariant, Bookkeeping
<1>8. ASSUME NEW t \in {"main", "declarations"}, RejectDeclaration(t)
      PROVE  ContentsSound' /\ Bookkeeping'
  <2>1. /\ t \in Threads /\ Home(t) \in {"fetch", "idle"} /\ Goto(t, Home(t))
        /\ UNCHANGED <<config, entries, attestations, endorsements, todo, saveMu, disk>>
    BY <1>8 DEF RejectDeclaration, Threads, Home, memory
  <2>2. Cache' = Cache
    BY <2>1 DEF Cache
  <2> QED
    BY <1>0, <1>6, <2>1, <2>2 DEF DaemonInvariant, Bookkeeping
<1>9. ASSUME NEW a \in AttEvents, ReceiveAttestation(a)
      PROVE  ContentsSound' /\ Bookkeeping'
  <2>1. /\ "attestations" \in Threads /\ a.signed /\ Goto("attestations", "save")
        /\ attestations' = StoreAttestation(attestations, a)
        /\ UNCHANGED <<config, entries, endorsements, todo, saveMu, disk>>
    BY <1>9 DEF ReceiveAttestation, Threads
  <2>2. /\ Cache.entries = entries /\ Cache.attestations = attestations
        /\ Cache'.entries = entries' /\ Cache'.attestations = attestations'
    BY DEF Cache, CacheOf
  <2>3. ASSUME NEW c, c = Cache, NEW d, d = Cache' PROVE Sound(d)
    BY <1>0, <2>1, <2>2, <2>3, AttestKeepsSound
  <2> QED
    BY <1>0, <1>6, <2>1, <2>3 DEF DaemonInvariant, Bookkeeping
<1>10. ASSUME NEW n \in EndorsementEvents, ReceiveEndorsement(n)
       PROVE  ContentsSound' /\ Bookkeeping'
  <2>1. /\ UNCHANGED <<config, entries, attestations, thread, todo, saveMu, disk>>
        /\ endorsements' \subseteq endorsements \cup {n}
    BY <1>10 DEF ReceiveEndorsement, RecordEndorsement
  <2>2. Cache' = Cache
    BY <2>1 DEF Cache
  <2> QED
    BY <1>0, <2>1, <2>2 DEF ContentsSound, At, DaemonInvariant, Bookkeeping, Sound
<1>11. ASSUME NEW t \in Savers, SaveStep(t) PROVE ContentsSound' /\ Bookkeeping'
  <2>1. t \in Threads /\ UNCHANGED <<config, entries, attestations, endorsements, todo>>
    BY <1>11 DEF SaveStep, CopyStore, BeginWrite, FinishWrite, FailWrite, RenameTmp, memory,
                 Savers, Threads
  <2>2. Cache' = Cache
    BY <2>1 DEF Cache
  <2>3. ASSUME thread'[t].copy \in {thread[t].copy, Cache}, thread'[t].pc # "verify",
               \A u \in Threads : u # t => thread'[u] = thread[u],
               disk' = disk, saveMu' \in Savers \cup {None}
        PROVE  ContentsSound' /\ Bookkeeping'
    <3>1. thread'[t].copy # None => Sound(thread'[t].copy)
      BY <1>0, <2>1, <2>3
    <3>2. ContentsSound'
      BY <1>0, <2>1, <2>2, <2>3, <3>1, ContentsFollow DEF DaemonInvariant
    <3> QED
      BY <2>1, <2>3, <3>2 DEF DaemonInvariant, Bookkeeping
  <2>4. CASE CopyStore(t)
    BY <1>0, <2>1, <2>3, <2>4 DEF CopyStore, DaemonInvariant, Bookkeeping
  <2>5. CASE BeginWrite(t)
    BY <1>0, <2>1, <2>3, <2>5 DEF BeginWrite
  <2>6. CASE FinishWrite(t)
    BY <1>0, <2>1, <2>3, <2>6 DEF FinishWrite, DaemonInvariant, Bookkeeping
  <2>7. Home(t) \in {"fetch", "idle"}
    BY DEF Home
  <2>8. CASE FailWrite(t)
    <3>1. Goto(t, Home(t)) /\ saveMu' = None /\ disk' = disk
      BY <2>8 DEF FailWrite
    <3> QED
      BY <1>0, <1>6, <2>1, <2>2, <2>7, <3>1 DEF DaemonInvariant, Bookkeeping
  <2>9. CASE RenameTmp(t)
    <3>1. Goto(t, Home(t)) /\ saveMu' = None /\ disk' = tmp /\ At(t, "renaming")
      BY <2>9 DEF RenameTmp
    <3>2. tmp = thread[t].copy
      BY <2>1, <3>1 DEF DaemonInvariant, SaveInvariant, TmpIsOwnCopy
    <3> QED
      BY <1>0, <1>6, <2>1, <2>2, <2>7, <3>1, <3>2 DEF DaemonInvariant, Bookkeeping
  <2> QED
    BY <1>11, <2>4, <2>5, <2>6, <2>8, <2>9 DEF SaveStep
<1>12. CASE UNCHANGED vars
  <2>1. UNCHANGED <<config, entries, attestations, endorsements, thread, todo, saveMu, disk>>
    BY <1>12 DEF vars
  <2>2. Cache' = Cache
    BY <2>1 DEF Cache
  <2>3. ContentsSound'
    BY <1>0, <2>1, <2>2 DEF ContentsSound, At, DaemonInvariant
  <2>4. Bookkeeping'
    BY <2>1 DEF DaemonInvariant, Bookkeeping
  <2> QED
    BY <2>3, <2>4
<1> QED
  BY <1>1, <1>2, <1>2a, <1>4, <1>5, <1>7, <1>8, <1>9, <1>10, <1>11, <1>12 DEF Next

\* What is saved, and what has been, can be loaded.
THEOREM WhatIsSavedCanBeLoaded ==
  ASSUME NoneIsNoCache
  PROVE  Spec => []DaemonInvariant
<1>1. Init => DaemonInvariant
  <2> SUFFICES ASSUME Init PROVE DaemonInvariant
    OBVIOUS
  <2>1. SaveInvariant
    BY MainAlone DEF Init, StartedThreads, NoneIsNoCache
  <2>2. Sound(Cache)
    BY EmptyIsSound DEF Cache, Init
  <2>3. \A t \in Threads : thread[t].copy = None /\ thread[t].pc # "verify"
    BY DEF Init, StartedThreads, OnlyMain
  <2>4. ContentsSound
    BY <2>2, <2>3 DEF Init, ContentsSound, At
  <2>5. Bookkeeping
    BY DEF Init, Fetched, Bookkeeping
  <2> QED
    BY <2>1, <2>4, <2>5 DEF DaemonInvariant
<1>2. DaemonInvariant /\ [Next]_vars => DaemonInvariant'
  BY StepRefines, StepKeepsContents DEF DaemonInvariant
<1> QED
  BY <1>1, <1>2, PTL DEF Spec

\* Type correctness of the daemon, threads and lock included; nothing is in the
\* store that was not checked against its repository.
THEOREM TypeCorrect ==
  ASSUME NoneIsNoCache
  PROVE  Spec => []TypeOK
<1>1. DaemonInvariant => TypeOK
  <2> SUFFICES ASSUME DaemonInvariant PROVE TypeOK
    OBVIOUS
  <2>1. Cache.entries = entries /\ Cache.attestations = attestations
    BY DEF Cache, CacheOf
  <2>2. /\ entries \in [Pairs -> Seq(Revisions)]
        /\ attestations \subseteq AttEvents
        /\ \A k \in Pairs : \A i \in 1 .. Len(entries[k]) : entries[k][i].manifest
    BY <2>1 DEF DaemonInvariant, ContentsSound, Sound
  <2>3. ASSUME NEW k \in Pairs, NEW i \in DOMAIN entries[k]
        PROVE  entries[k][i] \in [event : DeclEvents, manifest : {TRUE}]
    <3>1. entries[k] \in Seq(Revisions) /\ i \in 1 .. Len(entries[k])
      BY <2>2, LenProperties
    <3>2. entries[k][i] \in Revisions /\ entries[k][i].manifest
      BY <2>2, <3>1, ElementOfSeq
    <3> QED
      BY <3>2 DEF Revisions
  <2>4. \A t \in Threads : thread[t].pc \in NotSaving => thread[t].copy = None
    BY DEF DaemonInvariant, SaveInvariant, ThreadsWellFormed
  <2> QED
    BY <2>2, <2>3, <2>4 DEF TypeOK, DaemonInvariant, Bookkeeping
<1> QED
  BY <1>1, WhatIsSavedCanBeLoaded, PTL

\* Wherever a crash hits, and however the new process is configured, it offers
\* for every pair what the last completed save offers: loading loses nothing
\* that could be installed, whatever the cap and the order of the replay.
THEOREM RestartLosesNoOffer ==
  ASSUME NoneIsNoCache
  PROVE  Spec => RestartOffersWhatWasSaved
<1> DEFINE Kept == restarts' # restarts =>
                     \A k \in Pairs : SelectAccepted(config', attestations', entries'[k])
                                        = CachedOffer(config', disk, k)
<1>1. DaemonInvariant /\ [Next]_vars => [Kept]_vars
  <2> SUFFICES ASSUME DaemonInvariant, Next, restarts' # restarts
               PROVE  \A k \in Pairs : SelectAccepted(config', attestations', entries'[k])
                                         = CachedOffer(config', disk, k)
    BY DEF vars
  <2>1. PICK p \in Configs : Restart(p)
    BY DEF Next, StartSubscriptions, Serve, LogFatal, NextFetched, ReceiveDeclaration, IngestDeclaration,
           RejectDeclaration, ReceiveAttestation, ReceiveEndorsement, SaveStep,
           CopyStore, BeginWrite, FinishWrite, FailWrite, RenameTmp
  <2>2. config' = p
    BY <2>1 DEF Restart
  <2> QED
    BY <2>1, <2>2, RestartContents
<1> QED
  BY <1>1, WhatIsSavedCanBeLoaded, PTL DEF Spec, RestartOffersWhatWasSaved
=============================================================================
