------------------------ MODULE AnnouncementsProofs ------------------------
(***************************************************************************)
(* What Announcements says of the ledger, proved for any number of         *)
(* requests and runs: its types, which include who holds the lock; that    *)
(* nothing is recorded that nobody has been told of; what a run's exit     *)
(* code, its reports and its attestation are worth; and, of one process,   *)
(* that its file loses no record, that it does not set out to announce     *)
(* what is recorded, and how often it can announce the same revision.      *)
(***************************************************************************)
EXTENDS Announcements, FiniteLemmas

\* The revisions a note is out about.
Out == {r \in Revs : posted[r] >= 1}

Recording == {"record", "open", "write", "rename"}

\* Where records are on their way from a note to the file: all of them are out.
OnlyOut ==
  /\ \A l \in Ledgers : ledger[l] \subseteq Out
  /\ \A i \in Inodes : content[i] = Torn \/ content[i] \subseteq Out
  /\ \A a \in Actors :
       /\ actor[a].data \subseteq Out
       /\ actor[a].pc \in Recording => actor[a].rev \subseteq Out

Typed ==
  /\ actor \in [Actors -> ActorStates]
  /\ ledger \in [Ledgers -> SUBSET Revs]
  /\ path \in Inodes \cup {NoInode}
  /\ tmpPath \in Inodes \cup {NoInode}
  /\ DOMAIN content = Inodes
  /\ posted \in [Revs -> Nat]

LocksHeld ==
  /\ DOMAIN mu = Ledgers
  /\ \A l \in Ledgers : mu[l] = {a \in Actors : LedgerOf(a) = l /\ Holds(a)}

LedgerInvariant == Typed /\ OnlyOut /\ LocksHeld

Holding(state) == state.pc \in {"open", "write", "rename"}

\* An actor's next state that a step may leave it in.
Legal(state, out) ==
  /\ state \in ActorStates
  /\ state.data \subseteq out
  /\ state.pc \in Recording => state.rev \subseteq out

\* Notes that are out stay out.
LEMMA OutGrows ==
  ASSUME Typed, posted' \in [Revs -> Nat], \A r \in Revs : posted'[r] >= posted[r]
  PROVE  Out \subseteq Out'
BY DEF Typed, Out

\* One actor moves outside Record, or inside it; its lock, if it takes or gives
\* it back, is the only one that changes.
LEMMA OneActorMoves ==
  ASSUME LedgerInvariant, NEW a \in Actors, NEW s,
         actor' = [actor EXCEPT ![a] = s],
         posted' \in [Revs -> Nat], Out \subseteq Out', Legal(s, Out'),
         ledger' \in [Ledgers -> SUBSET Revs],
         \A l \in Ledgers : ledger'[l] \subseteq Out',
         path' \in Inodes \cup {NoInode}, tmpPath' \in Inodes \cup {NoInode},
         DOMAIN content' = Inodes,
         \A i \in Inodes : content'[i] = Torn \/ content'[i] \subseteq Out',
         DOMAIN mu' = Ledgers,
         mu'[LedgerOf(a)] = IF Holding(s) THEN mu[LedgerOf(a)] \cup {a}
                                          ELSE mu[LedgerOf(a)] \ {a},
         \A l \in Ledgers : l # LedgerOf(a) => mu'[l] = mu[l]
  PROVE  LedgerInvariant'
<1>1. /\ actor' \in [Actors -> ActorStates] /\ actor'[a] = s
      /\ \A b \in Actors : b # a => actor'[b] = actor[b]
  BY DEF Legal, LedgerInvariant, Typed
<1>2. Typed'
  BY <1>1 DEF Typed
<1>3. OnlyOut'
  BY <1>1 DEF LedgerInvariant, OnlyOut, Legal
<1>4. \A b \in Actors : Holds(b)' <=> IF b = a THEN Holding(s) ELSE Holds(b)
  BY <1>1 DEF Holds, Holding
<1>5. LocksHeld'
  BY <1>4 DEF LedgerInvariant, LocksHeld
<1> QED
  BY <1>2, <1>3, <1>5 DEF LedgerInvariant

\* The same when it is no matter of the lock, the ledgers or the files.
LEMMA OneActorGoesOn ==
  ASSUME LedgerInvariant, NEW a \in Actors, NEW s,
         actor' = [actor EXCEPT ![a] = s],
         posted' \in [Revs -> Nat], Out \subseteq Out', Legal(s, Out'),
         ~Holds(a), ~Holding(s), UNCHANGED <<ledger, mu, files>>
  PROVE  LedgerInvariant'
<1>1. LedgerOf(a) \in Ledgers /\ a \notin mu[LedgerOf(a)]
  BY DEF LedgerOf, Ledgers, LedgerInvariant, LocksHeld
<1>2. /\ ledger' \in [Ledgers -> SUBSET Revs]
      /\ \A l \in Ledgers : ledger'[l] \subseteq Out'
      /\ path' \in Inodes \cup {NoInode} /\ tmpPath' \in Inodes \cup {NoInode}
      /\ DOMAIN content' = Inodes
      /\ \A i \in Inodes : content'[i] = Torn \/ content'[i] \subseteq Out'
      /\ DOMAIN mu' = Ledgers /\ mu' = mu
  BY DEF LedgerInvariant, Typed, OnlyOut, LocksHeld, files
<1>3. mu'[LedgerOf(a)] = mu[LedgerOf(a)] \ {a}
  BY <1>1, <1>2
<1> QED
  BY <1>2, <1>3, OneActorMoves

-----------------------------------------------------------------------------
(* Beginning and ending *)

LEMMA IdleIsLegal ==
  /\ Idle \in ActorStates /\ Idle.pc = "idle" /\ Idle.rev = {} /\ Idle.data = {}
  /\ Idle.fd = NoInode
BY DEF Idle, ActorStates

LEMMA Ending ==
  ASSUME LedgerInvariant, NEW a \in Actors, NEW accepted, NEW failed,
         EndWith(a, accepted, failed)
  PROVE  \E s : /\ actor' = [actor EXCEPT ![a] = s]
                /\ Legal(s, Out') /\ ~Holding(s) /\ s.rev = {}
<1> DEFINE input == actor[a].input
           code == IF ~failed /\ Succeeds(input, actor[a].rev, accepted) THEN 0 ELSE 1
           s == [Idle EXCEPT !.input = input, !.code = code]
<1>1. actor' \in {[actor EXCEPT ![a] = Idle], [actor EXCEPT ![a] = s]}
  BY DEF EndWith
<1>2. input \in Inputs \cup {None} /\ code \in {0, 1, None}
  BY DEF LedgerInvariant, Typed, ActorStates
<1> HIDE DEF input, code
<1>4. s \in ActorStates /\ s.pc = "idle" /\ s.data = {} /\ s.rev = {}
  BY <1>2, IdleIsLegal DEF ActorStates
<1> HIDE DEF s
<1>5. Legal(s, Out') /\ ~Holding(s) /\ Legal(Idle, Out') /\ ~Holding(Idle)
  BY <1>4, IdleIsLegal DEF Legal, Holding, Recording
<1> QED
  BY <1>1, <1>4, <1>5, IdleIsLegal

\* An actor that is not in Record ends.
LEMMA EndStep ==
  ASSUME LedgerInvariant, NEW a \in Actors, NEW accepted, NEW failed,
         EndWith(a, accepted, failed), ~Holds(a),
         posted' \in [Revs -> Nat], Out \subseteq Out', UNCHANGED <<ledger, mu, files>>
  PROVE  LedgerInvariant'
BY Ending, OneActorGoesOn

LEMMA OutUnchanged ==
  ASSUME LedgerInvariant, posted' = posted
  PROVE  posted' \in [Revs -> Nat] /\ Out \subseteq Out'
BY DEF LedgerInvariant, Typed, Out

LEMMA HandleAnnounceStep ==
  ASSUME LedgerInvariant, NEW h \in Requests, NEW r \in Revs, HandleAnnounce(h, r)
  PROVE  LedgerInvariant'
<1> DEFINE s == [Idle EXCEPT !.pc = "post", !.rev = {r}]
<1>1. /\ h \in Actors /\ actor' = [actor EXCEPT ![h] = s]
      /\ actor[h].pc = "idle" /\ posted' = posted /\ UNCHANGED <<ledger, mu, files>>
  BY DEF HandleAnnounce, Start, Actors, events
<1>3. s \in ActorStates /\ s.pc = "post" /\ s.data = {}
  BY IdleIsLegal DEF ActorStates
<1> HIDE DEF s
<1>4. Legal(s, Out') /\ ~Holding(s) /\ ~Holds(h)
  BY <1>1, <1>3 DEF Legal, Holding, Holds, Recording
<1> QED
  BY <1>1, <1>4, OutUnchanged, OneActorGoesOn

LEMMA FileIsOut ==
  ASSUME LedgerInvariant
  PROVE  FileRecords \subseteq Out /\ FileRecords \subseteq Revs
BY DEF LedgerInvariant, Typed, OnlyOut, FileRecords, Readable, File, Out

LEMMA RunPublishStep ==
  ASSUME LedgerInvariant, NEW j \in Jobs, NEW input \in Inputs, RunPublish(j, input)
  PROVE  LedgerInvariant'
<1> DEFINE rev == IF input.announce THEN {RevOf(input.tree)} \ FileRecords ELSE {}
           s == [Idle EXCEPT !.pc = "declare", !.input = input, !.rev = rev]
<1>1. /\ j \in Actors /\ actor' = [actor EXCEPT ![j] = s]
      /\ actor[j].pc = "idle" /\ posted' = posted /\ UNCHANGED <<mu, files>>
  BY DEF RunPublish, Start, Actors, events
<1>2. rev \subseteq Revs
  BY DEF Revs
<1> HIDE DEF rev
<1>4. s \in ActorStates /\ s.pc = "declare" /\ s.data = {}
  BY <1>2, IdleIsLegal DEF ActorStates
<1> HIDE DEF s
<1>5. Legal(s, Out') /\ ~Holding(s) /\ ~Holds(j)
  BY <1>1, <1>4 DEF Legal, Holding, Holds, Recording
<1>6. /\ ledger' \in [Ledgers -> SUBSET Revs]
      /\ \A l \in Ledgers : ledger'[l] \subseteq Out
  <2> DEFINE loaded == IF input.announce THEN FileRecords ELSE {}
  <2>1. ledger' = [ledger EXCEPT ![j] = loaded] /\ j \in Ledgers
    BY DEF RunPublish, Ledgers
  <2>2. loaded \subseteq Out /\ loaded \subseteq Revs
    BY FileIsOut
  <2> HIDE DEF loaded
  <2> QED
    BY <2>1, <2>2 DEF LedgerInvariant, Typed, OnlyOut
<1>7. LedgerOf(j) \in Ledgers /\ j \notin mu[LedgerOf(j)]
  BY <1>1, <1>5 DEF LedgerOf, Ledgers, LedgerInvariant, LocksHeld
<1>8. /\ path' \in Inodes \cup {NoInode} /\ tmpPath' \in Inodes \cup {NoInode}
      /\ DOMAIN content' = Inodes
      /\ \A i \in Inodes : content'[i] = Torn \/ content'[i] \subseteq Out'
      /\ DOMAIN mu' = Ledgers /\ mu' = mu
  BY <1>1, OutUnchanged DEF LedgerInvariant, Typed, OnlyOut, LocksHeld, files
<1> QED
  BY <1>1, <1>5, <1>6, <1>7, <1>8, OutUnchanged, OneActorMoves

-----------------------------------------------------------------------------
(* Publishing *)

LEMMA Delivering ==
  ASSUME LedgerInvariant, NEW a \in Actors, Publishing(a), Delivered(a)
  PROVE  /\ posted' \in [Revs -> Nat] /\ Out \subseteq Out'
         /\ actor[a].pc = "post" => actor[a].rev \subseteq Out'
<1>1. CASE actor[a].pc = "post"
  <2>1. Kind(a) = "note"
    BY <1>1 DEF Kind
  <2>2. posted' = Count(posted, a)
    BY <2>1 DEF Delivered
  <2>3. posted \in [Revs -> Nat] /\ actor[a].rev \subseteq Revs
    BY DEF LedgerInvariant, Typed, ActorStates
  <2>4. /\ posted' \in [Revs -> Nat]
        /\ \A r \in Revs : posted'[r] >= posted[r]
        /\ \A r \in actor[a].rev : posted'[r] >= 1
    BY <2>2, <2>3 DEF Count
  <2> QED
    BY <2>3, <2>4, OutGrows DEF LedgerInvariant, Out
<1>2. CASE actor[a].pc # "post"
  <2>1. Kind(a) \in {"declaration", "attestation"}
    BY <1>2 DEF Kind, Publishing
  <2>2. posted' = posted
    BY <2>1 DEF Delivered
  <2> QED
    BY <1>2, <2>2, OutUnchanged
<1> QED
  BY <1>1, <1>2

LEMMA KindIsAKind ==
  ASSUME NEW a, Publishing(a)
  PROVE  Kind(a) \in {"declaration", "attestation", "note"}
BY DEF Kind, Publishing

\* An actor goes on to another publication, or to record its note.
LEMMA GoingOn ==
  ASSUME LedgerInvariant, NEW a \in Actors, Publishing(a),
         NEW pc \in {"attest", "post", "record"}, NEW late \in BOOLEAN,
         NEW accepted \in SUBSET {"declaration", "attestation", "note"}, NEW s,
         \/ s = [actor[a] EXCEPT !.pc = pc, !.late = late]
         \/ s = [actor[a] EXCEPT !.pc = pc, !.late = late, !.accepted = accepted],
         actor' = [actor EXCEPT ![a] = s],
         posted' \in [Revs -> Nat], Out \subseteq Out',
         pc = "record" => actor[a].rev \subseteq Out',
         UNCHANGED <<ledger, mu, files>>
  PROVE  LedgerInvariant'
<1>1. actor[a] \in ActorStates /\ actor[a].data \subseteq Out
  BY DEF LedgerInvariant, Typed, OnlyOut
<1>2. /\ s \in ActorStates /\ s.pc = pc /\ s.data = actor[a].data
      /\ s.rev = actor[a].rev
  BY <1>1 DEF ActorStates
<1>3. Legal(s, Out') /\ ~Holding(s)
  BY <1>1, <1>2 DEF Legal, Holding, Recording
<1>4. ~Holds(a)
  BY DEF Publishing, Holds
<1> QED
  BY <1>3, <1>4, OneActorGoesOn

LEMMA LateIsBoolean ==
  ASSUME LedgerInvariant, NEW a \in Actors
  PROVE  LateAfter(a) \subseteq BOOLEAN
BY DEF LateAfter, LedgerInvariant, Typed, ActorStates

LEMMA RefuseStep ==
  ASSUME LedgerInvariant, NEW a \in Actors, Publishing(a), Refuse(a),
         posted' \in [Revs -> Nat], Out \subseteq Out', UNCHANGED <<ledger, mu, files>>
  PROVE  LedgerInvariant'
<1> DEFINE pc == NextPc(a)
<1>1. PICK late \in LateAfter(a) :
        IF pc = "end" THEN End(a)
        ELSE actor' = [actor EXCEPT ![a] = [@ EXCEPT !.pc = pc, !.late = late]]
  BY DEF Refuse
<1>2. CASE pc = "end"
  <2>1. ~Holds(a)
    BY DEF Publishing, Holds
  <2> QED
    BY <1>1, <1>2, <2>1, EndStep DEF End
<1>3. CASE pc # "end"
  <2> DEFINE s == [actor[a] EXCEPT !.pc = pc, !.late = late]
  <2>1. pc \in {"attest", "post"} /\ late \in BOOLEAN
    BY <1>3, LateIsBoolean DEF NextPc
  <2>2. actor' = [actor EXCEPT ![a] = s]
    BY <1>1, <1>3
  <2> QED
    BY <2>1, <2>2, GoingOn
<1> QED
  BY <1>2, <1>3

LEMMA PublishStep ==
  ASSUME LedgerInvariant, NEW a \in Actors, Publish(a)
  PROVE  LedgerInvariant'
<1> DEFINE accepted == actor[a].accepted \cup {Kind(a)}
           pc == IF Kind(a) = "note" THEN "record" ELSE NextPc(a)
<1>1. Publishing(a) /\ Delivered(a) /\ UNCHANGED <<ledger, mu, files>>
  BY DEF Publish
<1>2. PICK late \in IF pc = "record" THEN {FALSE} ELSE LateAfter(a) :
        IF pc = "end" THEN EndWith(a, accepted, FALSE)
        ELSE actor' = [actor EXCEPT ![a] =
               [@ EXCEPT !.pc = pc, !.late = late, !.accepted = accepted]]
  BY DEF Publish
<1>3. late \in BOOLEAN
  BY <1>2, LateIsBoolean
<1>4. accepted \in SUBSET {"declaration", "attestation", "note"}
  BY <1>1, KindIsAKind DEF LedgerInvariant, Typed, ActorStates
<1>5. CASE pc = "end"
  <2>1. ~Holds(a)
    BY <1>1 DEF Publishing, Holds
  <2> QED
    BY <1>1, <1>2, <1>5, <2>1, Delivering, EndStep
<1>6. CASE pc # "end"
  <2> DEFINE s == [actor[a] EXCEPT !.pc = pc, !.late = late, !.accepted = accepted]
  <2>1. pc \in {"attest", "post", "record"}
    BY <1>6 DEF NextPc
  <2>2. pc = "record" => actor[a].pc = "post"
    BY <1>1 DEF Kind, Publishing, NextPc
  <2>3. actor' = [actor EXCEPT ![a] = s]
    BY <1>2, <1>6
  <2> QED
    BY <1>1, <1>3, <1>4, <2>1, <2>2, <2>3, Delivering, GoingOn
<1> QED
  BY <1>5, <1>6

LEMMA RefusedStep ==
  ASSUME LedgerInvariant, NEW a \in Actors,
         PublishRefused(a) \/ PublishUnacknowledged(a)
  PROVE  LedgerInvariant'
<1>1. Publishing(a) /\ Refuse(a) /\ UNCHANGED <<ledger, mu, files>>
  BY DEF PublishRefused, PublishUnacknowledged
<1>2. posted' \in [Revs -> Nat] /\ Out \subseteq Out'
  BY <1>1, OutUnchanged, Delivering DEF PublishRefused, PublishUnacknowledged, events
<1> QED
  BY <1>1, <1>2, RefuseStep

-----------------------------------------------------------------------------
(* Record *)

\* Inside Record an actor holds its ledger's lock, alone.
LEMMA LockOfHolder ==
  ASSUME LedgerInvariant, NEW a \in Actors, Holds(a)
  PROVE  LedgerOf(a) \in Ledgers /\ a \in mu[LedgerOf(a)]
BY DEF LedgerInvariant, LocksHeld, LedgerOf, Ledgers

LEMMA RecordStep ==
  ASSUME LedgerInvariant, NEW a \in Actors, Record(a)
  PROVE  LedgerInvariant'
<1> DEFINE l == LedgerOf(a)
<1>1. /\ actor[a].pc = "record" /\ mu[l] = {} /\ posted' = posted /\ UNCHANGED files
  BY DEF Record, AppendRecord, events
<1>2. ~Holds(a) /\ actor[a].rev \subseteq Out /\ actor[a].rev \subseteq Revs /\ l \in Ledgers
  BY <1>1 DEF Holds, LedgerInvariant, OnlyOut, Recording, Out, LedgerOf, Ledgers
<1>3. CASE End(a) /\ UNCHANGED <<ledger, mu>>
  BY <1>1, <1>2, <1>3, OutUnchanged, EndStep DEF End
<1>4. CASE /\ ledger' = [ledger EXCEPT ![l] = @ \cup actor[a].rev]
           /\ mu' = [mu EXCEPT ![l] = {a}]
           /\ actor' = [actor EXCEPT ![a] = [@ EXCEPT !.pc = "open", !.data = ledger'[l]]]
  <2> DEFINE s == [actor[a] EXCEPT !.pc = "open", !.data = ledger'[l]]
  <2>1. /\ ledger' \in [Ledgers -> SUBSET Revs]
        /\ \A k \in Ledgers : ledger'[k] \subseteq Out
    BY <1>2, <1>4 DEF LedgerInvariant, Typed, OnlyOut
  <2>2. ledger'[l] \subseteq Revs /\ ledger'[l] \subseteq Out
    BY <1>2, <2>1
  <2>3. actor' = [actor EXCEPT ![a] = s]
    BY <1>4
  <2>4. actor[a] \in ActorStates
    BY DEF LedgerInvariant, Typed
  <2>5. /\ s \in ActorStates /\ s.pc = "open" /\ s.data = ledger'[l]
        /\ s.rev = actor[a].rev
    BY <2>2, <2>4 DEF ActorStates
  <2> HIDE DEF s
  <2>6. Legal(s, Out') /\ Holding(s)
    BY <1>1, <1>2, <2>2, <2>5, OutUnchanged DEF Legal, Holding
  <2>7. /\ DOMAIN mu' = Ledgers
        /\ mu'[l] = mu[l] \cup {a}
        /\ \A k \in Ledgers : k # l => mu'[k] = mu[k]
    BY <1>1, <1>2, <1>4 DEF LedgerInvariant, LocksHeld
  <2>8. /\ path' \in Inodes \cup {NoInode} /\ tmpPath' \in Inodes \cup {NoInode}
        /\ DOMAIN content' = Inodes
        /\ \A i \in Inodes : content'[i] = Torn \/ content'[i] \subseteq Out'
    BY <1>1, OutUnchanged DEF LedgerInvariant, Typed, OnlyOut, files
  <2>9. posted' \in [Revs -> Nat] /\ Out \subseteq Out'
    BY <1>1, OutUnchanged
  <2>10. \A k \in Ledgers : ledger'[k] \subseteq Out'
    BY <2>1, <2>9
  <2> QED
    BY <2>1, <2>3, <2>6, <2>7, <2>8, <2>9, <2>10, OneActorMoves
<1> QED
  BY <1>3, <1>4 DEF Record, AppendRecord

LEMMA FreshInodeIsFree ==
  ASSUME Typed, tmpPath = NoInode
  PROVE  FreshInode \in Inodes /\ FreshInode # path
<1> DEFINE open == [a \in Actors |-> actor[a].fd]
<1>1. open \in [Actors -> Int]
  BY DEF Typed, ActorStates, Inodes, NoInode
<1> HIDE DEF open
<1>2. IsFiniteSet(Actors)
  BY ActorsAssumption DEF Actors
<1>3. PICK i \in Inodes : i # path /\ \A a \in Actors : i # open[a]
  BY <1>1, <1>2, OneIsFree DEF Inodes
<1> QED
  BY <1>3 DEF open, FreshInode, Inodes, NoInode

\* Between taking the lock and giving it back: the files change.
LEMMA WritingStep ==
  ASSUME LedgerInvariant, NEW a \in Actors, NEW pc \in {"write", "rename"},
         NEW fd \in Inodes \cup {NoInode}, Holds(a),
         actor' = [actor EXCEPT ![a] = [@ EXCEPT !.pc = pc, !.fd = fd]],
         tmpPath' \in Inodes \cup {NoInode}, DOMAIN content' = Inodes,
         \A i \in Inodes :
           content'[i] = content[i] \/ content'[i] = Torn \/ content'[i] = actor[a].data,
         UNCHANGED <<ledger, mu, path, posted>>
  PROVE  LedgerInvariant'
<1> DEFINE s == [actor[a] EXCEPT !.pc = pc, !.fd = fd]
<1>1. actor' = [actor EXCEPT ![a] = s]
  OBVIOUS
<1>2. /\ actor[a] \in ActorStates /\ actor[a].data \subseteq Out
      /\ actor[a].rev \subseteq Out
  BY DEF LedgerInvariant, Typed, OnlyOut, Holds, Recording
<1>3. /\ s \in ActorStates /\ s.pc = pc /\ s.data = actor[a].data
      /\ s.rev = actor[a].rev
  BY <1>2 DEF ActorStates
<1> HIDE DEF s
<1>4. posted' \in [Revs -> Nat] /\ Out' = Out
  BY DEF LedgerInvariant, Typed, Out
<1>5. Legal(s, Out') /\ Holding(s)
  BY <1>2, <1>3, <1>4 DEF Legal, Holding
<1>6. /\ DOMAIN mu' = Ledgers
      /\ mu'[LedgerOf(a)] = mu[LedgerOf(a)] \cup {a}
      /\ \A l \in Ledgers : mu'[l] = mu[l]
  BY LockOfHolder DEF LedgerInvariant, LocksHeld
<1>7. /\ ledger' \in [Ledgers -> SUBSET Revs]
      /\ \A l \in Ledgers : ledger'[l] \subseteq Out'
      /\ path' \in Inodes \cup {NoInode}
  BY <1>4 DEF LedgerInvariant, Typed, OnlyOut
<1>8. \A i \in Inodes : content'[i] = Torn \/ content'[i] \subseteq Out'
  BY <1>2, <1>4 DEF LedgerInvariant, OnlyOut
<1> QED
  BY <1>1, <1>4, <1>5, <1>6, <1>7, <1>8, OneActorMoves

LEMMA OpenTmpStep ==
  ASSUME LedgerInvariant, NEW a \in Actors, OpenTmp(a)
  PROVE  LedgerInvariant'
<1> DEFINE i == IF tmpPath = NoInode THEN FreshInode ELSE tmpPath
<1>1. /\ actor[a].pc = "open" /\ tmpPath' = i
      /\ content' = [content EXCEPT ![i] = Torn]
      /\ actor' = [actor EXCEPT ![a] = [@ EXCEPT !.pc = "write", !.fd = i]]
      /\ UNCHANGED <<ledger, mu, path, posted>>
  BY DEF OpenTmp, events
<1>2. i \in Inodes
  BY FreshInodeIsFree DEF LedgerInvariant, Typed
<1> HIDE DEF i
<1>3. Holds(a)
  BY <1>1 DEF Holds
<1>4. /\ DOMAIN content' = Inodes
      /\ \A k \in Inodes : content'[k] = content[k] \/ content'[k] = Torn
  BY <1>1, <1>2 DEF LedgerInvariant, Typed
<1> QED
  BY <1>1, <1>2, <1>3, <1>4, WritingStep

LEMMA WriteTmpStep ==
  ASSUME LedgerInvariant, NEW a \in Actors, WriteTmp(a)
  PROVE  LedgerInvariant'
<1>1. /\ actor[a].pc = "write"
      /\ actor' = [actor EXCEPT ![a] = [@ EXCEPT !.pc = "rename", !.fd = NoInode]]
      /\ UNCHANGED <<ledger, mu, path, tmpPath, posted>>
  BY DEF WriteTmp, events
<1>2. PICK result \in {actor[a].data, Torn} :
        content' = [content EXCEPT ![actor[a].fd] = result]
  BY DEF WriteTmp
<1>3. Holds(a)
  BY <1>1 DEF Holds
<1>4. /\ DOMAIN content' = Inodes
      /\ \A k \in Inodes :
           content'[k] = content[k] \/ content'[k] = Torn \/ content'[k] = actor[a].data
  BY <1>2 DEF LedgerInvariant, Typed
<1>5. tmpPath' \in Inodes \cup {NoInode}
  BY <1>1 DEF LedgerInvariant, Typed
<1> QED
  BY <1>1, <1>3, <1>4, <1>5, WritingStep

\* Leaving Record, by the rename or by a failure: the lock is free again.
LEMMA LeavingStep ==
  ASSUME LedgerInvariant, NEW a \in Actors, Holds(a), End(a) \/ FailEnd(a), Unlock(a),
         path' \in Inodes \cup {NoInode}, tmpPath' \in Inodes \cup {NoInode},
         UNCHANGED <<ledger, content, posted>>
  PROVE  LedgerInvariant'
<1>1. PICK s : actor' = [actor EXCEPT ![a] = s] /\ Legal(s, Out') /\ ~Holding(s)
  BY Ending DEF End, FailEnd
<1>2. posted' \in [Revs -> Nat] /\ Out' = Out
  BY DEF LedgerInvariant, Typed, Out
<1>3. /\ DOMAIN mu' = Ledgers
      /\ mu'[LedgerOf(a)] = mu[LedgerOf(a)] \ {a}
      /\ \A l \in Ledgers : l # LedgerOf(a) => mu'[l] = mu[l]
  BY LockOfHolder DEF Unlock, LedgerInvariant, LocksHeld
<1>4. /\ ledger' \in [Ledgers -> SUBSET Revs]
      /\ \A l \in Ledgers : ledger'[l] \subseteq Out'
      /\ DOMAIN content' = Inodes
      /\ \A i \in Inodes : content'[i] = Torn \/ content'[i] \subseteq Out'
  BY <1>2 DEF LedgerInvariant, Typed, OnlyOut
<1> QED
  BY <1>1, <1>2, <1>3, <1>4, OneActorMoves

LEMMA LeaveRecordStep ==
  ASSUME LedgerInvariant, NEW a \in Actors, RenameTmp(a) \/ FailRecord(a)
  PROVE  LedgerInvariant'
<1>1. /\ Holds(a) /\ (End(a) \/ FailEnd(a)) /\ Unlock(a)
      /\ UNCHANGED <<ledger, content, posted>>
  BY DEF RenameTmp, FailRecord, Holds, files, events
<1>2. path' \in Inodes \cup {NoInode} /\ tmpPath' \in Inodes \cup {NoInode}
  BY DEF RenameTmp, FailRecord, files, LedgerInvariant, Typed
<1> QED
  BY <1>1, <1>2, LeavingStep

-----------------------------------------------------------------------------
(* Processes that die *)

LEMMA DeathStep ==
  ASSUME LedgerInvariant, NEW S, NEW l \in Ledgers, NEW loaded, Die(S),
         \A a \in Actors : LedgerOf(a) = l => a \in S,
         \A a \in S \cap Actors : LedgerOf(a) = l,
         ledger' = [ledger EXCEPT ![l] = loaded],
         loaded \subseteq Out /\ loaded \subseteq Revs,
         mu' = [mu EXCEPT ![l] = {}]
  PROVE  LedgerInvariant'
<1>1. /\ UNCHANGED <<files, posted>>
      /\ actor' = [a \in Actors |-> IF a \in S THEN Idle ELSE actor[a]]
  BY DEF Die, events
<1>2. posted' \in [Revs -> Nat] /\ Out' = Out
  BY <1>1 DEF LedgerInvariant, Typed, Out
<1>3. Typed'
  BY <1>1, <1>2, IdleIsLegal DEF LedgerInvariant, Typed, files
<1>4. OnlyOut'
  BY <1>1, <1>2, IdleIsLegal DEF LedgerInvariant, OnlyOut, Typed, files, Recording
<1>5. \A a \in Actors : Holds(a)' <=> Holds(a) /\ a \notin S
  BY <1>1, IdleIsLegal DEF Holds
<1>6. DOMAIN mu' = Ledgers /\ mu'[l] = {} /\ \A k \in Ledgers : k # l => mu'[k] = mu[k]
  BY DEF LedgerInvariant, LocksHeld
<1>7. LocksHeld'
  BY <1>5, <1>6 DEF LedgerInvariant, LocksHeld
<1> QED
  BY <1>3, <1>4, <1>7 DEF LedgerInvariant

LEMMA StepKeepsInvariant ==
  ASSUME LedgerInvariant, [Next]_vars
  PROVE  LedgerInvariant'
<1>1. CASE UNCHANGED vars
  BY <1>1 DEF vars, events, files, LedgerInvariant, Typed, OnlyOut, LocksHeld, Holds, Out
<1>2. ASSUME NEW h \in Requests, NEW r \in Revs, HandleAnnounce(h, r)
      PROVE  LedgerInvariant'
  BY <1>2, HandleAnnounceStep
<1>3. ASSUME NEW j \in Jobs, NEW i \in Inputs, RunPublish(j, i) PROVE LedgerInvariant'
  BY <1>3, RunPublishStep
<1>4. ASSUME NEW a \in Actors,
             Publish(a) \/ PublishRefused(a) \/ PublishUnacknowledged(a)
      PROVE  LedgerInvariant'
  BY <1>4, PublishStep, RefusedStep
<1>5. ASSUME NEW a \in Actors, Record(a) \/ OpenTmp(a) \/ WriteTmp(a)
      PROVE  LedgerInvariant'
  BY <1>5, RecordStep, OpenTmpStep, WriteTmpStep
<1>6. ASSUME NEW a \in Actors, RenameTmp(a) \/ FailRecord(a) PROVE LedgerInvariant'
  BY <1>6, LeaveRecordStep
<1>7. ASSUME RestartDaemon PROVE LedgerInvariant'
  <2>1. /\ "daemon" \in Ledgers
        /\ \A a \in Actors : LedgerOf(a) = "daemon" <=> a \notin Jobs
    BY NamesAssumption DEF Ledgers, LedgerOf
  <2>2. \A a \in Actors : a \notin Jobs <=> a \in Requests
    BY NamesAssumption DEF Actors
  <2> QED
    BY <1>7, <2>1, <2>2, FileIsOut, DeathStep DEF RestartDaemon
<1>8. ASSUME NEW j \in Jobs, KillJob(j) PROVE LedgerInvariant'
  <2>1. /\ j \in Ledgers
        /\ \A a \in Actors : LedgerOf(a) = j <=> a = j
    BY NamesAssumption DEF Ledgers, LedgerOf
  <2>2. ledger' = [ledger EXCEPT ![j] = ledger[j]]
    BY <1>8 DEF KillJob, LedgerInvariant, Typed
  <2>3. ledger[j] \subseteq Out /\ ledger[j] \subseteq Revs
    BY <2>1 DEF LedgerInvariant, OnlyOut, Out
  <2> QED
    BY <1>8, <2>1, <2>2, <2>3, DeathStep DEF KillJob
<1> QED
  BY <1>1, <1>2, <1>3, <1>4, <1>5, <1>6, <1>7, <1>8 DEF Next

LEMMA InitEstablishes == Init => LedgerInvariant
<1> SUFFICES ASSUME Init PROVE LedgerInvariant
  OBVIOUS
<1>1. Typed
  BY IdleIsLegal DEF Init, Typed
<1>2. OnlyOut
  BY IdleIsLegal DEF Init, OnlyOut, Recording
<1>3. LocksHeld
  BY IdleIsLegal DEF Init, LocksHeld, Holds
<1> QED
  BY <1>1, <1>2, <1>3 DEF LedgerInvariant

-----------------------------------------------------------------------------
(* What follows *)

\* Types, and of each ledger's users exactly those inside Record hold its lock.
THEOREM TypeCorrect == Spec => []TypeOK
<1>1. LedgerInvariant => TypeOK
  BY DEF LedgerInvariant, Typed, OnlyOut, LocksHeld, TypeOK, Out
<1> QED
  BY <1>1, InitEstablishes, StepKeepsInvariant, PTL DEF Spec

\* No ledger, in memory or on disk, holds a revision nobody has been told of,
\* whatever crashes, fails and is overwritten.
THEOREM NothingUnpostedIsRecorded == Spec => []RecordedWasPosted
<1>1. LedgerInvariant => RecordedWasPosted
  <2> SUFFICES ASSUME LedgerInvariant,
                      NEW r \in FileRecords \cup UNION {ledger[l] : l \in Ledgers}
               PROVE  posted[r] >= 1
    BY DEF RecordedWasPosted
  <2>1. r \in Out
    BY FileIsOut DEF LedgerInvariant, OnlyOut
  <2> QED
    BY <2>1 DEF Out
<1> QED
  BY <1>1, InitEstablishes, StepKeepsInvariant, PTL DEF Spec


-----------------------------------------------------------------------------
(* What a run says of what it has published *)

Declared == {RevOf(m) : m \in declared}

IsOut(input, decls, atts, out) ==
  /\ input.tree \in decls
  /\ input.ci # None => input.ci \in atts
  /\ input.announce => RevOf(input.tree) \in out

\* A run's books: what it believes accepted is out, a note it leaves out is out
\* already, and a code of 0 means that all of its input is.
Honest(state, decls, atts, out) ==
  /\ "declaration" \in state.accepted => state.input.tree \in decls
  /\ "attestation" \in state.accepted => state.input.ci \in atts
  /\ "note" \in state.accepted => state.rev \subseteq out
  /\ state.pc = "idle" => state.rev = {}
  /\ state.pc # "idle" =>
       /\ state.rev \subseteq {RevOf(state.input.tree)}
       /\ state.input.announce /\ state.rev = {} => RevOf(state.input.tree) \in out
  /\ state.code = 0 => IsOut(state.input, decls, atts, out)

\* With the daemon's requests, which only announce what is declared, every note
\* without a declaration is on some run's books, or has been reported.
ReportInvariant ==
  /\ \A j \in Jobs : Honest(actor[j], declared, attested, Out)
  /\ \A h \in Requests : actor[h].rev \subseteq Declared
  /\ \A r \in Out : r \in Declared \/ r \in reported \/ \E j \in Jobs : r \in actor[j].rev

\* What relays have, they keep.
RelaysKeep ==
  declared \subseteq declared' /\ attested \subseteq attested' /\ Out \subseteq Out'

LEMMA HonestyLasts ==
  ASSUME NEW state, Honest(state, declared, attested, Out), RelaysKeep
  PROVE  Honest(state, declared', attested', Out')
BY DEF Honest, IsOut, RelaysKeep

LEMMA OneActorReports ==
  ASSUME LedgerInvariant, ReportInvariant, RelaysKeep, reported \subseteq reported',
         NEW a \in Actors, NEW s, actor' = [actor EXCEPT ![a] = s],
         a \in Jobs => Honest(s, declared', attested', Out'),
         a \in Requests => s.rev \subseteq Declared',
         \A r \in Out' : r \in Out \/ r \in actor[a].rev,
         a \in Jobs => \A r \in actor[a].rev :
           r \in s.rev \/ r \in reported' \/ r \in Declared'
  PROVE  ReportInvariant'
<1>1. actor'[a] = s /\ \A b \in Actors : b # a => actor'[b] = actor[b]
  BY DEF LedgerInvariant, Typed
<1>2. Declared \subseteq Declared'
  BY DEF Declared, RelaysKeep
<1>3. Jobs \subseteq Actors /\ Requests \subseteq Actors /\ a \in Jobs \cup Requests
  BY DEF Actors
<1>4. ASSUME NEW j \in Jobs PROVE Honest(actor'[j], declared', attested', Out')
  BY <1>1, <1>3, HonestyLasts DEF ReportInvariant
<1>5. ASSUME NEW h \in Requests PROVE actor'[h].rev \subseteq Declared'
  BY <1>1, <1>2, <1>3 DEF ReportInvariant
<1>6. ASSUME NEW r \in Out'
      PROVE  r \in Declared' \/ r \in reported' \/ \E j \in Jobs : r \in actor'[j].rev
  <2>1. CASE r \in actor[a].rev
    BY <1>1, <1>2, <1>3, <2>1 DEF ReportInvariant
  <2>2. CASE r \in Out /\ r \notin actor[a].rev
    BY <1>1, <1>2, <1>3, <2>2 DEF ReportInvariant
  <2> QED
    BY <2>1, <2>2
<1> QED
  BY <1>4, <1>5, <1>6 DEF ReportInvariant

\* A run that ends honestly: with code 0 everything is out, with another code its
\* note is reported.
LEMMA EndingReports ==
  ASSUME LedgerInvariant, ReportInvariant, RelaysKeep, NEW a \in Actors,
         NEW accepted, NEW failed, EndWith(a, accepted, failed),
         \A r \in Out' : r \in Out \/ r \in actor[a].rev,
         a \in Jobs =>
           /\ actor[a].pc # "idle"
           /\ "declaration" \in accepted => actor[a].input.tree \in declared'
           /\ "attestation" \in accepted => actor[a].input.ci \in attested'
           /\ "note" \in accepted => actor[a].rev \subseteq Out'
  PROVE  ReportInvariant'
<1>1. CASE a \in Requests
  <2>1. actor' = [actor EXCEPT ![a] = Idle] /\ reported' = reported
    BY <1>1 DEF EndWith
  <2>2. a \notin Jobs
    BY <1>1, NamesAssumption
  <2> QED
    BY <2>1, <2>2, IdleIsLegal, OneActorReports
<1>2. CASE a \notin Requests
  <2> DEFINE input == actor[a].input
             rev == actor[a].rev
             code == IF ~failed /\ Succeeds(input, rev, accepted) THEN 0 ELSE 1
             s == [Idle EXCEPT !.input = input, !.code = code]
  <2>0. a \in Jobs
    BY <1>2 DEF Actors
  <2>1. /\ actor' = [actor EXCEPT ![a] = s]
        /\ reported' = IF code = 0 THEN reported ELSE reported \cup rev
    BY <1>2 DEF EndWith
  <2>2. /\ s.pc = "idle" /\ s.rev = {} /\ s.accepted = {} /\ s.input = input
        /\ s.code = code
    BY DEF Idle
  <2>3. /\ rev \subseteq {RevOf(input.tree)}
        /\ input.announce /\ rev = {} => RevOf(input.tree) \in Out'
    BY <2>0 DEF ReportInvariant, Honest, RelaysKeep
  <2>4. code = 0 => IsOut(input, declared', attested', Out')
    BY <2>0, <2>3 DEF Succeeds, Wanted, IsOut
  <2>5. Honest(s, declared', attested', Out')
    BY <2>2, <2>4 DEF Honest
  <2>6. \A r \in rev : r \in reported' \/ r \in Declared'
    BY <2>1, <2>3, <2>4 DEF IsOut, Declared
  <2> HIDE DEF s, code
  <2> QED
    BY <1>2, <2>0, <2>1, <2>5, <2>6, OneActorReports
<1> QED
  BY <1>1, <1>2


LEMMA NewRequestReports ==
  ASSUME LedgerInvariant, ReportInvariant, NEW h \in Requests, NEW r \in Revs,
         HandleAnnounce(h, r)
  PROVE  ReportInvariant'
<1> DEFINE s == [Idle EXCEPT !.pc = "post", !.rev = {r}]
<1>1. /\ h \in Actors /\ h \notin Jobs /\ actor' = [actor EXCEPT ![h] = s]
      /\ UNCHANGED <<declared, attested, posted, reported>>
  BY NamesAssumption DEF HandleAnnounce, Start, Actors, events
<1>2. s.rev = {r}
  BY DEF Idle
<1>3. r \in Declared
  BY DEF HandleAnnounce, Accepted, Declared
<1> HIDE DEF s
<1>4. RelaysKeep /\ Declared' = Declared /\ Out' = Out
  BY <1>1 DEF RelaysKeep, Declared, Out
<1> QED
  BY <1>1, <1>2, <1>3, <1>4, OneActorReports

LEMMA NewRunReports ==
  ASSUME LedgerInvariant, ReportInvariant, NEW j \in Jobs, NEW input \in Inputs,
         RunPublish(j, input)
  PROVE  ReportInvariant'
<1> DEFINE rev == IF input.announce THEN {RevOf(input.tree)} \ FileRecords ELSE {}
           s == [Idle EXCEPT !.pc = "declare", !.input = input, !.rev = rev]
<1>1. /\ j \in Actors /\ j \notin Requests /\ actor' = [actor EXCEPT ![j] = s]
      /\ actor[j].pc = "idle" /\ UNCHANGED <<declared, attested, posted, reported>>
  BY NamesAssumption DEF RunPublish, Start, Actors, events
<1>2. /\ s.pc = "declare" /\ s.rev = rev /\ s.input = input /\ s.accepted = {}
      /\ s.code = None
  BY DEF Idle
<1>3. /\ rev \subseteq {RevOf(input.tree)}
      /\ input.announce /\ rev = {} => RevOf(input.tree) \in Out
  BY FileIsOut
<1>4. RelaysKeep /\ Declared' = Declared /\ Out' = Out
  BY <1>1 DEF RelaysKeep, Declared, Out
<1> HIDE DEF s, rev
<1>5. Honest(s, declared', attested', Out')
  BY <1>2, <1>3, <1>4, CodesAssumption DEF Honest
<1>6. actor[j].rev = {}
  BY <1>1 DEF ReportInvariant, Honest
<1> QED
  BY <1>1, <1>4, <1>5, <1>6, OneActorReports

LEMMA DeliveringKeeps ==
  ASSUME LedgerInvariant, NEW a \in Actors, Publishing(a), Delivered(a)
  PROVE  /\ RelaysKeep
         /\ \A r \in Out' : r \in Out \/ r \in actor[a].rev
         /\ Kind(a) = "declaration" => actor[a].input.tree \in declared'
         /\ Kind(a) = "attestation" => actor[a].input.ci \in attested'
         /\ Kind(a) = "note" => actor[a].rev \subseteq Out'
<1>1. Kind(a) = "note" <=> actor[a].pc = "post"
  BY DEF Kind, Publishing
<1>2. Out \subseteq Out' /\ (Kind(a) = "note" => actor[a].rev \subseteq Out')
  BY <1>1, Delivering
<1>3. /\ declared \subseteq declared' /\ attested \subseteq attested'
      /\ Kind(a) = "declaration" => actor[a].input.tree \in declared'
      /\ Kind(a) = "attestation" => actor[a].input.ci \in attested'
      /\ posted' = IF Kind(a) = "note" THEN Count(posted, a) ELSE posted
  BY KindIsAKind DEF Delivered
<1>4. \A r \in Out' : r \in Out \/ r \in actor[a].rev
  BY <1>3 DEF LedgerInvariant, Typed, Count, Out
<1> QED
  BY <1>2, <1>3, <1>4 DEF RelaysKeep

\* An actor goes on with more accepted, perhaps.
LEMMA GoingOnReports ==
  ASSUME LedgerInvariant, ReportInvariant, RelaysKeep, NEW a \in Actors,
         actor[a].pc # "idle", reported' = reported,
         NEW s, actor' = [actor EXCEPT ![a] = s],
         s.pc # "idle", s.rev = actor[a].rev, s.input = actor[a].input,
         s.code = actor[a].code,
         \A r \in Out' : r \in Out \/ r \in actor[a].rev,
         \A kind \in s.accepted \ actor[a].accepted :
           /\ kind = "declaration" => actor[a].input.tree \in declared'
           /\ kind = "attestation" => actor[a].input.ci \in attested'
           /\ kind = "note" => actor[a].rev \subseteq Out'
  PROVE  ReportInvariant'
<1>1. ASSUME a \in Jobs PROVE Honest(s, declared', attested', Out')
  <2>1. Honest(actor[a], declared', attested', Out')
    BY <1>1, HonestyLasts DEF ReportInvariant
  <2> QED
    BY <2>1 DEF Honest
<1>2. ASSUME a \in Requests PROVE s.rev \subseteq Declared'
  BY <1>2 DEF ReportInvariant, Declared, RelaysKeep
<1> QED
  BY <1>1, <1>2, OneActorReports

LEMMA NothingNew ==
  ASSUME UNCHANGED <<declared, attested, posted>>
  PROVE  RelaysKeep /\ Out' = Out
BY DEF RelaysKeep, Out

LEMMA RefuseReports ==
  ASSUME LedgerInvariant, ReportInvariant, RelaysKeep, NEW a \in Actors, Publishing(a),
         Refuse(a), \A r \in Out' : r \in Out \/ r \in actor[a].rev
  PROVE  ReportInvariant'
<1> DEFINE pc == NextPc(a)
<1>1. PICK late \in LateAfter(a) :
        IF pc = "end" THEN End(a)
        ELSE /\ actor' = [actor EXCEPT ![a] = [@ EXCEPT !.pc = pc, !.late = late]]
             /\ reported' = reported
  BY DEF Refuse
<1>2. actor[a].pc # "idle" /\ actor[a] \in ActorStates
  BY DEF Publishing, LedgerInvariant, Typed
<1>3. CASE pc = "end"
  <2>1. a \in Jobs =>
          /\ "declaration" \in actor[a].accepted => actor[a].input.tree \in declared'
          /\ "attestation" \in actor[a].accepted => actor[a].input.ci \in attested'
          /\ "note" \in actor[a].accepted => actor[a].rev \subseteq Out'
    BY DEF ReportInvariant, Honest, RelaysKeep
  <2> QED
    BY <1>1, <1>2, <1>3, <2>1, EndingReports DEF End
<1>4. CASE pc # "end"
  <2> DEFINE s == [actor[a] EXCEPT !.pc = pc, !.late = late]
  <2>1. pc \in {"attest", "post"}
    BY <1>4 DEF NextPc
  <2>2. actor' = [actor EXCEPT ![a] = s]
    BY <1>1, <1>4
  <2>3. /\ s.pc = pc /\ s.rev = actor[a].rev /\ s.input = actor[a].input
        /\ s.code = actor[a].code /\ s.accepted = actor[a].accepted
    BY <1>2 DEF ActorStates
  <2> HIDE DEF s, pc
  <2> QED
    BY <1>1, <1>2, <1>4, <2>1, <2>2, <2>3, GoingOnReports
<1> QED
  BY <1>3, <1>4

LEMMA PublishReports ==
  ASSUME LedgerInvariant, ReportInvariant, NEW a \in Actors, Publish(a)
  PROVE  ReportInvariant'
<1> DEFINE accepted == actor[a].accepted \cup {Kind(a)}
           pc == IF Kind(a) = "note" THEN "record" ELSE NextPc(a)
<1>1. Publishing(a) /\ Delivered(a)
  BY DEF Publish
<1>2. PICK late \in IF pc = "record" THEN {FALSE} ELSE LateAfter(a) :
        IF pc = "end" THEN EndWith(a, accepted, FALSE)
        ELSE /\ actor' = [actor EXCEPT ![a] =
                  [@ EXCEPT !.pc = pc, !.late = late, !.accepted = accepted]]
             /\ reported' = reported
  BY DEF Publish
<1>3. actor[a].pc # "idle" /\ actor[a] \in ActorStates
  BY <1>1 DEF Publishing, LedgerInvariant, Typed
<1>4. /\ RelaysKeep /\ \A r \in Out' : r \in Out \/ r \in actor[a].rev
      /\ \A kind \in {Kind(a)} :
           /\ kind = "declaration" => actor[a].input.tree \in declared'
           /\ kind = "attestation" => actor[a].input.ci \in attested'
           /\ kind = "note" => actor[a].rev \subseteq Out'
  BY <1>1, DeliveringKeeps
<1>5. CASE pc = "end"
  <2>1. a \in Jobs =>
          /\ "declaration" \in accepted => actor[a].input.tree \in declared'
          /\ "attestation" \in accepted => actor[a].input.ci \in attested'
          /\ "note" \in accepted => actor[a].rev \subseteq Out'
    BY <1>4 DEF ReportInvariant, Honest, RelaysKeep
  <2> HIDE DEF accepted
  <2> QED
    BY <1>2, <1>3, <1>4, <1>5, <2>1, EndingReports
<1>6. CASE pc # "end"
  <2> DEFINE s == [actor[a] EXCEPT !.pc = pc, !.late = late, !.accepted = accepted]
  <2>1. pc \in {"attest", "post", "record"}
    BY <1>6 DEF NextPc
  <2>2. actor' = [actor EXCEPT ![a] = s]
    BY <1>2, <1>6
  <2>3. /\ s.pc = pc /\ s.rev = actor[a].rev /\ s.input = actor[a].input
        /\ s.code = actor[a].code /\ s.accepted = accepted
    BY <1>3 DEF ActorStates
  <2>4. s.accepted \ actor[a].accepted \subseteq {Kind(a)}
    BY <2>3
  <2> HIDE DEF s, pc, accepted
  <2> QED
    BY <1>2, <1>3, <1>4, <1>6, <2>1, <2>2, <2>3, <2>4, GoingOnReports
<1> QED
  BY <1>5, <1>6

LEMMA RefusedReports ==
  ASSUME LedgerInvariant, ReportInvariant, NEW a \in Actors,
         PublishRefused(a) \/ PublishUnacknowledged(a)
  PROVE  ReportInvariant'
<1>1. Publishing(a) /\ Refuse(a)
  BY DEF PublishRefused, PublishUnacknowledged
<1>2. RelaysKeep /\ \A r \in Out' : r \in Out \/ r \in actor[a].rev
  BY <1>1, NothingNew, DeliveringKeeps DEF PublishRefused, PublishUnacknowledged, events
<1> QED
  BY <1>1, <1>2, RefuseReports

\* Inside Record nothing is published; leaving it, an actor ends.
LEMMA RecordReports ==
  ASSUME LedgerInvariant, ReportInvariant, NEW a \in Actors,
         \/ Record(a) \/ OpenTmp(a) \/ WriteTmp(a) \/ RenameTmp(a) \/ FailRecord(a)
  PROVE  ReportInvariant'
<1>1. actor[a].pc # "idle" /\ actor[a] \in ActorStates
  BY DEF Record, AppendRecord, OpenTmp, WriteTmp, RenameTmp, FailRecord, Holds,
         LedgerInvariant, Typed
<1>2. RelaysKeep /\ Out' = Out
  BY NothingNew DEF Record, AppendRecord, OpenTmp, WriteTmp, RenameTmp, FailRecord, events
<1>3. CASE End(a) \/ FailEnd(a)
  <2>1. a \in Jobs =>
          /\ "declaration" \in actor[a].accepted => actor[a].input.tree \in declared'
          /\ "attestation" \in actor[a].accepted => actor[a].input.ci \in attested'
          /\ "note" \in actor[a].accepted => actor[a].rev \subseteq Out'
    BY <1>2 DEF ReportInvariant, Honest, RelaysKeep
  <2> QED
    BY <1>1, <1>2, <1>3, <2>1, EndingReports DEF End, FailEnd
<1>4. ASSUME NEW pc \in {"open", "write", "rename"}, NEW x, reported' = reported,
             \/ actor' = [actor EXCEPT ![a] = [@ EXCEPT !.pc = pc, !.data = x]]
             \/ actor' = [actor EXCEPT ![a] = [@ EXCEPT !.pc = pc, !.fd = x]]
      PROVE  ReportInvariant'
  <2>1. PICK s \in {[actor[a] EXCEPT !.pc = pc, !.data = x],
                    [actor[a] EXCEPT !.pc = pc, !.fd = x]} :
          actor' = [actor EXCEPT ![a] = s]
    BY <1>4
  <2>2. /\ s.pc = pc /\ s.rev = actor[a].rev /\ s.input = actor[a].input
        /\ s.code = actor[a].code /\ s.accepted = actor[a].accepted
    BY <1>1, <2>1 DEF ActorStates
  <2>3. s.pc # "idle"
    BY <2>2
  <2> QED
    BY <1>1, <1>2, <1>4, <2>1, <2>2, <2>3, GoingOnReports
<1>5. CASE Record(a)
  BY <1>3, <1>4, <1>5 DEF Record, AppendRecord
<1>6. CASE OpenTmp(a)
  BY <1>4, <1>6 DEF OpenTmp
<1>7. CASE WriteTmp(a)
  BY <1>4, <1>7 DEF WriteTmp
<1> QED
  BY <1>3, <1>5, <1>6, <1>7 DEF RenameTmp, FailRecord


\* A run that is killed is reported.
LEMMA DeathReports ==
  ASSUME LedgerInvariant, ReportInvariant, NEW S, Die(S)
  PROVE  ReportInvariant'
<1>1. /\ actor' = [a \in Actors |-> IF a \in S THEN Idle ELSE actor[a]]
      /\ reported' = reported \cup UNION {actor[a].rev : a \in S \cap Jobs}
      /\ UNCHANGED <<declared, attested, posted>>
  BY DEF Die, events
<1>2. RelaysKeep /\ Out' = Out /\ Declared' = Declared
  BY <1>1, NothingNew DEF Declared
<1>3. Jobs \subseteq Actors /\ Requests \subseteq Actors
  BY DEF Actors
<1>4. ASSUME NEW j \in Jobs PROVE Honest(actor'[j], declared', attested', Out')
  <2>1. Honest(Idle, declared', attested', Out')
    <3>1. Idle.accepted = {} /\ Idle.rev = {} /\ Idle.pc = "idle" /\ Idle.code = None
      BY DEF Idle
    <3> QED
      BY <3>1, CodesAssumption DEF Honest
  <2> QED
    BY <1>1, <1>2, <1>3, <2>1, HonestyLasts DEF ReportInvariant
<1>5. ASSUME NEW h \in Requests PROVE actor'[h].rev \subseteq Declared'
  BY <1>1, <1>2, <1>3, IdleIsLegal DEF ReportInvariant
<1>6. ASSUME NEW r \in Out', r \notin Declared', r \notin reported'
      PROVE  \E j \in Jobs : r \in actor'[j].rev
  <2>1. r \notin reported /\ \A j \in S \cap Jobs : r \notin actor[j].rev
    BY <1>1, <1>6
  <2>2. PICK j \in Jobs : r \in actor[j].rev
    BY <1>2, <1>6, <2>1 DEF ReportInvariant
  <2> QED
    BY <1>1, <1>3, <2>1, <2>2
<1> QED
  BY <1>4, <1>5, <1>6 DEF ReportInvariant

LEMMA StepReports ==
  ASSUME LedgerInvariant, ReportInvariant, [Next]_vars
  PROVE  ReportInvariant'
<1>1. CASE UNCHANGED vars
  BY <1>1 DEF vars, events, ReportInvariant, Out, Declared
<1>2. ASSUME NEW h \in Requests, NEW r \in Revs, HandleAnnounce(h, r)
      PROVE  ReportInvariant'
  BY <1>2, NewRequestReports
<1>3. ASSUME NEW j \in Jobs, NEW i \in Inputs, RunPublish(j, i) PROVE ReportInvariant'
  BY <1>3, NewRunReports
<1>4. ASSUME NEW a \in Actors,
             Publish(a) \/ PublishRefused(a) \/ PublishUnacknowledged(a)
      PROVE  ReportInvariant'
  BY <1>4, PublishReports, RefusedReports
<1>5. ASSUME NEW a \in Actors,
             \/ Record(a) \/ OpenTmp(a) \/ WriteTmp(a) \/ RenameTmp(a) \/ FailRecord(a)
      PROVE  ReportInvariant'
  BY <1>5, RecordReports
<1>6. ASSUME RestartDaemon PROVE ReportInvariant'
  BY <1>6, DeathReports DEF RestartDaemon
<1>7. ASSUME NEW j \in Jobs, KillJob(j) PROVE ReportInvariant'
  BY <1>7, DeathReports DEF KillJob
<1> QED
  BY <1>1, <1>2, <1>3, <1>4, <1>5, <1>6, <1>7 DEF Next

LEMMA ReportsInvariance == Spec => [](LedgerInvariant /\ ReportInvariant)
<1>1. Init => ReportInvariant
  <2> SUFFICES ASSUME Init PROVE ReportInvariant
    OBVIOUS
  <2>1. Idle.accepted = {} /\ Idle.rev = {} /\ Idle.pc = "idle" /\ Idle.code = None
    BY DEF Idle
  <2>2. Out = {} /\ \A a \in Actors : actor[a] = Idle
    BY DEF Init, Out
  <2> QED
    BY <2>1, <2>2, CodesAssumption DEF ReportInvariant, Honest, Actors
<1>2. LedgerInvariant /\ ReportInvariant /\ [Next]_vars
        => LedgerInvariant' /\ ReportInvariant'
  BY StepKeepsInvariant, StepReports
<1> QED
  BY <1>1, <1>2, InitEstablishes, PTL DEF Spec

\* Exit code 0 means that all a run was given is out, by this run or, for a note
\* it skipped, by whoever recorded it.
THEOREM CodeZeroIsTrue == Spec => []SuccessMeansPublished
<1>1. LedgerInvariant /\ ReportInvariant => SuccessMeansPublished
  <2> SUFFICES ASSUME ReportInvariant, NEW j \in Jobs, actor[j].code = 0
               PROVE  LET input == actor[j].input
                      IN  /\ input.tree \in declared
                          /\ input.ci # None => input.ci \in attested
                          /\ input.announce => posted[RevOf(input.tree)] >= 1
    BY DEF SuccessMeansPublished
  <2> QED
    BY DEF ReportInvariant, Honest, IsOut, Out
<1> QED
  BY <1>1, ReportsInvariance, PTL

\* A note about a release no relay has a declaration of is on the books of a run
\* that is under way, or has been reported by one that failed or was killed.
THEOREM UndeclaredNotesAreKnown == Spec => []UndeclaredNotesAreReported
<1>1. LedgerInvariant /\ ReportInvariant => UndeclaredNotesAreReported
  BY DEF ReportInvariant, UndeclaredNotesAreReported, Out, Declared
<1> QED
  BY <1>1, ReportsInvariance, PTL


-----------------------------------------------------------------------------
(* What a run has attested *)

\* What RunPublish has checked before it publishes anything.
Publishable(input) ==
  /\ input \in Inputs
  /\ MetadataIsValid(input.tree)
  /\ input.ci # None => CiResultIsValid(input.ci) /\ ResultMatches(input.ci, input.tree)

\* A run has the input it began with, and one that has ended says of what it was.
InputChecked(state) == state.pc # "idle" \/ state.code # None => Publishable(state.input)

InputInvariant == \A j \in Jobs : InputChecked(actor[j])

LEMMA NothingToCheck == InputChecked(Idle)
BY DEF InputChecked, Idle

\* An actor begins with a checked input, or goes on with the one it has.
LEMMA OneInput ==
  ASSUME LedgerInvariant, InputInvariant, NEW a \in Actors, NEW s,
         actor' = [actor EXCEPT ![a] = s], a \in Jobs => InputChecked(s)
  PROVE  InputInvariant'
BY DEF InputInvariant, LedgerInvariant, Typed, Actors

LEMMA InputKept ==
  ASSUME LedgerInvariant, InputInvariant, NEW a \in Actors, NEW s,
         actor' = [actor EXCEPT ![a] = s], s.input = actor[a].input,
         actor[a].pc # "idle"
  PROVE  InputInvariant'
BY OneInput DEF InputInvariant, InputChecked

LEMMA InputAtEnd ==
  ASSUME LedgerInvariant, InputInvariant, NEW a \in Actors, NEW accepted, NEW failed,
         EndWith(a, accepted, failed), actor[a].pc # "idle"
  PROVE  InputInvariant'
<1> DEFINE input == actor[a].input
           code == IF ~failed /\ Succeeds(input, actor[a].rev, accepted) THEN 0 ELSE 1
           s == [Idle EXCEPT !.input = input, !.code = code]
<1>1. CASE a \in Requests
  BY <1>1, NothingToCheck, OneInput DEF EndWith
<1>2. CASE a \notin Requests
  <2>1. actor' = [actor EXCEPT ![a] = s] /\ s.input = actor[a].input
    BY <1>2 DEF EndWith, Idle
  <2> QED
    BY <2>1, InputKept
<1> QED
  BY <1>1, <1>2

LEMMA InputThroughRefusal ==
  ASSUME LedgerInvariant, InputInvariant, NEW a \in Actors, Publishing(a), Refuse(a)
  PROVE  InputInvariant'
<1>1. actor[a].pc # "idle" /\ actor[a] \in ActorStates
  BY DEF Publishing, LedgerInvariant, Typed
<1>2. ASSUME NEW late, NEW pc,
             actor' = [actor EXCEPT ![a] = [@ EXCEPT !.pc = pc, !.late = late]]
      PROVE  InputInvariant'
  <2> DEFINE s == [actor[a] EXCEPT !.pc = pc, !.late = late]
  <2>1. s.input = actor[a].input /\ actor' = [actor EXCEPT ![a] = s]
    BY <1>1, <1>2 DEF ActorStates
  <2> QED
    BY <1>1, <2>1, InputKept
<1> QED
  BY <1>1, <1>2, InputAtEnd DEF Refuse, End

LEMMA InputThroughPublish ==
  ASSUME LedgerInvariant, InputInvariant, NEW a \in Actors, Publish(a)
  PROVE  InputInvariant'
<1>1. actor[a].pc # "idle" /\ actor[a] \in ActorStates
  BY DEF Publish, Publishing, LedgerInvariant, Typed
<1>2. ASSUME NEW late, NEW pc, NEW accepted,
             actor' = [actor EXCEPT ![a] =
               [@ EXCEPT !.pc = pc, !.late = late, !.accepted = accepted]]
      PROVE  InputInvariant'
  <2> DEFINE s == [actor[a] EXCEPT !.pc = pc, !.late = late, !.accepted = accepted]
  <2>1. s.input = actor[a].input /\ actor' = [actor EXCEPT ![a] = s]
    BY <1>1, <1>2 DEF ActorStates
  <2> QED
    BY <1>1, <2>1, InputKept
<1> QED
  BY <1>1, <1>2, InputAtEnd DEF Publish

LEMMA InputInRecord ==
  ASSUME LedgerInvariant, InputInvariant, NEW a \in Actors,
         \/ Record(a) \/ OpenTmp(a) \/ WriteTmp(a) \/ RenameTmp(a) \/ FailRecord(a)
  PROVE  InputInvariant'
<1>1. actor[a].pc # "idle" /\ actor[a] \in ActorStates
  BY DEF Record, AppendRecord, OpenTmp, WriteTmp, RenameTmp, FailRecord, Holds,
         LedgerInvariant, Typed
<1>2. ASSUME NEW s, actor' = [actor EXCEPT ![a] = s], s.input = actor[a].input
      PROVE  InputInvariant'
  BY <1>1, <1>2, InputKept
<1>3. CASE Record(a)
  <2> DEFINE s == [actor[a] EXCEPT !.pc = "open", !.data = ledger'[LedgerOf(a)]]
  <2>1. s.input = actor[a].input
    BY <1>1 DEF ActorStates
  <2>2. End(a) \/ actor' = [actor EXCEPT ![a] = s]
    BY <1>3 DEF Record, AppendRecord
  <2> HIDE DEF s
  <2> QED
    BY <1>1, <1>2, <2>1, <2>2, InputAtEnd DEF End
<1>4. CASE OpenTmp(a)
  <2> DEFINE i == IF tmpPath = NoInode THEN FreshInode ELSE tmpPath
             s == [actor[a] EXCEPT !.pc = "write", !.fd = i]
  <2>1. s.input = actor[a].input
    BY <1>1 DEF ActorStates
  <2>2. actor' = [actor EXCEPT ![a] = s]
    BY <1>4 DEF OpenTmp
  <2> HIDE DEF s
  <2> QED
    BY <1>2, <2>1, <2>2
<1>5. CASE WriteTmp(a)
  <2> DEFINE s == [actor[a] EXCEPT !.pc = "rename", !.fd = NoInode]
  <2>1. s.input = actor[a].input
    BY <1>1 DEF ActorStates
  <2>2. actor' = [actor EXCEPT ![a] = s]
    BY <1>5 DEF WriteTmp
  <2> HIDE DEF s
  <2> QED
    BY <1>2, <2>1, <2>2
<1>6. CASE RenameTmp(a) \/ FailRecord(a)
  BY <1>1, <1>6, InputAtEnd DEF RenameTmp, FailRecord, End, FailEnd
<1> QED
  BY <1>3, <1>4, <1>5, <1>6

LEMMA InputAtDeath ==
  ASSUME LedgerInvariant, InputInvariant, NEW S, Die(S)
  PROVE  InputInvariant'
BY NothingToCheck DEF Die, InputInvariant, Actors

LEMMA InputAtStart ==
  ASSUME LedgerInvariant, InputInvariant,
         \/ \E h \in Requests, r \in Revs : HandleAnnounce(h, r)
         \/ \E j \in Jobs, i \in Inputs : RunPublish(j, i)
  PROVE  InputInvariant'
<1>1. ASSUME NEW h \in Requests, NEW r \in Revs, HandleAnnounce(h, r)
      PROVE  InputInvariant'
  <2>1. h \notin Jobs /\ h \in Actors
    BY NamesAssumption DEF Actors
  <2> QED
    BY <1>1, <2>1, OneInput DEF HandleAnnounce, Start
<1>2. ASSUME NEW j \in Jobs, NEW i \in Inputs, RunPublish(j, i) PROVE InputInvariant'
  <2> DEFINE rev == IF i.announce THEN {RevOf(i.tree)} \ FileRecords ELSE {}
             s == [Idle EXCEPT !.pc = "declare", !.input = i, !.rev = rev]
  <2>1. actor' = [actor EXCEPT ![j] = s] /\ j \in Actors /\ s.input = i
    BY <1>2 DEF RunPublish, Start, Actors, Idle
  <2>2. Publishable(i)
    BY <1>2 DEF RunPublish, Publishable
  <2> QED
    BY <2>1, <2>2, OneInput DEF InputChecked
<1> QED
  BY <1>1, <1>2

LEMMA InputStep ==
  ASSUME LedgerInvariant, InputInvariant, [Next]_vars
  PROVE  InputInvariant'
<1>1. CASE UNCHANGED vars
  BY <1>1 DEF vars, InputInvariant
<1>2. ASSUME NEW a \in Actors, PublishRefused(a) \/ PublishUnacknowledged(a)
      PROVE  InputInvariant'
  BY <1>2, InputThroughRefusal DEF PublishRefused, PublishUnacknowledged
<1> QED
  BY <1>1, <1>2, InputThroughPublish, InputInRecord, InputAtDeath, InputAtStart
     DEF Next, RestartDaemon, KillJob

\* The two events of a run, built from what it has checked, are read for what they
\* are, and the attestation is about the declared revision.
LEMMA EvidenceIsRead ==
  ASSUME NEW input, Publishable(input), input.ci # None
  PROVE  LET ci          == input.ci
             declaration == BuildDeclaration(input.tree)
             attestation == BuildAttestation(ci)
         IN  /\ DeclarationParses(declaration)
             /\ AttestationParses(attestation, ci.checks)
             /\ Daemon!AttestationsFor({AttestationOf(attestation, ci.checks)},
                                       AppDeclaration(declaration)) # {}
             /\ RanOnCommit(ci) => input.tree \in Trees
<1> DEFINE ci == input.ci
           m == input.tree
           declaration == BuildDeclaration(m)
           attestation == BuildAttestation(ci)
<1>1. /\ CiResultIsValid(ci) /\ MetadataIsValid(m)
      /\ ci.app = m.app /\ ci.repository = m.repository /\ ci.commit = m.commit
      /\ ci.manifest = m.manifest /\ ci.content = m.content
  BY DEF Publishable, ResultMatches
<1> HIDE DEF ci, m
<1>2. /\ DOMAIN declaration = DeclarationTags
      /\ Value(declaration, "d") = m.app
      /\ Value(declaration, "platform") = "yunohost"
      /\ Value(declaration, "repo") = m.repository
      /\ Value(declaration, "commit") = m.commit
      /\ Value(declaration, "manifest") = m.manifest
      /\ Value(declaration, "content") = m.content
      /\ \A name \in DeclarationTags : Len(declaration[name]) = 1
  BY DEF BuildDeclaration, DeclarationTags, Value
<1>3. /\ DOMAIN attestation = AttestationTags
      /\ Value(attestation, "d") = <<ci.app, ci.commit>>
      /\ Value(attestation, "app_id") = ci.app
      /\ Value(attestation, "repo") = ci.repository
      /\ Value(attestation, "commit") = ci.commit
      /\ Value(attestation, "manifest") = ci.manifest
      /\ Value(attestation, "content") = ci.content
      /\ Value(attestation, "result") = ci.result
      /\ \A name \in AttestationTags : Len(attestation[name]) = 1
  BY DEF BuildAttestation, AttestationTags, Value
<1> HIDE DEF declaration, attestation
<1>4. DeclarationParses(declaration)
  BY <1>1, <1>2 DEF DeclarationParses, OccursOnce, MetadataIsValid, CiResultIsValid
<1>5. AttestationParses(attestation, ci.checks)
  BY <1>1, <1>3 DEF AttestationParses, OccursOnce, CiResultIsValid
<1>6. Daemon!AttestationsFor({AttestationOf(attestation, ci.checks)},
                             AppDeclaration(declaration)) # {}
  <2> DEFINE e == AttestationOf(attestation, ci.checks)
             d == AppDeclaration(declaration)
  <2>1. /\ e.repository = ci.repository /\ e.commit = ci.commit
        /\ e.hashes = <<ci.manifest, ci.content>>
    BY <1>3 DEF AttestationOf
  <2>2. /\ d.repository = m.repository /\ d.commit = m.commit
        /\ d.hashes = <<m.manifest, m.content>>
    BY <1>2 DEF AppDeclaration
  <2> HIDE DEF e, d
  <2>3. e.hashes = d.hashes /\ Daemon!AttestationKey(e) = Daemon!AttestationKey(d)
    BY <1>1, <2>1, <2>2 DEF Daemon!AttestationKey, Daemon!NormalizeRepository
  <2>4. e \in Daemon!AttestationsFor({e}, d)
    BY <2>3 DEF Daemon!AttestationsFor
  <2> QED
    BY <2>4 DEF e, d
<1>7. ASSUME RanOnCommit(ci) PROVE m \in Trees
  BY <1>1, <1>7, HashesAssumption DEF RanOnCommit, Publishable, m
<1> QED
  BY <1>4, <1>5, <1>6, <1>7 DEF ci, m, declaration, attestation

\* A run that ends well with --ci-result has published two events that the daemon
\* parses and takes for evidence of the revision declared, whatever it was given.
THEOREM AttestedIsVerifiable == Spec => []AttestedReleaseVerifies
<1>1. Init => InputInvariant
  BY NothingToCheck DEF Init, InputInvariant, Actors
<1>2. LedgerInvariant /\ InputInvariant /\ [Next]_vars => LedgerInvariant' /\ InputInvariant'
  BY StepKeepsInvariant, InputStep
<1>3. InputInvariant => AttestedReleaseVerifies
  <2> SUFFICES ASSUME InputInvariant, NEW j \in Jobs,
                      actor[j].code = 0, actor[j].input.ci # None
               PROVE  LET ci          == actor[j].input.ci
                          declaration == BuildDeclaration(actor[j].input.tree)
                          attestation == BuildAttestation(ci)
                      IN  /\ DeclarationParses(declaration)
                          /\ AttestationParses(attestation, ci.checks)
                          /\ Daemon!AttestationsFor({AttestationOf(attestation, ci.checks)},
                                                    AppDeclaration(declaration)) # {}
                          /\ RanOnCommit(ci) => actor[j].input.tree \in Trees
    BY DEF AttestedReleaseVerifies
  <2>1. Publishable(actor[j].input)
    BY CodesAssumption DEF InputInvariant, InputChecked
  <2> QED
    BY <2>1, EvidenceIsRead
<1> QED
  BY <1>1, <1>2, <1>3, InitEstablishes, PTL DEF Spec

-----------------------------------------------------------------------------
(* One process *)

\* The file has what the ledger in use has had, and path.tmp belongs to the one
\* that holds its lock.
FileFollows ==
  /\ tmpPath # NoInode => tmpPath # path
  /\ \A a \in Actors :
       /\ Holds(a) => actor[a].data = ledger[LedgerOf(a)]
       /\ actor[a].pc = "write" =>
            /\ actor[a].fd = tmpPath /\ tmpPath # NoInode
            /\ content[tmpPath] = Torn
       /\ actor[a].pc = "rename" =>
            tmpPath # NoInode /\ content[tmpPath] = actor[a].data
  /\ \A a \in active : a \in Requests \/ actor[a].rev # {} =>
       FileRecords \subseteq ledger[LedgerOf(a)]

SingleInvariant ==
  /\ active \subseteq Actors
  /\ \A a \in Actors : actor[a].pc # "idle" => a \in active
  /\ \A a \in Actors : Holds(a) => actor[a].rev # {}
  /\ \A a, b \in Actors : Holds(a) /\ Holds(b) /\ LedgerOf(a) = LedgerOf(b) => a = b
  /\ OneProcess => FileFollows

KeepsRecords == OneProcess => FileRecords \subseteq FileRecords'

\* The actors of one process share one ledger.
LEMMA OneLedger ==
  ASSUME OneProcess, active \subseteq Actors, NEW a \in active, NEW b \in active
  PROVE  LedgerOf(a) = LedgerOf(b) /\ (a \in Jobs => a = b)
<1>1. IsFiniteSet(active)
  BY ActorsAssumption, FS_Subset DEF Actors
<1>2. CASE active \subseteq Requests
  BY <1>2, NamesAssumption DEF LedgerOf
<1>3. CASE Cardinality(active) = 1
  BY <1>1, <1>3, FS_Singleton
<1> QED
  BY <1>2, <1>3 DEF OneProcess

LEMMA OneHolder ==
  ASSUME SingleInvariant, OneProcess, NEW a \in Actors, NEW b \in Actors,
         Holds(a), Holds(b)
  PROVE  a = b
<1>1. a \in active /\ b \in active
  BY DEF SingleInvariant, Holds
<1> QED
  BY <1>1, OneLedger DEF SingleInvariant

\* An actor moves outside Record; its books get no new note, unless the file's
\* records are in its ledger anyway.
LEMMA MoveOutside ==
  ASSUME LedgerInvariant, SingleInvariant, NEW a \in active, NEW s,
         actor' = [actor EXCEPT ![a] = s], ~Holds(a), ~Holding(s),
         s.rev \in {{}, actor[a].rev} \/ a \in Requests,
         UNCHANGED <<active, ledger, files>>
  PROVE  SingleInvariant' /\ KeepsRecords
<1>1. /\ a \in Actors /\ actor'[a] = s
      /\ \A b \in Actors : b # a => actor'[b] = actor[b]
  BY DEF SingleInvariant, LedgerInvariant, Typed
<1>2. FileRecords' = FileRecords
  BY DEF files, FileRecords, Readable, File
<1>3. \A b \in Actors : Holds(b)' <=> Holds(b)
  BY <1>1 DEF Holds, Holding
<1>4. ASSUME OneProcess PROVE FileFollows'
  <2>1. FileFollows
    BY <1>4 DEF SingleInvariant
  <2>2. \A b \in Actors :
          /\ Holds(b)' => actor'[b] = actor[b]
          /\ actor'[b].pc \in {"write", "rename"} => actor'[b] = actor[b]
    BY <1>1, <1>3 DEF Holding, Holds
  <2>3. \A b \in active : b \in Requests \/ actor'[b].rev # {} =>
          b \in Requests \/ actor[b].rev # {}
    BY <1>1 DEF SingleInvariant
  <2>4. UNCHANGED <<active, ledger, content, path, tmpPath>>
    BY DEF files
  <2>5. tmpPath' # NoInode => tmpPath' # path'
    BY <2>1, <2>4 DEF FileFollows
  <2>6. ASSUME NEW b \in Actors
        PROVE  /\ Holds(b)' => actor'[b].data = ledger'[LedgerOf(b)]
               /\ actor'[b].pc = "write" =>
                    /\ actor'[b].fd = tmpPath' /\ tmpPath' # NoInode
                    /\ content'[tmpPath'] = Torn
               /\ actor'[b].pc = "rename" =>
                    tmpPath' # NoInode /\ content'[tmpPath'] = actor'[b].data
    BY <1>3, <2>1, <2>2, <2>4 DEF FileFollows
  <2>7. ASSUME NEW b \in active', b \in Requests \/ actor'[b].rev # {}
        PROVE  FileRecords' \subseteq ledger'[LedgerOf(b)]
    BY <1>2, <2>1, <2>3, <2>4, <2>7 DEF FileFollows
  <2> QED
    BY <2>5, <2>6, <2>7 DEF FileFollows
<1>5. OneProcess' <=> OneProcess
  BY DEF OneProcess
<1> QED
  BY <1>1, <1>2, <1>3, <1>4, <1>5 DEF SingleInvariant, KeepsRecords

LEMMA EndOutside ==
  ASSUME LedgerInvariant, SingleInvariant, NEW a \in active,
         NEW accepted, NEW failed, EndWith(a, accepted, failed),
         ~Holds(a), UNCHANGED <<active, ledger, files>>
  PROVE  SingleInvariant' /\ KeepsRecords
<1>1. a \in Actors
  BY DEF SingleInvariant
<1>2. PICK s : actor' = [actor EXCEPT ![a] = s] /\ ~Holding(s) /\ s.rev = {}
  BY <1>1, Ending
<1> QED
  BY <1>2, MoveOutside

LEMMA PublishingAlone ==
  ASSUME LedgerInvariant, SingleInvariant, NEW a \in Actors,
         Publish(a) \/ PublishRefused(a) \/ PublishUnacknowledged(a)
  PROVE  SingleInvariant' /\ KeepsRecords
<1>1. /\ Publishing(a) /\ UNCHANGED <<active, ledger, files>>
      /\ actor[a] \in ActorStates
  BY DEF Publish, PublishRefused, PublishUnacknowledged, LedgerInvariant, Typed
<1>2. a \in active /\ ~Holds(a)
  BY <1>1 DEF SingleInvariant, Publishing, Holds
<1>3. ASSUME NEW accepted, EndWith(a, accepted, FALSE)
      PROVE  SingleInvariant' /\ KeepsRecords
  BY <1>1, <1>2, <1>3, EndOutside
<1>4. ASSUME NEW pc \in {"attest", "post", "record"}, NEW late, NEW accepted,
             \/ actor' = [actor EXCEPT ![a] = [@ EXCEPT !.pc = pc, !.late = late]]
             \/ actor' = [actor EXCEPT ![a] =
                            [@ EXCEPT !.pc = pc, !.late = late, !.accepted = accepted]]
      PROVE  SingleInvariant' /\ KeepsRecords
  <2>1. PICK s \in {[actor[a] EXCEPT !.pc = pc, !.late = late],
                    [actor[a] EXCEPT !.pc = pc, !.late = late, !.accepted = accepted]} :
          actor' = [actor EXCEPT ![a] = s]
    BY <1>4
  <2>2. s.pc = pc /\ s.rev = actor[a].rev
    BY <1>1, <2>1 DEF ActorStates
  <2>3. ~Holding(s)
    BY <2>2 DEF Holding
  <2> QED
    BY <1>1, <1>2, <2>1, <2>2, <2>3, MoveOutside
<1>5. NextPc(a) \in {"attest", "post", "end"}
  BY DEF NextPc
<1>6. CASE Publish(a)
  <2> DEFINE accepted == actor[a].accepted \cup {Kind(a)}
             pc == IF Kind(a) = "note" THEN "record" ELSE NextPc(a)
  <2>1. PICK late \in IF pc = "record" THEN {FALSE} ELSE LateAfter(a) :
          IF pc = "end" THEN EndWith(a, accepted, FALSE)
          ELSE actor' = [actor EXCEPT ![a] =
                 [@ EXCEPT !.pc = pc, !.late = late, !.accepted = accepted]]
    BY <1>6 DEF Publish
  <2>2. pc \in {"attest", "post", "record", "end"}
    BY <1>5
  <2> HIDE DEF pc, accepted
  <2> QED
    BY <1>3, <1>4, <2>1, <2>2
<1>7. CASE PublishRefused(a) \/ PublishUnacknowledged(a)
  <2> DEFINE pc == NextPc(a)
  <2>1. PICK late \in LateAfter(a) :
          IF pc = "end" THEN End(a)
          ELSE actor' = [actor EXCEPT ![a] = [@ EXCEPT !.pc = pc, !.late = late]]
    BY <1>7 DEF Refuse, PublishRefused, PublishUnacknowledged
  <2> HIDE DEF pc
  <2>2. pc \in {"attest", "post", "end"}
    BY <1>5 DEF pc
  <2> QED
    BY <1>3, <1>4, <2>1, <2>2 DEF End
<1> QED
  BY <1>6, <1>7


LEMMA StartAlone ==
  ASSUME LedgerInvariant, SingleInvariant,
         \/ \E h \in Requests, r \in Revs : HandleAnnounce(h, r)
         \/ \E j \in Jobs, i \in Inputs : RunPublish(j, i)
  PROVE  SingleInvariant' /\ KeepsRecords
<1>1. ASSUME NEW h \in Requests, NEW r \in Revs, HandleAnnounce(h, r)
      PROVE  SingleInvariant' /\ KeepsRecords
  <2> DEFINE s == [Idle EXCEPT !.pc = "post", !.rev = {r}]
  <2>1. /\ h \in active /\ actor[h].pc = "idle" /\ actor' = [actor EXCEPT ![h] = s]
        /\ UNCHANGED <<active, ledger, files>>
    BY <1>1 DEF HandleAnnounce, Start
  <2>2. s.pc = "post"
    BY DEF Idle
  <2> HIDE DEF s
  <2>3. ~Holds(h) /\ ~Holding(s)
    BY <2>1, <2>2 DEF Holds, Holding
  <2> QED
    BY <2>1, <2>3, MoveOutside
<1>2. ASSUME NEW j \in Jobs, NEW input \in Inputs, RunPublish(j, input)
      PROVE  SingleInvariant' /\ KeepsRecords
  <2> DEFINE rev == IF input.announce THEN {RevOf(input.tree)} \ FileRecords ELSE {}
             s == [Idle EXCEPT !.pc = "declare", !.input = input, !.rev = rev]
             loaded == IF input.announce THEN FileRecords ELSE {}
  <2>1. /\ j \in active /\ j \in Actors /\ actor[j].pc = "idle"
        /\ actor' = [actor EXCEPT ![j] = s]
        /\ ledger' = [ledger EXCEPT ![j] = loaded]
        /\ UNCHANGED <<active, content, path, tmpPath>>
    BY <1>2 DEF RunPublish, Start, files, Actors
  <2>2. s.pc = "declare" /\ s.rev = rev
    BY DEF Idle
  <2>3. rev # {} => loaded = FileRecords
    OBVIOUS
  <2> HIDE DEF s, rev, loaded
  <2>4. actor'[j] = s /\ \A b \in Actors : b # j => actor'[b] = actor[b]
    BY <2>1 DEF LedgerInvariant, Typed
  <2>5. FileRecords' = FileRecords
    BY <2>1 DEF FileRecords, Readable, File
  <2>6. \A b \in Actors : Holds(b)' <=> Holds(b)
    BY <2>1, <2>2, <2>4 DEF Holds
  <2>7. ASSUME OneProcess PROVE FileFollows'
    <3>1. FileFollows
      BY <2>7 DEF SingleInvariant
    <3>2. active = {j}
      BY <1>2, <2>1, <2>7, OneLedger DEF SingleInvariant
    <3>3. \A b \in Actors : ~Holds(b)
      BY <2>1, <3>2 DEF SingleInvariant, Holds
    <3>4. \A b \in Actors : actor'[b].pc \notin {"open", "write", "rename"}
      BY <2>6, <3>3 DEF Holds
    <3>5. tmpPath' # NoInode => tmpPath' # path'
      BY <2>1, <3>1 DEF FileFollows
    <3>6. ASSUME NEW b \in active', b \in Requests \/ actor'[b].rev # {}
          PROVE  FileRecords' \subseteq ledger'[LedgerOf(b)]
      <4>1. b = j /\ rev # {} /\ j \notin Requests
        BY <1>2, <2>1, <2>2, <2>4, <3>2, <3>6, NamesAssumption
      <4>2. LedgerOf(b) = j /\ j \in Ledgers
        BY <1>2, <4>1 DEF LedgerOf, Ledgers
      <4>3. ledger'[j] = FileRecords
        BY <2>1, <2>3, <4>1, <4>2 DEF LedgerInvariant, Typed
      <4> QED
        BY <2>5, <4>2, <4>3
    <3> QED
      BY <3>4, <3>5, <3>6 DEF FileFollows, Holds
  <2>8. OneProcess' <=> OneProcess
    BY <2>1 DEF OneProcess
  <2>9. \A b \in Actors : Holds(b)' => actor'[b].rev # {}
    BY <2>1, <2>2, <2>4, <2>6 DEF SingleInvariant, Holds
  <2> QED
    BY <2>1, <2>4, <2>5, <2>6, <2>7, <2>8, <2>9 DEF SingleInvariant, KeepsRecords
<1> QED
  BY <1>1, <1>2

\* What a, which goes on as s, leaves for the others while it has the files to
\* itself.
LeavesFiles(a, s) ==
  /\ \A b \in Actors : b # a => ~Holds(b)
  /\ tmpPath' # NoInode => tmpPath' # path'
  /\ Holding(s) => s.data = ledger'[LedgerOf(a)]
  /\ s.pc = "write" =>
       s.fd = tmpPath' /\ tmpPath' # NoInode /\ content'[tmpPath'] = Torn
  /\ s.pc = "rename" => tmpPath' # NoInode /\ content'[tmpPath'] = s.data
  /\ \A b \in active : b \in Requests \/ actor[b].rev # {} =>
       FileRecords' \subseteq ledger'[LedgerOf(b)]
  /\ FileRecords \subseteq FileRecords'

\* The one that holds the lock does something to the files: the others are at most
\* outside Record.
LEMMA HolderMoves ==
  ASSUME LedgerInvariant, SingleInvariant, NEW a \in Actors, NEW s,
         actor' = [actor EXCEPT ![a] = s], a \in active,
         active' = active,
         \A b \in Actors : b # a /\ Holds(b) /\ Holding(s) => LedgerOf(b) # LedgerOf(a),
         OneProcess => LeavesFiles(a, s),
         s.rev \subseteq actor[a].rev, Holding(s) => s.rev # {}
  PROVE  SingleInvariant' /\ KeepsRecords
<1>1. /\ actor'[a] = s
      /\ \A b \in Actors : b # a => actor'[b] = actor[b]
  BY DEF SingleInvariant, LedgerInvariant, Typed
<1>2. \A b \in Actors : Holds(b)' <=> IF b = a THEN Holding(s) ELSE Holds(b)
  BY <1>1 DEF Holds, Holding
<1>3. ASSUME OneProcess PROVE FileFollows'
  <2>1. ASSUME NEW b \in Actors
        PROVE  /\ Holds(b)' => actor'[b].data = ledger'[LedgerOf(b)]
               /\ actor'[b].pc = "write" =>
                    /\ actor'[b].fd = tmpPath' /\ tmpPath' # NoInode
                    /\ content'[tmpPath'] = Torn
               /\ actor'[b].pc = "rename" =>
                    tmpPath' # NoInode /\ content'[tmpPath'] = actor'[b].data
    BY <1>1, <1>2, <1>3 DEF Holds, LeavesFiles
  <2>2. ASSUME NEW b \in active', b \in Requests \/ actor'[b].rev # {}
        PROVE  FileRecords' \subseteq ledger'[LedgerOf(b)]
    BY <1>1, <1>3, <2>2 DEF SingleInvariant, LeavesFiles
  <2> QED
    BY <1>3, <2>1, <2>2 DEF FileFollows, LeavesFiles
<1>4. /\ \A b, c \in Actors : Holds(b)' /\ Holds(c)' /\ LedgerOf(b) = LedgerOf(c) => b = c
      /\ \A b \in Actors : Holds(b)' => actor'[b].rev # {}
  BY <1>1, <1>2 DEF SingleInvariant
<1>5. OneProcess' <=> OneProcess
  BY DEF OneProcess
<1> QED
  BY <1>1, <1>3, <1>4, <1>5 DEF SingleInvariant, KeepsRecords, LeavesFiles

LEMMA RecordAlone ==
  ASSUME LedgerInvariant, SingleInvariant, NEW a \in Actors, Record(a)
  PROVE  SingleInvariant' /\ KeepsRecords
<1> DEFINE l == LedgerOf(a)
<1>1. /\ actor[a].pc = "record" /\ mu[l] = {}
      /\ UNCHANGED <<active, content, path, tmpPath>>
  BY DEF Record, AppendRecord, files
<1>2. a \in active /\ ~Holds(a) /\ l \in Ledgers /\ actor[a] \in ActorStates
  BY <1>1 DEF Holds, SingleInvariant, LedgerInvariant, Typed, LedgerOf, Ledgers
<1>3. CASE End(a) /\ UNCHANGED <<ledger, mu>>
  BY <1>1, <1>2, <1>3, EndOutside DEF End, files
<1>4. CASE /\ actor[a].rev # {}
           /\ ledger' = [ledger EXCEPT ![l] = @ \cup actor[a].rev]
           /\ actor' = [actor EXCEPT ![a] = [@ EXCEPT !.pc = "open", !.data = ledger'[l]]]
  <2> DEFINE s == [actor[a] EXCEPT !.pc = "open", !.data = ledger'[l]]
  <2>1. actor' = [actor EXCEPT ![a] = s]
    BY <1>4
  <2>2. s.pc = "open" /\ s.data = ledger'[l] /\ s.rev = actor[a].rev
    BY <1>2 DEF ActorStates
  <2> HIDE DEF s
  <2>3. \A b \in Actors : Holds(b) => LedgerOf(b) # l
    BY <1>1, <1>2 DEF LedgerInvariant, LocksHeld
  <2>4. FileRecords' = FileRecords
    BY <1>1 DEF FileRecords, Readable, File
  <2>5. \A k \in Ledgers : ledger[k] \subseteq ledger'[k]
    BY <1>2, <1>4 DEF LedgerInvariant, Typed
  <2>6. ASSUME OneProcess
        PROVE  /\ \A b \in Actors : b # a => ~Holds(b)
               /\ tmpPath' # NoInode => tmpPath' # path'
               /\ \A b \in active : b \in Requests \/ actor[b].rev # {} =>
                    FileRecords' \subseteq ledger'[LedgerOf(b)]
    <3>1. FileFollows
      BY <2>6 DEF SingleInvariant
    <3>2. \A b \in Actors : ~Holds(b)
      <4> SUFFICES ASSUME NEW b \in Actors, Holds(b) PROVE FALSE
        OBVIOUS
      <4>1. b \in active
        BY DEF SingleInvariant, Holds
      <4> QED
        BY <1>2, <2>3, <2>6, <4>1, OneLedger DEF SingleInvariant
    <3>3. \A b \in Actors : LedgerOf(b) \in Ledgers
      BY DEF LedgerOf, Ledgers
    <3>4. tmpPath' # NoInode => tmpPath' # path'
      BY <1>1, <3>1 DEF FileFollows
    <3>5. ASSUME NEW b \in active, b \in Requests \/ actor[b].rev # {}
          PROVE  FileRecords' \subseteq ledger'[LedgerOf(b)]
      BY <2>4, <2>5, <3>1, <3>3, <3>5 DEF FileFollows, SingleInvariant
    <3> QED
      BY <3>2, <3>4, <3>5
  <2>7. OneProcess => LeavesFiles(a, s)
    BY <2>2, <2>4, <2>6 DEF LeavesFiles
  <2>8. s.rev \subseteq actor[a].rev /\ s.rev # {}
    <3>1. actor[a].rev # {}
      BY <1>4
    <3> QED
      BY <2>2, <3>1
  <2>9. \A b \in Actors : b # a /\ Holds(b) /\ Holding(s) => LedgerOf(b) # LedgerOf(a)
    BY <2>3
  <2> HIDE DEF l
  <2> QED
    BY <1>1, <1>2, <2>1, <2>7, <2>8, <2>9, HolderMoves
<1>5. CASE actor[a].rev \subseteq ledger[l]
  BY <1>3, <1>5 DEF Record, AppendRecord
<1>6. CASE ~(actor[a].rev \subseteq ledger[l])
  BY <1>4, <1>6 DEF Record, AppendRecord
<1> QED
  BY <1>5, <1>6

LEMMA WritingAlone ==
  ASSUME LedgerInvariant, SingleInvariant, NEW a \in Actors, OpenTmp(a) \/ WriteTmp(a)
  PROVE  SingleInvariant' /\ KeepsRecords
<1>1. /\ Holds(a) /\ a \in active /\ UNCHANGED <<active, ledger, path>>
      /\ actor[a] \in ActorStates
  BY DEF OpenTmp, WriteTmp, Holds, SingleInvariant, LedgerInvariant, Typed
<1>2. \A b \in Actors : b # a /\ Holds(b) => LedgerOf(b) # LedgerOf(a)
  BY <1>1 DEF SingleInvariant
<1>3. OneProcess => FileFollows /\ \A b \in Actors : b # a => ~Holds(b)
  BY <1>1, OneHolder DEF SingleInvariant
<1>4. ASSUME OneProcess, path = NoInode \/ content'[path] = content[path]
      PROVE  /\ FileRecords' = FileRecords
             /\ \A b \in active : b \in Requests \/ actor[b].rev # {} =>
                  FileRecords' \subseteq ledger'[LedgerOf(b)]
  <2>1. FileRecords' = FileRecords
    BY <1>1, <1>4 DEF FileRecords, Readable, File
  <2> QED
    BY <1>1, <1>3, <1>4, <2>1 DEF FileFollows
<1>5. CASE OpenTmp(a)
  <2> DEFINE i == IF tmpPath = NoInode THEN FreshInode ELSE tmpPath
             s == [actor[a] EXCEPT !.pc = "write", !.fd = i]
  <2>1. /\ actor[a].pc = "open" /\ tmpPath' = i
        /\ content' = [content EXCEPT ![i] = Torn]
        /\ actor' = [actor EXCEPT ![a] = s]
    BY <1>5 DEF OpenTmp
  <2>2. i \in Inodes /\ i # NoInode /\ (OneProcess => i # path)
    BY <1>3, FreshInodeIsFree
       DEF LedgerInvariant, Typed, FileFollows, Inodes, NoInode
  <2>3. s.pc = "write" /\ s.fd = i /\ s.data = actor[a].data /\ s.rev = actor[a].rev
    BY <1>1 DEF ActorStates
  <2> HIDE DEF s, i
  <2>4. content'[i] = Torn /\ (OneProcess => path = NoInode \/ content'[path] = content[path])
    BY <2>1, <2>2 DEF LedgerInvariant, Typed
  <2>5. OneProcess => s.data = ledger'[LedgerOf(a)]
    BY <1>1, <1>3, <2>3 DEF FileFollows
  <2>6. OneProcess => LeavesFiles(a, s)
    BY <1>1, <1>3, <1>4, <2>1, <2>2, <2>3, <2>4, <2>5 DEF LeavesFiles
  <2>7. actor[a].rev # {}
    BY <1>1 DEF SingleInvariant
  <2> QED
    BY <1>1, <1>2, <2>1, <2>3, <2>6, <2>7, HolderMoves
<1>6. CASE WriteTmp(a)
  <2> DEFINE s == [actor[a] EXCEPT !.pc = "rename", !.fd = NoInode]
             i == actor[a].fd
  <2>1. /\ actor[a].pc = "write" /\ tmpPath' = tmpPath
        /\ actor' = [actor EXCEPT ![a] = s]
    BY <1>6 DEF WriteTmp
  <2>2. PICK result \in {actor[a].data, Torn} :
          /\ content' = [content EXCEPT ![i] = result]
          /\ content[i] = Torn => result = actor[a].data
    BY <1>6 DEF WriteTmp
  <2>3. /\ s.pc = "rename" /\ s.data = actor[a].data /\ s.rev = actor[a].rev
    BY <1>1 DEF ActorStates
  <2> HIDE DEF s
  <2>4. ASSUME OneProcess
        PROVE  /\ tmpPath # NoInode /\ tmpPath # path
               /\ content'[tmpPath] = actor[a].data
               /\ path = NoInode \/ content'[path] = content[path]
               /\ s.data = ledger'[LedgerOf(a)]
    <3>1. i = tmpPath /\ tmpPath # NoInode /\ tmpPath # path /\ content[tmpPath] = Torn
      BY <1>3, <2>1, <2>4 DEF FileFollows
    <3>2. content'[tmpPath] = actor[a].data
          /\ (path = NoInode \/ content'[path] = content[path])
      BY <2>2, <3>1 DEF LedgerInvariant, Typed
    <3>3. s.data = ledger'[LedgerOf(a)]
      BY <1>1, <1>3, <2>3, <2>4 DEF FileFollows
    <3> QED
      BY <3>1, <3>2, <3>3
  <2>5. OneProcess => LeavesFiles(a, s)
    BY <1>1, <1>3, <1>4, <2>1, <2>3, <2>4 DEF LeavesFiles
  <2>6. actor[a].rev # {}
    BY <1>1 DEF SingleInvariant
  <2> QED
    BY <1>1, <1>2, <2>1, <2>3, <2>5, <2>6, HolderMoves
<1> QED
  BY <1>5, <1>6

\* The rename puts all of the ledger in the file; a failure leaves the file alone.
LEMMA LeavingAlone ==
  ASSUME LedgerInvariant, SingleInvariant, NEW a \in Actors, RenameTmp(a) \/ FailRecord(a)
  PROVE  SingleInvariant' /\ KeepsRecords
<1>1. /\ Holds(a) /\ a \in active /\ (End(a) \/ FailEnd(a))
      /\ UNCHANGED <<active, ledger, content>>
  BY DEF RenameTmp, FailRecord, Holds, SingleInvariant, files
<1>2. PICK s : actor' = [actor EXCEPT ![a] = s] /\ ~Holding(s) /\ s.rev = {}
  BY <1>1, Ending DEF End, FailEnd
<1>3. OneProcess => FileFollows /\ \A b \in Actors : b # a => ~Holds(b)
  BY <1>1, OneHolder DEF SingleInvariant
<1>4. CASE UNCHANGED <<path, tmpPath>>
  <2>1. FileRecords' = FileRecords
    BY <1>1, <1>4 DEF FileRecords, Readable, File
  <2>2. ~Holding(s) => s.pc # "write" /\ s.pc # "rename"
    BY DEF Holding
  <2>3. ASSUME OneProcess
        PROVE  /\ tmpPath' # NoInode => tmpPath' # path'
               /\ \A b \in active : b \in Requests \/ actor[b].rev # {} =>
                    FileRecords' \subseteq ledger'[LedgerOf(b)]
    BY <1>1, <1>3, <1>4, <2>1, <2>3 DEF FileFollows
  <2>4. OneProcess => LeavesFiles(a, s)
    BY <1>2, <1>3, <2>1, <2>2, <2>3 DEF LeavesFiles
  <2> QED
    BY <1>1, <1>2, <2>4, HolderMoves
<1>5. CASE /\ actor[a].pc = "rename" /\ tmpPath # NoInode
           /\ path' = tmpPath /\ tmpPath' = NoInode
  <2>1. ASSUME OneProcess
        PROVE  FileRecords' = ledger[LedgerOf(a)]
    <3>1. content[tmpPath] = ledger[LedgerOf(a)]
      BY <1>1, <1>3, <1>5, <2>1 DEF FileFollows
    <3>2. ledger[LedgerOf(a)] \subseteq Revs
      BY <1>1, LockOfHolder DEF LedgerInvariant, Typed
    <3> QED
      BY <1>1, <1>5, <3>1, <3>2, TornAssumption DEF FileRecords, Readable, File
  <2>2. ASSUME OneProcess, NEW b \in active
        PROVE  ledger'[LedgerOf(b)] = ledger[LedgerOf(a)]
    BY <1>1, <2>2, OneLedger DEF SingleInvariant
  <2>3. ASSUME OneProcess PROVE FileRecords \subseteq FileRecords'
    <3>1. actor[a].rev # {}
      BY <1>1 DEF SingleInvariant
    <3> QED
      BY <1>1, <1>3, <2>1, <2>3, <3>1 DEF FileFollows
  <2>4. /\ s.pc # "write" /\ s.pc # "rename"
        /\ tmpPath' = NoInode
    BY <1>2, <1>5 DEF Holding
  <2>5. ASSUME OneProcess, NEW b \in active
        PROVE  FileRecords' \subseteq ledger'[LedgerOf(b)]
    BY <2>1, <2>2, <2>5
  <2>6. OneProcess => LeavesFiles(a, s)
    BY <1>2, <1>3, <2>3, <2>4, <2>5 DEF LeavesFiles
  <2> QED
    BY <1>1, <1>2, <2>6, HolderMoves
<1> QED
  BY <1>4, <1>5 DEF RenameTmp, FailRecord, Holds, files

LEMMA DeathAlone ==
  ASSUME LedgerInvariant, SingleInvariant, RestartDaemon \/ \E j \in Jobs : KillJob(j)
  PROVE  SingleInvariant' /\ KeepsRecords
<1>1. UNCHANGED <<active, content, path, tmpPath>> /\ FileRecords' = FileRecords
  BY DEF RestartDaemon, KillJob, Die, files, FileRecords, Readable, File
<1>2. ~Holding(Idle) /\ Idle.rev = {} /\ Idle.pc = "idle"
  BY DEF Holding, Idle
<1>3. CASE RestartDaemon
  <2>1. /\ active \cap Requests # {}
        /\ ledger' = [ledger EXCEPT !["daemon"] = FileRecords]
        /\ actor' = [a \in Actors |-> IF a \in Requests THEN Idle ELSE actor[a]]
    BY <1>3 DEF RestartDaemon, Die
  <2>2. \A b \in Actors : Holds(b)' => Holds(b) /\ actor'[b] = actor[b]
    BY <1>2, <2>1 DEF Holds
  <2>3. \A b \in Actors : actor'[b].pc # "idle" => actor[b].pc # "idle"
    BY <1>2, <2>1
  <2>4. ASSUME OneProcess PROVE FileFollows'
    <3>1. active \subseteq Requests
      <4> SUFFICES ASSUME NEW b \in active PROVE b \in Requests
        OBVIOUS
      <4>1. PICK h \in active : h \in Requests
        BY <2>1
      <4>2. b \in Jobs => b = h
        BY <2>4, OneLedger DEF SingleInvariant
      <4> QED
        BY <4>1, <4>2 DEF SingleInvariant, Actors
    <3>2. \A b \in Actors : actor'[b].pc = "idle"
      BY <1>2, <2>1, <3>1 DEF SingleInvariant
    <3>3. \A b \in Actors : ~Holds(b)'
      BY <3>2 DEF Holds
    <3>4. \A b \in active' : FileRecords' \subseteq ledger'[LedgerOf(b)]
      <4> SUFFICES ASSUME NEW b \in active PROVE FileRecords \subseteq ledger'[LedgerOf(b)]
        BY <1>1
      <4>1. LedgerOf(b) = "daemon" /\ "daemon" \in Ledgers
        BY <3>1, NamesAssumption DEF LedgerOf, Ledgers
      <4> QED
        BY <2>1, <4>1 DEF LedgerInvariant, Typed
    <3>5. tmpPath' # NoInode => tmpPath' # path'
      BY <1>1, <2>4 DEF SingleInvariant, FileFollows
    <3> QED
      BY <3>2, <3>3, <3>4, <3>5 DEF FileFollows
  <2>5. OneProcess' <=> OneProcess
    BY <1>1 DEF OneProcess
  <2> QED
    BY <1>1, <2>2, <2>3, <2>4, <2>5 DEF SingleInvariant, KeepsRecords
<1>4. ASSUME NEW j \in Jobs, KillJob(j) PROVE SingleInvariant' /\ KeepsRecords
  <2>1. /\ j \in Actors /\ j \in active /\ ledger' = ledger
        /\ actor' = [a \in Actors |-> IF a = j THEN Idle ELSE actor[a]]
    BY <1>4 DEF KillJob, Die, Actors, SingleInvariant
  <2>2. actor' = [actor EXCEPT ![j] = Idle]
    BY <2>1 DEF LedgerInvariant, Typed
  <2>3. ASSUME OneProcess PROVE LeavesFiles(j, Idle)
    <3>1. FileFollows
      BY <2>3 DEF SingleInvariant
    <3>2. \A b \in active : b = j
      BY <1>4, <2>1, <2>3, OneLedger DEF SingleInvariant
    <3>3. \A b \in Actors : b # j => ~Holds(b)
      BY <3>2 DEF SingleInvariant, Holds
    <3>4. tmpPath' # NoInode => tmpPath' # path'
      BY <1>1, <3>1 DEF FileFollows
    <3>5. \A b \in active : b \in Requests \/ actor[b].rev # {} =>
            FileRecords' \subseteq ledger'[LedgerOf(b)]
      BY <1>1, <2>1, <3>1 DEF FileFollows
    <3> QED
      BY <1>1, <1>2, <3>3, <3>4, <3>5 DEF LeavesFiles
  <2> QED
    BY <1>1, <1>2, <2>1, <2>2, <2>3, HolderMoves
<1> QED
  BY <1>3, <1>4

LEMMA StepAlone ==
  ASSUME LedgerInvariant, SingleInvariant, [Next]_vars
  PROVE  SingleInvariant' /\ KeepsRecords
<1>1. CASE UNCHANGED vars
  BY <1>1 DEF vars, files, SingleInvariant, KeepsRecords, OneProcess, FileFollows, Holds,
         FileRecords, Readable, File
<1>2. CASE \/ \E h \in Requests, r \in Revs : HandleAnnounce(h, r)
           \/ \E j \in Jobs, i \in Inputs : RunPublish(j, i)
  BY <1>2, StartAlone
<1>3. ASSUME NEW a \in Actors,
             Publish(a) \/ PublishRefused(a) \/ PublishUnacknowledged(a)
      PROVE  SingleInvariant' /\ KeepsRecords
  BY <1>3, PublishingAlone
<1>4. ASSUME NEW a \in Actors, Record(a) \/ OpenTmp(a) \/ WriteTmp(a)
      PROVE  SingleInvariant' /\ KeepsRecords
  BY <1>4, RecordAlone, WritingAlone
<1>5. ASSUME NEW a \in Actors, RenameTmp(a) \/ FailRecord(a)
      PROVE  SingleInvariant' /\ KeepsRecords
  BY <1>5, LeavingAlone
<1>6. CASE RestartDaemon \/ \E j \in Jobs : KillJob(j)
  BY <1>6, DeathAlone
<1> QED
  BY <1>1, <1>2, <1>3, <1>4, <1>5, <1>6 DEF Next

LEMMA InitAlone == Init => SingleInvariant
<1> SUFFICES ASSUME Init PROVE SingleInvariant
  OBVIOUS
<1>1. \A a \in Actors : actor[a] = Idle
  BY DEF Init
<1>2. \A a \in Actors : actor[a].pc = "idle" /\ ~Holds(a)
  BY <1>1 DEF Idle, Holds
<1>3. active \subseteq Actors
  BY DeploymentsAssumption DEF Init, Actors
<1>4. FileRecords = {} /\ tmpPath = NoInode
  BY TornAssumption DEF Init, FileRecords, Readable, File
<1>5. FileFollows
  BY <1>2, <1>4 DEF FileFollows
<1> QED
  BY <1>2, <1>3, <1>5 DEF SingleInvariant

\* "The ledger only ever grows" (ledger.go:81-82), on disk too, while one process
\* writes it: every note in the file stays there, whatever is killed and whichever
\* write fails.
THEOREM LedgerGrowsAlone == Spec => LedgerOnlyGrows
<1>1. LedgerInvariant /\ SingleInvariant /\ [Next]_vars
        => /\ LedgerInvariant' /\ SingleInvariant'
           /\ OneProcess => FileRecords \subseteq FileRecords'
  BY StepKeepsInvariant, StepAlone DEF KeepsRecords
<1> QED
  BY <1>1, InitEstablishes, InitAlone, PTL DEF Spec, LedgerOnlyGrows

\* Only a request or a run that begins leaves the idle actors.
LEMMA OthersStayIdle ==
  ASSUME LedgerInvariant, [Next]_vars,
         ~ \E h \in Requests, r \in Revs : HandleAnnounce(h, r),
         ~ \E j \in Jobs, i \in Inputs : RunPublish(j, i),
         NEW a \in Actors, actor[a].pc = "idle"
  PROVE  actor'[a].pc = "idle"
<1>1. actor \in [Actors -> ActorStates]
  BY DEF LedgerInvariant, Typed
<1>2. CASE UNCHANGED vars
  BY <1>2 DEF vars
<1>3. ASSUME NEW b \in Actors, actor[b].pc # "idle",
             \E s : actor' = [actor EXCEPT ![b] = s]
      PROVE  actor'[a].pc = "idle"
  BY <1>1, <1>3
<1>4. ASSUME NEW b \in Actors, NEW accepted, NEW failed, EndWith(b, accepted, failed)
      PROVE  \E s : actor' = [actor EXCEPT ![b] = s]
  BY <1>4, Ending
<1>5. ASSUME NEW b \in Actors,
             Publish(b) \/ PublishRefused(b) \/ PublishUnacknowledged(b)
      PROVE  actor'[a].pc = "idle"
  <2>1. actor[b].pc # "idle"
    BY <1>5 DEF Publish, PublishRefused, PublishUnacknowledged, Publishing
  <2>2. \E s : actor' = [actor EXCEPT ![b] = s]
    BY <1>4, <1>5 DEF Publish, PublishRefused, PublishUnacknowledged, Refuse, End
  <2> QED
    BY <1>3, <2>1, <2>2
<1>6. ASSUME NEW b \in Actors, Record(b) \/ OpenTmp(b) \/ WriteTmp(b)
      PROVE  actor'[a].pc = "idle"
  <2>1. actor[b].pc # "idle"
    BY <1>6 DEF Record, AppendRecord, OpenTmp, WriteTmp
  <2>2. \E s : actor' = [actor EXCEPT ![b] = s]
    BY <1>4, <1>6 DEF Record, AppendRecord, OpenTmp, WriteTmp, End
  <2> QED
    BY <1>3, <2>1, <2>2
<1>7. ASSUME NEW b \in Actors, RenameTmp(b) \/ FailRecord(b)
      PROVE  actor'[a].pc = "idle"
  <2>1. actor[b].pc # "idle"
    BY <1>7 DEF RenameTmp, FailRecord, Holds
  <2>2. \E s : actor' = [actor EXCEPT ![b] = s]
    BY <1>4, <1>7 DEF RenameTmp, FailRecord, End, FailEnd
  <2> QED
    BY <1>3, <2>1, <2>2
<1>8. CASE RestartDaemon \/ \E j \in Jobs : KillJob(j)
  BY <1>8, IdleIsLegal DEF RestartDaemon, KillJob, Die
<1> QED
  BY <1>2, <1>5, <1>6, <1>7, <1>8 DEF Next

\* The page looks into memory, and memory covers the file; a run looks into the
\* file itself.
LEMMA BeginningIsChecked ==
  ASSUME LedgerInvariant, SingleInvariant, [Next]_vars, OneProcess,
         NEW a \in Actors, actor[a].pc = "idle", actor'[a].pc # "idle"
  PROVE  actor'[a].rev \cap FileRecords = {}
<1>1. ASSUME NEW h \in Requests, NEW r \in Revs, HandleAnnounce(h, r)
      PROVE  actor'[a].rev \cap FileRecords = {}
  <2>1. actor' = [actor EXCEPT ![h] = [Idle EXCEPT !.pc = "post", !.rev = {r}]]
        /\ h \in active /\ h \in Actors /\ r \notin ledger["daemon"]
    BY <1>1 DEF HandleAnnounce, Start, Actors
  <2>2. a = h /\ actor'[a].rev = {r}
    BY <2>1 DEF LedgerInvariant, Typed, Idle
  <2>3. LedgerOf(h) = "daemon"
    BY <1>1, NamesAssumption DEF LedgerOf
  <2>4. FileRecords \subseteq ledger["daemon"]
    BY <2>1, <2>3 DEF SingleInvariant, FileFollows
  <2> QED
    BY <2>1, <2>2, <2>4
<1>2. ASSUME NEW j \in Jobs, NEW input \in Inputs, RunPublish(j, input)
      PROVE  actor'[a].rev \cap FileRecords = {}
  <2> DEFINE rev == IF input.announce THEN {RevOf(input.tree)} \ FileRecords ELSE {}
  <2>1. actor' = [actor EXCEPT ![j] =
                    [Idle EXCEPT !.pc = "declare", !.input = input, !.rev = rev]]
        /\ j \in Actors
    BY <1>2 DEF RunPublish, Start, Actors
  <2>2. rev \cap FileRecords = {}
    OBVIOUS
  <2> HIDE DEF rev
  <2>3. a = j /\ actor'[a].rev = rev
    BY <2>1 DEF LedgerInvariant, Typed, Idle
  <2> QED
    BY <2>2, <2>3
<1> QED
  BY <1>1, <1>2, OthersStayIdle

\* A process that has the ledger file to itself never sets out to announce what the
\* file records, over restarts, kills and failed writes.
THEOREM RecordedStaysRefused == Spec => RecordedIsNotRepeated
<1>1. LedgerInvariant /\ SingleInvariant /\ [Next]_vars
        => /\ LedgerInvariant' /\ SingleInvariant'
           /\ OneProcess => \A a \in Actors :
                actor[a].pc = "idle" /\ actor'[a].pc # "idle" =>
                  actor'[a].rev \cap FileRecords = {}
  BY StepKeepsInvariant, StepAlone, BeginningIsChecked
<1> QED
  BY <1>1, InitEstablishes, InitAlone, PTL DEF Spec, RecordedIsNotRepeated

-----------------------------------------------------------------------------
(* How often one process announces *)

Before(state, r) == state.pc \in {"declare", "attest", "post"} /\ r \in state.rev
Noted(state, r)  == state.pc = "record" /\ r \in state.rev
Writes(state, r) == Holding(state) /\ r \in state.rev

\* Whose note about r is still to come, is out, is being recorded.
Coming(r)  == {a \in active : Before(actor[a], r)}
Waiting(r) == {a \in active : Noted(actor[a], r)}
Writing(r) == {a \in active : Writes(actor[a], r)}

Held(r) == \E a \in active : r \in ledger[LedgerOf(a)]

Rounds(k) == Cardinality(active) * k

\* In one process every round of notes about r ends with a record or with an
\* interruption, and a round has at most one note of every actor.  While r is
\* nowhere recorded, the notes of this round have not been recorded yet: they are
\* the interrupted ones of before, and those whose actors are about to record
\* theirs.  Once it is, those still to come belong to the round, too; and when no
\* one is left to bring it to the file, an interruption has paid for that.
Bounded(r) ==
  /\ ~Held(r) /\ r \notin FileRecords =>
       posted[r] <= Rounds(interrupted[r]) + Cardinality(Waiting(r))
  /\ Held(r) \/ r \in FileRecords =>
       posted[r] + Cardinality(Coming(r)) <= Rounds(interrupted[r]) + Cardinality(active)
  /\ Held(r) /\ r \notin FileRecords /\ Writing(r) = {} =>
       posted[r] + Cardinality(Coming(r)) <= Rounds(interrupted[r])

RoundsInvariant ==
  /\ interrupted \in [Revs -> Nat]
  /\ OneProcess => \A r \in Revs : Bounded(r)

LEMMA ActiveIsFinite ==
  ASSUME SingleInvariant, NEW S \in SUBSET active
  PROVE  /\ IsFiniteSet(active) /\ Cardinality(active) \in Nat
         /\ IsFiniteSet(S) /\ Cardinality(S) \in Nat /\ Cardinality(S) <= Cardinality(active)
         /\ S # {} => Cardinality(S) >= 1
<1>1. IsFiniteSet(active)
  BY ActorsAssumption, FS_Subset DEF SingleInvariant, Actors
<1>2. Cardinality(active) \in Nat /\ IsFiniteSet(S) /\ Cardinality(S) \in Nat
      /\ Cardinality(S) <= Cardinality(active)
  BY <1>1, FS_Subset, FS_CardinalityType
<1>3. S # {} => Cardinality(S) # 0
  BY <1>2, FS_EmptySet
<1> QED
  BY <1>1, <1>2, <1>3

\* An actor's note is still to come, or out, not both.
LEMMA TwoGroups ==
  ASSUME SingleInvariant, NEW r
  PROVE  /\ Cardinality(Coming(r)) \in Nat /\ Cardinality(Waiting(r)) \in Nat
         /\ Cardinality(Coming(r)) + Cardinality(Waiting(r)) <= Cardinality(active)
<1> DEFINE B == Coming(r)
           W == Waiting(r)
<1>1. B \in SUBSET active /\ W \in SUBSET active /\ B \cap W = {}
  BY DEF Coming, Waiting, Before, Noted
<1> HIDE DEF B, W
<1>2. /\ IsFiniteSet(active) /\ Cardinality(active) \in Nat
      /\ IsFiniteSet(B) /\ IsFiniteSet(W) /\ Cardinality(B) \in Nat /\ Cardinality(W) \in Nat
  BY <1>1, ActiveIsFinite
<1>3. /\ Cardinality(B \cap W) = 0
      /\ Cardinality(B \cup W) = Cardinality(B) + Cardinality(W) - Cardinality(B \cap W)
  BY <1>1, <1>2, FS_Union, FS_EmptySet
<1>4. B \cup W \in SUBSET active
  BY <1>1
<1>5. Cardinality(B \cup W) <= Cardinality(active)
  BY <1>4, ActiveIsFinite
<1> QED
  BY <1>2, <1>3, <1>5 DEF B, W

\* How the groups change when a goes on as s.
LEMMA Regrouping ==
  ASSUME LedgerInvariant, SingleInvariant, NEW a \in active, NEW s,
         actor' = [actor EXCEPT ![a] = s], active' = active, NEW r
  PROVE  /\ Cardinality(Coming(r)') \in Nat /\ Cardinality(Waiting(r)') \in Nat
         /\ (Before(s, r) <=> Before(actor[a], r)) =>
               Cardinality(Coming(r)') = Cardinality(Coming(r))
         /\ ~Before(s, r) => Cardinality(Coming(r)') <= Cardinality(Coming(r))
         /\ Before(actor[a], r) /\ ~Before(s, r) =>
               Cardinality(Coming(r)') = Cardinality(Coming(r)) - 1
         /\ (Noted(s, r) <=> Noted(actor[a], r)) =>
               Cardinality(Waiting(r)') = Cardinality(Waiting(r))
         /\ ~Noted(actor[a], r) /\ Noted(s, r) =>
               Cardinality(Waiting(r)') = Cardinality(Waiting(r)) + 1
         /\ Writes(s, r) => Writing(r)' # {}
         /\ Writing(r)' = {} /\ ~Writes(actor[a], r) => Writing(r) = {}
<1>1. actor'[a] = s /\ \A b \in active : b # a => actor'[b] = actor[b]
  BY DEF LedgerInvariant, Typed, SingleInvariant
<1>2. /\ \A b : b # a => (b \in Coming(r) <=> b \in Coming(r)')
      /\ a \in Coming(r) <=> Before(actor[a], r)
      /\ a \in Coming(r)' <=> Before(s, r)
  BY <1>1 DEF Coming
<1>3. /\ \A b : b # a => (b \in Waiting(r) <=> b \in Waiting(r)')
      /\ a \in Waiting(r) <=> Noted(actor[a], r)
      /\ a \in Waiting(r)' <=> Noted(s, r)
  BY <1>1 DEF Waiting
<1>4. /\ \A b : b # a => (b \in Writing(r) <=> b \in Writing(r)')
      /\ a \in Writing(r) <=> Writes(actor[a], r)
      /\ a \in Writing(r)' <=> Writes(s, r)
  BY <1>1 DEF Writing
<1>5. Coming(r) \in SUBSET active /\ Waiting(r) \in SUBSET active
  BY DEF Coming, Waiting
<1>6. IsFiniteSet(Coming(r)) /\ IsFiniteSet(Waiting(r))
  BY <1>5, ActiveIsFinite
<1>7. /\ Cardinality(Coming(r)) \in Nat /\ Cardinality(Coming(r)') \in Nat
      /\ (Before(s, r) <=> Before(actor[a], r)) =>
               Cardinality(Coming(r)') = Cardinality(Coming(r))
      /\ Before(actor[a], r) /\ ~Before(s, r) =>
               Cardinality(Coming(r)') = Cardinality(Coming(r)) - 1
  BY <1>2, <1>6, OneDifference
<1>8. /\ Cardinality(Waiting(r)) \in Nat /\ Cardinality(Waiting(r)') \in Nat
      /\ (Noted(s, r) <=> Noted(actor[a], r)) =>
               Cardinality(Waiting(r)') = Cardinality(Waiting(r))
      /\ ~Noted(actor[a], r) /\ Noted(s, r) =>
               Cardinality(Waiting(r)') = Cardinality(Waiting(r)) + 1
  BY <1>3, <1>6, OneDifference
<1>9. ~Before(s, r) => Cardinality(Coming(r)') <= Cardinality(Coming(r))
  BY <1>7
<1>10. /\ Writes(s, r) => Writing(r)' # {}
       /\ Writing(r)' = {} /\ ~Writes(actor[a], r) => Writing(r) = {}
  BY <1>4
<1> QED
  BY <1>7, <1>8, <1>9, <1>10

\* What the actor does is no matter of r, or takes away from what is to come.
LEMMA QuietStep ==
  ASSUME LedgerInvariant, SingleInvariant, RoundsInvariant, OneProcess,
         NEW a \in active, NEW s, actor' = [actor EXCEPT ![a] = s], active' = active,
         NEW r \in Revs,
         posted'[r] = posted[r], interrupted'[r] = interrupted[r],
         Before(s, r) => Before(actor[a], r),
         Held(r) \/ (Noted(s, r) <=> Noted(actor[a], r)),
         Writes(actor[a], r) /\ Held(r) => Writes(s, r) \/ r \in FileRecords',
         Held(r)' <=> Held(r),
         r \in FileRecords => r \in FileRecords',
         r \in FileRecords' => r \in FileRecords \/ Held(r)
  PROVE  Bounded(r)'
<1> DEFINE q == Rounds(interrupted[r])
           b == Cardinality(Coming(r))
           b1 == Cardinality(Coming(r)')
           w == Cardinality(Waiting(r))
           w1 == Cardinality(Waiting(r)')
           n == Cardinality(active)
<1>1. /\ q \in Nat /\ n \in Nat /\ b \in Nat /\ b1 \in Nat /\ w \in Nat /\ w1 \in Nat
      /\ posted[r] \in Nat
  BY Regrouping, TwoGroups, ActiveIsFinite, Products
     DEF RoundsInvariant, Rounds, LedgerInvariant, Typed
<1>2. Bounded(r)
  BY DEF RoundsInvariant
<1>3. b1 <= b
  <2>1. CASE Before(s, r)
    <3>1. b1 = b
      BY <2>1, Regrouping
    <3> QED
      BY <1>1, <3>1
  <2>2. CASE ~Before(s, r)
    BY <2>2, Regrouping
  <2> QED
    BY <2>1, <2>2
<1>4. Held(r) \/ w1 = w
  BY Regrouping
<1>5. Held(r) /\ Writing(r)' = {} => r \in FileRecords' \/ Writing(r) = {}
  BY Regrouping
<1>6. Rounds(interrupted[r])' = q /\ Cardinality(active)' = n
  BY DEF Rounds
<1>7. ~Held(r)' /\ r \notin FileRecords' => posted[r] <= q + w1
  BY <1>2, <1>4 DEF Bounded
<1>8. Held(r)' \/ r \in FileRecords' => posted[r] + b1 <= q + n
  <2>1. Held(r)' \/ r \in FileRecords' => posted[r] + b <= q + n
    BY <1>2 DEF Bounded
  <2> HIDE DEF b, b1, q, n
  <2> QED
    BY <1>1, <1>3, <2>1
<1>9. Held(r)' /\ r \notin FileRecords' /\ Writing(r)' = {} => posted[r] + b1 <= q
  <2>1. Held(r)' /\ r \notin FileRecords' /\ Writing(r)' = {} => posted[r] + b <= q
    BY <1>2, <1>5 DEF Bounded
  <2> HIDE DEF b, b1, q, n
  <2> QED
    BY <1>1, <1>3, <2>1
<1> QED
  BY <1>6, <1>7, <1>8, <1>9 DEF Bounded

\* The note goes out: told by a relay, which leaves it to be recorded, or not told.
LEMMA NoteStep ==
  ASSUME LedgerInvariant, SingleInvariant, RoundsInvariant, OneProcess,
         NEW a \in active, NEW s, actor' = [actor EXCEPT ![a] = s], active' = active,
         NEW r \in Revs,
         posted'[r] = posted[r] + 1,
         Before(actor[a], r), ~Before(s, r), ~Writes(s, r),
         \/ Noted(s, r) /\ interrupted'[r] = interrupted[r]
         \/ ~Noted(s, r) /\ interrupted'[r] = interrupted[r] + 1,
         Held(r)' <=> Held(r), FileRecords' = FileRecords
  PROVE  Bounded(r)'
<1> DEFINE q == Rounds(interrupted[r])
           q1 == Rounds(interrupted[r])'
           b == Cardinality(Coming(r))
           b1 == Cardinality(Coming(r)')
           w == Cardinality(Waiting(r))
           w1 == Cardinality(Waiting(r)')
           n == Cardinality(active)
<1>0. interrupted[r] \in Nat /\ posted[r] \in Nat /\ a \in active
  BY DEF RoundsInvariant, LedgerInvariant, Typed
<1>1. /\ n \in Nat /\ n >= 1 /\ b \in Nat /\ b1 \in Nat /\ w \in Nat /\ w1 \in Nat
  BY Regrouping, TwoGroups, ActiveIsFinite
<1>2. Bounded(r)
  BY DEF RoundsInvariant
<1>3. b1 = b - 1 /\ ~Noted(actor[a], r) /\ ~Writes(actor[a], r)
  BY Regrouping DEF Before, Noted, Writes, Holding
<1>5. Writing(r)' = {} => Writing(r) = {}
  BY <1>3, Regrouping
<1>6. /\ q \in Nat /\ q1 \in Nat
      /\ \/ w1 = w + 1 /\ q1 = q
         \/ w1 = w /\ q1 >= q + 1
  <2>1. CASE Noted(s, r) /\ interrupted'[r] = interrupted[r]
    BY <1>0, <1>1, <1>3, <2>1, Regrouping, Products DEF Rounds
  <2>2. CASE ~Noted(s, r) /\ interrupted'[r] = interrupted[r] + 1
    <3>1. w1 = w
      BY <1>3, <2>2, Regrouping
    <3>2. q \in Nat /\ q1 \in Nat /\ q1 >= q + 1
      BY <1>0, <1>1, <2>2, Products DEF Rounds
    <3> QED
      BY <3>1, <3>2
  <2> QED
    BY <2>1, <2>2
<1>7. ~Held(r)' /\ r \notin FileRecords' => posted'[r] <= q1 + w1
  <2>1. ~Held(r)' /\ r \notin FileRecords' => posted[r] <= q + w
    BY <1>2 DEF Bounded
  <2> HIDE DEF q, q1, w, w1
  <2> QED
    BY <1>0, <1>1, <1>6, <2>1
<1>8. Held(r)' \/ r \in FileRecords' => posted'[r] + b1 <= q1 + n
  <2>1. Held(r)' \/ r \in FileRecords' => posted[r] + b <= q + n
    BY <1>2 DEF Bounded
  <2> HIDE DEF q, q1, w, w1, b, b1, n
  <2> QED
    BY <1>0, <1>1, <1>3, <1>6, <2>1
<1>9. Held(r)' /\ r \notin FileRecords' /\ Writing(r)' = {} => posted'[r] + b1 <= q1
  <2>1. Held(r)' /\ r \notin FileRecords' /\ Writing(r)' = {} => posted[r] + b <= q
    BY <1>2, <1>5 DEF Bounded
  <2> HIDE DEF q, q1, w, w1, b, b1, n
  <2> QED
    BY <1>0, <1>1, <1>3, <1>6, <2>1
<1> QED
  BY <1>7, <1>8, <1>9 DEF Bounded

\* A request begins: it has seen that its note is not in the ledger.
LEMMA RequestBegins ==
  ASSUME LedgerInvariant, SingleInvariant, RoundsInvariant, OneProcess,
         NEW h \in Requests, NEW r0 \in Revs, HandleAnnounce(h, r0), NEW r \in Revs
  PROVE  Bounded(r)'
<1> DEFINE s == [Idle EXCEPT !.pc = "post", !.rev = {r0}]
<1>1. /\ h \in active /\ actor[h].pc = "idle" /\ actor' = [actor EXCEPT ![h] = s]
      /\ UNCHANGED <<active, ledger, files, posted, interrupted>>
      /\ r0 \notin ledger["daemon"]
  BY DEF HandleAnnounce, Start, events
<1>2. s.pc = "post" /\ s.rev = {r0}
  BY DEF Idle
<1> HIDE DEF s
<1>3. Held(r)' <=> Held(r)
  BY <1>1 DEF Held
<1>4. FileRecords' = FileRecords
  BY <1>1 DEF FileRecords, Readable, File, files
<1>5. /\ ~Noted(s, r) /\ ~Writes(s, r) /\ ~Noted(actor[h], r) /\ ~Writes(actor[h], r)
      /\ ~Before(actor[h], r)
  BY <1>1, <1>2 DEF Before, Noted, Writes, Holding
<1>6. CASE r # r0
  <2>1. ~Before(s, r)
    BY <1>2, <1>6 DEF Before
  <2> QED
    BY <1>1, <1>3, <1>4, <1>5, <2>1, QuietStep
<1>7. CASE r = r0
  <2>1. LedgerOf(h) = "daemon"
    BY NamesAssumption DEF LedgerOf
  <2>2. ~Held(r)
    BY <1>1, <1>7, <2>1, OneLedger DEF Held, SingleInvariant
  <2>3. r \notin FileRecords
    BY <1>1, <1>7, <2>1 DEF SingleInvariant, FileFollows
  <2>4. posted[r] <= Rounds(interrupted[r]) + Cardinality(Waiting(r))
    BY <2>2, <2>3 DEF Bounded, RoundsInvariant
  <2>5. Cardinality(Waiting(r)') = Cardinality(Waiting(r))
    BY <1>1, <1>5, Regrouping
  <2>6. Rounds(interrupted[r])' = Rounds(interrupted[r]) /\ posted'[r] = posted[r]
    BY <1>1 DEF Rounds
  <2> QED
    BY <1>3, <1>4, <2>2, <2>3, <2>4, <2>5, <2>6 DEF Bounded
<1> QED
  BY <1>6, <1>7

\* A run begins, alone: it reads the file, and skips the note the file has.
LEMMA RunBegins ==
  ASSUME LedgerInvariant, SingleInvariant, RoundsInvariant, OneProcess,
         NEW j \in Jobs, NEW input \in Inputs, RunPublish(j, input), NEW r \in Revs
  PROVE  Bounded(r)'
<1> DEFINE rev == IF input.announce THEN {RevOf(input.tree)} \ FileRecords ELSE {}
           loaded == IF input.announce THEN FileRecords ELSE {}
           s == [Idle EXCEPT !.pc = "declare", !.input = input, !.rev = rev]
<1>1. /\ j \in active /\ actor[j].pc = "idle" /\ actor' = [actor EXCEPT ![j] = s]
      /\ ledger' = [ledger EXCEPT ![j] = loaded]
      /\ UNCHANGED <<active, files, posted, interrupted>>
  BY DEF RunPublish, Start, events
<1>2. s.pc = "declare" /\ s.rev = rev
  BY DEF Idle
<1>3. rev \cap FileRecords = {} /\ loaded \subseteq FileRecords
  OBVIOUS
<1> HIDE DEF s, rev, loaded
<1>4. active = {j} /\ LedgerOf(j) = j /\ j \in Ledgers
  BY <1>1, OneLedger DEF SingleInvariant, LedgerOf, Ledgers
<1>5. Held(r)' <=> r \in loaded
  BY <1>1, <1>4 DEF Held, LedgerInvariant, Typed
<1>6. FileRecords' = FileRecords
  BY <1>1 DEF FileRecords, Readable, File, files
<1>7. Waiting(r) = {} /\ Writing(r) = {} /\ Coming(r) = {}
  BY <1>1, <1>4 DEF Waiting, Writing, Coming, Before, Noted, Writes, Holding
<1>8. Rounds(interrupted[r])' = Rounds(interrupted[r]) /\ posted'[r] = posted[r]
      /\ Cardinality(active)' = Cardinality(active)
  BY <1>1 DEF Rounds
<1>9. /\ posted[r] \in Nat /\ Rounds(interrupted[r]) \in Nat /\ Cardinality(active) \in Nat
      /\ Cardinality(Waiting(r)) = 0 /\ Cardinality(Coming(r)) = 0
      /\ Cardinality(Waiting(r)') \in Nat /\ Cardinality(Coming(r)') \in Nat
  BY <1>1, <1>7, Regrouping, ActiveIsFinite, Products, FS_EmptySet
     DEF RoundsInvariant, Rounds, LedgerInvariant, Typed
<1>10. CASE r \in FileRecords
  <2>1. posted[r] + Cardinality(Coming(r)) <= Rounds(interrupted[r]) + Cardinality(active)
    BY <1>10 DEF Bounded, RoundsInvariant
  <2>2. ~Before(s, r)
    BY <1>2, <1>3, <1>10 DEF Before
  <2>3. Cardinality(Coming(r)') <= Cardinality(Coming(r))
    BY <1>1, <2>2, Regrouping
  <2>4. posted[r] + Cardinality(Coming(r)') <= Rounds(interrupted[r]) + Cardinality(active)
    BY <1>9, <2>1, <2>3
  <2> QED
    BY <1>6, <1>8, <1>10, <2>4 DEF Bounded
<1>11. CASE r \notin FileRecords
  <2>1. posted[r] <= Rounds(interrupted[r])
    <3>1. \/ posted[r] <= Rounds(interrupted[r]) + Cardinality(Waiting(r))
          \/ posted[r] + Cardinality(Coming(r)) <= Rounds(interrupted[r])
      BY <1>7, <1>11 DEF Bounded, RoundsInvariant
    <3> QED
      BY <1>9, <3>1
  <2>2. ~Held(r)'
    BY <1>3, <1>5, <1>11
  <2>3. posted[r] <= Rounds(interrupted[r]) + Cardinality(Waiting(r)')
    BY <1>9, <2>1
  <2> QED
    BY <1>6, <1>8, <1>11, <2>2, <2>3 DEF Bounded
<1> QED
  BY <1>10, <1>11

\* An actor that ends is in none of the groups.
LEMMA EndedIsNowhere ==
  ASSUME LedgerInvariant, NEW a \in Actors, NEW accepted, NEW failed,
         EndWith(a, accepted, failed)
  PROVE  \E s : /\ actor' = [actor EXCEPT ![a] = s]
                /\ \A r : ~Before(s, r) /\ ~Noted(s, r) /\ ~Writes(s, r)
<1>1. PICK s : actor' = [actor EXCEPT ![a] = s] /\ s.rev = {}
  BY Ending
<1> QED
  BY <1>1 DEF Before, Noted, Writes

\* Where an actor that publishes can be afterwards: a run that has published its
\* declaration or attestation has its note still to come.
LEMMA AfterPublishing ==
  ASSUME LedgerInvariant, NEW a \in Actors,
         Publish(a) \/ PublishRefused(a) \/ PublishUnacknowledged(a)
  PROVE  \E s : /\ actor' = [actor EXCEPT ![a] = s]
                /\ \A r : /\ Before(s, r) => Before(actor[a], r)
                          /\ ~Writes(s, r)
                          /\ Noted(s, r) <=>
                               Publish(a) /\ actor[a].pc = "post" /\ r \in actor[a].rev
                          /\ actor[a].pc = "post" => ~Before(s, r)
<1>1. Publishing(a) /\ actor[a] \in ActorStates
  BY DEF Publish, PublishRefused, PublishUnacknowledged, LedgerInvariant, Typed
<1>2. ASSUME NEW accepted, EndWith(a, accepted, FALSE),
             ~(Publish(a) /\ actor[a].pc = "post")
      PROVE  \E s : /\ actor' = [actor EXCEPT ![a] = s]
                    /\ \A r : ~Before(s, r) /\ ~Noted(s, r) /\ ~Writes(s, r)
  BY <1>2, EndedIsNowhere
<1>3. ASSUME NEW pc \in {"attest", "post", "record"}, NEW late, NEW accepted,
             pc = "record" <=> Publish(a) /\ actor[a].pc = "post",
             actor[a].pc = "post" => pc = "record",
             \/ actor' = [actor EXCEPT ![a] = [@ EXCEPT !.pc = pc, !.late = late]]
             \/ actor' = [actor EXCEPT ![a] =
                            [@ EXCEPT !.pc = pc, !.late = late, !.accepted = accepted]]
      PROVE  \E s : /\ actor' = [actor EXCEPT ![a] = s]
                    /\ s.rev = actor[a].rev /\ s.pc = pc
  <2>1. PICK s \in {[actor[a] EXCEPT !.pc = pc, !.late = late],
                    [actor[a] EXCEPT !.pc = pc, !.late = late, !.accepted = accepted]} :
          actor' = [actor EXCEPT ![a] = s]
    BY <1>3
  <2>2. s.pc = pc /\ s.rev = actor[a].rev
    BY <1>1, <2>1 DEF ActorStates
  <2> QED
    BY <2>1, <2>2
<1>4. /\ NextPc(a) \in {"attest", "post", "end"}
      /\ actor[a].pc = "post" => NextPc(a) = "end"
      /\ Kind(a) = "note" <=> actor[a].pc = "post"
  BY <1>1 DEF NextPc, Kind, Publishing
<1>5. ASSUME NEW s, actor' = [actor EXCEPT ![a] = s], s.rev = actor[a].rev,
             s.pc \in {"attest", "post", "record"},
             s.pc = "record" <=> Publish(a) /\ actor[a].pc = "post",
             actor[a].pc = "post" => s.pc = "record"
      PROVE  \A r : /\ Before(s, r) => Before(actor[a], r)
                    /\ ~Writes(s, r)
                    /\ Noted(s, r) <=>
                         Publish(a) /\ actor[a].pc = "post" /\ r \in actor[a].rev
                    /\ actor[a].pc = "post" => ~Before(s, r)
  BY <1>1, <1>5 DEF Before, Noted, Writes, Holding, Publishing
<1>6. CASE Publish(a)
  <2> DEFINE accepted == actor[a].accepted \cup {Kind(a)}
             pc == IF Kind(a) = "note" THEN "record" ELSE NextPc(a)
  <2>1. PICK late \in IF pc = "record" THEN {FALSE} ELSE LateAfter(a) :
          IF pc = "end" THEN EndWith(a, accepted, FALSE)
          ELSE actor' = [actor EXCEPT ![a] =
                 [@ EXCEPT !.pc = pc, !.late = late, !.accepted = accepted]]
    BY <1>6 DEF Publish
  <2>2. /\ pc \in {"attest", "post", "record", "end"}
        /\ pc = "record" <=> actor[a].pc = "post"
    BY <1>4
  <2> HIDE DEF pc, accepted
  <2>3. CASE pc = "end"
    <3>1. actor[a].pc # "post" /\ EndWith(a, accepted, FALSE)
      BY <2>1, <2>2, <2>3
    <3> QED
      BY <1>2, <3>1
  <2>4. CASE pc # "end"
    <3>1. /\ pc \in {"attest", "post", "record"}
          /\ pc = "record" <=> Publish(a) /\ actor[a].pc = "post"
          /\ actor[a].pc = "post" => pc = "record"
      BY <1>6, <2>2, <2>4
    <3>2. actor' = [actor EXCEPT ![a] =
                      [@ EXCEPT !.pc = pc, !.late = late, !.accepted = accepted]]
      BY <2>1, <2>4
    <3>3. \E s : actor' = [actor EXCEPT ![a] = s] /\ s.rev = actor[a].rev /\ s.pc = pc
      BY <1>3, <3>1, <3>2
    <3> QED
      BY <1>5, <3>1, <3>3
  <2> QED
    BY <2>3, <2>4
<1>7. CASE ~Publish(a)
  <2> DEFINE pc == NextPc(a)
  <2>1. PICK late \in LateAfter(a) :
          IF pc = "end" THEN End(a)
          ELSE actor' = [actor EXCEPT ![a] = [@ EXCEPT !.pc = pc, !.late = late]]
    BY <1>7 DEF Refuse, PublishRefused, PublishUnacknowledged
  <2>2. pc \in {"attest", "post", "end"} /\ (actor[a].pc = "post" => pc = "end")
    BY <1>4
  <2> HIDE DEF pc
  <2>3. CASE pc = "end"
    BY <1>2, <1>7, <2>1, <2>3 DEF End
  <2>4. CASE pc # "end"
    <3>1. \E s : actor' = [actor EXCEPT ![a] = s] /\ s.rev = actor[a].rev /\ s.pc = pc
      BY <1>3, <1>7, <2>1, <2>2, <2>4
    <3> QED
      BY <1>5, <1>7, <2>2, <2>4, <3>1
  <2> QED
    BY <2>3, <2>4
<1> QED
  BY <1>6, <1>7

LEMMA PublishingBounded ==
  ASSUME LedgerInvariant, SingleInvariant, RoundsInvariant, OneProcess, NEW a \in Actors,
         Publish(a) \/ PublishRefused(a) \/ PublishUnacknowledged(a), NEW r \in Revs
  PROVE  Bounded(r)'
<1>1. PICK s : /\ actor' = [actor EXCEPT ![a] = s]
               /\ Before(s, r) => Before(actor[a], r)
               /\ ~Writes(s, r)
               /\ Noted(s, r) <=>
                    Publish(a) /\ actor[a].pc = "post" /\ r \in actor[a].rev
               /\ actor[a].pc = "post" => ~Before(s, r)
  BY AfterPublishing
<1>2. /\ Publishing(a) /\ UNCHANGED <<active, ledger, files>>
      /\ posted \in [Revs -> Nat] /\ interrupted \in [Revs -> Nat]
  BY DEF Publish, PublishRefused, PublishUnacknowledged, LedgerInvariant, Typed,
         RoundsInvariant
<1>3. a \in active
  BY <1>2 DEF SingleInvariant, Publishing
<1>4. (Held(r)' <=> Held(r)) /\ FileRecords' = FileRecords
  BY <1>2 DEF Held, FileRecords, Readable, File, files
<1>5. Kind(a) = "note" <=> actor[a].pc = "post"
  BY <1>2 DEF Kind, Publishing
<1>6. Kind(a) \in {"declaration", "attestation", "note"}
  BY <1>2, KindIsAKind
<1>7. ~Noted(actor[a], r) /\ ~Writes(actor[a], r)
  BY <1>2 DEF Noted, Writes, Holding, Publishing
<1>8. CASE /\ actor[a].pc = "post" /\ r \in actor[a].rev
           /\ Publish(a) \/ PublishUnacknowledged(a)
  <2>1. Delivered(a)
    BY <1>8 DEF Publish, PublishUnacknowledged
  <2>2. posted' = Count(posted, a)
    BY <1>5, <1>8, <2>1 DEF Delivered
  <2>3. posted'[r] = posted[r] + 1
    BY <1>8, <2>2 DEF Count
  <2>4. Before(actor[a], r) /\ ~Before(s, r)
    BY <1>1, <1>8 DEF Before
  <2>5. Publish(a) => interrupted'[r] = interrupted[r]
    BY DEF Publish
  <2>6. ~Publish(a) => interrupted'[r] = interrupted[r] + 1
    BY <1>5, <1>8 DEF PublishUnacknowledged, Count
  <2>7. Noted(s, r) <=> Publish(a)
    BY <1>1, <1>8
  <2> QED
    BY <1>1, <1>2, <1>3, <1>4, <2>3, <2>4, <2>5, <2>6, <2>7, NoteStep
<1>9. CASE \/ actor[a].pc # "post"
           \/ r \notin actor[a].rev
           \/ ~Publish(a) /\ ~PublishUnacknowledged(a)
  <2>1. posted'[r] = posted[r] /\ interrupted'[r] = interrupted[r]
    <3>1. CASE PublishRefused(a)
      BY <3>1 DEF PublishRefused, events
    <3>2. CASE ~PublishRefused(a)
      <4>1. /\ Delivered(a)
            /\ \/ interrupted' = interrupted
               \/ Kind(a) = "note" /\ interrupted' = Count(interrupted, a)
        BY <3>2 DEF Publish, PublishUnacknowledged
      <4>2. \/ posted' = posted
            \/ Kind(a) = "note" /\ posted' = Count(posted, a)
        BY <1>6, <4>1 DEF Delivered
      <4>3. Kind(a) = "note" => r \notin actor[a].rev
        BY <1>5, <1>9, <3>2
      <4> QED
        BY <1>2, <4>1, <4>2, <4>3 DEF Count
    <3> QED
      BY <3>1, <3>2
  <2>2. ~Noted(s, r)
    BY <1>1, <1>9
  <2> QED
    BY <1>1, <1>2, <1>3, <1>4, <1>7, <2>1, <2>2, QuietStep
<1> QED
  BY <1>8, <1>9

\* The actors of one process hold what its ledger holds.
LEMMA HeldInOne ==
  ASSUME SingleInvariant, OneProcess, NEW a \in active, NEW r
  PROVE  Held(r) <=> r \in ledger[LedgerOf(a)]
BY OneLedger DEF Held, SingleInvariant

LEMMA RecordBounded ==
  ASSUME LedgerInvariant, SingleInvariant, RoundsInvariant, OneProcess, NEW a \in Actors,
         Record(a), NEW r \in Revs
  PROVE  Bounded(r)'
<1> DEFINE l == LedgerOf(a)
<1>1. /\ actor[a].pc = "record" /\ actor[a] \in ActorStates /\ l \in Ledgers
      /\ UNCHANGED <<active, files, posted, interrupted>>
  BY DEF Record, AppendRecord, events, LedgerInvariant, Typed, LedgerOf, Ledgers
<1>2. a \in active
  BY <1>1 DEF SingleInvariant
<1>3. FileRecords' = FileRecords
  BY <1>1 DEF FileRecords, Readable, File, files
<1>4. ~Before(actor[a], r) /\ ~Writes(actor[a], r)
  BY <1>1 DEF Before, Writes, Holding
<1>5. CASE actor[a].rev \subseteq ledger[l]
  <2>1. End(a) /\ ledger' = ledger
    BY <1>5 DEF Record, AppendRecord
  <2>2. PICK s : /\ actor' = [actor EXCEPT ![a] = s]
                 /\ ~Before(s, r) /\ ~Noted(s, r) /\ ~Writes(s, r)
    BY <2>1, EndedIsNowhere DEF End
  <2>3. Held(r)' <=> Held(r)
    BY <1>1, <2>1 DEF Held
  <2>4. Held(r) \/ (Noted(s, r) <=> Noted(actor[a], r))
    BY <1>2, <1>5, <2>2, HeldInOne DEF Noted
  <2> QED
    BY <1>1, <1>2, <1>3, <1>4, <2>2, <2>3, <2>4, QuietStep
<1>6. CASE ~(actor[a].rev \subseteq ledger[l])
  <2> DEFINE s == [actor[a] EXCEPT !.pc = "open", !.data = ledger'[l]]
  <2>1. /\ ledger' = [ledger EXCEPT ![l] = @ \cup actor[a].rev]
        /\ actor' = [actor EXCEPT ![a] = s]
    BY <1>6 DEF Record, AppendRecord
  <2>2. s.pc = "open" /\ s.rev = actor[a].rev
    BY <1>1 DEF ActorStates
  <2> HIDE DEF s
  <2>3. ledger'[l] = ledger[l] \cup actor[a].rev
    BY <1>1, <2>1 DEF LedgerInvariant, Typed
  <2>4. Held(r)' <=> r \in ledger'[l]
    <3>1. \A b \in active : LedgerOf(b) = l
      BY <1>2, OneLedger DEF SingleInvariant
    <3> QED
      BY <1>1, <1>2, <3>1 DEF Held
  <2>5. Held(r) <=> r \in ledger[l]
    BY <1>2, HeldInOne
  <2>6. ~Before(s, r) /\ ~Noted(s, r) /\ (Writes(s, r) <=> r \in actor[a].rev)
    BY <2>2 DEF Before, Noted, Writes, Holding
  <2>7. CASE r \notin actor[a].rev
    <3>1. (Held(r)' <=> Held(r)) /\ ~Noted(actor[a], r)
      BY <2>3, <2>4, <2>5, <2>7 DEF Noted
    <3> QED
      BY <1>1, <1>2, <1>3, <1>4, <2>1, <2>6, <3>1, QuietStep
  <2>8. CASE r \in actor[a].rev
    <3>1. Held(r)' /\ Writing(r)' # {}
      BY <1>1, <1>2, <2>1, <2>3, <2>4, <2>6, <2>8, Regrouping
    <3>2. Cardinality(Coming(r)') = Cardinality(Coming(r))
      BY <1>1, <1>2, <1>4, <2>1, <2>6, Regrouping
    <3>3. /\ Rounds(interrupted[r])' = Rounds(interrupted[r]) /\ posted'[r] = posted[r]
          /\ Cardinality(active)' = Cardinality(active)
      BY <1>1 DEF Rounds
    <3>4. posted[r] + Cardinality(Coming(r)) <= Rounds(interrupted[r]) + Cardinality(active)
      <4>1. \/ posted[r] <= Rounds(interrupted[r]) + Cardinality(Waiting(r))
            \/ posted[r] + Cardinality(Coming(r))
                 <= Rounds(interrupted[r]) + Cardinality(active)
        BY DEF Bounded, RoundsInvariant
      <4>2. /\ Cardinality(Coming(r)) \in Nat /\ Cardinality(Waiting(r)) \in Nat
            /\ Cardinality(Coming(r)) + Cardinality(Waiting(r)) <= Cardinality(active)
            /\ Cardinality(active) \in Nat
        BY TwoGroups, ActiveIsFinite
      <4>3. posted[r] \in Nat /\ Rounds(interrupted[r]) \in Nat
        BY <4>2, Products DEF RoundsInvariant, Rounds, LedgerInvariant, Typed
      <4> QED
        BY <4>1, <4>2, <4>3
    <3> QED
      BY <3>1, <3>2, <3>3, <3>4 DEF Bounded
  <2> QED
    BY <2>7, <2>8
<1> QED
  BY <1>5, <1>6

\* The file has no more than its ledger while the holder goes on.
LEMMA FileMoves ==
  ASSUME SingleInvariant, SingleInvariant', KeepsRecords, OneProcess, active' = active,
         ledger' = ledger, NEW a \in Actors, Holds(a), NEW r
  PROVE  /\ a \in active
         /\ Held(r)' <=> Held(r)
         /\ r \in FileRecords => r \in FileRecords'
         /\ Holds(a)' => (r \in FileRecords' => Held(r))
<1>1. a \in active
  BY DEF SingleInvariant, Holds
<1>2. Held(r)' <=> Held(r)
  BY DEF Held
<1>3. OneProcess'
  BY DEF OneProcess
<1>4. ASSUME Holds(a)', r \in FileRecords' PROVE Held(r)
  <2>1. actor'[a].rev # {}
    BY <1>4 DEF SingleInvariant
  <2>2. FileRecords' \subseteq ledger'[LedgerOf(a)]
    BY <1>1, <1>3, <2>1 DEF SingleInvariant, FileFollows
  <2> QED
    BY <1>1, <1>4, <2>2 DEF Held
<1> QED
  BY <1>1, <1>2, <1>4 DEF KeepsRecords

LEMMA WritingBounded ==
  ASSUME LedgerInvariant, SingleInvariant, RoundsInvariant, OneProcess, NEW a \in Actors,
         OpenTmp(a) \/ WriteTmp(a), NEW r \in Revs
  PROVE  Bounded(r)'
<1>1. /\ Holds(a) /\ actor[a] \in ActorStates
      /\ UNCHANGED <<active, ledger, posted, interrupted>>
  BY DEF OpenTmp, WriteTmp, Holds, events, LedgerInvariant, Typed
<1>2. SingleInvariant' /\ KeepsRecords
  BY WritingAlone
<1>3. PICK pc \in {"write", "rename"} : \E fd :
        actor' = [actor EXCEPT ![a] = [@ EXCEPT !.pc = pc, !.fd = fd]]
  BY DEF OpenTmp, WriteTmp
<1>4. PICK fd : actor' = [actor EXCEPT ![a] = [@ EXCEPT !.pc = pc, !.fd = fd]]
  BY <1>3
<1> DEFINE s == [actor[a] EXCEPT !.pc = pc, !.fd = fd]
<1>5. actor' = [actor EXCEPT ![a] = s]
  BY <1>4
<1>6. s.pc = pc /\ s.rev = actor[a].rev
  BY <1>1 DEF ActorStates
<1> HIDE DEF s
<1>7. Holds(a)'
  BY <1>3, <1>5, <1>6 DEF Holds, LedgerInvariant, Typed
<1>8. /\ ~Before(s, r) /\ ~Noted(s, r) /\ ~Noted(actor[a], r)
      /\ Writes(actor[a], r) => Writes(s, r)
  BY <1>1, <1>3, <1>6 DEF Before, Noted, Writes, Holding, Holds
<1>9. /\ a \in active
      /\ Held(r)' <=> Held(r)
      /\ r \in FileRecords => r \in FileRecords'
      /\ r \in FileRecords' => Held(r)
  BY <1>1, <1>2, <1>7, FileMoves
<1> QED
  BY <1>1, <1>5, <1>8, <1>9, QuietStep

\* The rename puts what the ledger holds into the file; a record that fails counts
\* as an interruption.
LEMMA LeavingBounded ==
  ASSUME LedgerInvariant, SingleInvariant, RoundsInvariant, OneProcess, NEW a \in Actors,
         RenameTmp(a) \/ FailRecord(a), NEW r \in Revs
  PROVE  Bounded(r)'
<1>1. /\ Holds(a) /\ (End(a) \/ FailEnd(a)) /\ actor[a].rev # {}
      /\ UNCHANGED <<active, ledger, content, posted>>
  BY DEF RenameTmp, FailRecord, Holds, events, files, SingleInvariant
<1>2. SingleInvariant' /\ KeepsRecords
  BY LeavingAlone
<1>3. PICK s : /\ actor' = [actor EXCEPT ![a] = s]
               /\ ~Before(s, r) /\ ~Noted(s, r) /\ ~Writes(s, r)
  BY <1>1, EndedIsNowhere DEF End, FailEnd
<1>4. /\ a \in active
      /\ Held(r)' <=> Held(r)
      /\ r \in FileRecords => r \in FileRecords'
  BY <1>1, <1>2, FileMoves
<1>5. ~Before(actor[a], r) /\ ~Noted(actor[a], r)
  BY <1>1 DEF Before, Noted, Holds
<1>6. FileFollows /\ (Held(r) <=> r \in ledger[LedgerOf(a)])
  BY <1>4, HeldInOne DEF SingleInvariant
<1>7. CASE actor[a].pc = "rename" /\ path' = tmpPath /\ tmpPath # NoInode
           /\ interrupted' = interrupted
  <2>1. content[tmpPath] = ledger[LedgerOf(a)]
    BY <1>1, <1>7, <1>6 DEF FileFollows
  <2>2. ledger[LedgerOf(a)] \subseteq Revs
    BY <1>1, LockOfHolder DEF LedgerInvariant, Typed
  <2>3. FileRecords' = ledger[LedgerOf(a)]
    BY <1>1, <1>7, <2>1, <2>2, TornAssumption DEF FileRecords, Readable, File
  <2> QED
    BY <1>1, <1>3, <1>4, <1>5, <1>6, <1>7, <2>3, QuietStep
<1>8. CASE interrupted' = Count(interrupted, a) /\ UNCHANGED <<path, tmpPath>>
  <2>1. FileRecords' = FileRecords
    BY <1>1, <1>8 DEF FileRecords, Readable, File
  <2>2. CASE r \notin actor[a].rev
    <3>1. interrupted'[r] = interrupted[r] /\ ~Writes(actor[a], r)
      BY <1>8, <2>2 DEF Count, Writes
    <3> QED
      BY <1>1, <1>3, <1>4, <1>5, <2>1, <3>1, QuietStep
  <2>3. CASE r \in actor[a].rev
    <3> DEFINE q == Rounds(interrupted[r])
               q1 == Rounds(interrupted[r])'
               b == Cardinality(Coming(r))
               b1 == Cardinality(Coming(r)')
               w == Cardinality(Waiting(r))
               w1 == Cardinality(Waiting(r)')
               n == Cardinality(active)
    <3>1. interrupted'[r] = interrupted[r] + 1 /\ interrupted[r] \in Nat /\ posted[r] \in Nat
      BY <1>8, <2>3 DEF Count, RoundsInvariant, LedgerInvariant, Typed
    <3>2. n \in Nat /\ b \in Nat /\ w \in Nat /\ b1 = b /\ w1 = w
      BY <1>1, <1>3, <1>4, <1>5, Regrouping, TwoGroups, ActiveIsFinite
    <3>3. q \in Nat /\ q1 \in Nat /\ q1 >= q + n
      BY <1>1, <3>1, <3>2, Products DEF Rounds
    <3>4. /\ ~Held(r) /\ r \notin FileRecords => posted[r] <= q + w
          /\ Held(r) \/ r \in FileRecords => posted[r] + b <= q + n
      BY DEF RoundsInvariant, Bounded
    <3>5. /\ ~Held(r) /\ r \notin FileRecords => posted[r] <= q1 + w1
          /\ Held(r) \/ r \in FileRecords =>
               posted[r] + b1 <= q1 + n /\ posted[r] + b1 <= q1
      <4> HIDE DEF q, q1, b, b1, w, w1, n
      <4> QED
        BY <3>1, <3>2, <3>3, <3>4
    <3> QED
      BY <1>1, <1>4, <2>1, <3>5 DEF Bounded
  <2> QED
    BY <2>2, <2>3
<1> QED
  BY <1>7, <1>8 DEF RenameTmp, FailRecord, files

\* All of the process die: every note that is out but not in the file counts as
\* interrupted.
LEMMA DeathBounded ==
  ASSUME LedgerInvariant, SingleInvariant, RoundsInvariant, OneProcess, NEW S,
         active \subseteq S, active # {}, IsFiniteSet(S), S \subseteq Actors, Die(S),
         NEW r \in Revs,
         \/ Held(r)' <=> r \in FileRecords
         \/ Held(r)' <=> Held(r)
  PROVE  Bounded(r)'
<1> DEFINE lost == {a \in Unrecorded(S) : r \in actor[a].rev}
           u == Cardinality(lost)
           q == Rounds(interrupted[r])
           q1 == Rounds(interrupted[r])'
           b == Cardinality(Coming(r))
           w == Cardinality(Waiting(r))
           n == Cardinality(active)
<1>1. /\ actor' = [a \in Actors |-> IF a \in S THEN Idle ELSE actor[a]]
      /\ interrupted'[r] = interrupted[r] + u
      /\ UNCHANGED <<active, files, posted>>
  BY DEF Die, events
<1>2. FileRecords' = FileRecords
  BY <1>1 DEF FileRecords, Readable, File, files
<1>3. \A a \in active : actor'[a] = Idle
  BY <1>1 DEF SingleInvariant
<1>4. Coming(r)' = {} /\ Waiting(r)' = {}
  BY <1>1, <1>3, IdleIsLegal DEF Coming, Waiting, Before, Noted
<1>5. Cardinality(Coming(r)') = 0 /\ Cardinality(Waiting(r)') = 0
  BY <1>4, FS_EmptySet
<1>6. Waiting(r) \subseteq lost /\ Writing(r) \subseteq lost
  BY DEF Waiting, Writing, Noted, Writes, Holding, Holds, Unrecorded
<1>7. IsFiniteSet(lost)
  BY FS_Subset DEF Unrecorded
<1> HIDE DEF lost
<1>8. /\ u \in Nat /\ w \in Nat /\ w <= u /\ b \in Nat /\ n \in Nat /\ n >= 1
  <2>1. u \in Nat /\ w <= u
    BY <1>6, <1>7, FS_Subset, FS_CardinalityType
  <2> QED
    BY <2>1, TwoGroups, ActiveIsFinite
<1>9. Writing(r) # {} => u >= 1
  <2>1. Writing(r) # {} => u # 0
    BY <1>6, <1>7, FS_EmptySet
  <2> QED
    BY <1>8, <2>1
<1>10. interrupted[r] \in Nat /\ posted[r] \in Nat
  BY DEF RoundsInvariant, LedgerInvariant, Typed
<1>11. /\ q \in Nat /\ q1 \in Nat /\ q1 >= q + u
       /\ u >= 1 => q1 >= q + n
       /\ q1 >= q
  BY <1>1, <1>8, <1>10, Products DEF Rounds
<1>12. /\ ~Held(r) /\ r \notin FileRecords => posted[r] <= q + w
       /\ Held(r) \/ r \in FileRecords => posted[r] + b <= q + n
       /\ Held(r) /\ r \notin FileRecords /\ Writing(r) = {} => posted[r] + b <= q
  BY DEF RoundsInvariant, Bounded
<1> HIDE DEF q, q1, b, w, n, u
<1>13. r \notin FileRecords => posted[r] <= q1
  BY <1>8, <1>9, <1>10, <1>11, <1>12
<1>14. posted[r] <= q1 + n
  BY <1>8, <1>10, <1>11, <1>12
<1>15. Cardinality(active)' = n /\ posted'[r] = posted[r] /\ Rounds(interrupted[r])' = q1
  BY <1>1 DEF n, q1
<1>16. /\ ~Held(r)' /\ r \notin FileRecords' => posted'[r] <= q1 + Cardinality(Waiting(r)')
       /\ posted'[r] + Cardinality(Coming(r)') <= q1 + n
       /\ r \notin FileRecords' => posted'[r] + Cardinality(Coming(r)') <= q1
  BY <1>2, <1>5, <1>8, <1>10, <1>11, <1>13, <1>14, <1>15
<1> QED
  BY <1>15, <1>16 DEF Bounded

LEMMA DeathsBounded ==
  ASSUME LedgerInvariant, SingleInvariant, RoundsInvariant, OneProcess,
         RestartDaemon \/ \E j \in Jobs : KillJob(j), NEW r \in Revs
  PROVE  Bounded(r)'
<1>1. CASE RestartDaemon
  <2>1. /\ active \cap Requests # {} /\ Die(Requests) /\ active' = active
        /\ ledger' = [ledger EXCEPT !["daemon"] = FileRecords]
    BY <1>1 DEF RestartDaemon, Die
  <2>2. active \subseteq Requests
    <3> SUFFICES ASSUME NEW b \in active PROVE b \in Requests
      OBVIOUS
    <3>1. PICK h \in active : h \in Requests
      BY <2>1
    <3>2. b \in Jobs => b = h
      BY OneLedger DEF SingleInvariant
    <3> QED
      BY <3>1, <3>2 DEF SingleInvariant, Actors
  <2>3. \A b \in active : LedgerOf(b) = "daemon"
    BY <2>2, NamesAssumption DEF LedgerOf
  <2>4. ledger'["daemon"] = FileRecords
    BY <2>1 DEF LedgerInvariant, Typed, Ledgers
  <2>5. Held(r)' <=> r \in FileRecords
    BY <2>1, <2>3, <2>4 DEF Held
  <2>6. IsFiniteSet(Requests) /\ Requests \subseteq Actors /\ active # {}
    BY <2>1, ActorsAssumption, FS_Subset DEF Actors
  <2> QED
    BY <2>1, <2>2, <2>5, <2>6, DeathBounded
<1>2. ASSUME NEW j \in Jobs, KillJob(j) PROVE Bounded(r)'
  <2>1. /\ j \in Actors /\ j \in active /\ Die({j}) /\ ledger' = ledger /\ active' = active
    BY <1>2 DEF KillJob, Die, Actors, SingleInvariant
  <2>2. active \subseteq {j}
    BY <1>2, <2>1, OneLedger DEF SingleInvariant
  <2>3. Held(r)' <=> Held(r)
    BY <2>1 DEF Held
  <2>4. IsFiniteSet({j}) /\ {j} \subseteq Actors /\ active # {}
    BY <2>1, FS_Singleton
  <2> QED
    BY <2>1, <2>2, <2>3, <2>4, DeathBounded
<1> QED
  BY <1>1, <1>2

LEMMA InterruptionsTyped ==
  ASSUME RoundsInvariant, SingleInvariant, [Next]_vars
  PROVE  interrupted' \in [Revs -> Nat]
<1>1. interrupted \in [Revs -> Nat]
  BY DEF RoundsInvariant
<1>2. ASSUME NEW a, interrupted' = Count(interrupted, a)
      PROVE  interrupted' \in [Revs -> Nat]
  BY <1>1, <1>2 DEF Count
<1>3. ASSUME NEW S, IsFiniteSet(S), Die(S) PROVE interrupted' \in [Revs -> Nat]
  <2>1. \A r \in Revs : Cardinality({a \in Unrecorded(S) : r \in actor[a].rev}) \in Nat
    BY <1>3, FS_Subset, FS_CardinalityType DEF Unrecorded
  <2>2. interrupted' = [r \in Revs |-> interrupted[r] +
          Cardinality({a \in Unrecorded(S) : r \in actor[a].rev})]
    BY <1>3 DEF Die
  <2> QED
    BY <1>1, <2>1, <2>2
<1>4. CASE RestartDaemon
  <2>1. IsFiniteSet(Requests)
    BY ActorsAssumption, FS_Subset
  <2> QED
    BY <1>3, <1>4, <2>1 DEF RestartDaemon
<1>5. ASSUME NEW j \in Jobs, KillJob(j) PROVE interrupted' \in [Revs -> Nat]
  BY <1>3, <1>5, FS_Singleton DEF KillJob
<1>6. CASE interrupted' = interrupted \/ \E a : interrupted' = Count(interrupted, a)
  BY <1>1, <1>2, <1>6
<1>7. ASSUME NEW a \in Actors,
             \/ Publish(a) \/ PublishRefused(a) \/ PublishUnacknowledged(a)
             \/ Record(a) \/ OpenTmp(a) \/ WriteTmp(a) \/ RenameTmp(a) \/ FailRecord(a)
      PROVE  interrupted' = interrupted \/ \E b : interrupted' = Count(interrupted, b)
  BY <1>7 DEF Publish, PublishRefused, PublishUnacknowledged, Record, AppendRecord, OpenTmp,
         WriteTmp, RenameTmp, FailRecord
<1>8. ASSUME \/ \E h \in Requests, r \in Revs : HandleAnnounce(h, r)
             \/ \E j \in Jobs, i \in Inputs : RunPublish(j, i)
      PROVE  interrupted' = interrupted
  BY <1>8 DEF HandleAnnounce, RunPublish, Start
<1> QED
  BY <1>4, <1>5, <1>6, <1>7, <1>8 DEF Next, vars

LEMMA StepIsBounded ==
  ASSUME LedgerInvariant, SingleInvariant, RoundsInvariant, [Next]_vars
  PROVE  RoundsInvariant'
<1>1. active' = active
  BY DEF Next, vars, HandleAnnounce, RunPublish, Start, Publish, PublishRefused,
         PublishUnacknowledged, Record, AppendRecord, OpenTmp, WriteTmp, RenameTmp,
         FailRecord, RestartDaemon, KillJob, Die
<1>2. SUFFICES ASSUME OneProcess, NEW r \in Revs PROVE Bounded(r)'
  BY <1>1, InterruptionsTyped DEF RoundsInvariant, OneProcess
<1>3. CASE UNCHANGED vars
  BY <1>2, <1>3 DEF vars, events, files, RoundsInvariant, Bounded, Rounds, Held, Coming,
         Waiting, Writing, FileRecords, Readable, File
<1>4. ASSUME NEW h \in Requests, NEW r0 \in Revs, HandleAnnounce(h, r0)
      PROVE  Bounded(r)'
  BY <1>2, <1>4, RequestBegins
<1>5. ASSUME NEW j \in Jobs, NEW i \in Inputs, RunPublish(j, i) PROVE Bounded(r)'
  BY <1>2, <1>5, RunBegins
<1>6. ASSUME NEW a \in Actors,
             Publish(a) \/ PublishRefused(a) \/ PublishUnacknowledged(a)
      PROVE  Bounded(r)'
  BY <1>2, <1>6, PublishingBounded
<1>7. ASSUME NEW a \in Actors,
             \/ Record(a) \/ OpenTmp(a) \/ WriteTmp(a) \/ RenameTmp(a) \/ FailRecord(a)
      PROVE  Bounded(r)'
  BY <1>2, <1>7, RecordBounded, WritingBounded, LeavingBounded
<1>8. ASSUME RestartDaemon \/ \E j \in Jobs : KillJob(j) PROVE Bounded(r)'
  BY <1>2, <1>8, DeathsBounded
<1> QED
  BY <1>3, <1>4, <1>5, <1>6, <1>7, <1>8 DEF Next

LEMMA InitIsBounded == Init => RoundsInvariant
<1> SUFFICES ASSUME Init PROVE RoundsInvariant
  OBVIOUS
<1>1. interrupted \in [Revs -> Nat]
  BY DEF Init
<1>2. ASSUME NEW r \in Revs PROVE Bounded(r)
  <2>1. posted[r] = 0 /\ interrupted[r] \in Nat /\ ~Held(r)
    BY InitAlone DEF Init, Held, SingleInvariant, LedgerOf, Ledgers, Actors
  <2>2. FileRecords = {}
    BY TornAssumption DEF Init, FileRecords, Readable, File
  <2>3. Cardinality(Waiting(r)) \in Nat /\ Cardinality(active) \in Nat
    BY InitAlone, TwoGroups, ActiveIsFinite
  <2>4. Rounds(interrupted[r]) \in Nat
    BY <2>1, <2>3, Products DEF Rounds
  <2>5. posted[r] <= Rounds(interrupted[r]) + Cardinality(Waiting(r))
    BY <2>1, <2>3, <2>4
  <2> QED
    BY <2>1, <2>2, <2>5 DEF Bounded
<1> QED
  BY <1>1, <1>2 DEF RoundsInvariant

\* One process announces a revision once, or again after a note went out whose
\* record was lost, each time at most once for every request there is.
THEOREM RepeatsBounded == Spec => []RepeatsAreBounded
<1>1. LedgerInvariant /\ SingleInvariant /\ RoundsInvariant => RepeatsAreBounded
  <2> SUFFICES ASSUME LedgerInvariant, SingleInvariant, RoundsInvariant, OneProcess,
                      NEW r \in Revs
               PROVE  posted[r] <= Cardinality(active) * (1 + interrupted[r])
    BY DEF RepeatsAreBounded
  <2> DEFINE q == Rounds(interrupted[r])
             b == Cardinality(Coming(r))
             w == Cardinality(Waiting(r))
             n == Cardinality(active)
  <2>1. posted[r] \in Nat /\ interrupted[r] \in Nat /\ b \in Nat /\ w \in Nat /\ n \in Nat
        /\ b + w <= n
    BY TwoGroups, ActiveIsFinite DEF RoundsInvariant, LedgerInvariant, Typed
  <2>2. q \in Nat /\ Cardinality(active) * (1 + interrupted[r]) = q + n
    BY <2>1, Products DEF Rounds
  <2>3. posted[r] <= q + w \/ posted[r] + b <= q + n
    BY DEF RoundsInvariant, Bounded
  <2> HIDE DEF q, b, w, n
  <2>4. posted[r] <= q + n
    BY <2>1, <2>2, <2>3
  <2> QED
    BY <2>2, <2>4
<1>2. LedgerInvariant /\ SingleInvariant /\ RoundsInvariant /\ [Next]_vars
        => LedgerInvariant' /\ SingleInvariant' /\ RoundsInvariant'
  BY StepKeepsInvariant, StepAlone, StepIsBounded
<1> QED
  BY <1>1, <1>2, InitEstablishes, InitAlone, InitIsBounded, PTL DEF Spec
=============================================================================
