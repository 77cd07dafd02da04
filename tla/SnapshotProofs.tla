--------------------------- MODULE SnapshotProofs ---------------------------
(***************************************************************************)
(* What the generated catalogue lists, proved for every set of events,     *)
(* configurations and publishers.  WriteSnapshot meets the candidates of   *)
(* an app in the order a Go map yields them and folds over them, twice;    *)
(* both folds are shown to compute something that has no order in it,      *)
(* Choice, and the properties of the catalogue are properties of that.     *)
(***************************************************************************)
EXTENDS CatalogStoreProofs, PackageVersionsProofs

-----------------------------------------------------------------------------
(* Where the store's contents come from *)

\* Nothing is stored that was not delivered, genuine, and (but on the unverified
\* path) confirmed by its repository; and it is finitely much.
Origin ==
  /\ \A k \in Pairs : \A i \in DOMAIN entries[k] : entries[k][i] \in ingested
  /\ \A r \in ingested : r.manifest => RepositoryConfirms(r.event) /\ Translates(r.event)
  /\ attestations \subseteq attested
  /\ \A a \in attested : a.signed
  /\ IsFiniteSet(ingested)
  /\ IsFiniteSet(attested)
  /\ IsFiniteSet(endorsements)

SnapshotInvariant == StoreInvariant /\ Origin

LEMMA AddKeepsOrigin ==
  ASSUME SnapshotInvariant, NEW r \in Revisions,
         r.manifest => RepositoryConfirms(r.event) /\ Translates(r.event), Add(r)
  PROVE  Origin'
<1> DEFINE k == PairOf(r.event)
           a == AddRevision(config, attestations, entries[k], r)
<1>1. /\ k \in Pairs
      /\ entries \in [Pairs -> Seq(Revisions)]
      /\ entries[k] \in Seq(Revisions)
      /\ NewestFirst(entries[k]) /\ DistinctCommits(entries[k])
  BY RevisionFields DEF SnapshotInvariant, StoreInvariant, TypeOK, RevisionsWellFormed
<1>2. /\ entries' = [entries EXCEPT ![k] = a]
      /\ ingested' = ingested \cup {r}
      /\ UNCHANGED <<config, attestations, endorsements, attested>>
  BY DEF Add
<1>3. /\ a \in Seq(Revisions)
      /\ \A i \in 1 .. Len(a) : a[i] = r \/ \E j \in 1 .. Len(entries[k]) : a[i] = entries[k][j]
  BY <1>1, AddProperties
<1>4. DOMAIN a = 1 .. Len(a) /\ DOMAIN entries[k] = 1 .. Len(entries[k])
  BY <1>1, <1>3, LenProperties
<1>5. /\ entries'[k] = a
      /\ \A l \in Pairs : l # k => entries'[l] = entries[l]
  <2> HIDE DEF a, k
  <2> QED
    BY <1>1, <1>2, <1>3
<1> HIDE DEF a
<1>6. \A l \in Pairs : \A i \in DOMAIN entries[l] : entries[l][i] \in ingested
  BY DEF SnapshotInvariant, Origin
<1>7. ASSUME NEW l \in Pairs, NEW i \in DOMAIN entries'[l]
      PROVE  entries'[l][i] \in ingested'
  <2>1. CASE l # k
    BY <1>2, <1>5, <1>6, <2>1
  <2>2. CASE l = k
    BY <1>1, <1>2, <1>3, <1>4, <1>5, <1>6, <2>2
  <2> QED
    BY <2>1, <2>2
<1>8. IsFiniteSet(ingested')
  BY <1>2, FS_AddElement DEF SnapshotInvariant, Origin
<1> QED
  BY <1>2, <1>7, <1>8 DEF SnapshotInvariant, Origin

LEMMA StepKeepsOrigin == SnapshotInvariant /\ [Next]_vars => Origin'
<1> SUFFICES ASSUME SnapshotInvariant, [Next]_vars PROVE Origin'
  OBVIOUS
<1>1. ASSUME NEW e \in DeclEvents, IngestVerifiedPackage(e) PROVE Origin'
  <2>1. Fetched(e) \in Revisions /\ Fetched(e).event = e
    BY DEF Revisions, Fetched
  <2>2. RepositoryConfirms(e) /\ Translates(e) /\ Add(Fetched(e))
    BY <1>1 DEF IngestVerifiedPackage
  <2> QED
    BY <2>1, <2>2, AddKeepsOrigin
<1>2. ASSUME NEW e \in DeclEvents, Ingest(e) PROVE Origin'
  <2> DEFINE r == [event |-> e, manifest |-> FALSE]
  <2>1. r \in Revisions /\ ~r.manifest /\ Add(r)
    BY <1>2 DEF Revisions, Ingest
  <2> HIDE DEF r
  <2> QED
    BY <2>1, AddKeepsOrigin
<1>3. ASSUME NEW a \in AttEvents, IngestAttestation(a) PROVE Origin'
  <2>1. attestations' \subseteq attestations \cup {a}
    BY <1>3 DEF IngestAttestation, StoreAttestation
  <2>2. IsFiniteSet(attested')
    BY <1>3, FS_AddElement DEF IngestAttestation, SnapshotInvariant, Origin
  <2> QED
    BY <1>3, <2>1, <2>2 DEF IngestAttestation, SnapshotInvariant, Origin
<1>4. ASSUME NEW n \in EndorsementEvents, IngestEndorsement(n) PROVE Origin'
  <2>1. endorsements' \in {endorsements, endorsements \cup {n}}
    BY <1>4 DEF IngestEndorsement, RecordEndorsement
  <2>2. IsFiniteSet(endorsements')
    BY <2>1, FS_AddElement DEF SnapshotInvariant, Origin
  <2> QED
    BY <1>4, <2>2 DEF IngestEndorsement, SnapshotInvariant, Origin
<1>5. CASE UNCHANGED vars
  BY <1>5 DEF vars, SnapshotInvariant, Origin
<1> QED
  BY <1>1, <1>2, <1>3, <1>4, <1>5 DEF Next

\* The catalogue is generated from genuine, delivered, finite data.
THEOREM SnapshotInvariance == Spec => []SnapshotInvariant
<1>1. Init => SnapshotInvariant
  <2> SUFFICES ASSUME Init PROVE Origin
    BY InitEstablishes DEF SnapshotInvariant
  <2>1. DOMAIN <<>> = {}
    OBVIOUS
  <2> QED
    BY <2>1, FS_EmptySet DEF Init, Origin
<1>2. SnapshotInvariant /\ [Next]_vars => SnapshotInvariant'
  BY StepPreserves, StepKeepsOrigin DEF SnapshotInvariant
<1> QED
  BY <1>1, <1>2, PTL DEF Spec

-----------------------------------------------------------------------------
(* The orders of records and versions *)

\* What distinct publishers offer of one app.
Rivals(S) ==
  /\ IsFiniteSet(S)
  /\ \A c \in S : /\ c.event.version \in Versions
                  /\ c.event.created \in Nat
                  /\ c.event.publisher \in Int
  /\ \A c, d \in S : c.event.publisher = d.event.publisher => c = d

\* A comparison is nothing but a sign.
LEMMA ComparesToASign ==
  ASSUME NEW l, NEW r
  PROVE  ComparePackageVersions(l, r) \in {-1, 0, 1}
BY DEF ComparePackageVersions, CompareElements, Sign

\* The newer record, with the publisher key to break ties, is a strict total order,
LEMMA NewerOrders ==
  ASSUME NEW S, Rivals(S), NEW c \in S, NEW d \in S, NEW e \in S
  PROVE  /\ ~NewerRecord(c, c)
         /\ c # d => NewerRecord(c, d) \/ NewerRecord(d, c)
         /\ ~(NewerRecord(c, d) /\ NewerRecord(d, c))
         /\ NewerRecord(c, d) /\ NewerRecord(d, e) => NewerRecord(c, e)
<1>1. /\ c.event.created \in Nat /\ c.event.publisher \in Int
      /\ d.event.created \in Nat /\ d.event.publisher \in Int
      /\ e.event.created \in Nat /\ e.event.publisher \in Int
      /\ c # d => c.event.publisher # d.event.publisher
  BY DEF Rivals
<1> QED
  BY <1>1 DEF NewerRecord

\* and so is the later package version with the newer record to break its ties.
LEMMA SupersedesOrders ==
  ASSUME NEW S, Rivals(S), NEW c \in S, NEW d \in S, NEW e \in S
  PROVE  /\ ~Supersedes(c, c)
         /\ c # d => Supersedes(c, d) \/ Supersedes(d, c)
         /\ ~(Supersedes(c, d) /\ Supersedes(d, c))
         /\ Supersedes(c, d) /\ Supersedes(d, e) => Supersedes(c, e)
<1> DEFINE v(x) == x.event.version
           Later(x, y) == LaterVersion(v(x), v(y))
<1>1. \A x \in S : v(x) \in Versions
  BY DEF Rivals
<1>2. ASSUME NEW x \in S, NEW y \in S
      PROVE  /\ Supersedes(x, y) <=> Later(x, y) \/ (v(x) = v(y) /\ NewerRecord(x, y))
             /\ Later(x, y) => ~Later(y, x) /\ v(x) # v(y)
             /\ v(x) = v(y) \/ Later(x, y) \/ Later(y, x)
  <2> DEFINE order == ComparePackageVersions(v(x), v(y))
  <2>1. /\ order > 0 <=> Later(x, y)
        /\ order < 0 <=> Later(y, x)
        /\ order = 0 <=> v(x) = v(y)
    BY <1>1, ComparesAsDocumented
  <2>2. order \in {-1, 0, 1}
    BY ComparesToASign
  <2>3. Supersedes(x, y) <=> order > 0 \/ (order = 0 /\ NewerRecord(x, y))
    BY DEF Supersedes
  <2> HIDE DEF order, Later, v
  <2> QED
    BY <2>1, <2>2, <2>3
<1>3. Later(c, d) /\ Later(d, e) => Later(c, e)
  BY <1>1, LaterIsTransitive
<1>4. /\ ~NewerRecord(c, c)
      /\ c # d => NewerRecord(c, d) \/ NewerRecord(d, c)
      /\ ~(NewerRecord(c, d) /\ NewerRecord(d, c))
      /\ NewerRecord(c, d) /\ NewerRecord(d, e) => NewerRecord(c, e)
  BY NewerOrders
<1>5. /\ v(c) = v(d) => (Later(d, e) <=> Later(c, e))
      /\ v(d) = v(e) => (Later(c, d) <=> Later(c, e))
  OBVIOUS
<1> HIDE DEF Later, v
<1>6. ~Supersedes(c, c)
  BY <1>2, <1>4
<1>7. c # d => Supersedes(c, d) \/ Supersedes(d, c)
  BY <1>2, <1>4
<1>8. ~(Supersedes(c, d) /\ Supersedes(d, c))
  BY <1>2, <1>4
<1>9. Supersedes(c, d) /\ Supersedes(d, e) => Supersedes(c, e)
  BY <1>2, <1>3, <1>4, <1>5
<1> QED
  BY <1>6, <1>7, <1>8, <1>9

-----------------------------------------------------------------------------
(* The latest of one source *)

\* The candidates that supersede all the others: at most one.
LatestOf(S) == {c \in S : \A d \in S \ {c} : Supersedes(c, d)}

\* Whatever the order, the loop ends at the candidate that supersedes the others;
\* candidates of different sources are refused.
LEMMA LatestIsGreatest ==
  ASSUME NEW S, Rivals(S), NEW f \in SetToSeqs(S), S # {}
  PROVE  /\ OneSource(S) => \E c \in S : LatestOf(S) = {c} /\ SelectSameSourceLatest(f) = {c}
         /\ ~OneSource(S) => SelectSameSourceLatest(f) = {}
<1> DEFINE n == Cardinality(S)
           tl == Tail(f)
           source(c) == NormalizeRepository(c.event.repository)
           Result == LatestOver(f[1], tl)
<1>1. IsFiniteSet(S)
  BY DEF Rivals
<1>2. /\ n \in Nat
      /\ f \in Seq(S) /\ Len(f) = n
      /\ DOMAIN f = 1 .. n
      /\ \A i \in 1 .. n : f[i] \in S
      /\ \A i, j \in 1 .. n : f[i] = f[j] => i = j
      /\ \A x \in S : \E i \in 1 .. n : f[i] = x
  BY <1>1, Enumerations
<1>3. n # 0 /\ 1 \in 1 .. n
  <2>1. \E x \in S : TRUE
    OBVIOUS
  <2>2. \E i \in 1 .. n : TRUE
    BY <1>2, <2>1
  <2> HIDE DEF n
  <2> QED
    BY <1>2, <2>2
<1>4. OneSource(S) <=> ~ \E i \in DOMAIN f : source(f[i]) # source(f[1])
  <2> HIDE DEF n
  <2> QED
    BY <1>2, <1>3 DEF OneSource
<1>5. SelectSameSourceLatest(f) =
        IF \E i \in DOMAIN f : source(f[i]) # source(f[1]) THEN {} ELSE {Result}
  BY DEF SelectSameSourceLatest, LatestOver
<1>6. /\ n - 1 \in Nat
      /\ DOMAIN tl = 1 .. n - 1
      /\ \A i \in 1 .. n - 1 : tl[i] = f[i+1] /\ i + 1 \in 1 .. n /\ tl[i] \in S
  <2>1. f # <<>>
    BY <1>2, <1>3
  <2>2. /\ Len(tl) = n - 1
        /\ tl \in Seq(S)
        /\ \A i \in 1 .. n - 1 : tl[i] = f[i+1]
    BY <1>2, <2>1, HeadTailProperties, SMTT(30)
  <2>3. DOMAIN tl = 1 .. n - 1
    BY <2>2, LenProperties
  <2>4. n - 1 \in Nat /\ \A i \in 1 .. n - 1 : i + 1 \in 1 .. n
    BY <1>2, <1>3
  <2> HIDE DEF tl, n
  <2> QED
    BY <1>2, <2>2, <2>3, <2>4
<1>7. f[1] \in S
  BY <1>2, <1>3
<1> HIDE DEF tl
<1>8. PICK best :
        /\ best[0] = f[1]
        /\ \A i \in 1 .. n - 1 :
             best[i] = IF Supersedes(tl[i], best[i-1]) THEN tl[i] ELSE best[i-1]
        /\ best[n - 1] = Result
  <2> DEFINE m == n - 1
             base == f[1]
  <2>1. m \in Nat /\ DOMAIN tl = 1 .. m /\ \A i \in 1 .. m : tl[i] \in S
    BY <1>6
  <2>2. base \in S
    BY <1>7
  <2> HIDE DEF m, base, n
  <2>3. \E best :
          /\ best[0] = base
          /\ \A i \in 1 .. m :
               best[i] = IF Supersedes(tl[i], best[i-1]) THEN tl[i] ELSE best[i-1]
          /\ best[m] = LatestOver(base, tl)
    BY <2>1, <2>2, LatestFold
  <2> QED
    BY <2>3 DEF m, base
<1> HIDE DEF n, Result
<1> DEFINE Ahead(i) == /\ best[i] \in S
                       /\ \A j \in 1 .. i + 1 : f[j] = best[i] \/ Supersedes(best[i], f[j])
           Good == {i \in Nat : i <= n - 1 => Ahead(i)}
<1>9. Ahead(0)
  BY <1>7, <1>8
<1>10. ASSUME NEW i \in Nat, i + 1 <= n - 1, Ahead(i) PROVE Ahead(i + 1)
  <2>1. /\ i + 1 \in 1 .. n - 1 /\ (i + 1) - 1 = i
        /\ tl[i+1] = f[i+2] /\ f[i+2] \in S
    BY <1>2, <1>6, <1>10
  <2>2. best[i+1] = IF Supersedes(f[i+2], best[i]) THEN f[i+2] ELSE best[i]
    BY <1>8, <2>1
  <2>3. best[i+1] \in S
    BY <1>10, <2>1, <2>2
  <2>4. ASSUME NEW j \in 1 .. i + 2
        PROVE  f[j] = best[i+1] \/ Supersedes(best[i+1], f[j])
    <3>0. f[j] \in S
      BY <1>2, <1>6, <2>1, <2>4
    <3>1. CASE j = i + 2
      BY <1>10, <2>1, <2>2, <3>1, SupersedesOrders
    <3>2. CASE j # i + 2
      <4>1. j \in 1 .. i + 1
        BY <3>2
      <4>2. f[j] = best[i] \/ Supersedes(best[i], f[j])
        BY <1>10, <4>1
      <4>3. CASE ~Supersedes(f[i+2], best[i])
        BY <2>2, <4>2, <4>3
      <4>4. CASE Supersedes(f[i+2], best[i])
        <5>1. best[i+1] = f[i+2]
          BY <2>2, <4>4
        <5>2. CASE f[j] = best[i]
          BY <4>4, <5>1, <5>2
        <5>3. CASE Supersedes(best[i], f[j])
          <6>1. Supersedes(f[i+2], f[j])
            BY <1>10, <2>1, <3>0, <4>4, <5>3, SupersedesOrders
          <6> QED
            BY <5>1, <6>1
        <5> QED
          BY <4>2, <5>2, <5>3
      <4> QED
        BY <4>3, <4>4
    <3> QED
      BY <3>1, <3>2
  <2>5. (i + 1) + 1 = i + 2
    BY <1>10
  <2> QED
    BY <2>3, <2>4, <2>5
<1> HIDE DEF Ahead
<1>11. n - 1 \in Good
  <2>1. 0 \in Good
    BY <1>9
  <2>2. ASSUME NEW i \in Nat, i \in Good PROVE i + 1 \in Good
    BY <1>2, <1>10, <2>2
  <2> HIDE DEF Good
  <2>3. Nat \subseteq Good
    BY <2>1, <2>2, SetInduction
  <2> QED
    BY <1>6, <2>3
<1>12. Result \in S /\ \A d \in S : d = Result \/ Supersedes(Result, d)
  <2>1. Ahead(n - 1)
    BY <1>11
  <2>2. (n - 1) + 1 = n
    BY <1>2
  <2> QED
    BY <1>2, <1>8, <2>1, <2>2 DEF Ahead
<1>13. LatestOf(S) = {Result}
  <2>1. \A c \in LatestOf(S) : c = Result
    BY <1>12, SupersedesOrders DEF LatestOf
  <2> QED
    BY <1>12, <2>1 DEF LatestOf
<1> QED
  BY <1>4, <1>5, <1>12, <1>13

-----------------------------------------------------------------------------
(* The choice of the curators *)

\* How many curators stand behind what a candidate's publisher offers.
Rated(E, c) == EndorsementCount(E, c.event.publisher, c.event.app)

\* Finitely many endorsements give a count.
LEMMA CountIsNatural ==
  ASSUME NEW E, IsFiniteSet(E), NEW q, NEW app
  PROVE  EndorsementCount(E, q, app) \in Nat
<1> DEFINE about == {x \in E : x.publisher = q /\ x.app = app /\ x.claim \in WeightyClaims}
           curatorOf == [x \in about |-> x.curator]
           curators == {x.curator : x \in about}
<1>1. IsFiniteSet(about)
  BY FS_Subset
<1>2. curatorOf \in Surjection(about, curators)
  BY DEF Surjection
<1> HIDE DEF about
<1>3. IsFiniteSet(curators)
  BY <1>1, <1>2, FS_Surjection
<1>4. Cardinality(curators) \in Nat
  BY <1>3, FS_CardinalityType
<1> QED
  BY <1>4 DEF EndorsementCount, about

\* The loop of SelectCanonical: its first state,
NothingYet == [selected |-> {}, best |-> 0, tied |-> FALSE]

\* the whole of it,
ConsiderAll(p, E, seq) ==
  FoldLeft(LAMBDA state, c : ConsiderCandidate(p, E, state, c),
           NothingYet, seq)

\* and its iterations.
LEMMA CanonicalFold ==
  ASSUME NEW n \in Nat, NEW seq, DOMAIN seq = 1 .. n, NEW p, NEW E,
         NEW T, NothingYet \in T,
         \A i \in 1 .. n : \A x \in T : ConsiderCandidate(p, E, x, seq[i]) \in T
  PROVE  \E state :
           /\ state[0] = NothingYet
           /\ \A i \in 0 .. n : state[i] \in T
           /\ \A i \in 1 .. n : state[i] = ConsiderCandidate(p, E, state[i-1], seq[i])
           /\ state[n] = ConsiderAll(p, E, seq)
<1> DEFINE base == NothingYet
           Op(x, m) == ConsiderCandidate(p, E, x, seq[m])
           step == [x \in Nat \X T |-> IF x[1] \in 1 .. n THEN Op(x[2], x[1]) ELSE base]
           Iterates(h) == h = [s \in SUBSET (1 .. n) |->
                                 IF s = {} THEN base ELSE Op(h[s \ {Max(s)}], Max(s))]
           iter == CHOOSE h : Iterates(h)
<1>0. \A m \in 1 .. n, x \in T : Op(x, m) \in T /\ step[m, x] = Op(x, m)
  <2> TAKE m \in 1 .. n, x \in T
  <2>1. Op(x, m) \in T /\ <<m, x>> \in Nat \X T
    OBVIOUS
  <2> HIDE DEF Op, base
  <2> QED
    BY <2>1
<1>1. PICK g : FoldsOver(g, n, T, base, step)
  <2>1. step \in [Nat \X T -> T] /\ base \in T
    <3>1. ASSUME NEW x \in Nat \X T
          PROVE  (IF x[1] \in 1 .. n THEN Op(x[2], x[1]) ELSE base) \in T
      <4>1. x[2] \in T
        OBVIOUS
      <4> HIDE DEF Op, base
      <4> QED
        BY <1>0, <4>1 DEF base
    <3> HIDE DEF Op, base
    <3> QED
      BY <3>1 DEF base
  <2> HIDE DEF step, base
  <2> QED
    BY <2>1, FoldExists
<1>2. Iterates(g)
  <2>1. g = [s \in SUBSET (1 .. n) |-> g[s]]
    BY <1>1 DEF FoldsOver
  <2>2. ASSUME NEW s \in SUBSET (1 .. n)
        PROVE  g[s] = IF s = {} THEN base ELSE Op(g[s \ {Max(s)}], Max(s))
    <3>1. g[s] = IF s = {} THEN base ELSE step[Max(s), g[s \ {Max(s)}]]
      BY <1>1 DEF FoldsOver
    <3>2. s # {} => Max(s) \in 1 .. n /\ g[s \ {Max(s)}] \in T
      <4>1. s # {} => Max(s) \in s
        BY MaxIsGreatest
      <4>2. s \ {Max(s)} \in SUBSET (1 .. n)
        OBVIOUS
      <4> QED
        BY <1>1, <4>1, <4>2 DEF FoldsOver
    <3> HIDE DEF step, Op, base
    <3> QED
      BY <1>0, <3>1, <3>2
  <2> HIDE DEF Op, base
  <2> QED
    BY <2>1, <2>2, Zenon
<1>3. Iterates(iter)
  BY <1>2
<1>4. iter[1 .. n] = ConsiderAll(p, E, seq)
  BY DEF ConsiderAll, FoldLeft, MapThenFoldSet
<1> HIDE DEF iter, Op, base, step
<1>5. iter[1 .. 0] = base
  BY <1>3
<1>6. ASSUME NEW i \in 1 .. n PROVE iter[1 .. i] = Op(iter[1 .. i-1], i)
  <2>1. 1 .. i \in SUBSET (1 .. n) /\ i \in 1 .. i /\ i \in Nat /\ i # 0
    OBVIOUS
  <2>2. iter[1 .. i] = Op(iter[(1 .. i) \ {Max(1 .. i)}], Max(1 .. i))
    BY <1>3, <2>1
  <2> QED
    BY <2>1, <2>2, PrefixMax
<1> DEFINE state == [i \in 0 .. n |-> iter[1 .. i]]
<1>7. \A i \in 1 .. n : i \in 0 .. n /\ i - 1 \in 0 .. n
  OBVIOUS
<1>8. state[0] = base /\ state[n] = iter[1 .. n]
  BY <1>5
<1>9. \A i \in 1 .. n : state[i] = Op(state[i-1], i)
  BY <1>6, <1>7
<1>10. \A i \in 0 .. n : state[i] \in T
  <2> HIDE DEF state
  <2> DEFINE Good == {i \in Nat : i <= n => state[i] \in T}
  <2>1. 0 \in Good
    BY <1>8 DEF base
  <2>2. ASSUME NEW i \in Nat, i \in Good PROVE i + 1 \in Good
    <3> SUFFICES ASSUME i + 1 <= n PROVE state[i+1] \in T
      OBVIOUS
    <3>1. i + 1 \in 1 .. n /\ (i + 1) - 1 = i /\ state[i] \in T
      BY <2>2
    <3>2. state[i+1] = Op(state[i], i + 1)
      BY <1>9, <3>1
    <3>3. Op(state[i], i + 1) \in T
      BY <1>0, <3>1
    <3> QED
      BY <3>2, <3>3
  <2> HIDE DEF Good
  <2>3. Nat \subseteq Good
    BY <2>1, <2>2, SetInduction
  <2> QED
    BY <2>3 DEF Good
<1> HIDE DEF state
<1> QED
  BY <1>4, <1>8, <1>9, <1>10 DEF Op, base

\* The candidates more curators stand behind than behind any other, and enough
\* of them: at most one.
AheadOf(p, E, S) ==
  {c \in S : /\ Rated(E, c) > 0
             /\ Rated(E, c) >= p.minimumEndorsements
             /\ \A d \in S \ {c} : Rated(E, d) < Rated(E, c)}

\* Whatever the order, the loop keeps the candidate that is ahead, if one is.
LEMMA CanonicalIsAhead ==
  ASSUME NEW S, IsFiniteSet(S), NEW f \in SetToSeqs(S),
         NEW p, p.minimumEndorsements \in Int, NEW E, IsFiniteSet(E)
  PROVE  SelectCanonical(p, f, E) = AheadOf(p, E, S)
<1> DEFINE n == Cardinality(S)
           min == p.minimumEndorsements
           rated(j) == Rated(E, f[j])
           start == NothingYet
           T == [selected : SUBSET S, best : Nat, tied : BOOLEAN]
<1>1. /\ n \in Nat
      /\ DOMAIN f = 1 .. n
      /\ \A i \in 1 .. n : f[i] \in S
      /\ \A i, j \in 1 .. n : f[i] = f[j] => i = j
      /\ \A x \in S : \E i \in 1 .. n : f[i] = x
  BY Enumerations
<1>2. \A c : Rated(E, c) \in Nat
  BY CountIsNatural DEF Rated
<1>3. ASSUME NEW x \in T, NEW i \in 1 .. n
      PROVE  /\ ConsiderCandidate(p, E, x, f[i]) \in T
             /\ ConsiderCandidate(p, E, x, f[i]) =
                  IF rated(i) < min \/ rated(i) < x.best THEN x
                  ELSE IF rated(i) = x.best
                    THEN [selected |-> x.selected, best |-> x.best, tied |-> TRUE]
                    ELSE [selected |-> {f[i]}, best |-> rated(i), tied |-> FALSE]
  <2>1. ConsiderCandidate(p, E, x, f[i]) =
          IF rated(i) < min \/ rated(i) < x.best THEN x
          ELSE IF rated(i) = x.best THEN [x EXCEPT !.tied = TRUE]
          ELSE [selected |-> {f[i]}, best |-> rated(i), tied |-> FALSE]
    BY DEF ConsiderCandidate, Rated
  <2>2. /\ [x EXCEPT !.tied = TRUE] \in T
        /\ [x EXCEPT !.tied = TRUE].selected = x.selected
        /\ [x EXCEPT !.tied = TRUE].best = x.best
        /\ [x EXCEPT !.tied = TRUE].tied = TRUE
    OBVIOUS
  <2>3. f[i] \in S /\ rated(i) \in Nat
    BY <1>1, <1>2
  <2>4. [selected |-> {f[i]}, best |-> rated(i), tied |-> FALSE] \in T
    BY <2>3
  <2>5. [selected |-> x.selected, best |-> x.best, tied |-> TRUE] \in T
    OBVIOUS
  <2>6. [x EXCEPT !.tied = TRUE] = [selected |-> x.selected, best |-> x.best, tied |-> TRUE]
    <3>1. ASSUME NEW y \in T
          PROVE  y = [selected |-> y.selected, best |-> y.best, tied |-> y.tied]
      OBVIOUS
    <3> QED
      BY <2>2, <3>1
  <2> HIDE DEF T, rated, min, n
  <2> QED
    BY <2>1, <2>4, <2>5, <2>6
<1>4. start \in T
  BY DEF NothingYet
<1> HIDE DEF n
<1>5. PICK state :
        /\ state[0] = start
        /\ \A i \in 0 .. n : state[i] \in T
        /\ \A i \in 1 .. n : state[i] = ConsiderCandidate(p, E, state[i-1], f[i])
        /\ state[n] = ConsiderAll(p, E, f)
  <2>1. \A i \in 1 .. n : \A x \in T : ConsiderCandidate(p, E, x, f[i]) \in T
    BY <1>3
  <2>2. n \in Nat /\ DOMAIN f = 1 .. n
    BY <1>1
  <2> HIDE DEF T
  <2> QED
    BY <1>4, <2>1, <2>2, CanonicalFold
<1>6. \A i \in 1 .. n : rated(i) \in Nat
  BY <1>2
<1> HIDE DEF rated
<1> DEFINE Leads(i, s, j) ==
             /\ s.best >= min /\ rated(j) = s.best /\ s.selected = {f[j]}
             /\ ~s.tied => \A k \in 1 .. i : k # j => rated(k) < s.best
             /\ s.tied => \E k \in 1 .. i : k # j /\ rated(k) = s.best
           Reading(i, s) ==
             /\ \A k \in 1 .. i : rated(k) >= min => rated(k) <= s.best
             /\ s.best = 0 => s.selected = {}
             /\ s.best > 0 => \E j \in 1 .. i : Leads(i, s, j)
           Good == {i \in Nat : i <= n => Reading(i, state[i])}
<1>7. Reading(0, start)
  BY DEF NothingYet
<1>8. ASSUME NEW i \in Nat, i + 1 <= n, Reading(i, state[i])
      PROVE  Reading(i + 1, state[i + 1])
  <2> DEFINE s == state[i]
             t == state[i+1]
             m == i + 1
  <2>1. /\ m \in 1 .. n /\ m - 1 = i /\ i \in 0 .. n /\ m \in 0 .. n
        /\ \A k \in 1 .. i : k \in 1 .. m /\ k \in 1 .. n /\ k # m
        /\ \A k \in 1 .. m : k = m \/ k \in 1 .. i
        /\ m \in 1 .. m
    BY <1>1, <1>8
  <2>2. s \in T /\ t \in T
    BY <1>5, <2>1
  <2>3. t = IF rated(m) < min \/ rated(m) < s.best THEN s
            ELSE IF rated(m) = s.best
              THEN [selected |-> s.selected, best |-> s.best, tied |-> TRUE]
              ELSE [selected |-> {f[m]}, best |-> rated(m), tied |-> FALSE]
    <3>1. t = ConsiderCandidate(p, E, s, f[m])
      BY <1>5, <2>1
    <3> HIDE DEF s, t, m, T
    <3> QED
      BY <1>3, <2>1, <2>2, <3>1 DEF rated
  <2>4. rated(m) \in Nat /\ min \in Int /\ s.best \in Nat /\ \A k \in 1 .. i : rated(k) \in Nat
    BY <1>6, <2>1, <2>2
  <2>5. Reading(i, s)
    BY <1>8
  <2> HIDE DEF s, t, m, min
  <2>6. CASE rated(m) < min \/ rated(m) < s.best
    <3>1. t = s
      BY <2>3, <2>6
    <3>2. \A k \in 1 .. m : rated(k) >= min => rated(k) <= s.best
      BY <2>1, <2>4, <2>5, <2>6
    <3>3. ASSUME s.best > 0 PROVE \E j \in 1 .. m : Leads(m, s, j)
      <4>1. PICK j \in 1 .. i : Leads(i, s, j)
        BY <2>5, <3>3
      <4>2. rated(m) < s.best
        BY <2>4, <2>6, <4>1
      <4>3. Leads(m, s, j)
        BY <2>1, <4>1, <4>2
      <4> QED
        BY <2>1, <4>3
    <3> QED
      BY <2>5, <3>1, <3>2, <3>3 DEF t, m
  <2>7. CASE ~(rated(m) < min \/ rated(m) < s.best) /\ rated(m) = s.best
    <3>1. t.selected = s.selected /\ t.best = s.best /\ t.tied
      BY <2>3, <2>7
    <3>2. \A k \in 1 .. m : rated(k) >= min => rated(k) <= t.best
      BY <2>1, <2>4, <2>5, <2>7, <3>1
    <3>3. ASSUME t.best > 0 PROVE \E j \in 1 .. m : Leads(m, t, j)
      <4>1. PICK j \in 1 .. i : Leads(i, s, j)
        BY <2>5, <3>1, <3>3
      <4>2. Leads(m, t, j)
        BY <2>1, <2>7, <3>1, <4>1
      <4> QED
        BY <2>1, <4>2
    <3> QED
      BY <2>5, <3>1, <3>2, <3>3 DEF t, m
  <2>8. CASE ~(rated(m) < min \/ rated(m) < s.best) /\ rated(m) # s.best
    <3>1. t.selected = {f[m]} /\ t.best = rated(m) /\ ~t.tied
      BY <2>3, <2>8
    <3>2. rated(m) > s.best /\ rated(m) >= min /\ rated(m) > 0
      BY <2>4, <2>8
    <3>3. \A k \in 1 .. i : rated(k) < rated(m)
      BY <2>4, <2>5, <3>2
    <3>4. \A k \in 1 .. m : rated(k) >= min => rated(k) <= t.best
      BY <2>1, <2>4, <3>1, <3>3
    <3>5. Leads(m, t, m)
      BY <2>1, <2>4, <3>1, <3>2, <3>3
    <3> QED
      BY <2>1, <3>1, <3>2, <3>4, <3>5 DEF t, m
  <2> QED
    BY <2>6, <2>7, <2>8
<1> HIDE DEF Reading
<1>9. Reading(n, state[n])
  <2>1. 0 \in Good
    BY <1>5, <1>7
  <2>2. ASSUME NEW i \in Nat, i \in Good PROVE i + 1 \in Good
    BY <1>1, <1>8, <2>2
  <2> HIDE DEF Good
  <2>3. Nat \subseteq Good
    BY <2>1, <2>2, SetInduction
  <2> QED
    BY <1>1, <2>3 DEF Good
<1> DEFINE s == state[n]
           result == IF s.tied THEN {} ELSE s.selected
<1>10. SelectCanonical(p, f, E) = result
  <2>1. SelectCanonical(p, f, E) =
          IF ConsiderAll(p, E, f).tied THEN {} ELSE ConsiderAll(p, E, f).selected
    BY DEF SelectCanonical, ConsiderAll, NothingYet
  <2> QED
    BY <1>5, <2>1
<1>11. s \in T /\ Reading(n, s)
  BY <1>1, <1>5, <1>9
<1> HIDE DEF s
<1>12. \A c : c \in AheadOf(p, E, S) <=>
         \E i \in 1 .. n : /\ c = f[i] /\ rated(i) > 0 /\ rated(i) >= min
                           /\ \A k \in 1 .. n : k # i => rated(k) < rated(i)
  <2>1. ASSUME NEW c \in AheadOf(p, E, S)
        PROVE  \E i \in 1 .. n : /\ c = f[i] /\ rated(i) > 0 /\ rated(i) >= min
                                 /\ \A k \in 1 .. n : k # i => rated(k) < rated(i)
    <3>1. PICK i \in 1 .. n : c = f[i]
      BY <1>1 DEF AheadOf
    <3>2. \A k \in 1 .. n : k # i => f[k] \in S \ {c}
      BY <1>1, <3>1
    <3>3. rated(i) > 0 /\ rated(i) >= min /\ \A k \in 1 .. n : k # i => rated(k) < rated(i)
      BY <3>1, <3>2 DEF AheadOf, rated
    <3> QED
      BY <3>1, <3>3
  <2>2. ASSUME NEW i \in 1 .. n, rated(i) > 0, rated(i) >= min,
               \A k \in 1 .. n : k # i => rated(k) < rated(i)
        PROVE  f[i] \in AheadOf(p, E, S)
    <3>1. f[i] \in S
      BY <1>1
    <3>2. ASSUME NEW d \in S \ {f[i]} PROVE Rated(E, d) < Rated(E, f[i])
      <4>1. PICK k \in 1 .. n : f[k] = d
        BY <1>1
      <4> QED
        BY <2>2, <4>1 DEF rated
    <3> QED
      BY <2>2, <3>1, <3>2 DEF AheadOf, rated
  <2> QED
    BY <2>1, <2>2
<1>13. /\ s.best \in Nat /\ min \in Int /\ s.tied \in BOOLEAN
       /\ \A k \in 1 .. n : rated(k) >= min => rated(k) <= s.best
       /\ s.best = 0 => s.selected = {}
  BY <1>11 DEF Reading
<1>14. CASE s.best = 0
  <2>1. result = {}
    BY <1>13, <1>14
  <2>2. \A c : c \notin AheadOf(p, E, S)
    BY <1>6, <1>12, <1>13, <1>14
  <2> QED
    BY <1>10, <2>1, <2>2
<1>15. CASE s.best > 0
  <2>1. PICK j \in 1 .. n : Leads(n, s, j)
    BY <1>11, <1>15 DEF Reading
  <2> HIDE DEF min
  <2>2. CASE ~s.tied
    <3>1. result = {f[j]}
      BY <2>1, <2>2
    <3>2. \A k \in 1 .. n : k # j => rated(k) < rated(j)
      BY <2>1, <2>2
    <3>3. f[j] \in AheadOf(p, E, S)
      <4>1. rated(j) > 0 /\ rated(j) >= min
        BY <1>15, <2>1
      <4> HIDE DEF Leads
      <4> QED
        BY <1>12, <3>2, <4>1
    <3>4. ASSUME NEW c \in AheadOf(p, E, S) PROVE c = f[j]
      <4>1. PICK i \in 1 .. n : c = f[i] /\ \A k \in 1 .. n : k # i => rated(k) < rated(i)
        BY <1>12
      <4>2. i = j
        BY <1>6, <3>2, <4>1
      <4> QED
        BY <4>1, <4>2
    <3> QED
      BY <1>10, <3>1, <3>3, <3>4
  <2>3. CASE s.tied
    <3>1. result = {}
      BY <2>3
    <3>2. PICK k \in 1 .. n : k # j /\ rated(k) = rated(j)
      BY <2>1, <2>3
    <3>3. ASSUME NEW c \in AheadOf(p, E, S) PROVE FALSE
      <4>1. PICK i \in 1 .. n : /\ rated(i) >= min
                                /\ \A l \in 1 .. n : l # i => rated(l) < rated(i)
        BY <1>12
      <4>2. rated(i) <= rated(j)
        BY <1>13, <2>1, <4>1
      <4>3. i = j
        BY <1>6, <4>1, <4>2
      <4> QED
        BY <1>6, <3>2, <4>1, <4>3
    <3> QED
      BY <1>10, <3>1, <3>3
  <2> QED
    BY <1>13, <2>2, <2>3
<1> QED
  BY <1>13, <1>14, <1>15

\* What the catalogue lists, of a set of candidates, with no order in it.
Choice(p, E, S) ==
  IF OneSource(S) THEN LatestOf(S)
  ELSE IF CurationConfigured(p) THEN AheadOf(p, E, S) ELSE {}

\* One order of the candidates is as good as another.
LEMMA SelectionHasNoOrder ==
  ASSUME NEW S, Rivals(S), NEW f \in SetToSeqs(S),
         NEW p, p.minimumEndorsements \in Int, NEW E, IsFiniteSet(E)
  PROVE  SelectForApp(p, f, E) = Choice(p, E, S)
<1> DEFINE n == Cardinality(S)
<1>0. IsFiniteSet(S)
  BY DEF Rivals
<1>1. /\ n \in Nat /\ Len(f) = n
      /\ DOMAIN f = 1 .. n
      /\ \A i \in 1 .. n : f[i] \in S
      /\ \A x \in S : \E i \in 1 .. n : f[i] = x
  BY <1>0, Enumerations
<1> HIDE DEF n
<1>2. CASE n <= 1
  <2>1. SelectForApp(p, f, E) = ToSet(f)
    BY <1>1, <1>2 DEF SelectForApp
  <2>2. ToSet(f) = S
    BY <1>1 DEF ToSet
  <2>3. \A c, d \in S : c = d
    <3>1. \A i, j \in 1 .. n : i = j
      BY <1>1, <1>2
    <3> QED
      BY <1>1, <3>1
  <2>4. OneSource(S) /\ LatestOf(S) = S
    BY <2>3 DEF OneSource, LatestOf
  <2> QED
    BY <2>1, <2>2, <2>4 DEF Choice
<1>3. CASE n > 1
  <2>1. SelectForApp(p, f, E) =
          LET sameSource == SelectSameSourceLatest(f)
          IN  IF sameSource # {} THEN sameSource
              ELSE IF ~CurationConfigured(p) THEN {}
              ELSE SelectCanonical(p, f, E)
    BY <1>1, <1>3 DEF SelectForApp
  <2>2. S # {}
    BY <1>1, <1>3
  <2>3. SelectCanonical(p, f, E) = AheadOf(p, E, S)
    BY <1>0, CanonicalIsAhead
  <2>4. /\ OneSource(S) => \E c \in S : LatestOf(S) = {c} /\ SelectSameSourceLatest(f) = {c}
        /\ ~OneSource(S) => SelectSameSourceLatest(f) = {}
    BY <2>2, LatestIsGreatest
  <2> QED
    BY <2>1, <2>3, <2>4 DEF Choice
<1> QED
  BY <1>1, <1>2, <1>3

-----------------------------------------------------------------------------
(* What is listed *)

\* The candidates of an app: installable revisions of different publishers, each
\* delivered, each about that app.
LEMMA CandidatesAreRivals ==
  ASSUME SnapshotInvariant, NEW app \in Apps,
         NEW S, S = Candidates(config, entries, attestations, app)
  PROVE  /\ Rivals(S)
         /\ \A c \in S : /\ Installable(config, attestations, c)
                         /\ c \in ingested /\ c \in Revisions
                         /\ c.event.app = app
<1>1. ASSUME NEW q \in Publishers, NEW c \in SelectAccepted(config, attestations, entries[<<q, app>>])
      PROVE  /\ Installable(config, attestations, c)
             /\ c \in ingested /\ c \in Revisions
             /\ c.event.app = app /\ c.event.publisher = q
             /\ \A d \in SelectAccepted(config, attestations, entries[<<q, app>>]) : d = c
  <2> DEFINE k == <<q, app>>
  <2>1. k \in Pairs
    BY DEF Pairs
  <2>2. /\ entries[k] \in Seq(Revisions) /\ NewestFirst(entries[k])
        /\ \A i \in DOMAIN entries[k] : PairOf(entries[k][i].event) = k
        /\ \A i \in DOMAIN entries[k] : entries[k][i] \in ingested
        /\ ingested \subseteq Revisions
    BY <2>1 DEF SnapshotInvariant, StoreInvariant, TypeOK, RevisionsWellFormed, Origin
  <2>3. Installable(config, attestations, c) /\ \E i \in 1 .. Len(entries[k]) : entries[k][i] = c
    BY <2>2, SelectAcceptedProperties
  <2>4. DOMAIN entries[k] = 1 .. Len(entries[k])
    BY <2>2, LenProperties
  <2>5. \A d \in SelectAccepted(config, attestations, entries[k]) : d = c
    BY DEF SelectAccepted
  <2>6. PairOf(c.event) = k
    BY <2>2, <2>3, <2>4
  <2> HIDE DEF k
  <2> QED
    BY <2>2, <2>3, <2>4, <2>5, <2>6 DEF PairOf, k
<1>2. \A c \in S : \E q \in Publishers :
        c \in SelectAccepted(config, attestations, entries[<<q, app>>])
  BY DEF Candidates
<1>3. \A c \in S : /\ Installable(config, attestations, c)
                   /\ c \in ingested /\ c \in Revisions
                   /\ c.event.app = app
                   /\ c.event.publisher \in Publishers
                   /\ \A d \in SelectAccepted(config, attestations,
                                              entries[<<c.event.publisher, app>>]) : d = c
                   /\ c \in SelectAccepted(config, attestations,
                                           entries[<<c.event.publisher, app>>])
  <2> TAKE c \in S
  <2>1. PICK q \in Publishers : c \in SelectAccepted(config, attestations, entries[<<q, app>>])
    BY <1>2
  <2>2. c.event.publisher = q
    BY <1>1, <2>1
  <2> QED
    BY <1>1, <2>1, <2>2
<1>4. IsFiniteSet(S)
  <2>1. S \in SUBSET ingested /\ IsFiniteSet(ingested)
    BY <1>3 DEF SnapshotInvariant, Origin
  <2> QED
    BY <2>1, FS_Subset
<1>5. \A c \in S : /\ c.event.version \in Versions
                   /\ c.event.created \in Nat
                   /\ c.event.publisher \in Int
  BY <1>3, RevisionFields, DeclEventsAssumption, PublishersAssumption
<1>6. \A c, d \in S : c.event.publisher = d.event.publisher => c = d
  BY <1>3
<1> QED
  BY <1>3, <1>4, <1>5, <1>6 DEF Rivals

\* Every order in which the candidates can be met leads to the same choice, by
\* whatever endorsements it is made.
LEMMA ListedIsTheChoice ==
  ASSUME SnapshotInvariant, NEW app \in Apps,
         NEW S, S = Candidates(config, entries, attestations, app),
         NEW E, IsFiniteSet(E)
  PROVE  /\ SnapshotOutcomes(config, entries, attestations, E, app) = {Choice(config, E, S)}
         /\ Listed(config, entries, attestations, E, app) = Choice(config, E, S)
<1>1. Rivals(S)
  BY CandidatesAreRivals
<1>2. SetToSeqs(S) # {}
  <2>1. IsFiniteSet(S)
    BY <1>1 DEF Rivals
  <2> QED
    BY <2>1, Enumerations
<1>3. config.minimumEndorsements \in Int
  BY ConfigsAssumption DEF SnapshotInvariant, StoreInvariant, TypeOK
<1>4. \A f \in SetToSeqs(S) : SelectForApp(config, f, E) = Choice(config, E, S)
  BY <1>1, <1>3, SelectionHasNoOrder
<1>5. SnapshotOutcomes(config, entries, attestations, E, app)
        = {SelectForApp(config, f, E) : f \in SetToSeqs(S)}
  BY DEF SnapshotOutcomes
<1>6. SnapshotOutcomes(config, entries, attestations, E, app) = {Choice(config, E, S)}
  <2> HIDE DEF Choice
  <2> QED
    BY <1>2, <1>4, <1>5
<1> QED
  BY <1>6 DEF Listed

\* So what is listed now.
LEMMA ListedNow ==
  ASSUME SnapshotInvariant, NEW app \in Apps,
         NEW S, S = Candidates(config, entries, attestations, app)
  PROVE  /\ SnapshotOutcomes(config, entries, attestations, endorsements, app)
              = {Choice(config, endorsements, S)}
         /\ ListedFor(app) = Choice(config, endorsements, S)
BY ListedIsTheChoice DEF ListedFor, SnapshotInvariant, Origin

\* Go's map iteration never decides what the catalogue lists.
THEOREM ListingIgnoresMapOrder == Spec => []SnapshotIsDeterministic
<1>1. SnapshotInvariant => SnapshotIsDeterministic
  <2> SUFFICES ASSUME SnapshotInvariant, NEW app \in Apps
               PROVE  Cardinality(SnapshotOutcomes(config, entries, attestations,
                                                   endorsements, app)) = 1
    BY DEF SnapshotIsDeterministic
  <2>1. \E x : SnapshotOutcomes(config, entries, attestations, endorsements, app) = {x}
    BY ListedNow
  <2> QED
    BY <2>1, FS_Singleton
<1> QED
  BY <1>1, SnapshotInvariance, PTL

\* A contested app is listed only when its sources agree, or when one publisher
\* has strictly more endorsements than every rival, and enough of them.
THEOREM DisputesAreSettledByCurators == Spec => []ContestedAppsAreResolved
<1>1. SnapshotInvariant => ContestedAppsAreResolved
  <2> SUFFICES ASSUME SnapshotInvariant, NEW app \in Apps
               PROVE  LET candidates == Candidates(config, entries, attestations, app)
                          count(c) == EndorsementCount(endorsements, c.event.publisher, app)
                      IN  \A r \in ListedFor(app) : \A c \in candidates \ {r} :
                            \/ OneSource(candidates)
                            \/ /\ count(r) > count(c)
                               /\ count(r) >= config.minimumEndorsements
                               /\ CurationConfigured(config)
    BY DEF ContestedAppsAreResolved
  <2> DEFINE S == Candidates(config, entries, attestations, app)
             count(c) == EndorsementCount(endorsements, c.event.publisher, app)
  <2>1. ListedFor(app) = Choice(config, endorsements, S)
    BY ListedNow
  <2>2. \A c \in S : c.event.app = app
    BY CandidatesAreRivals
  <2> HIDE DEF S
  <2>3. \A c \in S : count(c) = Rated(endorsements, c)
    BY <2>2 DEF Rated
  <2>4. \A c \in S : count(c) \in Nat
    BY CountIsNatural DEF SnapshotInvariant, Origin
  <2>5. ASSUME NEW r \in Choice(config, endorsements, S), NEW c \in S \ {r}, ~OneSource(S)
        PROVE  /\ count(r) > count(c)
               /\ count(r) >= config.minimumEndorsements
               /\ CurationConfigured(config)
    <3>1. CurationConfigured(config) /\ r \in AheadOf(config, endorsements, S)
      BY <2>5 DEF Choice
    <3>2. /\ r \in S
          /\ Rated(endorsements, r) >= config.minimumEndorsements
          /\ Rated(endorsements, c) < Rated(endorsements, r)
      BY <2>5, <3>1 DEF AheadOf
    <3> HIDE DEF count
    <3> QED
      BY <2>3, <2>4, <2>5, <3>1, <3>2
  <2> HIDE DEF count
  <2>6. \A r \in ListedFor(app) : \A c \in S \ {r} :
          \/ OneSource(S)
          \/ /\ count(r) > count(c)
             /\ count(r) >= config.minimumEndorsements
             /\ CurationConfigured(config)
    BY <2>1, <2>5
  <2> QED
    BY <2>6 DEF S, count
<1> QED
  BY <1>1, SnapshotInvariance, PTL

\* Publishers of one source are never in dispute: the app is listed, at the
\* latest package version any of them offers.
THEOREM OneSourceListsItsLatest == Spec => []SameSourceNewestVersion
<1>1. SnapshotInvariant => SameSourceNewestVersion
  <2> SUFFICES ASSUME SnapshotInvariant, NEW app \in Apps,
                      NEW S, S = Candidates(config, entries, attestations, app),
                      S # {}, OneSource(S)
               PROVE  \E r \in ListedFor(app) : \A c \in S :
                        ~LaterVersion(c.event.version, r.event.version)
    BY DEF SameSourceNewestVersion
  <2>1. ListedFor(app) = LatestOf(S)
    BY ListedNow DEF Choice
  <2>2. Rivals(S)
    BY CandidatesAreRivals
  <2>3. PICK f \in SetToSeqs(S) : TRUE
    <3>1. IsFiniteSet(S)
      BY <2>2 DEF Rivals
    <3> QED
      BY <3>1, Enumerations
  <2>4. PICK r \in S : LatestOf(S) = {r}
    BY <2>2, <2>3, LatestIsGreatest
  <2>5. ASSUME NEW c \in S, LaterVersion(c.event.version, r.event.version) PROVE FALSE
    <3>1. c.event.version \in Versions /\ r.event.version \in Versions
      BY <2>2 DEF Rivals
    <3>2. ComparePackageVersions(r.event.version, c.event.version) < 0
      BY <2>5, <3>1, ComparesAsDocumented
    <3>3. c # r
      BY <2>5, <3>1, <3>2, ComparesAsDocumented, ComparesToASign
    <3>4. Supersedes(r, c)
      BY <2>4, <3>3 DEF LatestOf
    <3> QED
      BY <3>2, <3>4, ComparesToASign DEF Supersedes
  <2> QED
    BY <2>1, <2>4, <2>5
<1> QED
  BY <1>1, SnapshotInvariance, PTL

\* A listed revision is an installable one that was delivered.
LEMMA ListedIsInstallable ==
  ASSUME SnapshotInvariant, NEW app \in Apps, NEW r \in ListedFor(app)
  PROVE  /\ r \in Candidates(config, entries, attestations, app)
         /\ Installable(config, attestations, r)
         /\ r \in Revisions
<1> DEFINE S == Candidates(config, entries, attestations, app)
<1>1. ListedFor(app) = Choice(config, endorsements, S)
  BY ListedNow
<1> HIDE DEF S
<1>2. r \in S
  BY <1>1 DEF Choice, LatestOf, AheadOf
<1> QED
  BY <1>2, CandidatesAreRivals DEF S

\* Evidence is finite, so that it can be counted.
LEMMA EvidenceIsFinite ==
  ASSUME SnapshotInvariant, NEW r
  PROVE  /\ IsFiniteSet(Evidence(r))
         /\ IsFiniteSet(Counted(config, Evidence(r)))
         /\ IsFiniteSet(Passing(Evidence(r)))
         /\ EffectiveMinimumAttestations(config) \in Nat \ {0}
<1>1. Evidence(r) \subseteq attestations /\ IsFiniteSet(attestations)
  BY DEF Evidence, AttestationsFor, SnapshotInvariant, StoreInvariant
<1>2. IsFiniteSet(Evidence(r))
  BY <1>1, FS_Subset
<1>3. Counted(config, Evidence(r)) \subseteq Evidence(r) /\ Passing(Evidence(r)) \subseteq Evidence(r)
  BY DEF Counted, Passing
<1>4. config.minimum \in Int
  BY ConfigsAssumption DEF SnapshotInvariant, StoreInvariant, TypeOK
<1> QED
  BY <1>2, <1>3, <1>4, FS_Subset DEF EffectiveMinimumAttestations

\* The attestations that count toward a revision are the last words of as many
\* different verifiers.
LEMMA CountedAreVouching ==
  ASSUME SnapshotInvariant, NEW r
  PROVE  /\ Cardinality(Vouching(r)) \in Nat
         /\ Cardinality(Counted(config, Evidence(r))) \in Nat
         /\ Cardinality(Counted(config, Evidence(r))) <= Cardinality(Vouching(r))
<1> DEFINE counted == Counted(config, Evidence(r))
           verifiers == {a.verifier : a \in attested}
           verifierOf == [a \in counted |-> a.verifier]
           speaker == [a \in attested |-> a.verifier]
<1>1. /\ OneAttestationPerSlot /\ NewestAttestationWins
      /\ attestations \subseteq attested /\ IsFiniteSet(attested)
      /\ attested \subseteq AttEvents
  BY DEF SnapshotInvariant, StoreInvariant, Origin, TypeOK
<1>2. \A a \in counted : /\ a \in attestations /\ a \in attested
                         /\ AttestationKey(a) = AttestationKey(r.event)
                         /\ a.hashes = r.event.hashes
                         /\ TrustedVerifier(config, a.verifier)
                         /\ Acceptable(config, a)
  BY <1>1 DEF Counted, Evidence, AttestationsFor
<1> HIDE DEF counted
<1>3. ASSUME NEW a \in counted, NEW b \in attested, SameSlot(a, b)
      PROVE  a.created >= b.created
  <2>1. PICK c \in attestations : SameSlot(b, c) /\ c.created >= b.created
    BY <1>1 DEF NewestAttestationWins
  <2>2. SameSlot(a, c)
    BY <1>3, <2>1, SlotsPartition
  <2>3. c = a
    BY <1>1, <1>2, <2>2 DEF OneAttestationPerSlot
  <2> QED
    BY <2>1, <2>3
<1>4. \A a \in counted : a.verifier \in Vouching(r)
  <2> TAKE a \in counted
  <2>1. a \in LastWord(a.verifier, r)
    BY <1>2, <1>3 DEF LastWord
  <2> QED
    BY <1>2, <2>1 DEF Vouching
<1>5. \A a, b \in counted : a.verifier = b.verifier => a = b
  BY <1>1, <1>2 DEF OneAttestationPerSlot, SameSlot
<1>6. verifierOf \in Injection(counted, Vouching(r))
  BY <1>4, <1>5 DEF Injection, IsInjective
<1>7. IsFiniteSet(Vouching(r))
  <2>1. speaker \in Surjection(attested, verifiers)
    BY DEF Surjection
  <2>2. IsFiniteSet(verifiers)
    BY <1>1, <2>1, FS_Surjection
  <2>3. Vouching(r) \in SUBSET verifiers
    BY DEF Vouching
  <2> QED
    BY <2>2, <2>3, FS_Subset
<1> HIDE DEF verifierOf
<1>8. IsFiniteSet(counted) /\ Cardinality(counted) <= Cardinality(Vouching(r))
  BY <1>6, <1>7, FS_Injection
<1> QED
  BY <1>7, <1>8, FS_CardinalityType DEF counted

\* Nothing is listed on the publisher's word alone: the repository of a listed
\* app has been checked, and under require it rests on that many different
\* trusted verifiers, each by the last word it was ever heard to say.
THEOREM ListingRestsOnEvidence == Spec => []ListedAppsHaveEvidence
<1>1. SnapshotInvariant => ListedAppsHaveEvidence
  <2> SUFFICES ASSUME SnapshotInvariant, NEW app \in Apps, NEW r \in ListedFor(app)
               PROVE  /\ r.manifest
                      /\ config.mode = "require" =>
                           Cardinality(Vouching(r)) >= EffectiveMinimumAttestations(config)
    BY DEF ListedAppsHaveEvidence
  <2>1. r.manifest /\ Accepted(config, Evidence(r))
    BY ListedIsInstallable DEF Installable, Evidence
  <2>2. config.mode = "require" =>
          Cardinality(Counted(config, Evidence(r))) >= EffectiveMinimumAttestations(config)
    BY <2>1 DEF Accepted, Verified
  <2> QED
    BY <2>1, <2>2, CountedAreVouching, EvidenceIsFinite
<1> QED
  BY <1>1, SnapshotInvariance, PTL

\* The attestation_status shown beside a listed app, which is computed without
\* the policy, never contradicts the policy that let it in.
THEOREM LabelsMatchThePolicy == Spec => []LabelsAgreeWithPolicy
<1>1. SnapshotInvariant => LabelsAgreeWithPolicy
  <2> SUFFICES ASSUME SnapshotInvariant, NEW app \in Apps, NEW r \in ListedFor(app)
               PROVE  LET status == AttestationStatus(r.manifest, Evidence(r))
                      IN  /\ status # "unverified"
                          /\ config.mode = "require" /\ config.requiredChecks = {} =>
                               IF EffectiveMinimumAttestations(config) >= 2
                                 THEN status = "multi_verified"
                                 ELSE status \in {"ci_verified", "multi_verified"}
    BY DEF LabelsAgreeWithPolicy
  <2> DEFINE E == Evidence(r)
  <2>1. r.manifest /\ Accepted(config, E)
    BY ListedIsInstallable DEF Installable, Evidence
  <2>2. /\ IsFiniteSet(Counted(config, E)) /\ IsFiniteSet(Passing(E))
        /\ EffectiveMinimumAttestations(config) \in Nat \ {0}
    BY EvidenceIsFinite
  <2>3. Cardinality(Counted(config, E)) \in Nat /\ Cardinality(Passing(E)) \in Nat
    BY <2>2, FS_CardinalityType
  <2>4. AttestationStatus(r.manifest, E) # "unverified"
    BY <2>1 DEF AttestationStatus
  <2>5. ASSUME config.mode = "require", config.requiredChecks = {}
        PROVE  IF EffectiveMinimumAttestations(config) >= 2
                 THEN AttestationStatus(r.manifest, E) = "multi_verified"
                 ELSE AttestationStatus(r.manifest, E) \in {"ci_verified", "multi_verified"}
    <3>1. Counted(config, E) \in SUBSET Passing(E)
      BY <2>5 DEF Counted, Passing, Acceptable
    <3>2. Cardinality(Counted(config, E)) <= Cardinality(Passing(E))
      BY <2>2, <3>1, FS_Subset
    <3>3. Cardinality(Counted(config, E)) >= EffectiveMinimumAttestations(config)
      BY <2>1, <2>5 DEF Accepted, Verified
    <3>4. Cardinality(Passing(E)) >= EffectiveMinimumAttestations(config)
      BY <2>2, <2>3, <3>2, <3>3
    <3> QED
      BY <2>1, <2>2, <2>3, <3>4 DEF AttestationStatus
  <2> QED
    BY <2>4, <2>5
<1> QED
  BY <1>1, SnapshotInvariance, PTL

\* One more endorsement changes the count of the pair it is about, and no other,
\* and only upward.
LEMMA EndorsementsAddUp ==
  ASSUME NEW E, IsFiniteSet(E), NEW x, NEW q, NEW app
  PROVE  /\ EndorsementCount(E \cup {x}, q, app) \in Nat
         /\ EndorsementCount(E, q, app) \in Nat
         /\ EndorsementCount(E, q, app) <= EndorsementCount(E \cup {x}, q, app)
         /\ x.publisher # q \/ x.app # app =>
              EndorsementCount(E \cup {x}, q, app) = EndorsementCount(E, q, app)
<1> DEFINE about(F) == {n \in F : n.publisher = q /\ n.app = app /\ n.claim \in WeightyClaims}
           curators(F) == {n.curator : n \in about(F)}
           curatorOf == [n \in about(E \cup {x}) |-> n.curator]
<1>1. \A F : EndorsementCount(F, q, app) = Cardinality(curators(F))
  BY DEF EndorsementCount
<1>2. x.publisher # q \/ x.app # app => about(E \cup {x}) = about(E)
  OBVIOUS
<1>3. IsFiniteSet(curators(E \cup {x}))
  <2>1. IsFiniteSet(E \cup {x})
    BY FS_AddElement
  <2>2. IsFiniteSet(about(E \cup {x}))
    BY <2>1, FS_Subset
  <2>3. curatorOf \in Surjection(about(E \cup {x}), curators(E \cup {x}))
    BY DEF Surjection
  <2> HIDE DEF about, curators, curatorOf
  <2> QED
    BY <2>2, <2>3, FS_Surjection
<1>4. curators(E) \in SUBSET curators(E \cup {x})
  OBVIOUS
<1>5. Cardinality(curators(E)) <= Cardinality(curators(E \cup {x}))
  <2> HIDE DEF curators
  <2> QED
    BY <1>3, <1>4, FS_Subset
<1>6. x.publisher # q \/ x.app # app => curators(E \cup {x}) = curators(E)
  <2> HIDE DEF about
  <2> QED
    BY <1>2
<1>7. IsFiniteSet(E \cup {x})
  BY FS_AddElement
<1>8. EndorsementCount(E \cup {x}, q, app) \in Nat /\ EndorsementCount(E, q, app) \in Nat
  BY <1>7, CountIsNatural
<1> HIDE DEF curators
<1> QED
  BY <1>1, <1>5, <1>6, <1>8

\* A further endorsement of a publisher never costs it its place.
THEOREM EndorsementsOnlyHelp == Spec => EndorsementNeverHurts
<1> DEFINE Helps == \A n \in endorsements' \ endorsements :
                      \A r \in ListedFor(n.app) :
                        r.event.publisher = n.publisher => r \in ListedFor(n.app)'
<1>1. SnapshotInvariant /\ [Next]_vars => [Helps]_vars
  <2> SUFFICES ASSUME SnapshotInvariant, [Next]_vars,
                      NEW n \in endorsements' \ endorsements,
                      NEW r \in ListedFor(n.app), r.event.publisher = n.publisher
               PROVE  r \in ListedFor(n.app)'
    OBVIOUS
  <2>1. /\ n \in EndorsementEvents
        /\ endorsements' = endorsements \cup {n}
        /\ config' = config /\ entries' = entries /\ attestations' = attestations
    BY DEF Next, vars, IngestVerifiedPackage, Ingest, Add, IngestAttestation,
           IngestEndorsement, RecordEndorsement
  <2> DEFINE S == Candidates(config, entries, attestations, n.app)
             E == endorsements
             F == endorsements \cup {n}
  <2>2. n.app \in Apps
    BY <2>1, EndorsementEventsAssumption
  <2>3. IsFiniteSet(E) /\ IsFiniteSet(F)
    BY FS_AddElement DEF SnapshotInvariant, Origin
  <2>4. r \in Choice(config, E, S)
    BY <2>2, ListedNow
  <2>5. ListedFor(n.app)' = Choice(config, F, S)
    <3>1. Listed(config, entries, attestations, F, n.app) = Choice(config, F, S)
      BY <2>2, <2>3, ListedIsTheChoice
    <3> QED
      BY <2>1, <3>1 DEF ListedFor
  <2>6. \A c \in S : c.event.app = n.app
    BY <2>2, CandidatesAreRivals
  <2>7. \A c, d \in S : c.event.publisher = d.event.publisher => c = d
    <3>1. Rivals(S)
      BY <2>2, CandidatesAreRivals
    <3> QED
      BY <3>1 DEF Rivals
  <2>8. \A c : /\ Rated(E, c) \in Nat /\ Rated(F, c) \in Nat
               /\ Rated(E, c) <= Rated(F, c)
               /\ n.publisher # c.event.publisher => Rated(F, c) = Rated(E, c)
    BY <2>3, EndorsementsAddUp DEF Rated
  <2>9. config.minimumEndorsements \in Int
    BY ConfigsAssumption DEF SnapshotInvariant, StoreInvariant, TypeOK
  <2> HIDE DEF S, E, F
  <2>10. r \in AheadOf(config, E, S) => r \in AheadOf(config, F, S)
    <3> SUFFICES ASSUME r \in AheadOf(config, E, S) PROVE r \in AheadOf(config, F, S)
      OBVIOUS
    <3>1. /\ r \in S
          /\ Rated(E, r) > 0
          /\ Rated(E, r) >= config.minimumEndorsements
          /\ \A d \in S \ {r} : Rated(E, d) < Rated(E, r)
      BY DEF AheadOf
    <3>2. /\ Rated(F, r) > 0
          /\ Rated(F, r) >= config.minimumEndorsements
      BY <2>8, <2>9, <3>1
    <3>3. ASSUME NEW d \in S \ {r} PROVE Rated(F, d) < Rated(F, r)
      <4>1. Rated(F, d) = Rated(E, d)
        BY <2>7, <2>8, <3>1
      <4> QED
        BY <2>8, <3>1, <4>1
    <3> QED
      BY <3>1, <3>2, <3>3 DEF AheadOf
  <2> QED
    BY <2>4, <2>5, <2>10 DEF Choice
<1> QED
  BY <1>1, SnapshotInvariance, PTL DEF Spec, EndorsementNeverHurts

-----------------------------------------------------------------------------
(* What changes what is listed *)

\* A declaration that leaves what its publisher offers alone leaves the catalogue
\* alone.
LEMMA SameOfferSameListing ==
  ASSUME SnapshotInvariant, NEW r \in Revisions, Add(r),
         LET k == PairOf(r.event)
         IN  SelectAccepted(config, attestations,
                            AddRevision(config, attestations, entries[k], r)) = Offer(k),
         NEW app \in Apps
  PROVE  ListedFor(app)' = ListedFor(app)
<1> DEFINE k == PairOf(r.event)
<1>1. /\ entries' = [entries EXCEPT ![k] = AddRevision(config, attestations, @, r)]
      /\ config' = config /\ attestations' = attestations /\ endorsements' = endorsements
  BY DEF Add
<1>2. entries \in [Pairs -> Seq(Revisions)] /\ k \in Pairs
  BY RevisionFields DEF SnapshotInvariant, StoreInvariant, TypeOK
<1> HIDE DEF k
<1>3. \A l \in Pairs : SelectAccepted(config, attestations, entries'[l])
                         = SelectAccepted(config, attestations, entries[l])
  BY <1>1, <1>2 DEF Offer, k
<1>4. \A q \in Publishers : <<q, app>> \in Pairs
  BY DEF Pairs
<1>5. Candidates(config, entries', attestations, app) = Candidates(config, entries, attestations, app)
  BY <1>3, <1>4 DEF Candidates
<1> QED
  BY <1>1, <1>5 DEF ListedFor, Listed, SnapshotOutcomes

\* The list a delivered declaration is added to.
LEMMA ListOfDelivered ==
  ASSUME SnapshotInvariant, NEW e \in DeclEvents, IngestVerifiedPackage(e)
  PROVE  /\ Fetched(e) \in Revisions /\ Fetched(e).event = e /\ Fetched(e).manifest
         /\ Add(Fetched(e)) /\ Genuine(e)
         /\ PairOf(e) \in Pairs
         /\ entries[PairOf(e)] \in Seq(Revisions)
         /\ NewestFirst(entries[PairOf(e)]) /\ DistinctCommits(entries[PairOf(e)])
         /\ DOMAIN entries[PairOf(e)] = 1 .. Len(entries[PairOf(e)])
         /\ \A i \in 1 .. Len(entries[PairOf(e)]) :
              PairOf(entries[PairOf(e)][i].event) = PairOf(e)
<1>1. Fetched(e) \in Revisions /\ Fetched(e).event = e /\ Fetched(e).manifest
  BY DEF Revisions, Fetched
<1>2. Add(Fetched(e)) /\ Genuine(e)
  BY DEF IngestVerifiedPackage, Genuine, SnapshotInvariant, StoreInvariant, TypeOK
<1>3. PairOf(e) \in Pairs /\ entries[PairOf(e)] \in Seq(Revisions)
  BY <1>1, RevisionFields DEF SnapshotInvariant, StoreInvariant, TypeOK
<1>4. DOMAIN entries[PairOf(e)] = 1 .. Len(entries[PairOf(e)])
  BY <1>3, LenProperties
<1> QED
  BY <1>1, <1>2, <1>3, <1>4 DEF SnapshotInvariant, StoreInvariant, RevisionsWellFormed

\* A declaration the policy does not accept changes nothing in the catalogue,
\* whoever published it, whatever its arrival evicts and however often it has come
\* before.  It needs that no publisher declares one commit of an app from two
\* sources, of what may be let in at all; rejected declarations may claim anything.
THEOREM UnacceptedNewsIsInert ==
  ASSUME CommitPinsSource
  PROVE  Spec => UnacceptedDeclarationIsInert
<1> DEFINE Inert == Relists => \A e \in DeclEvents : IngestVerifiedPackage(e) =>
                      Installable(config, attestations, Fetched(e))
<1>1. SnapshotInvariant /\ [Next]_vars => [Inert]_vars
  <2> SUFFICES ASSUME SnapshotInvariant, NEW e \in DeclEvents, IngestVerifiedPackage(e),
                      ~Installable(config, attestations, Fetched(e)), NEW app \in Apps
               PROVE  ListedFor(app)' = ListedFor(app)
    BY DEF Relists
  <2> DEFINE k == PairOf(e)
             r == Fetched(e)
  <2>1. /\ r \in Revisions /\ r.event = e /\ r.manifest /\ Add(r) /\ Genuine(e)
        /\ k \in Pairs /\ entries[k] \in Seq(Revisions)
        /\ NewestFirst(entries[k]) /\ DistinctCommits(entries[k])
        /\ DOMAIN entries[k] = 1 .. Len(entries[k])
        /\ \A i \in 1 .. Len(entries[k]) : PairOf(entries[k][i].event) = PairOf(e)
    BY ListOfDelivered
  <2>2. PairOf(r.event) = k
    BY <2>1
  <2> HIDE DEF k, r
  <2>3. ASSUME NEW i \in 1 .. Len(entries[k]), entries[k][i].event.commit = r.event.commit
        PROVE  ~Installable(config, attestations, entries[k][i])
    <3>1. entries[k][i] \in Revisions
      BY <2>1, ElementOfSeq
    <3>2. CASE ~entries[k][i].manifest
      BY <3>2 DEF Installable
    <3>3. CASE entries[k][i].manifest
      <4>1. Genuine(entries[k][i].event)
        BY <2>1, <3>3, StoredIsGenuine DEF SnapshotInvariant
      <4>2. AttestationsFor(attestations, entries[k][i].event)
              = AttestationsFor(attestations, r.event)
        BY <2>1, <2>3, <3>1, <4>1, SameEvidence
      <4> QED
        BY <2>1, <4>2 DEF Installable, r
    <3> QED
      BY <3>2, <3>3
  <2>4. SelectAccepted(config, attestations, AddRevision(config, attestations, entries[k], r))
          = Offer(k)
    <3>1. ~Installable(config, attestations, r)
      BY DEF r
    <3> QED
      BY <2>1, <2>3, <3>1, AddIsInert DEF Offer
  <2> QED
    BY <2>1, <2>2, <2>4, SameOfferSameListing
<1> QED
  BY <1>1, SnapshotInvariance, PTL DEF Spec, UnacceptedDeclarationIsInert

\* "A catalogue must not downgrade an accepted package because it received an older
\* event" (docs/event-schema.md:84-85): what is not newer than the offer of its own
\* publisher changes nothing in the catalogue, whatever commits, sources and hashes
\* anyone declares.
THEOREM OlderEventsAreInert == Spec => OlderEventsNeverDowngrade
<1> DEFINE Inert == Relists => \A e \in DeclEvents : IngestVerifiedPackage(e) =>
                      \A q \in Offer(PairOf(e)) : e.created > q.event.created
<1>1. SnapshotInvariant /\ [Next]_vars => [Inert]_vars
  <2> SUFFICES ASSUME SnapshotInvariant, NEW e \in DeclEvents, IngestVerifiedPackage(e),
                      NEW q \in Offer(PairOf(e)), ~(e.created > q.event.created),
                      NEW app \in Apps
               PROVE  ListedFor(app)' = ListedFor(app)
    BY DEF Relists
  <2> DEFINE k == PairOf(e)
             r == Fetched(e)
  <2>1. /\ r \in Revisions /\ r.event = e /\ Add(r)
        /\ k \in Pairs /\ entries[k] \in Seq(Revisions)
        /\ NewestFirst(entries[k]) /\ DistinctCommits(entries[k])
    BY ListOfDelivered
  <2>2. PairOf(r.event) = k
    BY <2>1
  <2>3. q \in SelectAccepted(config, attestations, entries[k])
    BY DEF Offer
  <2> HIDE DEF k, r
  <2>4. r.event.created <= q.event.created
    <3>1. \E i \in 1 .. Len(entries[k]) : entries[k][i] = q
      BY <2>1, <2>3, SelectAcceptedProperties
    <3>2. q \in Revisions
      BY <2>1, <3>1, ElementOfSeq
    <3>3. q.event.created \in Nat /\ r.event.created \in Nat
      BY <2>1, <3>2, RevisionFields
    <3> QED
      BY <2>1, <3>3
  <2>5. SelectAccepted(config, attestations, AddRevision(config, attestations, entries[k], r))
          = Offer(k)
    BY <2>1, <2>3, <2>4, OlderIsInert DEF Offer
  <2> QED
    BY <2>1, <2>2, <2>5, SameOfferSameListing
<1> QED
  BY <1>1, SnapshotInvariance, PTL DEF Spec, OlderEventsNeverDowngrade

-----------------------------------------------------------------------------
(* Saving and loading *)

\* Saving the store and loading the file under the same configuration offers
\* the same revision for every pair, at every moment.
THEOREM ReloadingKeepsOffers == Spec => []ReloadPreservesOffers
<1>1. SnapshotInvariant => ReloadPreservesOffers
  <2> SUFFICES ASSUME SnapshotInvariant, NEW k \in Pairs,
                      NEW cache, cache = CacheOf(entries, attestations)
               PROVE  SelectAccepted(config, LoadAttestations(cache),
                                     LoadEntries(config, cache)[k]) = Offer(k)
    BY DEF ReloadPreservesOffers
  <2>1. cache.entries = entries /\ cache.attestations = attestations
    BY DEF CacheOf
  <2>2. /\ IsFiniteSet(attestations)
        /\ \A a \in attestations : a.signed
        /\ \A a, b \in attestations : SameSlot(a, b) => a = b
    BY DEF SnapshotInvariant, StoreInvariant, Origin, OneAttestationPerSlot
  <2>3. LoadAttestations(cache) = attestations
    BY <2>1, <2>2, AttestationsReload
  <2>4. /\ DOMAIN entries = Pairs
        /\ entries[k] \in Seq(Revisions) /\ NewestFirst(entries[k]) /\ DistinctCommits(entries[k])
    BY DEF SnapshotInvariant, StoreInvariant, TypeOK, RevisionsWellFormed
  <2>5. DOMAIN entries[k] = 1 .. Len(entries[k])
    BY <2>4, LenProperties
  <2>6. \A i \in 1 .. Len(entries[k]) :
          /\ Validate(config, entries[k][i].event)
          /\ entries[k][i].manifest => Translates(entries[k][i].event)
    BY <2>5 DEF SnapshotInvariant, StoreInvariant, RevisionsWellFormed, Origin
  <2>7. LoadEntries(config, cache)[k] = LoadAll(config, attestations, entries[k])
    BY <2>1, <2>3, <2>4 DEF LoadEntries, LoadAll
  <2>8. SelectAccepted(config, attestations, LoadAll(config, attestations, entries[k]))
          = SelectAccepted(config, attestations, entries[k])
    BY <2>4, <2>6, EntriesReload
  <2> QED
    BY <2>3, <2>7, <2>8 DEF Offer
<1> QED
  BY <1>1, SnapshotInvariance, PTL
=============================================================================
