--------------------------- MODULE CatalogLemmas ---------------------------
(***************************************************************************)
(* What the operators of CatalogData return, preserve and bound, for every *)
(* list of revisions, every set of attestations, every policy and every    *)
(* MaxRevisions > 0.  CatalogStoreProofs, SnapshotProofs, CatalogdProofs   *)
(* and OnDemandProofs cite these lemmas by name.                           *)
(***************************************************************************)
EXTENDS CatalogEvents, FiniteLemmas, SequenceTheorems

-----------------------------------------------------------------------------
(* Lists of revisions *)

\* Every revision carries a declaration event with a timestamp.
LEMMA RevisionFields ==
  ASSUME NEW r \in Revisions
  PROVE  /\ r.event \in DeclEvents
         /\ r.event.created \in Nat
         /\ PairOf(r.event) \in Pairs
BY DeclEventsAssumption DEF Revisions

\* What InsertNewestFirst returns: one revision more, and where each one is.
LEMMA InsertIsSequence ==
  ASSUME NEW revs \in Seq(Revisions), NEW r \in Revisions
  PROVE  /\ InsertNewestFirst(revs, r) \in Seq(Revisions)
         /\ Len(InsertNewestFirst(revs, r)) = Len(revs) + 1
<1> DEFINE F(i) == IF i <= Len(revs) /\ revs[i].event.created >= r.event.created
                     THEN revs[i]
                     ELSE IF i = 1 \/ revs[i-1].event.created >= r.event.created
                            THEN r
                            ELSE revs[i-1]
<1>1. Len(revs) + 1 \in Nat
  BY LenProperties
<1>2. \A i \in 1 .. Len(revs) + 1 : F(i) \in Revisions
  <2> TAKE i \in 1 .. Len(revs) + 1
  <2>1. i <= Len(revs) => revs[i] \in Revisions
    BY ElementOfSeq, LenProperties
  <2>2. i # 1 => revs[i-1] \in Revisions
    BY ElementOfSeq, LenProperties
  <2> QED
    BY <2>1, <2>2
<1> HIDE DEF F
<1>3. [i \in 1 .. Len(revs) + 1 |-> F(i)] \in Seq(Revisions)
  BY <1>1, <1>2, IsASeq
<1>4. InsertNewestFirst(revs, r) = [i \in 1 .. Len(revs) + 1 |-> F(i)]
  BY DEF InsertNewestFirst, F
<1>5. Len([i \in 1 .. Len(revs) + 1 |-> F(i)]) = Len(revs) + 1
  BY <1>1
<1> QED
  BY <1>3, <1>4, <1>5

\* RemoveAt drops one revision and keeps the order of the others.
LEMMA RemoveAtProperties ==
  ASSUME NEW revs \in Seq(Revisions), NEW k \in 1 .. Len(revs)
  PROVE  /\ RemoveAt(revs, k) \in Seq(Revisions)
         /\ Len(RemoveAt(revs, k)) = Len(revs) - 1
         /\ \A i \in 1 .. Len(revs) - 1 :
              RemoveAt(revs, k)[i] = IF i < k THEN revs[i] ELSE revs[i+1]
<1> DEFINE n == Len(revs)
           left == SubSeq(revs, 1, k - 1)
           right == SubSeq(revs, k + 1, n)
<1>1. n \in Nat /\ k \in Nat
  BY LenProperties
<1>2. /\ left \in Seq(Revisions)
      /\ Len(left) = k - 1
      /\ \A i \in 1 .. k - 1 : left[i] = revs[i]
  BY <1>1, SubSeqProperties
<1>3. /\ right \in Seq(Revisions)
      /\ Len(right) = n - k
      /\ \A i \in 1 .. n - k : right[i] = revs[k + i]
  BY <1>1, SubSeqProperties
<1>4. RemoveAt(revs, k) = left \o right
  BY DEF RemoveAt
<1> HIDE DEF left, right
<1>5. /\ left \o right \in Seq(Revisions)
      /\ Len(left \o right) = Len(left) + Len(right)
      /\ \A i \in 1 .. Len(left) + Len(right) :
           (left \o right)[i] = IF i <= Len(left) THEN left[i] ELSE right[i - Len(left)]
  BY <1>2, <1>3, ConcatProperties
<1>6. Len(left) + Len(right) = n - 1
  BY <1>1, <1>2, <1>3
<1>7. ASSUME NEW i \in 1 .. n - 1
      PROVE  (left \o right)[i] = IF i < k THEN revs[i] ELSE revs[i+1]
  <2>1. (left \o right)[i] = IF i <= k - 1 THEN left[i] ELSE right[i - (k - 1)]
    BY <1>2, <1>5, <1>6
  <2>2. CASE i < k
    BY <1>1, <1>2, <2>1, <2>2
  <2>3. CASE ~(i < k)
    <3>1. i - (k - 1) \in 1 .. n - k /\ k + (i - (k - 1)) = i + 1
      BY <1>1, <2>3
    <3>2. right[i - (k - 1)] = revs[i + 1]
      BY <1>3, <3>1
    <3> QED
      BY <1>1, <2>1, <2>3, <3>2
  <2> QED
    BY <2>2, <2>3
<1> QED
  BY <1>4, <1>5, <1>6, <1>7

\* In a list that is newest first, r lands behind every revision that is not
\* older and before every older one.
LEMMA InsertPosition ==
  ASSUME NEW revs \in Seq(Revisions), NewestFirst(revs), NEW r \in Revisions
  PROVE  \E p \in 0 .. Len(revs) :
           /\ \A i \in 1 .. p : revs[i].event.created >= r.event.created
           /\ \A i \in p + 1 .. Len(revs) : revs[i].event.created < r.event.created
           /\ \A i \in 1 .. Len(revs) + 1 :
                InsertNewestFirst(revs, r)[i] =
                  IF i <= p THEN revs[i] ELSE IF i = p + 1 THEN r ELSE revs[i-1]
<1> DEFINE n == Len(revs)
           older == {i \in 1 .. n : revs[i].event.created < r.event.created}
<1>1. /\ n \in Nat
      /\ DOMAIN revs = 1 .. n
      /\ r.event.created \in Nat
      /\ \A i \in 1 .. n : revs[i].event.created \in Nat
  BY LenProperties, ElementOfSeq, RevisionFields
<1>2. \E p \in 0 .. n :
        /\ \A i \in 1 .. p : revs[i].event.created >= r.event.created
        /\ \A i \in p + 1 .. n : revs[i].event.created < r.event.created
  <2>1. CASE older = {}
    <3>1. \A i \in 1 .. n : revs[i].event.created >= r.event.created
      BY <1>1, <2>1
    <3> QED
      BY <1>1, <3>1
  <2>2. CASE older # {}
    <3>1. older \in SUBSET Nat
      BY <1>1
    <3>2. PICK m \in older : \A x \in older : m <= x
      BY <2>2, <3>1, MinIsLeast
    <3>3. \A i \in 1 .. m - 1 : revs[i].event.created >= r.event.created
      BY <1>1, <3>1, <3>2
    <3>4. \A i \in m .. n : revs[i].event.created < r.event.created
      BY <1>1, <3>1, <3>2 DEF NewestFirst
    <3>5. m - 1 \in 0 .. n /\ (m - 1) + 1 = m
      BY <1>1, <3>2
    <3> QED
      BY <3>3, <3>4, <3>5
  <2> QED
    BY <2>1, <2>2
<1>3. PICK p \in 0 .. n :
        /\ \A i \in 1 .. p : revs[i].event.created >= r.event.created
        /\ \A i \in p + 1 .. n : revs[i].event.created < r.event.created
  BY <1>2
<1>4. ASSUME NEW i \in 1 .. n + 1
      PROVE  InsertNewestFirst(revs, r)[i] =
               IF i <= p THEN revs[i] ELSE IF i = p + 1 THEN r ELSE revs[i-1]
  <2>1. InsertNewestFirst(revs, r)[i] =
          IF i <= n /\ revs[i].event.created >= r.event.created
            THEN revs[i]
            ELSE IF i = 1 \/ revs[i-1].event.created >= r.event.created
                   THEN r
                   ELSE revs[i-1]
    BY <1>1 DEF InsertNewestFirst
  <2>2. CASE i <= p
    BY <1>1, <1>3, <2>1, <2>2
  <2>3. CASE i = p + 1
    <3>1. ~(i <= n /\ revs[i].event.created >= r.event.created)
      BY <1>1, <1>3, <2>3
    <3>2. i = 1 \/ revs[i-1].event.created >= r.event.created
      BY <1>1, <1>3, <2>3
    <3> QED
      BY <1>3, <2>1, <2>3, <3>1, <3>2
  <2>4. CASE i > p + 1
    <3>1. ~(i <= n /\ revs[i].event.created >= r.event.created)
      BY <1>1, <1>3, <2>4
    <3>2. ~(i = 1 \/ revs[i-1].event.created >= r.event.created)
      BY <1>1, <1>3, <2>4
    <3> QED
      BY <1>3, <2>1, <2>4, <3>1, <3>2
  <2> QED
    BY <1>1, <1>3, <2>2, <2>3, <2>4
<1> QED
  BY <1>3, <1>4

\* So the list stays newest first, and a new commit is still listed once.
LEMMA InsertWellFormed ==
  ASSUME NEW revs \in Seq(Revisions), NewestFirst(revs), DistinctCommits(revs),
         NEW r \in Revisions,
         \A i \in 1 .. Len(revs) : revs[i].event.commit # r.event.commit
  PROVE  /\ InsertNewestFirst(revs, r) \in Seq(Revisions)
         /\ Len(InsertNewestFirst(revs, r)) = Len(revs) + 1
         /\ NewestFirst(InsertNewestFirst(revs, r))
         /\ DistinctCommits(InsertNewestFirst(revs, r))
<1> DEFINE n == Len(revs)
           ins == InsertNewestFirst(revs, r)
<1>1. /\ n \in Nat
      /\ DOMAIN revs = 1 .. n
      /\ r.event.created \in Nat
      /\ \A i \in 1 .. n : revs[i].event.created \in Nat
  BY LenProperties, ElementOfSeq, RevisionFields
<1>2. ins \in Seq(Revisions) /\ Len(ins) = n + 1 /\ DOMAIN ins = 1 .. n + 1
  BY InsertIsSequence, LenProperties
<1>3. PICK p \in 0 .. n :
        /\ \A i \in 1 .. p : revs[i].event.created >= r.event.created
        /\ \A i \in p + 1 .. n : revs[i].event.created < r.event.created
        /\ \A i \in 1 .. n + 1 :
             ins[i] = IF i <= p THEN revs[i] ELSE IF i = p + 1 THEN r ELSE revs[i-1]
  BY InsertPosition
<1> HIDE DEF ins
<1>4. NewestFirst(ins)
  <2> SUFFICES ASSUME NEW i \in 1 .. n + 1, NEW j \in 1 .. n + 1, i < j
               PROVE  ins[i].event.created >= ins[j].event.created
    BY <1>2 DEF NewestFirst
  <2>1. CASE j <= p
    <3>1. ins[i] = revs[i] /\ ins[j] = revs[j]
      BY <1>1, <1>3, <2>1
    <3>2. i \in 1 .. n /\ j \in 1 .. n
      BY <1>1, <2>1
    <3>3. revs[i].event.created >= revs[j].event.created
      BY <1>1, <3>2 DEF NewestFirst
    <3> QED
      BY <3>1, <3>3
  <2>2. CASE j = p + 1
    BY <1>1, <1>3, <2>2 DEF NewestFirst
  <2>3. CASE j > p + 1 /\ i <= p
    <3>1. ins[i] = revs[i] /\ ins[j] = revs[j-1]
      BY <1>1, <1>3, <2>3, SMTT(30)
    <3>2. i \in 1 .. n /\ j - 1 \in 1 .. n /\ i < j - 1
      BY <1>1, <2>3
    <3>3. revs[i].event.created >= revs[j-1].event.created
      BY <1>1, <3>2 DEF NewestFirst
    <3> QED
      BY <3>1, <3>3
  <2>4. CASE j > p + 1 /\ i = p + 1
    <3>1. ins[i] = r /\ ins[j] = revs[j-1]
      BY <1>1, <1>3, <2>4
    <3>2. j - 1 \in 1 .. n /\ j - 1 \in p + 1 .. n
      BY <1>1, <2>4
    <3>3. revs[j-1].event.created < r.event.created
      BY <1>3, <3>2
    <3> QED
      BY <1>1, <3>1, <3>2, <3>3
  <2>5. CASE j > p + 1 /\ i > p + 1
    <3>1. ins[i] = revs[i-1] /\ ins[j] = revs[j-1]
      BY <1>1, <1>3, <2>5
    <3>2. i - 1 \in 1 .. n /\ j - 1 \in 1 .. n /\ i - 1 < j - 1
      BY <1>1, <2>5
    <3>3. revs[i-1].event.created >= revs[j-1].event.created
      BY <1>1, <3>2 DEF NewestFirst
    <3> QED
      BY <3>1, <3>3
  <2> QED
    BY <1>1, <1>3, <2>1, <2>2, <2>3, <2>4, <2>5
<1>5. DistinctCommits(ins)
  <2> SUFFICES ASSUME NEW i \in 1 .. n + 1, NEW j \in 1 .. n + 1, i < j
               PROVE  ins[i].event.commit # ins[j].event.commit
    BY <1>1, <1>2 DEF DistinctCommits
  <2>1. CASE j <= p
    <3>1. ins[i] = revs[i] /\ ins[j] = revs[j]
      BY <1>1, <1>3, <2>1
    <3>2. i \in 1 .. n /\ j \in 1 .. n /\ i # j
      BY <1>1, <2>1
    <3>3. revs[i].event.commit # revs[j].event.commit
      BY <1>1, <3>2 DEF DistinctCommits
    <3> QED
      BY <3>1, <3>3
  <2>2. CASE j = p + 1
    <3>1. ins[i] = revs[i] /\ ins[j] = r /\ i \in 1 .. n
      BY <1>1, <1>3, <2>2
    <3> QED
      BY <3>1
  <2>3. CASE j > p + 1 /\ i <= p
    <3>1. ins[i] = revs[i] /\ ins[j] = revs[j-1]
      BY <1>1, <1>3, <2>3, SMTT(30)
    <3>2. i \in 1 .. n /\ j-1 \in 1 .. n /\ i # j-1
      BY <1>1, <2>3
    <3>3. revs[i].event.commit # revs[j-1].event.commit
      BY <1>1, <3>2 DEF DistinctCommits
    <3> QED
      BY <3>1, <3>3
  <2>4. CASE j > p + 1 /\ i = p + 1
    <3>1. ins[i] = r /\ ins[j] = revs[j-1] /\ j - 1 \in 1 .. n
      BY <1>1, <1>3, <2>4
    <3> QED
      BY <3>1
  <2>5. CASE j > p + 1 /\ i > p + 1
    <3>1. ins[i] = revs[i-1] /\ ins[j] = revs[j-1]
      BY <1>1, <1>3, <2>5
    <3>2. i-1 \in 1 .. n /\ j-1 \in 1 .. n /\ i-1 # j-1
      BY <1>1, <2>5
    <3>3. revs[i-1].event.commit # revs[j-1].event.commit
      BY <1>1, <3>2 DEF DistinctCommits
    <3> QED
      BY <3>1, <3>3
  <2> QED
    BY <1>1, <1>3, <2>1, <2>2, <2>3, <2>4, <2>5
<1> QED
  BY <1>2, <1>4, <1>5 DEF ins

\* Which revisions the longer list holds, and that no position gets older.
LEMMA InsertMembers ==
  ASSUME NEW revs \in Seq(Revisions), NewestFirst(revs), NEW r \in Revisions
  PROVE  /\ \A i \in 1 .. Len(revs) + 1 :
              \/ InsertNewestFirst(revs, r)[i] = r
              \/ \E j \in 1 .. Len(revs) : InsertNewestFirst(revs, r)[i] = revs[j]
         /\ \E i \in 1 .. Len(revs) + 1 : InsertNewestFirst(revs, r)[i] = r
         /\ \A j \in 1 .. Len(revs) : \E i \in 1 .. Len(revs) + 1 :
              InsertNewestFirst(revs, r)[i] = revs[j]
         /\ \A i \in 1 .. Len(revs) :
              InsertNewestFirst(revs, r)[i].event.created >= revs[i].event.created
<1> DEFINE n == Len(revs)
           ins == InsertNewestFirst(revs, r)
<1>1. /\ n \in Nat
      /\ DOMAIN revs = 1 .. n
      /\ r.event.created \in Nat
      /\ \A i \in 1 .. n : revs[i].event.created \in Nat
  BY LenProperties, ElementOfSeq, RevisionFields
<1>2. PICK p \in 0 .. n :
        /\ \A i \in 1 .. p : revs[i].event.created >= r.event.created
        /\ \A i \in p + 1 .. n : revs[i].event.created < r.event.created
        /\ \A i \in 1 .. n + 1 :
             ins[i] = IF i <= p THEN revs[i] ELSE IF i = p + 1 THEN r ELSE revs[i-1]
  BY InsertPosition
<1> HIDE DEF ins
<1>3. ASSUME NEW i \in 1 .. n + 1 PROVE ins[i] = r \/ \E j \in 1 .. n : ins[i] = revs[j]
  <2>1. CASE i <= p
    BY <1>1, <1>2, <2>1
  <2>2. CASE i = p + 1
    BY <1>1, <1>2, <2>2
  <2>3. CASE i > p + 1
    <3>1. ins[i] = revs[i-1] /\ i - 1 \in 1 .. n
      BY <1>1, <1>2, <2>3
    <3> QED
      BY <3>1
  <2> QED
    BY <1>1, <2>1, <2>2, <2>3
<1>4. ins[p + 1] = r /\ p + 1 \in 1 .. n + 1
  BY <1>1, <1>2
<1>5. ASSUME NEW j \in 1 .. n PROVE \E i \in 1 .. n + 1 : ins[i] = revs[j]
  <2>1. CASE j <= p
    BY <1>1, <1>2, <2>1
  <2>2. CASE j > p
    <3>1. j + 1 \in 1 .. n + 1 /\ ins[j + 1] = revs[(j + 1) - 1] /\ (j + 1) - 1 = j
      BY <1>1, <1>2, <2>2
    <3> QED
      BY <3>1
  <2> QED
    BY <1>1, <2>1, <2>2
<1>6. ASSUME NEW i \in 1 .. n PROVE ins[i].event.created >= revs[i].event.created
  <2>1. CASE i <= p
    BY <1>1, <1>2, <2>1
  <2>2. CASE i = p + 1
    BY <1>1, <1>2, <2>2
  <2>3. CASE i > p + 1
    <3>1. ins[i] = revs[i-1] /\ i - 1 \in 1 .. n /\ i - 1 < i
      BY <1>1, <1>2, <2>3
    <3>2. revs[i-1].event.created >= revs[i].event.created
      BY <1>1, <3>1 DEF NewestFirst
    <3> QED
      BY <3>1, <3>2
  <2> QED
    BY <1>1, <2>1, <2>2, <2>3
<1> QED
  BY <1>3, <1>4, <1>5, <1>6 DEF ins

\* Dropping the one revision of r's commit leaves a list without that commit.
LEMMA RemoveWellFormed ==
  ASSUME NEW revs \in Seq(Revisions), NewestFirst(revs), DistinctCommits(revs),
         NEW k \in 1 .. Len(revs)
  PROVE  /\ NewestFirst(RemoveAt(revs, k))
         /\ DistinctCommits(RemoveAt(revs, k))
         /\ \A i \in 1 .. Len(revs) - 1 :
              RemoveAt(revs, k)[i].event.commit # revs[k].event.commit
<1> DEFINE n == Len(revs)
           rem == RemoveAt(revs, k)
           At(i) == IF i < k THEN i ELSE i + 1
<1>1. n \in Nat /\ DOMAIN revs = 1 .. n
  BY LenProperties
<1>2. /\ rem \in Seq(Revisions)
      /\ Len(rem) = n - 1
      /\ \A i \in 1 .. n - 1 : rem[i] = IF i < k THEN revs[i] ELSE revs[i+1]
  BY RemoveAtProperties
<1>3. DOMAIN rem = 1 .. n - 1
  BY <1>2, LenProperties
<1> HIDE DEF rem
<1>4. ASSUME NEW i \in 1 .. n - 1
      PROVE  /\ At(i) \in 1 .. n
             /\ At(i) # k
             /\ rem[i] = revs[At(i)]
             /\ \A j \in 1 .. n - 1 : i < j => At(i) < At(j)
             /\ \A j \in 1 .. n - 1 : At(i) = At(j) => i = j
  BY <1>1, <1>2
<1> HIDE DEF At
<1>5. NewestFirst(rem)
  <2> SUFFICES ASSUME NEW i \in 1 .. n - 1, NEW j \in 1 .. n - 1, i < j
               PROVE  rem[i].event.created >= rem[j].event.created
    BY <1>3 DEF NewestFirst
  <2>1. At(i) \in 1 .. n /\ At(j) \in 1 .. n /\ At(i) < At(j)
    BY <1>4
  <2>2. revs[At(i)].event.created >= revs[At(j)].event.created
    BY <1>1, <2>1 DEF NewestFirst
  <2> QED
    BY <1>4, <2>2
<1>6. DistinctCommits(rem)
  <2> SUFFICES ASSUME NEW i \in 1 .. n - 1, NEW j \in 1 .. n - 1,
                      rem[i].event.commit = rem[j].event.commit
               PROVE  i = j
    BY <1>3 DEF DistinctCommits
  <2>1. At(i) \in 1 .. n /\ At(j) \in 1 .. n
    BY <1>4
  <2>2. revs[At(i)].event.commit = revs[At(j)].event.commit
    BY <1>4
  <2>3. At(i) = At(j)
    BY <1>1, <2>1, <2>2 DEF DistinctCommits
  <2> QED
    BY <1>4, <2>3
<1>7. ASSUME NEW i \in 1 .. n - 1 PROVE rem[i].event.commit # revs[k].event.commit
  <2>1. At(i) \in 1 .. n /\ At(i) # k /\ rem[i] = revs[At(i)]
    BY <1>4
  <2>2. revs[At(i)].event.commit # revs[k].event.commit
    BY <1>1, <2>1 DEF DistinctCommits
  <2> QED
    BY <2>1, <2>2
<1> QED
  BY <1>5, <1>6, <1>7 DEF rem

\* The three outcomes of UpsertRevision on a list that holds a commit once.
LEMMA UpsertCases ==
  ASSUME NEW revs \in Seq(Revisions), DistinctCommits(revs), NEW r \in Revisions
  PROVE  \/ /\ \A i \in 1 .. Len(revs) : revs[i].event.commit # r.event.commit
            /\ UpsertRevision(revs, r) = InsertNewestFirst(revs, r)
         \/ \E k \in 1 .. Len(revs) :
              /\ revs[k].event.commit = r.event.commit
              /\ revs[k].event.created >= r.event.created
              /\ UpsertRevision(revs, r) = revs
         \/ \E k \in 1 .. Len(revs) :
              /\ revs[k].event.commit = r.event.commit
              /\ r.event.created > revs[k].event.created
              /\ UpsertRevision(revs, r) = InsertNewestFirst(RemoveAt(revs, k), r)
<1> DEFINE n == Len(revs)
           same == {i \in DOMAIN revs : revs[i].event.commit = r.event.commit}
<1>1. /\ n \in Nat
      /\ DOMAIN revs = 1 .. n
      /\ r.event.created \in Nat
      /\ \A i \in 1 .. n : revs[i].event.created \in Nat
  BY LenProperties, ElementOfSeq, RevisionFields
<1>2. CASE same = {}
  <2>1. UpsertRevision(revs, r) = InsertNewestFirst(revs, r)
    BY <1>2 DEF UpsertRevision
  <2> QED
    BY <1>1, <1>2, <2>1
<1>3. CASE same # {}
  <2>1. same \in SUBSET Nat
    BY <1>1
  <2>2. Min(same) \in same
    BY <1>3, <2>1, MinIsLeast
  <2>3. PICK k \in 1 .. n : k = Min(same) /\ revs[k].event.commit = r.event.commit
    BY <1>1, <2>2
  <2>4. UpsertRevision(revs, r) =
          IF revs[k].event.created >= r.event.created
            THEN revs
            ELSE InsertNewestFirst(RemoveAt(revs, k), r)
    BY <1>3, <2>3 DEF UpsertRevision
  <2>5. CASE revs[k].event.created >= r.event.created
    BY <2>3, <2>4, <2>5
  <2>6. CASE ~(revs[k].event.created >= r.event.created)
    <3>1. r.event.created > revs[k].event.created
      BY <1>1, <2>6
    <3> QED
      BY <2>3, <2>4, <2>6, <3>1
  <2> QED
    BY <2>5, <2>6
<1> QED
  BY <1>2, <1>3

\* What UpsertRevision promises of its result u: it is well formed, represents
\* r's commit, loses nothing but an older event of that commit, and no position
\* in it is older than before.
UpsertContract(revs, r, u) ==
  /\ u \in Seq(Revisions)
  /\ NewestFirst(u)
  /\ DistinctCommits(u)
  /\ Len(u) \in {Len(revs), Len(revs) + 1}
  /\ \A i \in 1 .. Len(u) : u[i] = r \/ \E j \in 1 .. Len(revs) : u[i] = revs[j]
  /\ \A j \in 1 .. Len(revs) :
       \/ \E i \in 1 .. Len(u) : u[i] = revs[j]
       \/ /\ \E i \in 1 .. Len(u) : u[i] = r
          /\ r.event.commit = revs[j].event.commit
          /\ r.event.created > revs[j].event.created
  /\ \E i \in 1 .. Len(u) : /\ u[i].event.commit = r.event.commit
                            /\ u[i].event.created >= r.event.created
  /\ \A i \in 1 .. Len(revs) : u[i].event.created >= revs[i].event.created

\* On a well-formed list UpsertRevision keeps its contract.
LEMMA UpsertProperties ==
  ASSUME NEW revs \in Seq(Revisions), NewestFirst(revs), DistinctCommits(revs),
         NEW r \in Revisions
  PROVE  UpsertContract(revs, r, UpsertRevision(revs, r))
<1> SUFFICES ASSUME NEW u, u = UpsertRevision(revs, r)
             PROVE  UpsertContract(revs, r, u)
  OBVIOUS
<1> DEFINE n == Len(revs)
<1>1. /\ n \in Nat
      /\ DOMAIN revs = 1 .. n
      /\ r.event.created \in Nat
      /\ \A i \in 1 .. n : revs[i].event.created \in Nat
  BY LenProperties, ElementOfSeq, RevisionFields
<1>2. CASE /\ \A i \in 1 .. n : revs[i].event.commit # r.event.commit
           /\ u = InsertNewestFirst(revs, r)
  <2>1. /\ u \in Seq(Revisions) /\ Len(u) = n + 1
        /\ NewestFirst(u) /\ DistinctCommits(u)
    BY <1>2, InsertWellFormed
  <2>2. /\ \A i \in 1 .. n + 1 : u[i] = r \/ \E j \in 1 .. n : u[i] = revs[j]
        /\ \E i \in 1 .. n + 1 : u[i] = r
        /\ \A j \in 1 .. n : \E i \in 1 .. n + 1 : u[i] = revs[j]
        /\ \A i \in 1 .. n : u[i].event.created >= revs[i].event.created
    BY <1>2, InsertMembers
  <2>3. \E i \in 1 .. n + 1 : /\ u[i].event.commit = r.event.commit
                              /\ u[i].event.created >= r.event.created
    BY <1>1, <2>2
  <2> QED
    BY <2>1, <2>2, <2>3 DEF UpsertContract
<1>3. CASE \E k \in 1 .. n : /\ revs[k].event.commit = r.event.commit
                             /\ revs[k].event.created >= r.event.created
                             /\ u = revs
  <2>1. \A i \in 1 .. n : u[i].event.created >= revs[i].event.created
    BY <1>1, <1>3
  <2> QED
    BY <1>1, <1>3, <2>1 DEF UpsertContract
<1>4. CASE \E k \in 1 .. n :
             /\ revs[k].event.commit = r.event.commit
             /\ r.event.created > revs[k].event.created
             /\ u = InsertNewestFirst(RemoveAt(revs, k), r)
  <2>1. PICK k \in 1 .. n :
             /\ revs[k].event.commit = r.event.commit
             /\ r.event.created > revs[k].event.created
             /\ u = InsertNewestFirst(RemoveAt(revs, k), r)
    BY <1>4
  <2> DEFINE rem == RemoveAt(revs, k)
  <2>2. /\ rem \in Seq(Revisions)
        /\ Len(rem) = n - 1
        /\ \A i \in 1 .. n - 1 : rem[i] = IF i < k THEN revs[i] ELSE revs[i+1]
    BY RemoveAtProperties
  <2>3. /\ NewestFirst(rem) /\ DistinctCommits(rem)
        /\ \A i \in 1 .. n - 1 : rem[i].event.commit # r.event.commit
    BY <2>1, RemoveWellFormed
  <2>4. u = InsertNewestFirst(rem, r)
    BY <2>1
  <2> HIDE DEF rem
  <2>5. /\ u \in Seq(Revisions) /\ Len(u) = Len(rem) + 1
        /\ NewestFirst(u) /\ DistinctCommits(u)
    BY <2>2, <2>3, <2>4, InsertWellFormed
  <2>6. /\ \A i \in 1 .. Len(rem) + 1 : u[i] = r \/ \E j \in 1 .. Len(rem) : u[i] = rem[j]
        /\ \E i \in 1 .. Len(rem) + 1 : u[i] = r
        /\ \A j \in 1 .. Len(rem) : \E i \in 1 .. Len(rem) + 1 : u[i] = rem[j]
        /\ \A i \in 1 .. Len(rem) : u[i].event.created >= rem[i].event.created
    <3> DEFINE ins == InsertNewestFirst(rem, r)
    <3>1. /\ \A i \in 1 .. Len(rem) + 1 :
               ins[i] = r \/ \E j \in 1 .. Len(rem) : ins[i] = rem[j]
          /\ \E i \in 1 .. Len(rem) + 1 : ins[i] = r
          /\ \A j \in 1 .. Len(rem) : \E i \in 1 .. Len(rem) + 1 : ins[i] = rem[j]
          /\ \A i \in 1 .. Len(rem) : ins[i].event.created >= rem[i].event.created
      BY <2>2, <2>3, InsertMembers
    <3>2. u = ins
      BY <2>4
    <3> HIDE DEF ins
    <3> QED
      BY <3>1, <3>2
  <2>7. Len(rem) + 1 = n
    BY <1>1, <2>2
  <2>8. Len(u) = n
    BY <2>5, <2>7
  <2>9. ASSUME NEW i \in 1 .. n PROVE u[i] = r \/ \E j \in 1 .. n : u[i] = revs[j]
    <3>1. ASSUME NEW j \in 1 .. n - 1 PROVE \E l \in 1 .. n : rem[j] = revs[l]
      <4>1. rem[j] = revs[IF j < k THEN j ELSE j + 1] /\ (IF j < k THEN j ELSE j + 1) \in 1 .. n
        BY <1>1, <2>2
      <4> QED
        BY <4>1
    <3> QED
      BY <2>2, <2>6, <2>7, <3>1
  <2>10. ASSUME NEW j \in 1 .. n
         PROVE  \/ \E i \in 1 .. n : u[i] = revs[j]
                \/ /\ \E i \in 1 .. n : u[i] = r
                   /\ r.event.commit = revs[j].event.commit
                   /\ r.event.created > revs[j].event.created
    <3>1. CASE j = k
      BY <2>1, <2>6, <2>7, <3>1
    <3>2. CASE j < k
      <4>1. j \in 1 .. Len(rem) /\ rem[j] = revs[j]
        BY <1>1, <2>2, <3>2
      <4> QED
        BY <2>6, <2>7, <4>1
    <3>3. CASE j > k
      <4>1. j - 1 \in 1 .. Len(rem) /\ rem[j-1] = revs[(j-1)+1] /\ (j-1)+1 = j
        BY <1>1, <2>2, <3>3
      <4>2. \E i \in 1 .. Len(rem) + 1 : u[i] = rem[j-1]
        BY <2>6, <4>1
      <4> QED
        BY <2>7, <4>1, <4>2
    <3> QED
      BY <1>1, <3>1, <3>2, <3>3
  <2>11. \E i \in 1 .. n : /\ u[i].event.commit = r.event.commit
                           /\ u[i].event.created >= r.event.created
    BY <1>1, <2>6, <2>7
  <2>12. ASSUME NEW i \in 1 .. n PROVE u[i].event.created >= revs[i].event.created
    <3>1. PICK p \in 0 .. Len(rem) :
            /\ \A l \in 1 .. p : rem[l].event.created >= r.event.created
            /\ \A l \in 1 .. Len(rem) + 1 :
                 u[l] = IF l <= p THEN rem[l] ELSE IF l = p + 1 THEN r ELSE rem[l-1]
      <4> DEFINE ins == InsertNewestFirst(rem, r)
      <4>1. \E p \in 0 .. Len(rem) :
              /\ \A l \in 1 .. p : rem[l].event.created >= r.event.created
              /\ \A l \in p + 1 .. Len(rem) : rem[l].event.created < r.event.created
              /\ \A l \in 1 .. Len(rem) + 1 :
                   ins[l] = IF l <= p THEN rem[l] ELSE IF l = p + 1 THEN r ELSE rem[l-1]
        BY <2>2, <2>3, InsertPosition
      <4>2. u = ins
        BY <2>4
      <4> HIDE DEF ins
      <4> QED
        BY <4>1, <4>2
    <3>2. \A l \in 1 .. n - 1 : l >= k => rem[l].event.created < r.event.created
      <4> SUFFICES ASSUME NEW l \in 1 .. n - 1, l >= k
                   PROVE  rem[l].event.created < r.event.created
        OBVIOUS
      <4>1. rem[l] = revs[l+1] /\ l + 1 \in 1 .. n /\ k < l + 1
        BY <1>1, <2>2
      <4>2. revs[k].event.created >= revs[l+1].event.created
        BY <1>1, <4>1 DEF NewestFirst
      <4> QED
        BY <1>1, <2>1, <4>1, <4>2
    <3>3. \A l \in 1 .. n - 1 : rem[l].event.created \in Nat
      BY <2>2, ElementOfSeq, RevisionFields
    <3>4. p < k
      <4> SUFFICES ASSUME ~(p < k) PROVE FALSE
        OBVIOUS
      <4>1. k \in 1 .. p /\ k \in 1 .. n - 1 /\ k >= k
        BY <1>1, <2>2
      <4>2. rem[k].event.created >= r.event.created /\ rem[k].event.created < r.event.created
        BY <3>1, <3>2, <4>1
      <4> QED
        BY <1>1, <3>3, <4>1, <4>2
    <3>5. CASE i <= p
      <4>1. i \in 1 .. n - 1 /\ rem[i] = revs[i]
        BY <1>1, <2>2, <3>4, <3>5
      <4>2. u[i].event.created >= rem[i].event.created
        BY <2>2, <2>6, <4>1
      <4> QED
        BY <4>1, <4>2
    <3>6. CASE i = p + 1
      <4>1. u[i] = r
        BY <2>7, <3>1, <3>6
      <4>2. CASE i = k
        BY <1>1, <2>1, <4>1, <4>2
      <4>3. CASE i < k
        <5>1. i \in 1 .. n - 1 /\ rem[i] = revs[i]
          BY <1>1, <2>2, <4>3
        <5>2. u[i].event.created >= rem[i].event.created
          BY <2>2, <2>6, <5>1
        <5> QED
          BY <5>1, <5>2
      <4> QED
        BY <1>1, <3>4, <3>6, <4>2, <4>3
    <3>7. CASE i > p + 1
      <4>1. u[i] = rem[i-1] /\ i - 1 \in 1 .. n - 1
        BY <1>1, <2>7, <3>1, <3>7
      <4>2. CASE i - 1 >= k
        <5>1. rem[i-1] = revs[(i-1)+1] /\ (i-1)+1 = i
          BY <1>1, <2>2, <4>1, <4>2
        <5> QED
          BY <1>1, <4>1, <5>1
      <4>3. CASE i - 1 < k
        <5>1. rem[i-1] = revs[i-1] /\ i - 1 \in 1 .. n /\ i - 1 < i
          BY <1>1, <2>2, <4>1, <4>3
        <5>2. revs[i-1].event.created >= revs[i].event.created
          BY <1>1, <5>1 DEF NewestFirst
        <5> QED
          BY <4>1, <5>1, <5>2
      <4> QED
        BY <1>1, <4>2, <4>3
    <3> QED
      BY <1>1, <2>2, <3>1, <3>5, <3>6, <3>7
  <2> QED
    BY <2>5, <2>8, <2>9, <2>10, <2>11, <2>12 DEF UpsertContract
<1> QED
  BY <1>2, <1>3, <1>4, UpsertCases

\* What CapRevisions promises of its result c: the first MaxRevisions stay in
\* place, at most one more is kept, and whenever an installable revision is cut
\* one that is no older is kept.
CapContract(p, atts, u, c) ==
  /\ c \in Seq(Revisions)
  /\ NewestFirst(c)
  /\ DistinctCommits(c)
  /\ Len(c) <= MaxRevisions + 1
  /\ \A i \in 1 .. Len(c) : \E j \in 1 .. Len(u) : c[i] = u[j]
  /\ \A i \in 1 .. Len(u) : i <= MaxRevisions => i <= Len(c) /\ c[i] = u[i]
  /\ \A i \in 1 .. Len(u) : Installable(p, atts, u[i]) =>
       \E j \in 1 .. Len(c) : /\ Installable(p, atts, c[j])
                              /\ c[j].event.created >= u[i].event.created

\* On a well-formed list CapRevisions keeps its contract.
LEMMA CapProperties ==
  ASSUME NEW u \in Seq(Revisions), NewestFirst(u), DistinctCommits(u),
         NEW p, NEW atts
  PROVE  CapContract(p, atts, u, CapRevisions(p, atts, u))
<1> SUFFICES ASSUME NEW c, c = CapRevisions(p, atts, u)
             PROVE  CapContract(p, atts, u, c)
  OBVIOUS
<1> DEFINE n == Len(u)
           beyond == {i \in MaxRevisions + 1 .. n : Installable(p, atts, u[i])}
           kept == SubSeq(u, 1, MaxRevisions)
<1>1. /\ n \in Nat
      /\ DOMAIN u = 1 .. n
      /\ MaxRevisions \in Nat /\ MaxRevisions > 0
      /\ \A i \in 1 .. n : u[i] \in Revisions /\ u[i].event.created \in Nat
  BY LenProperties, ElementOfSeq, RevisionFields, MaxRevisionsAssumption
<1>2. CASE n <= MaxRevisions
  <2>1. c = u
    BY <1>2 DEF CapRevisions
  <2>2. \A i \in 1 .. n : u[i].event.created >= u[i].event.created
    BY <1>1
  <2> QED
    BY <1>1, <1>2, <2>1, <2>2 DEF CapContract
<1>3. CASE n > MaxRevisions
  <2>1. /\ kept \in Seq(Revisions)
        /\ Len(kept) = MaxRevisions
        /\ \A i \in 1 .. MaxRevisions : kept[i] = u[i]
    <3>1. /\ 1 \in 1 .. n + 1
          /\ MaxRevisions \in 1 - 1 .. n
          /\ MaxRevisions - 1 + 1 = MaxRevisions
          /\ \A i \in 1 .. MaxRevisions : 1 + i - 1 = i
      BY <1>1, <1>3
    <3> QED
      BY <3>1, SubSeqProperties
  <2>2. ~(n <= MaxRevisions)
    BY <1>1, <1>3
  <2>3. c = IF beyond = {} THEN kept ELSE Append(kept, u[Min(beyond)])
    BY <2>2 DEF CapRevisions
  <2>4. PICK last \in MaxRevisions .. n :
          /\ Len(c) <= MaxRevisions + 1
          /\ c \in Seq(Revisions)
          /\ Len(c) = IF last = MaxRevisions THEN MaxRevisions ELSE MaxRevisions + 1
          /\ \A i \in 1 .. MaxRevisions : c[i] = u[i]
          /\ last # MaxRevisions => /\ c[MaxRevisions + 1] = u[last]
                                    /\ Installable(p, atts, u[last])
          /\ \A i \in MaxRevisions + 1 .. n :
               Installable(p, atts, u[i]) => last # MaxRevisions /\ last <= i
    <3>1. CASE beyond = {}
      <4>1. c = kept
        BY <2>3, <3>1
      <4>2. \A i \in MaxRevisions + 1 .. n : ~ Installable(p, atts, u[i])
        BY <3>1
      <4> QED
        BY <1>1, <1>3, <2>1, <4>1, <4>2
    <3>2. CASE beyond # {}
      <4>1. beyond \in SUBSET Nat
        BY <1>1
      <4>2. PICK m \in beyond : m = Min(beyond) /\ \A x \in beyond : m <= x
        BY <3>2, <4>1, MinIsLeast
      <4>3. m \in MaxRevisions + 1 .. n /\ Installable(p, atts, u[m])
        BY <4>2
      <4>4. c = Append(kept, u[m])
        BY <2>3, <3>2, <4>2
      <4>5. u[m] \in Revisions /\ m \in MaxRevisions .. n /\ m # MaxRevisions
        BY <1>1, <4>3
      <4>6. /\ c \in Seq(Revisions)
            /\ Len(c) = Len(kept) + 1
            /\ \A i \in 1 .. Len(kept) : c[i] = kept[i]
            /\ c[Len(kept) + 1] = u[m]
        BY <2>1, <4>4, <4>5, AppendProperties
      <4>7. \A i \in MaxRevisions + 1 .. n : Installable(p, atts, u[i]) => m <= i
        BY <4>2
      <4> QED
        BY <1>1, <2>1, <4>3, <4>5, <4>6, <4>7
    <3> QED
      BY <3>1, <3>2
  <2> DEFINE At(i) == IF i <= MaxRevisions THEN i ELSE last
  <2>5. ASSUME NEW i \in 1 .. Len(c)
        PROVE  /\ At(i) \in 1 .. n
               /\ c[i] = u[At(i)]
               /\ \A j \in 1 .. Len(c) : i < j => At(i) < At(j)
               /\ \A j \in 1 .. Len(c) : At(i) = At(j) => i = j
    <3>1. Len(c) \in {MaxRevisions, MaxRevisions + 1} /\ last \in Nat
      BY <1>1, <2>4
    <3>2. last = MaxRevisions => Len(c) = MaxRevisions
      BY <2>4
    <3>3. \A j \in 1 .. Len(c) : j > MaxRevisions =>
            j = MaxRevisions + 1 /\ last > MaxRevisions /\ c[j] = u[last]
      BY <1>1, <2>4, <3>1, <3>2
    <3>4. At(i) \in 1 .. n
      BY <1>1, <1>3, <3>1
    <3>5. c[i] = u[At(i)]
      BY <1>1, <2>4, <3>1, <3>3
    <3>6. ASSUME NEW j \in 1 .. Len(c), i < j PROVE At(i) < At(j)
      BY <1>1, <3>1, <3>3, <3>6
    <3>7. ASSUME NEW j \in 1 .. Len(c), At(i) = At(j) PROVE i = j
      BY <1>1, <3>1, <3>3, <3>7
    <3> QED
      BY <3>4, <3>5, <3>6, <3>7
  <2>6. DOMAIN c = 1 .. Len(c)
    BY <2>4, LenProperties
  <2> HIDE DEF At
  <2>7. NewestFirst(c)
    <3> SUFFICES ASSUME NEW i \in 1 .. Len(c), NEW j \in 1 .. Len(c), i < j
                 PROVE  c[i].event.created >= c[j].event.created
      BY <2>6 DEF NewestFirst
    <3>1. At(i) \in 1 .. n /\ At(j) \in 1 .. n /\ At(i) < At(j)
      BY <2>5
    <3>2. u[At(i)].event.created >= u[At(j)].event.created
      BY <1>1, <3>1 DEF NewestFirst
    <3> QED
      BY <2>5, <3>2
  <2>8. DistinctCommits(c)
    <3> SUFFICES ASSUME NEW i \in 1 .. Len(c), NEW j \in 1 .. Len(c),
                        c[i].event.commit = c[j].event.commit
                 PROVE  i = j
      BY <2>6 DEF DistinctCommits
    <3>1. At(i) \in 1 .. n /\ At(j) \in 1 .. n
      BY <2>5
    <3>2. At(i) = At(j)
      BY <1>1, <2>5, <3>1 DEF DistinctCommits
    <3> QED
      BY <2>5, <3>2
  <2>9. \A i \in 1 .. n : i <= MaxRevisions => i <= Len(c) /\ c[i] = u[i]
    BY <1>1, <2>4
  <2>10. ASSUME NEW i \in 1 .. n, Installable(p, atts, u[i])
         PROVE  \E j \in 1 .. Len(c) : /\ Installable(p, atts, c[j])
                                       /\ c[j].event.created >= u[i].event.created
    <3>1. CASE i <= MaxRevisions
      <4>1. i \in 1 .. Len(c) /\ c[i] = u[i]
        BY <1>1, <2>9, <3>1
      <4>2. u[i].event.created >= u[i].event.created
        BY <1>1
      <4> QED
        BY <2>10, <4>1, <4>2
    <3>2. CASE i > MaxRevisions
      <4>1. i \in MaxRevisions + 1 .. n
        BY <1>1, <3>2
      <4>2. last # MaxRevisions /\ last <= i
        BY <2>4, <2>10, <4>1
      <4>3. MaxRevisions + 1 \in 1 .. Len(c) /\ c[MaxRevisions + 1] = u[last]
        BY <1>1, <2>4, <4>2
      <4>4. last \in 1 .. n
        BY <1>1, <1>3
      <4>5. u[last].event.created >= u[i].event.created
        <5>1. CASE last = i
          BY <1>1, <5>1
        <5>2. CASE last < i
          BY <1>1, <4>4, <5>2 DEF NewestFirst
        <5> QED
          BY <1>1, <4>2, <4>4, <5>1, <5>2
      <4> QED
        BY <2>4, <4>2, <4>3, <4>5
    <3> QED
      BY <1>1, <3>1, <3>2
  <2>11. \A i \in 1 .. Len(c) : \E j \in 1 .. n : c[i] = u[j]
    BY <2>5
  <2> QED
    BY <2>4, <2>7, <2>8, <2>9, <2>10, <2>11 DEF CapContract
<1> QED
  BY <1>1, <1>2, <1>3

\* What is offered is installable and no older than any installable revision.
LEMMA SelectAcceptedProperties ==
  ASSUME NEW revs \in Seq(Revisions), NewestFirst(revs), NEW p, NEW atts
  PROVE  /\ \A r \in SelectAccepted(p, atts, revs) :
              Installable(p, atts, r) /\ \E i \in 1 .. Len(revs) : revs[i] = r
         /\ \A i \in 1 .. Len(revs) : Installable(p, atts, revs[i]) =>
              \E r \in SelectAccepted(p, atts, revs) :
                r.event.created >= revs[i].event.created
<1> DEFINE n == Len(revs)
           ok == {i \in DOMAIN revs : Installable(p, atts, revs[i])}
<1>1. /\ n \in Nat
      /\ DOMAIN revs = 1 .. n
      /\ \A i \in 1 .. n : revs[i].event.created \in Nat
  BY LenProperties, ElementOfSeq, RevisionFields
<1>2. CASE ok = {}
  <2>1. SelectAccepted(p, atts, revs) = {}
    BY <1>2 DEF SelectAccepted
  <2>2. \A i \in 1 .. n : ~ Installable(p, atts, revs[i])
    BY <1>1, <1>2
  <2> QED
    BY <2>1, <2>2
<1>3. CASE ok # {}
  <2>1. ok \in SUBSET Nat
    BY <1>1
  <2>2. PICK m \in ok : m = Min(ok) /\ \A x \in ok : m <= x
    BY <1>3, <2>1, MinIsLeast
  <2>3. SelectAccepted(p, atts, revs) = {revs[m]}
    BY <1>3, <2>2 DEF SelectAccepted
  <2>4. m \in 1 .. n /\ Installable(p, atts, revs[m])
    BY <1>1, <2>2
  <2>5. ASSUME NEW i \in 1 .. n, Installable(p, atts, revs[i])
        PROVE  revs[m].event.created >= revs[i].event.created
    <3>1. m <= i
      BY <1>1, <2>2, <2>5
    <3>2. CASE m = i
      BY <1>1, <3>2
    <3>3. CASE m < i
      BY <1>1, <2>4, <3>3 DEF NewestFirst
    <3> QED
      BY <1>1, <2>4, <3>1, <3>2, <3>3
  <2> QED
    BY <2>3, <2>4, <2>5
<1> QED
  BY <1>2, <1>3

\* AddRevision, the whole of an ingestion: upsertRevision, then the cap.
LEMMA AddProperties ==
  ASSUME NEW revs \in Seq(Revisions), NewestFirst(revs), DistinctCommits(revs),
         NEW r \in Revisions, NEW p, NEW atts,
         NEW a, a = AddRevision(p, atts, revs, r)
  PROVE  /\ a \in Seq(Revisions)
         /\ NewestFirst(a)
         /\ DistinctCommits(a)
         /\ Len(a) <= MaxRevisions + 1
         /\ \A i \in 1 .. Len(a) : a[i] = r \/ \E j \in 1 .. Len(revs) : a[i] = revs[j]
<1> SUFFICES ASSUME NEW u, u = UpsertRevision(revs, r)
             PROVE  /\ a \in Seq(Revisions)
                    /\ NewestFirst(a)
                    /\ DistinctCommits(a)
                    /\ Len(a) <= MaxRevisions + 1
                    /\ \A i \in 1 .. Len(a) :
                         a[i] = r \/ \E j \in 1 .. Len(revs) : a[i] = revs[j]
  OBVIOUS
<1>1. /\ u \in Seq(Revisions) /\ NewestFirst(u) /\ DistinctCommits(u)
      /\ \A i \in 1 .. Len(u) : u[i] = r \/ \E j \in 1 .. Len(revs) : u[i] = revs[j]
  BY UpsertProperties DEF UpsertContract
<1>2. a = CapRevisions(p, atts, u)
  BY DEF AddRevision
<1>3. /\ a \in Seq(Revisions) /\ NewestFirst(a) /\ DistinctCommits(a)
      /\ Len(a) <= MaxRevisions + 1
      /\ \A i \in 1 .. Len(a) : \E j \in 1 .. Len(u) : a[i] = u[j]
  BY <1>1, <1>2, CapProperties DEF CapContract
<1> QED
  BY <1>1, <1>3

\* An ingestion retains the revision it brings and every revision retained so far.
LEMMA AddRetains ==
  ASSUME NEW revs \in Seq(Revisions), NewestFirst(revs), DistinctCommits(revs),
         NEW r \in Revisions, NEW p, NEW atts,
         NEW q \in Revisions, q = r \/ Retained(revs, q)
  PROVE  Retained(AddRevision(p, atts, revs, r), q)
<1> DEFINE n == Len(revs)
<1> SUFFICES ASSUME NEW u, u = UpsertRevision(revs, r),
                    NEW a, a = CapRevisions(p, atts, u)
             PROVE  Retained(a, q)
  BY DEF AddRevision
<1>1. /\ u \in Seq(Revisions) /\ NewestFirst(u) /\ DistinctCommits(u)
      /\ Len(u) \in {n, n + 1}
      /\ \A j \in 1 .. n :
           \/ \E i \in 1 .. Len(u) : u[i] = revs[j]
           \/ /\ \E i \in 1 .. Len(u) : u[i] = r
              /\ r.event.commit = revs[j].event.commit
              /\ r.event.created > revs[j].event.created
      /\ \E i \in 1 .. Len(u) : /\ u[i].event.commit = r.event.commit
                                /\ u[i].event.created >= r.event.created
      /\ \A i \in 1 .. n : u[i].event.created >= revs[i].event.created
  <2>1. UpsertContract(revs, r, u)
    BY UpsertProperties
  <2> QED
    BY <2>1 DEF UpsertContract
<1>3. /\ a \in Seq(Revisions)
      /\ \A i \in 1 .. Len(u) : i <= MaxRevisions => i <= Len(a) /\ a[i] = u[i]
  <2>1. CapContract(p, atts, u, a)
    BY <1>1, CapProperties
  <2> QED
    BY <2>1 DEF CapContract
<1>4. /\ n \in Nat /\ Len(u) \in Nat /\ Len(a) \in Nat
      /\ DOMAIN revs = 1 .. n /\ DOMAIN u = 1 .. Len(u) /\ DOMAIN a = 1 .. Len(a)
      /\ MaxRevisions \in Nat /\ MaxRevisions > 0
      /\ r.event.created \in Nat /\ q.event.created \in Nat
      /\ \A i \in 1 .. n : revs[i].event.created \in Nat
      /\ \A i \in 1 .. Len(u) : u[i].event.created \in Nat
  BY <1>1, <1>3, LenProperties, ElementOfSeq, RevisionFields, MaxRevisionsAssumption
<1>5. ASSUME NEW i \in 1 .. Len(u), u[i].event.commit = q.event.commit,
             u[i].event.created >= q.event.created
      PROVE  Retained(a, q)
  <2>1. CASE i <= MaxRevisions
    <3>1. i \in 1 .. Len(a) /\ a[i] = u[i]
      BY <1>3, <1>4, <2>1
    <3> QED
      BY <1>4, <1>5, <3>1 DEF Retained
  <2>2. CASE i > MaxRevisions
    <3>1. MaxRevisions \in 1 .. Len(u) /\ MaxRevisions < i
      BY <1>4, <2>2
    <3>2. MaxRevisions <= Len(a) /\ a[MaxRevisions] = u[MaxRevisions]
      BY <1>3, <1>4, <3>1
    <3>3. u[MaxRevisions].event.created >= u[i].event.created
      BY <1>1, <1>4, <3>1 DEF NewestFirst
    <3>4. a[MaxRevisions].event.created >= q.event.created
      BY <1>4, <1>5, <3>1, <3>2, <3>3
    <3> QED
      BY <1>4, <3>2, <3>4 DEF Retained
  <2> QED
    BY <1>4, <2>1, <2>2
<1>6. CASE q = r
  BY <1>1, <1>5, <1>6
<1>7. CASE \E j \in DOMAIN revs : /\ revs[j].event.commit = q.event.commit
                                  /\ revs[j].event.created >= q.event.created
  <2>1. PICK j \in 1 .. n : /\ revs[j].event.commit = q.event.commit
                            /\ revs[j].event.created >= q.event.created
    BY <1>4, <1>7
  <2>2. CASE \E i \in 1 .. Len(u) : u[i] = revs[j]
    BY <1>5, <2>1, <2>2
  <2>3. CASE /\ \E i \in 1 .. Len(u) : u[i] = r
             /\ r.event.commit = revs[j].event.commit
             /\ r.event.created > revs[j].event.created
    <3>1. r.event.commit = q.event.commit /\ r.event.created >= q.event.created
      BY <1>4, <2>1, <2>3
    <3> QED
      BY <1>5, <2>3, <3>1
  <2> QED
    BY <1>1, <2>2, <2>3
<1>8. CASE /\ n >= MaxRevisions
           /\ revs[MaxRevisions].event.created >= q.event.created
  <2>1. MaxRevisions \in 1 .. n /\ MaxRevisions \in 1 .. Len(u)
    <3>1. Len(u) \in {n, n + 1}
      BY <1>1
    <3>2. n \in Nat /\ MaxRevisions \in Nat /\ MaxRevisions > 0 /\ n >= MaxRevisions
      BY <1>4, <1>8
    <3> QED
      BY <3>1, <3>2
  <2>2. u[MaxRevisions].event.created >= revs[MaxRevisions].event.created
    BY <1>1, <2>1
  <2>3. MaxRevisions <= Len(a) /\ a[MaxRevisions] = u[MaxRevisions]
    BY <1>3, <1>4, <2>1
  <2>4. a[MaxRevisions].event.created >= q.event.created
    BY <1>4, <1>8, <2>1, <2>2, <2>3
  <2> QED
    BY <1>4, <2>3, <2>4 DEF Retained
<1> QED
  BY <1>6, <1>7, <1>8 DEF Retained

\* An ingestion that brings a repository-verified revision never loses an
\* installable one, provided a commit pins its evidence.
LEMMA AddKeepsInstallable ==
  ASSUME NEW revs \in Seq(Revisions), NewestFirst(revs), DistinctCommits(revs),
         NEW r \in Revisions, r.manifest, NEW p, NEW atts,
         NEW q \in Revisions, Installable(p, atts, q),
         \E i \in 1 .. Len(revs) : revs[i] = q,
         r.event.commit = q.event.commit
           => AttestationsFor(atts, r.event) = AttestationsFor(atts, q.event)
  PROVE  \E s \in SelectAccepted(p, atts, AddRevision(p, atts, revs, r)) :
           s.event.created >= q.event.created
<1> SUFFICES ASSUME NEW u, u = UpsertRevision(revs, r),
                    NEW a, a = CapRevisions(p, atts, u)
             PROVE  \E s \in SelectAccepted(p, atts, a) :
                      s.event.created >= q.event.created
  BY DEF AddRevision
<1>0. UpsertContract(revs, r, u)
  BY UpsertProperties
<1>1. /\ u \in Seq(Revisions) /\ NewestFirst(u) /\ DistinctCommits(u)
      /\ \A j \in 1 .. Len(revs) :
           \/ \E i \in 1 .. Len(u) : u[i] = revs[j]
           \/ /\ \E i \in 1 .. Len(u) : u[i] = r
              /\ r.event.commit = revs[j].event.commit
              /\ r.event.created > revs[j].event.created
  BY <1>0 DEF UpsertContract
<1>3. /\ a \in Seq(Revisions) /\ NewestFirst(a)
      /\ \A i \in 1 .. Len(u) : Installable(p, atts, u[i]) =>
           \E j \in 1 .. Len(a) : /\ Installable(p, atts, a[j])
                                  /\ a[j].event.created >= u[i].event.created
  <2>1. CapContract(p, atts, u, a)
    BY <1>1, CapProperties
  <2> QED
    BY <2>1 DEF CapContract
<1>4. /\ r.event.created \in Nat /\ q.event.created \in Nat
      /\ \A i \in 1 .. Len(u) : u[i].event.created \in Nat
      /\ \A i \in 1 .. Len(a) : a[i].event.created \in Nat
  BY <1>1, <1>3, ElementOfSeq, RevisionFields
<1>5. PICK i \in 1 .. Len(u) : /\ Installable(p, atts, u[i])
                               /\ u[i].event.created >= q.event.created
  <2>1. PICK j \in 1 .. Len(revs) : revs[j] = q
    OBVIOUS
  <2>2. CASE \E i \in 1 .. Len(u) : u[i] = q
    BY <1>4, <2>2
  <2>3. CASE /\ \E i \in 1 .. Len(u) : u[i] = r
             /\ r.event.commit = q.event.commit
             /\ r.event.created > q.event.created
    <3>1. Installable(p, atts, r)
      BY <2>3 DEF Installable
    <3>2. PICK i \in 1 .. Len(u) : u[i] = r
      BY <2>3
    <3>3. Installable(p, atts, u[i]) /\ u[i].event.created >= q.event.created
      BY <1>4, <2>3, <3>1, <3>2
    <3> QED
      BY <3>3
  <2> QED
    BY <1>1, <2>1, <2>2, <2>3, SMTT(30)
<1>6. PICK j \in 1 .. Len(a) : /\ Installable(p, atts, a[j])
                               /\ a[j].event.created >= u[i].event.created
  BY <1>3, <1>5
<1>7. PICK s \in SelectAccepted(p, atts, a) : s.event.created >= a[j].event.created
  <2>1. \A l \in 1 .. Len(a) : Installable(p, atts, a[l]) =>
          \E s \in SelectAccepted(p, atts, a) : s.event.created >= a[l].event.created
    BY <1>3, SelectAcceptedProperties
  <2> QED
    BY <1>6, <2>1
<1>8. s.event.created \in Nat
  <2>1. \E l \in 1 .. Len(a) : a[l] = s
    BY <1>3, SelectAcceptedProperties
  <2> QED
    BY <1>4, <2>1
<1>9. s.event.created >= q.event.created
  <2>1. u[i].event.created \in Nat /\ a[j].event.created \in Nat
    BY <1>4
  <2>2. q.event.created \in Nat
    BY <1>4
  <2> QED
    BY <1>5, <1>6, <1>7, <1>8, <2>1, <2>2, SMTT(30)
<1> QED
  BY <1>7, <1>9

-----------------------------------------------------------------------------
(* Attestations *)

\* Slots partition the attestations.
LEMMA SlotsPartition ==
  ASSUME NEW a, NEW b, NEW c
  PROVE  /\ SameSlot(a, a)
         /\ SameSlot(a, b) => SameSlot(b, a)
         /\ SameSlot(a, b) /\ SameSlot(b, c) => SameSlot(a, c)
BY DEF SameSlot

\* StoreAttestation adds a or nothing, takes away only what a supersedes, and
\* afterwards a's slot holds something at least as new as a.
LEMMA StoreAttestationProperties ==
  ASSUME NEW S \in SUBSET AttEvents, NEW a \in AttEvents,
         NEW T, T = StoreAttestation(S, a)
  PROVE  /\ T \subseteq S \cup {a}
         /\ \A b \in S \ T : SameSlot(a, b) /\ a.created > b.created /\ a \in T
         /\ \E b \in T : SameSlot(a, b) /\ b.created >= a.created
         /\ (\A b, c \in S : SameSlot(b, c) => b = c)
              => (\A b, c \in T : SameSlot(b, c) => b = c)
<1>1. a.created \in Nat /\ \A b \in S : b.created \in Nat
  BY AttEventsAssumption
<1>2. CASE \E b \in S : SameSlot(a, b) /\ b.created >= a.created
  <2>1. T = S
    BY <1>2 DEF StoreAttestation
  <2> QED
    BY <1>2, <2>1
<1>3. CASE ~ \E b \in S : SameSlot(a, b) /\ b.created >= a.created
  <2>1. T = {b \in S : ~SameSlot(a, b)} \cup {a}
    BY <1>3 DEF StoreAttestation
  <2>2. SameSlot(a, a) /\ a.created >= a.created
    BY <1>1, SlotsPartition
  <2>3. \A b \in S \ T : SameSlot(a, b) /\ a.created > b.created /\ a \in T
    BY <1>1, <1>3, <2>1
  <2>4. ASSUME \A b, c \in S : SameSlot(b, c) => b = c,
               NEW b \in T, NEW c \in T, SameSlot(b, c)
        PROVE  b = c
    BY <2>1, <2>4, SlotsPartition
  <2> QED
    BY <2>1, <2>2, <2>3, <2>4
<1> QED
  BY <1>2, <1>3

\* More evidence is never worse: no attestation can withdraw an acceptance
\* unless it takes the place of one that counted.
LEMMA AcceptedIsMonotone ==
  ASSUME NEW p, p.minimum \in Int, NEW E, NEW F, IsFiniteSet(F), E \subseteq F,
         Accepted(p, E)
  PROVE  Accepted(p, F)
<1>1. Counted(p, E) \subseteq Counted(p, F) /\ Counted(p, F) \subseteq F
  BY DEF Counted
<1>2. IsFiniteSet(Counted(p, F))
  BY <1>1, FS_Subset
<1>3. /\ Cardinality(Counted(p, E)) <= Cardinality(Counted(p, F))
      /\ IsFiniteSet(Counted(p, E))
  BY <1>1, <1>2, FS_Subset
<1>4. /\ Cardinality(Counted(p, E)) \in Nat
      /\ Cardinality(Counted(p, F)) \in Nat
      /\ EffectiveMinimumAttestations(p) \in Int
  BY <1>2, <1>3, FS_CardinalityType DEF EffectiveMinimumAttestations
<1> QED
  BY <1>3, <1>4 DEF Accepted, Verified

-----------------------------------------------------------------------------
(* The candidates, in the order a map yields them *)

\* The ways to range over a finite set: each meets every element once.
LEMMA Enumerations ==
  ASSUME NEW S, IsFiniteSet(S)
  PROVE  /\ SetToSeqs(S) # {}
         /\ \A f \in SetToSeqs(S) :
              /\ Cardinality(S) \in Nat
              /\ f \in Seq(S) /\ Len(f) = Cardinality(S)
              /\ DOMAIN f = 1 .. Cardinality(S)
              /\ \A i \in 1 .. Cardinality(S) : f[i] \in S
              /\ \A i, j \in 1 .. Cardinality(S) : f[i] = f[j] => i = j
              /\ \A x \in S : \E i \in 1 .. Cardinality(S) : f[i] = x
<1> DEFINE n == Cardinality(S)
<1>1. n \in Nat
  BY FS_CardinalityType
<1>2. PICK g \in Bijection(1 .. n, S) : TRUE
  BY FS_CardinalityType DEF ExistsBijection
<1>3. g \in SetToSeqs(S)
  <2>1. g \in [1 .. n -> S] /\ \A i, j \in 1 .. n : i # j => g[i] # g[j]
    BY <1>2 DEF Bijection, Injection, IsInjective
  <2> QED
    BY <2>1 DEF SetToSeqs
<1>4. ASSUME NEW f \in SetToSeqs(S)
      PROVE  /\ f \in Seq(S) /\ Len(f) = n
             /\ DOMAIN f = 1 .. n
             /\ \A i \in 1 .. n : f[i] \in S
             /\ \A i, j \in 1 .. n : f[i] = f[j] => i = j
             /\ \A x \in S : \E i \in 1 .. n : f[i] = x
  <2>1. f \in [1 .. n -> S] /\ \A i, j \in 1 .. n : i # j => f[i] # f[j]
    BY <1>4 DEF SetToSeqs
  <2>2. f \in Injection(1 .. n, S)
    BY <2>1 DEF Injection, IsInjective
  <2>3. Cardinality(1 .. n) = n
    BY <1>1, FS_Interval
  <2>4. f \in Surjection(1 .. n, S)
    BY <2>2, <2>3, FS_Injection
  <2> HIDE DEF n
  <2>5. \A x \in S : \E i \in 1 .. n : f[i] = x
    BY <2>4 DEF Surjection
  <2>6. f \in Seq(S) /\ Len(f) = n
    BY <1>1, <2>1
  <2> QED
    BY <2>1, <2>5, <2>6
<1> QED
  BY <1>1, <1>3, <1>4

\* The loop of SelectSameSourceLatest, over the candidates after the first.
LatestOver(base, seq) ==
  FoldLeft(LAMBDA selected, c : IF Supersedes(c, selected) THEN c ELSE selected, base, seq)

\* The loop, iteration by iteration.
LEMMA LatestFold ==
  ASSUME NEW n \in Nat, NEW seq, DOMAIN seq = 1 .. n,
         NEW T, NEW base \in T, \A i \in 1 .. n : seq[i] \in T
  PROVE  \E best :
           /\ best[0] = base
           /\ \A i \in 1 .. n :
                best[i] = IF Supersedes(seq[i], best[i-1]) THEN seq[i] ELSE best[i-1]
           /\ best[n] = LatestOver(base, seq)
<1> DEFINE Op(x, m) == IF Supersedes(seq[m], x) THEN seq[m] ELSE x
           step == [x \in Nat \X T |-> IF x[1] \in 1 .. n THEN Op(x[2], x[1]) ELSE base]
           Iterates(h) == h = [s \in SUBSET (1 .. n) |->
                                 IF s = {} THEN base ELSE Op(h[s \ {Max(s)}], Max(s))]
           iter == CHOOSE h : Iterates(h)
<1>0. \A m \in 1 .. n, x \in T : Op(x, m) \in T /\ step[m, x] = Op(x, m)
  <2> TAKE m \in 1 .. n, x \in T
  <2>1. Op(x, m) \in T /\ <<m, x>> \in Nat \X T
    OBVIOUS
  <2> HIDE DEF Op
  <2> QED
    BY <2>1
<1>1. PICK g : FoldsOver(g, n, T, base, step)
  <2>1. step \in [Nat \X T -> T]
    OBVIOUS
  <2> HIDE DEF step
  <2> QED
    BY <2>1, FoldExists
<1>2. Iterates(g)
  <2>1. g = [s \in SUBSET (1 .. n) |-> g[s]]
    BY <1>1 DEF FoldsOver
  <2>2. ASSUME NEW s \in SUBSET (1 .. n)
        PROVE  g[s] = IF s = {} THEN base ELSE Op(g[s \ {Max(s)}], Max(s))
    <3>1. g[s] = IF s = {} THEN base ELSE step[Max(s), g[s \ {Max(s)}]]
      BY <1>1 DEF FoldsOver
    <3>2. s # {} => Max(s) \in 1 .. n /\ g[s \ {Max(s)}] \in T
      <4>1. s # {} => Max(s) \in s
        BY MaxIsGreatest
      <4>2. s \ {Max(s)} \in SUBSET (1 .. n)
        OBVIOUS
      <4> QED
        BY <1>1, <4>1, <4>2 DEF FoldsOver
    <3> HIDE DEF step, Op
    <3> QED
      BY <1>0, <3>1, <3>2
  <2> HIDE DEF Op
  <2> QED
    BY <2>1, <2>2, Zenon
<1>3. Iterates(iter)
  BY <1>2
<1>4. iter[1 .. n] = LatestOver(base, seq)
  BY DEF LatestOver, FoldLeft, MapThenFoldSet
<1> HIDE DEF iter, Op
<1>5. iter[1 .. 0] = base
  BY <1>3
<1>6. ASSUME NEW i \in 1 .. n PROVE iter[1 .. i] = Op(iter[1 .. i-1], i)
  <2>1. 1 .. i \in SUBSET (1 .. n) /\ i \in 1 .. i /\ i \in Nat /\ i # 0
    OBVIOUS
  <2>2. iter[1 .. i] = Op(iter[(1 .. i) \ {Max(1 .. i)}], Max(1 .. i))
    BY <1>3, <2>1
  <2> QED
    BY <2>1, <2>2, PrefixMax
<1> DEFINE best == [i \in 0 .. n |-> iter[1 .. i]]
<1>7. \A i \in 1 .. n : i \in 0 .. n /\ i - 1 \in 0 .. n
  OBVIOUS
<1>8. best[0] = base /\ best[n] = iter[1 .. n]
  BY <1>5
<1>9. \A i \in 1 .. n : best[i] = Op(best[i-1], i)
  BY <1>6, <1>7
<1> HIDE DEF best
<1> QED
  BY <1>4, <1>8, <1>9 DEF Op

\* Wherever the loop ends, it is at one of the candidates.
LEMMA LatestIsMember ==
  ASSUME NEW S, IsFiniteSet(S), NEW f \in SetToSeqs(S), Len(f) > 1
  PROVE  SelectSameSourceLatest(f) \subseteq S
<1> DEFINE n == Cardinality(S)
           m == n - 1
           base == f[1]
           tl == Tail(f)
<1>1. /\ n \in Nat /\ f \in Seq(S) /\ Len(f) = n /\ \A i \in 1 .. n : f[i] \in S
  BY Enumerations
<1>2. m \in Nat /\ n > 1 /\ base \in S /\ f # <<>>
  BY <1>1
<1>3. DOMAIN tl = 1 .. m /\ \A i \in 1 .. m : tl[i] \in S
  <2>1. tl \in Seq(S) /\ Len(tl) = m
    BY <1>1, <1>2, HeadTailProperties, SMTT(30)
  <2> HIDE DEF tl, m
  <2> QED
    BY <2>1, LenProperties, ElementOfSeq
<1>4. SelectSameSourceLatest(f) \subseteq {LatestOver(base, tl)}
  BY DEF SelectSameSourceLatest, LatestOver
<1> HIDE DEF base, tl, m
<1>5. PICK best :
        /\ best[0] = base
        /\ \A i \in 1 .. m :
             best[i] = IF Supersedes(tl[i], best[i-1]) THEN tl[i] ELSE best[i-1]
        /\ best[m] = LatestOver(base, tl)
  BY <1>2, <1>3, LatestFold
<1> DEFINE Good == {i \in Nat : i <= m => best[i] \in S}
<1>6. 0 \in Good
  BY <1>2, <1>5
<1>7. ASSUME NEW i \in Nat, i \in Good PROVE i + 1 \in Good
  <2> SUFFICES ASSUME i + 1 <= m PROVE best[i + 1] \in S
    OBVIOUS
  <2>1. i + 1 \in 1 .. m /\ (i + 1) - 1 = i /\ best[i] \in S
    BY <1>2, <1>7
  <2> QED
    BY <1>3, <1>5, <2>1
<1> HIDE DEF Good
<1>8. Nat \subseteq Good
  BY <1>6, <1>7, SetInduction
<1>9. best[m] \in S
  BY <1>2, <1>8 DEF Good
<1> QED
  BY <1>4, <1>5, <1>9

-----------------------------------------------------------------------------
(* What leaves the offer alone *)

\* SelectAccepted looks for the first installable revision, and at nothing else.
LEMMA FirstInstallable ==
  ASSUME NEW revs \in Seq(Revisions), NEW p, NEW atts
  PROVE  /\ \A i \in 1 .. Len(revs) :
              /\ Installable(p, atts, revs[i])
              /\ \A k \in 1 .. i - 1 : ~Installable(p, atts, revs[k])
              => SelectAccepted(p, atts, revs) = {revs[i]}
         /\ (\A i \in 1 .. Len(revs) : ~Installable(p, atts, revs[i]))
              => SelectAccepted(p, atts, revs) = {}
         /\ \/ \A i \in 1 .. Len(revs) : ~Installable(p, atts, revs[i])
            \/ \E i \in 1 .. Len(revs) :
                 /\ Installable(p, atts, revs[i])
                 /\ \A k \in 1 .. i - 1 : ~Installable(p, atts, revs[k])
<1> DEFINE n == Len(revs)
           ok == {i \in DOMAIN revs : Installable(p, atts, revs[i])}
<1>1. n \in Nat /\ DOMAIN revs = 1 .. n
  BY LenProperties
<1>2. SelectAccepted(p, atts, revs) = IF ok = {} THEN {} ELSE {revs[Min(ok)]}
  BY DEF SelectAccepted
<1>3. \A i : i \in ok <=> i \in 1 .. n /\ Installable(p, atts, revs[i])
  BY <1>1
<1> HIDE DEF ok, n
<1>4. ASSUME NEW i \in 1 .. n, Installable(p, atts, revs[i]),
             \A k \in 1 .. i - 1 : ~Installable(p, atts, revs[k])
      PROVE  SelectAccepted(p, atts, revs) = {revs[i]}
  <2>1. i \in ok /\ ok \in SUBSET Nat
    BY <1>1, <1>3, <1>4
  <2>2. Min(ok) \in ok /\ Min(ok) <= i
    BY <2>1, MinIsLeast
  <2>3. Min(ok) = i
    BY <1>1, <1>3, <1>4, <2>2
  <2> QED
    BY <1>2, <2>1, <2>3
<1>5. ASSUME \E i \in 1 .. n : Installable(p, atts, revs[i])
      PROVE  \E i \in 1 .. n : /\ Installable(p, atts, revs[i])
                               /\ \A k \in 1 .. i - 1 : ~Installable(p, atts, revs[k])
  <2>1. ok # {} /\ ok \in SUBSET Nat
    BY <1>1, <1>3, <1>5
  <2>2. Min(ok) \in ok /\ \A k \in ok : Min(ok) <= k
    BY <2>1, MinIsLeast
  <2>3. \A k \in 1 .. Min(ok) - 1 : k \notin ok /\ k \in 1 .. n
    BY <1>1, <1>3, <2>1, <2>2
  <2> QED
    BY <1>3, <2>2, <2>3
<1>6. (\A i \in 1 .. n : ~Installable(p, atts, revs[i])) => SelectAccepted(p, atts, revs) = {}
  BY <1>2, <1>3
<1> QED
  BY <1>4, <1>5, <1>6 DEF n

\* So two lists offer the same when their first installable revisions are equal.
LEMMA SameFirst ==
  ASSUME NEW s \in Seq(Revisions), NEW t \in Seq(Revisions), NEW p, NEW atts,
         \A j \in 1 .. Len(t) : Installable(p, atts, t[j]) =>
           \E i \in 1 .. Len(s) : t[j] = s[i],
         \A i \in 1 .. Len(s) :
           /\ Installable(p, atts, s[i])
           /\ \A k \in 1 .. i - 1 : ~Installable(p, atts, s[k])
           => \E j \in 1 .. Len(t) :
                t[j] = s[i] /\ \A k \in 1 .. j - 1 : ~Installable(p, atts, t[k])
  PROVE  SelectAccepted(p, atts, t) = SelectAccepted(p, atts, s)
<1>1. CASE \A i \in 1 .. Len(s) : ~Installable(p, atts, s[i])
  <2>1. \A j \in 1 .. Len(t) : ~Installable(p, atts, t[j])
    BY <1>1
  <2> QED
    BY <1>1, <2>1, FirstInstallable
<1>2. ASSUME NEW i \in 1 .. Len(s), Installable(p, atts, s[i]),
             \A k \in 1 .. i - 1 : ~Installable(p, atts, s[k])
      PROVE  SelectAccepted(p, atts, t) = SelectAccepted(p, atts, s)
  <2>1. PICK j \in 1 .. Len(t) :
          t[j] = s[i] /\ \A k \in 1 .. j - 1 : ~Installable(p, atts, t[k])
    BY <1>2
  <2>2. SelectAccepted(p, atts, s) = {s[i]}
    BY <1>2, FirstInstallable
  <2>3. Installable(p, atts, t[j])
    BY <1>2, <2>1
  <2>4. SelectAccepted(p, atts, t) = {t[j]}
    BY <2>1, <2>3, FirstInstallable
  <2> QED
    BY <2>1, <2>2, <2>4
<1> QED
  BY <1>1, <1>2, FirstInstallable

\* Inserting a revision that is not installable changes nothing in the offer,
LEMMA InsertIsInert ==
  ASSUME NEW revs \in Seq(Revisions), NewestFirst(revs), NEW r \in Revisions,
         NEW p, NEW atts, ~Installable(p, atts, r)
  PROVE  SelectAccepted(p, atts, InsertNewestFirst(revs, r)) = SelectAccepted(p, atts, revs)
<1> DEFINE n == Len(revs)
           ins == InsertNewestFirst(revs, r)
<1>1. n \in Nat /\ ins \in Seq(Revisions) /\ Len(ins) = n + 1
  BY InsertIsSequence, LenProperties
<1>2. PICK m \in 0 .. n :
        \A i \in 1 .. n + 1 :
          ins[i] = IF i <= m THEN revs[i] ELSE IF i = m + 1 THEN r ELSE revs[i-1]
  <2>1. \E m \in 0 .. n :
          /\ \A i \in 1 .. m : revs[i].event.created >= r.event.created
          /\ \A i \in m + 1 .. n : revs[i].event.created < r.event.created
          /\ \A i \in 1 .. n + 1 :
               ins[i] = IF i <= m THEN revs[i] ELSE IF i = m + 1 THEN r ELSE revs[i-1]
    BY InsertPosition, Zenon
  <2> HIDE DEF ins, n
  <2> QED
    BY <2>1, Zenon
<1> HIDE DEF ins, n
<1>3. ASSUME NEW j \in 1 .. n + 1, Installable(p, atts, ins[j])
      PROVE  \E i \in 1 .. n : ins[j] = revs[i]
  <2>1. CASE j <= m
    BY <1>1, <1>2, <2>1
  <2>2. CASE j = m + 1
    BY <1>1, <1>2, <1>3, <2>2
  <2>3. CASE j > m + 1
    <3>1. j - 1 \in 1 .. n /\ ins[j] = revs[j-1]
      BY <1>1, <1>2, <2>3
    <3> QED
      BY <3>1
  <2> QED
    BY <1>1, <2>1, <2>2, <2>3
<1>4. ASSUME NEW i \in 1 .. n, Installable(p, atts, revs[i]),
             \A k \in 1 .. i - 1 : ~Installable(p, atts, revs[k])
      PROVE  \E j \in 1 .. n + 1 :
               ins[j] = revs[i] /\ \A k \in 1 .. j - 1 : ~Installable(p, atts, ins[k])
  <2>1. CASE i <= m
    <3>1. \A k \in 1 .. i - 1 : ins[k] = revs[k]
      BY <1>1, <1>2, <2>1
    <3>2. i \in 1 .. n + 1 /\ ins[i] = revs[i]
      BY <1>1, <1>2, <2>1
    <3> QED
      BY <1>4, <3>1, <3>2
  <2>2. CASE i > m
    <3>1. i + 1 \in 1 .. n + 1 /\ ins[i+1] = revs[(i+1)-1] /\ (i + 1) - 1 = i
      BY <1>1, <1>2, <2>2
    <3>2. ASSUME NEW k \in 1 .. i PROVE ~Installable(p, atts, ins[k])
      <4>1. CASE k <= m
        <5>1. ins[k] = revs[k] /\ k \in 1 .. i - 1
          BY <1>1, <1>2, <2>2, <4>1
        <5> QED
          BY <1>4, <5>1
      <4>2. CASE k = m + 1
        <5>1. ins[k] = r
          BY <1>1, <1>2, <4>2
        <5> QED
          BY <5>1
      <4>3. CASE k > m + 1
        <5>1. k - 1 \in 1 .. i - 1 /\ k \in 1 .. n + 1
          BY <1>1, <4>3
        <5>2. ins[k] = revs[k-1]
          BY <1>1, <1>2, <4>3, <5>1
        <5> QED
          BY <1>4, <5>1, <5>2
      <4> QED
        BY <1>1, <4>1, <4>2, <4>3
    <3> QED
      BY <3>1, <3>2
  <2> QED
    BY <1>1, <2>1, <2>2
<1>5. /\ \A j \in 1 .. Len(ins) : Installable(p, atts, ins[j]) =>
           \E i \in 1 .. Len(revs) : ins[j] = revs[i]
      /\ \A i \in 1 .. Len(revs) :
           /\ Installable(p, atts, revs[i])
           /\ \A k \in 1 .. i - 1 : ~Installable(p, atts, revs[k])
           => \E j \in 1 .. Len(ins) :
                ins[j] = revs[i] /\ \A k \in 1 .. j - 1 : ~Installable(p, atts, ins[k])
  BY <1>1, <1>3, <1>4 DEF n
<1>6. SelectAccepted(p, atts, ins) = SelectAccepted(p, atts, revs)
  BY <1>1, <1>5, SameFirst
<1> QED
  BY <1>6 DEF ins

\* nor does dropping one,
LEMMA RemoveIsInert ==
  ASSUME NEW revs \in Seq(Revisions), NEW k \in 1 .. Len(revs),
         NEW p, NEW atts, ~Installable(p, atts, revs[k])
  PROVE  SelectAccepted(p, atts, RemoveAt(revs, k)) = SelectAccepted(p, atts, revs)
<1> DEFINE n == Len(revs)
           rem == RemoveAt(revs, k)
<1>1. /\ n \in Nat
      /\ rem \in Seq(Revisions) /\ Len(rem) = n - 1
      /\ \A i \in 1 .. n - 1 : rem[i] = IF i < k THEN revs[i] ELSE revs[i+1]
  BY RemoveAtProperties, LenProperties
<1> HIDE DEF rem
<1>2. ASSUME NEW j \in 1 .. n - 1 PROVE \E i \in 1 .. n : rem[j] = revs[i]
  <2>1. j \in 1 .. n /\ j + 1 \in 1 .. n
    BY <1>1
  <2> QED
    BY <1>1, <2>1
<1>3. ASSUME NEW i \in 1 .. n, Installable(p, atts, revs[i]),
             \A l \in 1 .. i - 1 : ~Installable(p, atts, revs[l])
      PROVE  \E j \in 1 .. n - 1 :
               rem[j] = revs[i] /\ \A l \in 1 .. j - 1 : ~Installable(p, atts, rem[l])
  <2>0. i # k
    BY <1>3
  <2>1. CASE i < k
    <3>1. i \in 1 .. n - 1 /\ rem[i] = revs[i]
      BY <1>1, <2>1
    <3>2. \A l \in 1 .. i - 1 : rem[l] = revs[l]
      BY <1>1, <2>1
    <3> QED
      BY <1>3, <3>1, <3>2
  <2>2. CASE i > k
    <3>1. i - 1 \in 1 .. n - 1 /\ rem[i-1] = revs[(i-1)+1] /\ (i - 1) + 1 = i
      BY <1>1, <2>2
    <3>2. ASSUME NEW l \in 1 .. (i - 1) - 1 PROVE ~Installable(p, atts, rem[l])
      <4>1. l \in 1 .. i - 1 /\ l + 1 \in 1 .. i - 1 /\ rem[l] \in {revs[l], revs[l+1]}
        BY <1>1
      <4> QED
        BY <1>3, <4>1
    <3> QED
      BY <3>1, <3>2
  <2> QED
    BY <1>1, <2>0, <2>1, <2>2
<1>4. /\ \A j \in 1 .. Len(rem) : Installable(p, atts, rem[j]) =>
           \E i \in 1 .. Len(revs) : rem[j] = revs[i]
      /\ \A i \in 1 .. Len(revs) :
           /\ Installable(p, atts, revs[i])
           /\ \A l \in 1 .. i - 1 : ~Installable(p, atts, revs[l])
           => \E j \in 1 .. Len(rem) :
                rem[j] = revs[i] /\ \A l \in 1 .. j - 1 : ~Installable(p, atts, rem[l])
  BY <1>1, <1>2, <1>3
<1>5. rem \in Seq(Revisions)
  BY <1>1
<1>6. SelectAccepted(p, atts, rem) = SelectAccepted(p, atts, revs)
  BY <1>4, <1>5, SameFirst
<1> QED
  BY <1>6 DEF rem

\* nor does the cap, ever.
LEMMA CapKeepsOffer ==
  ASSUME NEW u \in Seq(Revisions), NEW p, NEW atts,
         NewestFirst(u), DistinctCommits(u)
  PROVE  SelectAccepted(p, atts, CapRevisions(p, atts, u)) = SelectAccepted(p, atts, u)
<1> DEFINE n == Len(u)
           c == CapRevisions(p, atts, u)
           beyond == {i \in MaxRevisions + 1 .. n : Installable(p, atts, u[i])}
           kept == SubSeq(u, 1, MaxRevisions)
<1>1. n \in Nat /\ MaxRevisions \in Nat \ {0}
  BY LenProperties, MaxRevisionsAssumption
<1>2. /\ c \in Seq(Revisions)
      /\ \A i \in 1 .. Len(c) : \E j \in 1 .. n : c[i] = u[j]
      /\ \A i \in 1 .. n : i <= MaxRevisions => i <= Len(c) /\ c[i] = u[i]
  BY CapProperties DEF CapContract
<1>3. Len(c) \in Nat
  BY <1>2, LenProperties
<1>4. ASSUME NEW i \in 1 .. n, Installable(p, atts, u[i]),
             \A k \in 1 .. i - 1 : ~Installable(p, atts, u[k])
      PROVE  \E j \in 1 .. Len(c) :
               c[j] = u[i] /\ \A k \in 1 .. j - 1 : ~Installable(p, atts, c[k])
  <2>1. CASE i <= MaxRevisions
    <3> HIDE DEF c
    <3>1. i \in 1 .. Len(c) /\ c[i] = u[i]
      BY <1>1, <1>2, <1>3, <2>1
    <3>2. \A k \in 1 .. i - 1 : c[k] = u[k]
      BY <1>1, <1>2, <2>1
    <3> QED
      BY <1>4, <3>1, <3>2
  <2>2. CASE i > MaxRevisions
    <3>1. i \in beyond /\ beyond \in SUBSET Nat
      BY <1>1, <1>4, <2>2
    <3>2. Min(beyond) \in beyond /\ \A k \in beyond : Min(beyond) <= k
      BY <3>1, MinIsLeast
    <3>3. Min(beyond) = i
      BY <1>1, <1>4, <3>1, <3>2
    <3>4. c = Append(kept, u[i])
      BY <1>1, <2>2, <3>1, <3>3 DEF CapRevisions
    <3>5. kept \in Seq(Revisions) /\ Len(kept) = MaxRevisions
      <4>1. /\ 1 \in 1 .. n + 1
            /\ MaxRevisions \in 1 - 1 .. n
            /\ MaxRevisions - 1 + 1 = MaxRevisions
        BY <1>1, <2>2
      <4> QED
        BY <4>1, SubSeqProperties
    <3>6. u[i] \in Revisions
      BY ElementOfSeq
    <3> HIDE DEF kept, beyond
    <3>7. Len(c) = MaxRevisions + 1 /\ c[MaxRevisions + 1] = u[i]
      BY <3>4, <3>5, <3>6, AppendProperties
    <3> HIDE DEF c
    <3>8. \A k \in 1 .. MaxRevisions : c[k] = u[k] /\ k \in 1 .. i - 1
      BY <1>1, <1>2, <2>2
    <3>9. MaxRevisions + 1 \in 1 .. Len(c) /\ (MaxRevisions + 1) - 1 = MaxRevisions
      BY <1>1, <3>7
    <3> QED
      BY <1>4, <3>7, <3>8, <3>9
  <2> QED
    BY <1>1, <2>1, <2>2
<1> HIDE DEF c
<1> QED
  BY <1>2, <1>4, SameFirst DEF c

\* So ingesting a revision that is not installable leaves the offer alone, when
\* no installable revision of the same commit stands in its way.
LEMMA AddIsInert ==
  ASSUME NEW revs \in Seq(Revisions), NewestFirst(revs), DistinctCommits(revs),
         NEW r \in Revisions, NEW p, NEW atts, ~Installable(p, atts, r),
         \A i \in 1 .. Len(revs) :
           revs[i].event.commit = r.event.commit => ~Installable(p, atts, revs[i])
  PROVE  SelectAccepted(p, atts, AddRevision(p, atts, revs, r))
           = SelectAccepted(p, atts, revs)
<1> SUFFICES ASSUME NEW u, u = UpsertRevision(revs, r)
             PROVE  SelectAccepted(p, atts, CapRevisions(p, atts, u))
                      = SelectAccepted(p, atts, revs)
  BY DEF AddRevision
<1>1. u \in Seq(Revisions) /\ NewestFirst(u) /\ DistinctCommits(u)
  BY UpsertProperties DEF UpsertContract
<1>2. SelectAccepted(p, atts, CapRevisions(p, atts, u)) = SelectAccepted(p, atts, u)
  BY <1>1, CapKeepsOffer
<1>3. SelectAccepted(p, atts, u) = SelectAccepted(p, atts, revs)
  <2>1. CASE u = InsertNewestFirst(revs, r)
    BY <2>1, InsertIsInert
  <2>2. CASE u = revs
    BY <2>2
  <2>3. ASSUME NEW k \in 1 .. Len(revs), revs[k].event.commit = r.event.commit,
               u = InsertNewestFirst(RemoveAt(revs, k), r)
        PROVE  SelectAccepted(p, atts, u) = SelectAccepted(p, atts, revs)
    <3>1. RemoveAt(revs, k) \in Seq(Revisions) /\ NewestFirst(RemoveAt(revs, k))
      BY RemoveAtProperties, RemoveWellFormed
    <3>2. SelectAccepted(p, atts, u) = SelectAccepted(p, atts, RemoveAt(revs, k))
      BY <2>3, <3>1, InsertIsInert
    <3>3. SelectAccepted(p, atts, RemoveAt(revs, k)) = SelectAccepted(p, atts, revs)
      BY <2>3, RemoveIsInert
    <3> QED
      BY <3>2, <3>3
  <2> QED
    BY <2>1, <2>2, <2>3, UpsertCases
<1> QED
  BY <1>2, <1>3

\* The offer is the first installable revision.
LEMMA OfferIsFirst ==
  ASSUME NEW revs \in Seq(Revisions), NEW p, NEW atts,
         NEW q \in SelectAccepted(p, atts, revs)
  PROVE  \E m \in 1 .. Len(revs) :
           /\ q = revs[m]
           /\ Installable(p, atts, revs[m])
           /\ \A i \in 1 .. m - 1 : ~Installable(p, atts, revs[i])
<1> DEFINE n == Len(revs)
           ok == {i \in DOMAIN revs : Installable(p, atts, revs[i])}
<1>1. n \in Nat /\ DOMAIN revs = 1 .. n
  BY LenProperties
<1>2. ok # {} /\ q = revs[Min(ok)]
  BY DEF SelectAccepted
<1>3. ok \in SUBSET Nat
  BY <1>1
<1>4. PICK m \in ok : m = Min(ok) /\ \A x \in ok : m <= x
  BY <1>2, <1>3, MinIsLeast
<1>5. m \in 1 .. n /\ q = revs[m] /\ Installable(p, atts, revs[m])
  BY <1>1, <1>2, <1>4
<1>6. ASSUME NEW i \in 1 .. m - 1 PROVE ~Installable(p, atts, revs[i])
  <2>1. i \in 1 .. n /\ ~(m <= i)
    BY <1>1, <1>5
  <2> QED
    BY <1>1, <1>4, <2>1
<1> QED
  BY <1>5, <1>6

\* Lists that agree up to the first installable revision offer the same.
LEMMA SamePrefix ==
  ASSUME NEW revs \in Seq(Revisions), NEW u \in Seq(Revisions), NEW p, NEW atts,
         NEW m \in 1 .. Len(revs), m <= Len(u),
         \A i \in 1 .. m : u[i] = revs[i],
         Installable(p, atts, revs[m]),
         \A i \in 1 .. m - 1 : ~Installable(p, atts, revs[i])
  PROVE  SelectAccepted(p, atts, u) = SelectAccepted(p, atts, revs)
<1>1. \A v \in {revs, u} : SelectAccepted(p, atts, v) = {revs[m]}
  <2> SUFFICES ASSUME NEW v \in {revs, u} PROVE SelectAccepted(p, atts, v) = {revs[m]}
    OBVIOUS
  <2> DEFINE ok == {i \in DOMAIN v : Installable(p, atts, v[i])}
  <2>1. /\ v \in Seq(Revisions) /\ Len(revs) \in Nat
        /\ Len(v) \in Nat /\ DOMAIN v = 1 .. Len(v) /\ m <= Len(v)
    BY LenProperties
  <2>2. m \in ok /\ ok \in SUBSET Nat
    BY <2>1
  <2>3. PICK l \in ok : l = Min(ok) /\ \A x \in ok : l <= x
    BY <2>2, MinIsLeast
  <2>4. l = m
    <3>1. l <= m /\ l \in 1 .. Len(v) /\ Installable(p, atts, v[l])
      BY <2>1, <2>2, <2>3
    <3>2. l \notin 1 .. m - 1
      BY <2>1, <3>1
    <3> QED
      BY <2>1, <3>1, <3>2
  <2>5. SelectAccepted(p, atts, v) = {v[Min(ok)]}
    BY <2>2 DEF SelectAccepted
  <2>6. v[Min(ok)] = revs[m]
    <3>1. v[m] = revs[m]
      BY <2>1
    <3> QED
      BY <2>3, <2>4, <3>1
  <2> HIDE DEF ok
  <2> QED
    BY <2>5, <2>6
<1> QED
  BY <1>1

\* A revision that is not newer than the offer goes in behind it.
LEMMA OlderIsInert ==
  ASSUME NEW revs \in Seq(Revisions), NewestFirst(revs), DistinctCommits(revs),
         NEW r \in Revisions, NEW p, NEW atts,
         NEW q \in SelectAccepted(p, atts, revs), r.event.created <= q.event.created
  PROVE  SelectAccepted(p, atts, AddRevision(p, atts, revs, r))
           = SelectAccepted(p, atts, revs)
<1> SUFFICES ASSUME NEW u, u = UpsertRevision(revs, r)
             PROVE  SelectAccepted(p, atts, CapRevisions(p, atts, u))
                      = SelectAccepted(p, atts, revs)
  BY DEF AddRevision
<1>1. u \in Seq(Revisions) /\ NewestFirst(u) /\ DistinctCommits(u)
  BY UpsertProperties DEF UpsertContract
<1>2. SelectAccepted(p, atts, CapRevisions(p, atts, u)) = SelectAccepted(p, atts, u)
  BY <1>1, CapKeepsOffer
<1>3. PICK m \in 1 .. Len(revs) :
        /\ q = revs[m]
        /\ Installable(p, atts, revs[m])
        /\ \A i \in 1 .. m - 1 : ~Installable(p, atts, revs[i])
  BY OfferIsFirst
<1>4. /\ Len(revs) \in Nat /\ DOMAIN revs = 1 .. Len(revs)
      /\ r.event.created \in Nat
      /\ \A i \in 1 .. Len(revs) : revs[i].event.created \in Nat
  BY LenProperties, ElementOfSeq, RevisionFields
<1>5. \A i \in 1 .. m : revs[i].event.created >= r.event.created
  <2> SUFFICES ASSUME NEW i \in 1 .. m PROVE revs[i].event.created >= r.event.created
    OBVIOUS
  <2>1. i \in 1 .. Len(revs) /\ (i < m \/ i = m)
    BY <1>4
  <2>2. revs[i].event.created >= revs[m].event.created
    BY <1>4, <2>1 DEF NewestFirst
  <2> QED
    BY <1>3, <1>4, <2>1, <2>2
\* Inserting r keeps a front part that is no older than r.
<1>6. ASSUME NEW v \in Seq(Revisions), NewestFirst(v), m <= Len(v),
             \A i \in 1 .. m : v[i] = revs[i], u = InsertNewestFirst(v, r)
      PROVE  m <= Len(u) /\ \A i \in 1 .. m : u[i] = revs[i]
  <2>1. Len(v) \in Nat /\ Len(u) = Len(v) + 1
    BY <1>6, InsertIsSequence, LenProperties
  <2>2. PICK b \in 0 .. Len(v) :
          /\ \A i \in 1 .. b : v[i].event.created >= r.event.created
          /\ \A i \in b + 1 .. Len(v) : v[i].event.created < r.event.created
          /\ \A i \in 1 .. Len(v) + 1 :
               InsertNewestFirst(v, r)[i] =
                 IF i <= b THEN v[i] ELSE IF i = b + 1 THEN r ELSE v[i-1]
    BY <1>6, InsertPosition
  <2>3. m <= b
    <3> SUFFICES ASSUME ~(m <= b) PROVE FALSE
      OBVIOUS
    <3>1. m \in b + 1 .. Len(v) /\ m \in 1 .. m
      BY <1>4, <1>6, <2>1
    <3>2. revs[m].event.created < r.event.created /\ revs[m].event.created >= r.event.created
      BY <1>5, <1>6, <2>2, <3>1
    <3> QED
      BY <1>4, <3>2
  <2>4. ASSUME NEW i \in 1 .. m PROVE u[i] = revs[i]
    <3>1. i \in 1 .. Len(v) + 1 /\ i <= b
      BY <1>4, <1>6, <2>1, <2>3
    <3>2. InsertNewestFirst(v, r)[i] = v[i]
      BY <2>2, <3>1
    <3> QED
      BY <1>6, <3>2
  <2> QED
    BY <1>4, <1>6, <2>1, <2>4
<1>7. m <= Len(u) /\ \A i \in 1 .. m : u[i] = revs[i]
  <2>1. CASE u = InsertNewestFirst(revs, r)
    BY <1>4, <1>6, <2>1
  <2>2. CASE u = revs
    BY <1>4, <2>2
  <2>3. ASSUME NEW k \in 1 .. Len(revs), r.event.created > revs[k].event.created,
               u = InsertNewestFirst(RemoveAt(revs, k), r)
        PROVE  m <= Len(u) /\ \A i \in 1 .. m : u[i] = revs[i]
    <3>1. m < k
      <4>1. k \notin 1 .. m
        BY <1>4, <1>5, <2>3
      <4> QED
        BY <1>4, <4>1
    <3>2. /\ RemoveAt(revs, k) \in Seq(Revisions) /\ NewestFirst(RemoveAt(revs, k))
          /\ Len(RemoveAt(revs, k)) = Len(revs) - 1
          /\ \A i \in 1 .. Len(revs) - 1 :
               RemoveAt(revs, k)[i] = IF i < k THEN revs[i] ELSE revs[i+1]
      BY RemoveAtProperties, RemoveWellFormed
    <3>3. m <= Len(revs) - 1
      BY <1>4, <3>1
    <3>4. \A i \in 1 .. m : i \in 1 .. Len(revs) - 1 /\ i < k
      BY <1>4, <3>1, <3>3
    <3> QED
      BY <1>6, <2>3, <3>2, <3>3, <3>4
  <2> QED
    BY <2>1, <2>2, <2>3, UpsertCases
<1>8. SelectAccepted(p, atts, u) = SelectAccepted(p, atts, revs)
  BY <1>1, <1>3, <1>7, SamePrefix
<1> QED
  BY <1>2, <1>8

-----------------------------------------------------------------------------
(* Reloading *)

\* Replaying stored attestations, in whatever order, gives them back: there is
\* one in each slot, so that none meets another.
LEMMA AttestationsReload ==
  ASSUME NEW S, IsFiniteSet(S), \A a \in S : a.signed,
         \A a, b \in S : SameSlot(a, b) => a = b,
         NEW cache, cache.attestations = S
  PROVE  LoadAttestations(cache) = S
<1> DEFINE Pick(s) == CHOOSE x \in s : TRUE
           Op(a, loaded) == IF a.signed THEN StoreAttestation(loaded, a) ELSE loaded
           Iterates(h) == h = [s \in SUBSET S |->
                                 IF s = {} THEN {} ELSE Op(Pick(s), h[s \ {Pick(s)}])]
           iter == CHOOSE h : Iterates(h)
           g == [s \in SUBSET S |-> s]
<1>1. LoadAttestations(cache) = iter[S]
  BY DEF LoadAttestations, FoldSet, MapThenFoldSet
<1>2. ASSUME NEW s \in SUBSET S, s # {}
      PROVE  Pick(s) \in s /\ Op(Pick(s), s \ {Pick(s)}) = s
  <2>1. PICK x \in s : x = Pick(s)
    BY <1>2
  <2>2. x.signed /\ \A b \in s \ {x} : ~SameSlot(x, b)
    BY <1>2
  <2>3. StoreAttestation(s \ {x}, x) = s
    <3>1. StoreAttestation(s \ {x}, x) = {b \in s \ {x} : ~SameSlot(x, b)} \cup {x}
      BY <2>2 DEF StoreAttestation
    <3> QED
      BY <2>2, <3>1
  <2> HIDE DEF Pick
  <2> QED
    BY <2>1, <2>2, <2>3
<1> HIDE DEF Pick, Op
<1>3. Iterates(g)
  <2>1. ASSUME NEW s \in SUBSET S
        PROVE  g[s] = IF s = {} THEN {} ELSE Op(Pick(s), g[s \ {Pick(s)}])
    <3>1. s \ {Pick(s)} \in SUBSET S
      OBVIOUS
    <3> QED
      BY <1>2, <3>1
  <2>2. g = [s \in SUBSET S |-> g[s]]
    OBVIOUS
  <2> HIDE DEF g
  <2> QED
    BY <2>1, <2>2, Zenon
<1>4. Iterates(iter)
  BY <1>3
<1> HIDE DEF iter, g
<1>5. ASSUME NEW s \in SUBSET S
      PROVE  iter[s] = IF s = {} THEN {} ELSE Op(Pick(s), iter[s \ {Pick(s)}])
  BY <1>4
<1> HIDE DEF Iterates
<1> DEFINE Good == {n \in Nat : \A s \in SUBSET S : Cardinality(s) = n => iter[s] = s}
<1>6. 0 \in Good
  <2> SUFFICES ASSUME NEW s \in SUBSET S, Cardinality(s) = 0 PROVE iter[s] = s
    OBVIOUS
  <2>1. s = {}
    BY FS_Subset, FS_EmptySet
  <2> QED
    BY <1>5, <2>1
<1>7. ASSUME NEW n \in Nat, n \in Good PROVE n + 1 \in Good
  <2> SUFFICES ASSUME NEW s \in SUBSET S, Cardinality(s) = n + 1 PROVE iter[s] = s
    OBVIOUS
  <2>1. IsFiniteSet(s)
    BY FS_Subset
  <2>2. s # {}
    BY FS_EmptySet
  <2>3. Pick(s) \in s /\ Op(Pick(s), s \ {Pick(s)}) = s
    BY <1>2, <2>2
  <2>4. s \ {Pick(s)} \in SUBSET S /\ Cardinality(s \ {Pick(s)}) = n
    <3>1. Cardinality(s \ {Pick(s)}) = Cardinality(s) - 1
      BY <2>1, <2>3, FS_RemoveElement
    <3> QED
      BY <3>1
  <2>5. iter[s \ {Pick(s)}] = s \ {Pick(s)}
    BY <1>7, <2>4
  <2> QED
    BY <1>5, <2>2, <2>3, <2>5
<1> HIDE DEF Good
<1>8. Nat \subseteq Good
  BY <1>6, <1>7, SetInduction
<1>9. Cardinality(S) \in Good
  BY <1>8, FS_CardinalityType
<1> QED
  BY <1>1, <1>9 DEF Good

\* Load's second loop over the list of one pair.
LoadAll(p, atts, revs) ==
  FoldLeft(LAMBDA loaded, r : LoadRevision(p, atts, loaded, r), <<>>, revs)

\* The loop, entry by entry.
LEMMA LoadFold ==
  ASSUME NEW n \in Nat, NEW revs, DOMAIN revs = 1 .. n, NEW p, NEW atts,
         NEW T, <<>> \in T,
         \A i \in 1 .. n : \A x \in T : LoadRevision(p, atts, x, revs[i]) \in T
  PROVE  \E loaded :
           /\ loaded[0] = <<>>
           /\ \A i \in 1 .. n : loaded[i] = LoadRevision(p, atts, loaded[i-1], revs[i])
           /\ loaded[n] = LoadAll(p, atts, revs)
<1> DEFINE base == <<>>
           Op(x, m) == LoadRevision(p, atts, x, revs[m])
           step == [x \in Nat \X T |-> IF x[1] \in 1 .. n THEN Op(x[2], x[1]) ELSE base]
           Iterates(h) == h = [s \in SUBSET (1 .. n) |->
                                 IF s = {} THEN base ELSE Op(h[s \ {Max(s)}], Max(s))]
           iter == CHOOSE h : Iterates(h)
<1>0. \A m \in 1 .. n, x \in T : Op(x, m) \in T /\ step[m, x] = Op(x, m)
  <2> TAKE m \in 1 .. n, x \in T
  <2>1. Op(x, m) \in T /\ <<m, x>> \in Nat \X T
    OBVIOUS
  <2> HIDE DEF Op, base
  <2> QED
    BY <2>1
<1>1. PICK g : FoldsOver(g, n, T, base, step)
  <2>1. step \in [Nat \X T -> T] /\ base \in T
    <3>1. ASSUME NEW x \in Nat \X T
          PROVE  (IF x[1] \in 1 .. n THEN Op(x[2], x[1]) ELSE base) \in T
      <4>1. x[2] \in T
        OBVIOUS
      <4> HIDE DEF Op, base
      <4> QED
        BY <1>0, <4>1 DEF base
    <3> HIDE DEF Op, base
    <3> QED
      BY <3>1 DEF base
  <2> HIDE DEF step, base
  <2> QED
    BY <2>1, FoldExists
<1>2. Iterates(g)
  <2>1. g = [s \in SUBSET (1 .. n) |-> g[s]]
    BY <1>1 DEF FoldsOver
  <2>2. ASSUME NEW s \in SUBSET (1 .. n)
        PROVE  g[s] = IF s = {} THEN base ELSE Op(g[s \ {Max(s)}], Max(s))
    <3>1. g[s] = IF s = {} THEN base ELSE step[Max(s), g[s \ {Max(s)}]]
      BY <1>1 DEF FoldsOver
    <3>2. s # {} => Max(s) \in 1 .. n /\ g[s \ {Max(s)}] \in T
      <4>1. s # {} => Max(s) \in s
        BY MaxIsGreatest
      <4>2. s \ {Max(s)} \in SUBSET (1 .. n)
        OBVIOUS
      <4> QED
        BY <1>1, <4>1, <4>2 DEF FoldsOver
    <3> HIDE DEF step, Op, base
    <3> QED
      BY <1>0, <3>1, <3>2
  <2> HIDE DEF Op, base
  <2> QED
    BY <2>1, <2>2, Zenon
<1>3. Iterates(iter)
  BY <1>2
<1>4. iter[1 .. n] = LoadAll(p, atts, revs)
  BY DEF LoadAll, FoldLeft, MapThenFoldSet
<1> HIDE DEF iter, Op, base, step
<1>5. iter[1 .. 0] = base
  BY <1>3
<1>6. ASSUME NEW i \in 1 .. n PROVE iter[1 .. i] = Op(iter[1 .. i-1], i)
  <2>1. 1 .. i \in SUBSET (1 .. n) /\ i \in 1 .. i /\ i \in Nat /\ i # 0
    OBVIOUS
  <2>2. iter[1 .. i] = Op(iter[(1 .. i) \ {Max(1 .. i)}], Max(1 .. i))
    BY <1>3, <2>1
  <2> QED
    BY <2>1, <2>2, PrefixMax
<1> DEFINE loaded == [i \in 0 .. n |-> iter[1 .. i]]
<1>7. \A i \in 1 .. n : i \in 0 .. n /\ i - 1 \in 0 .. n
  OBVIOUS
<1>8. loaded[0] = base /\ loaded[n] = iter[1 .. n]
  BY <1>5
<1>9. \A i \in 1 .. n : loaded[i] = Op(loaded[i-1], i)
  BY <1>6, <1>7
<1> HIDE DEF loaded
<1> QED
  BY <1>4, <1>8, <1>9 DEF Op, base

\* Whatever an entry's replay preserves, Load preserves.
LEMMA LoadAllIn ==
  ASSUME NEW n \in Nat, NEW revs, DOMAIN revs = 1 .. n, NEW p, NEW atts,
         NEW T, <<>> \in T,
         \A i \in 1 .. n : \A x \in T : LoadRevision(p, atts, x, revs[i]) \in T
  PROVE  LoadAll(p, atts, revs) \in T
<1>1. PICK loaded :
        /\ loaded[0] = <<>>
        /\ \A i \in 1 .. n : loaded[i] = LoadRevision(p, atts, loaded[i-1], revs[i])
        /\ loaded[n] = LoadAll(p, atts, revs)
  BY LoadFold
<1> DEFINE Good == {i \in Nat : i <= n => loaded[i] \in T}
<1>2. 0 \in Good
  BY <1>1
<1>3. ASSUME NEW i \in Nat, i \in Good PROVE i + 1 \in Good
  <2>1. i + 1 <= n => i + 1 \in 1 .. n /\ (i + 1) - 1 = i /\ i <= n
    OBVIOUS
  <2> QED
    BY <1>1, <1>3, <2>1
<1> HIDE DEF Good
<1>4. Nat \subseteq Good
  BY <1>2, <1>3, SetInduction
<1>5. loaded[n] \in T
  BY <1>4 DEF Good
<1> QED
  BY <1>1, <1>5

\* Any list is loaded into a well-formed one that holds nothing but its entries.
LEMMA LoadAllWellFormed ==
  ASSUME NEW revs \in Seq(Revisions), NEW p, NEW atts
  PROVE  /\ LoadAll(p, atts, revs) \in Seq(Revisions)
         /\ NewestFirst(LoadAll(p, atts, revs))
         /\ DistinctCommits(LoadAll(p, atts, revs))
         /\ \A l \in 1 .. Len(LoadAll(p, atts, revs)) :
              \E m \in 1 .. Len(revs) : LoadAll(p, atts, revs)[l] = revs[m]
<1> DEFINE n == Len(revs)
           From(x) == \A l \in 1 .. Len(x) : \E m \in 1 .. n : x[l] = revs[m]
           T == {x \in Seq(Revisions) : NewestFirst(x) /\ DistinctCommits(x) /\ From(x)}
<1>1. /\ n \in Nat /\ DOMAIN revs = 1 .. n
      /\ \A i \in 1 .. n : revs[i] \in Revisions
  BY LenProperties, ElementOfSeq
<1>2. <<>> \in T
  BY DEF NewestFirst, DistinctCommits
<1> HIDE DEF n
<1>3. ASSUME NEW i \in 1 .. n, NEW x \in T PROVE LoadRevision(p, atts, x, revs[i]) \in T
  <2> DEFINE y == AddRevision(p, atts, x, revs[i])
  <2>1. /\ y \in Seq(Revisions) /\ NewestFirst(y) /\ DistinctCommits(y)
        /\ \A l \in 1 .. Len(y) : y[l] = revs[i] \/ \E m \in 1 .. Len(x) : y[l] = x[m]
    BY <1>1, AddProperties
  <2> HIDE DEF y
  <2>2. y \in T
    BY <2>1
  <2> QED
    BY <2>2 DEF LoadRevision, y
<1> HIDE DEF T
<1>4. LoadAll(p, atts, revs) \in T
  BY <1>1, <1>2, <1>3, LoadAllIn
<1> QED
  BY <1>4 DEF T, n

\* A publisher that is not trusted any more is not loaded.
LEMMA LoadAllTrusted ==
  ASSUME NEW revs \in Seq(Revisions), NEW p, NEW atts,
         \A i \in 1 .. Len(revs) : ~Validate(p, revs[i].event)
  PROVE  LoadAll(p, atts, revs) = <<>>
<1> DEFINE T == {<<>>}
<1>1. Len(revs) \in Nat /\ DOMAIN revs = 1 .. Len(revs)
  BY LenProperties
<1>2. \A i \in 1 .. Len(revs) : \A x \in T : LoadRevision(p, atts, x, revs[i]) \in T
  BY DEF LoadRevision
<1>3. <<>> \in T
  OBVIOUS
<1> HIDE DEF T
<1>4. LoadAll(p, atts, revs) \in T
  BY <1>1, <1>2, <1>3, LoadAllIn
<1> QED
  BY <1>4 DEF T

\* One revision more at the end is offered only if nothing before it is.
LEMMA OfferOfLonger ==
  ASSUME NEW s \in Seq(Revisions), NEW t \in Seq(Revisions), NEW p, NEW atts,
         Len(t) = Len(s) + 1, \A i \in 1 .. Len(s) : t[i] = s[i]
  PROVE  SelectAccepted(p, atts, t) =
           IF SelectAccepted(p, atts, s) # {} THEN SelectAccepted(p, atts, s)
           ELSE IF Installable(p, atts, t[Len(s) + 1]) THEN {t[Len(s) + 1]} ELSE {}
<1> DEFINE n == Len(s)
<1>1. n \in Nat /\ Len(t) = n + 1
  BY LenProperties
<1>2. CASE \A i \in 1 .. n : ~Installable(p, atts, s[i])
  <2>1. SelectAccepted(p, atts, s) = {}
    BY <1>2, FirstInstallable
  <2>2. \A i \in 1 .. n : ~Installable(p, atts, t[i])
    BY <1>2
  <2> HIDE DEF n
  <2>3. CASE Installable(p, atts, t[n + 1])
    <3>1. /\ n + 1 \in 1 .. Len(t)
          /\ \A k \in 1 .. (n + 1) - 1 : ~Installable(p, atts, t[k])
      BY <1>1, <2>2
    <3>2. SelectAccepted(p, atts, t) = {t[n + 1]}
      BY <2>3, <3>1, FirstInstallable
    <3> QED
      BY <2>1, <2>3, <3>2 DEF n
  <2>4. CASE ~Installable(p, atts, t[n + 1])
    <3>1. \A i \in 1 .. Len(t) : ~Installable(p, atts, t[i])
      <4>1. \A i \in 1 .. Len(t) : i \in 1 .. n \/ i = n + 1
        BY <1>1
      <4> QED
        BY <2>2, <2>4, <4>1
    <3>2. SelectAccepted(p, atts, t) = {}
      BY <3>1, FirstInstallable
    <3> QED
      BY <2>1, <2>4, <3>2 DEF n
  <2> QED
    BY <2>3, <2>4
<1>3. ASSUME NEW i \in 1 .. n, Installable(p, atts, s[i]),
             \A k \in 1 .. i - 1 : ~Installable(p, atts, s[k])
      PROVE  SelectAccepted(p, atts, t) = SelectAccepted(p, atts, s)
             /\ SelectAccepted(p, atts, s) # {}
  <2>1. SelectAccepted(p, atts, s) = {s[i]}
    BY <1>3, FirstInstallable
  <2>2. /\ i \in 1 .. Len(t) /\ t[i] = s[i]
        /\ \A k \in 1 .. i - 1 : t[k] = s[k]
    BY <1>1
  <2>3. SelectAccepted(p, atts, t) = {t[i]}
    BY <1>3, <2>2, FirstInstallable
  <2> QED
    BY <2>1, <2>2, <2>3
<1> QED
  BY <1>2, <1>3, FirstInstallable

\* Loading a list that one store held, under the policy that store had, offers
\* what it offered: the cap may drop what the first store still kept, the age of
\* a revision never decides differently.
LEMMA EntriesReload ==
  ASSUME NEW revs \in Seq(Revisions), NewestFirst(revs), DistinctCommits(revs),
         NEW p, NEW atts,
         \A i \in 1 .. Len(revs) : /\ Validate(p, revs[i].event)
                                   /\ revs[i].manifest => Translates(revs[i].event)
  PROVE  SelectAccepted(p, atts, LoadAll(p, atts, revs)) = SelectAccepted(p, atts, revs)
<1> DEFINE n == Len(revs)
<1>1. /\ n \in Nat /\ DOMAIN revs = 1 .. n
      /\ \A i \in 1 .. n : revs[i] \in Revisions
  BY LenProperties, ElementOfSeq
<1>2. \A i \in 1 .. n : \A x : LoadRevision(p, atts, x, revs[i]) =
        IF revs[i].manifest THEN AddRevision(p, atts, x, revs[i]) ELSE x
  BY DEF LoadRevision
<1> HIDE DEF n
<1> DEFINE T == {x \in Seq(Revisions) : NewestFirst(x) /\ DistinctCommits(x)}
<1>3. <<>> \in T
  BY DEF NewestFirst, DistinctCommits
<1>4. ASSUME NEW i \in 1 .. n, NEW x \in T PROVE LoadRevision(p, atts, x, revs[i]) \in T
  <2>1. AddRevision(p, atts, x, revs[i]) \in T
    BY <1>1, AddProperties
  <2> HIDE DEF T
  <2> QED
    BY <1>2, <2>1
<1>5. PICK loaded :
        /\ loaded[0] = <<>>
        /\ \A i \in 1 .. n : loaded[i] = LoadRevision(p, atts, loaded[i-1], revs[i])
        /\ loaded[n] = LoadAll(p, atts, revs)
  <2> HIDE DEF T
  <2> QED
    BY <1>1, <1>3, <1>4, LoadFold
<1> DEFINE Upto(i) == SubSeq(revs, 1, i)
           Same(i) == /\ loaded[i] \in T
                      /\ \A l \in 1 .. Len(loaded[i]) :
                           \E m \in 1 .. i : loaded[i][l] = revs[m]
                      /\ SelectAccepted(p, atts, loaded[i]) = SelectAccepted(p, atts, Upto(i))
           Good == {i \in Nat : i <= n => Same(i)}
<1>6. ASSUME NEW i \in 0 .. n
      PROVE  /\ Upto(i) \in Seq(Revisions)
             /\ Len(Upto(i)) = i
             /\ \A m \in 1 .. i : Upto(i)[m] = revs[m]
  <2>1. /\ 1 \in 1 .. n + 1 /\ i \in 1 - 1 .. n /\ i - 1 + 1 = i
        /\ \A m \in 1 .. i : 1 + m - 1 = m
    BY <1>1
  <2> QED
    BY <2>1, SubSeqProperties DEF n
<1> HIDE DEF Upto
<1>7. Same(0)
  <2>1. Len(<<>>) = 0 /\ 0 \in 0 .. n
    BY <1>1
  <2>2. \A i \in 1 .. 0 : FALSE
    OBVIOUS
  <2>3. SelectAccepted(p, atts, <<>>) = {}
    BY <1>3, <2>1, <2>2, FirstInstallable
  <2>4. SelectAccepted(p, atts, Upto(0)) = {}
    BY <1>6, <2>1, <2>2, FirstInstallable
  <2> QED
    BY <1>3, <1>5, <2>1, <2>2, <2>3, <2>4
<1>8. ASSUME NEW i \in Nat, i + 1 <= n, Same(i) PROVE Same(i + 1)
  <2> DEFINE r == revs[i + 1]
             x == loaded[i]
             y == loaded[i + 1]
  <2>1. /\ i + 1 \in 1 .. n /\ (i + 1) - 1 = i /\ i \in 0 .. n /\ i + 1 \in 0 .. n
        /\ \A m \in 1 .. i : m \in 1 .. n /\ m \in 1 .. i + 1 /\ m # i + 1 /\ m < i + 1
        /\ i + 1 \in 1 .. i + 1
    <3>1. n \in Nat /\ i \in Nat /\ i + 1 <= n
      BY <1>1, <1>8
    <3>2. /\ i + 1 \in 1 .. n /\ (i + 1) - 1 = i /\ i \in 0 .. n /\ i + 1 \in 0 .. n
          /\ i + 1 \in 1 .. i + 1
      BY <3>1
    <3>3. \A m \in 1 .. i : m \in 1 .. n /\ m \in 1 .. i + 1 /\ m # i + 1 /\ m < i + 1
      BY <3>1
    <3> QED
      BY <3>1, <3>2, <3>3
  <2>2. /\ r \in Revisions
        /\ y = IF r.manifest THEN AddRevision(p, atts, x, r) ELSE x
    <3>1. y = LoadRevision(p, atts, x, r)
      BY <1>5, <2>1
    <3> QED
      BY <1>1, <1>2, <2>1, <3>1
  <2>3. /\ x \in Seq(Revisions) /\ NewestFirst(x) /\ DistinctCommits(x)
        /\ \A l \in 1 .. Len(x) : \E m \in 1 .. i : x[l] = revs[m]
        /\ SelectAccepted(p, atts, x) = SelectAccepted(p, atts, Upto(i))
    BY <1>8
  <2>4. SelectAccepted(p, atts, Upto(i + 1)) =
          IF SelectAccepted(p, atts, Upto(i)) # {} THEN SelectAccepted(p, atts, Upto(i))
          ELSE IF Installable(p, atts, r) THEN {r} ELSE {}
    <3>1. Upto(i) \in Seq(Revisions) /\ Len(Upto(i)) = i /\ Upto(i + 1) \in Seq(Revisions)
          /\ Len(Upto(i + 1)) = Len(Upto(i)) + 1
      BY <1>6, <2>1
    <3>2. \A m \in 1 .. Len(Upto(i)) : Upto(i + 1)[m] = Upto(i)[m]
      BY <1>6, <2>1
    <3>3. Upto(i + 1)[Len(Upto(i)) + 1] = r
      BY <1>6, <2>1
    <3>4. SelectAccepted(p, atts, Upto(i + 1)) =
            IF SelectAccepted(p, atts, Upto(i)) # {} THEN SelectAccepted(p, atts, Upto(i))
            ELSE IF Installable(p, atts, Upto(i + 1)[Len(Upto(i)) + 1])
              THEN {Upto(i + 1)[Len(Upto(i)) + 1]} ELSE {}
      BY <3>1, <3>2, OfferOfLonger
    <3> QED
      BY <3>3, <3>4
  <2>5. \A l \in 1 .. Len(x) : x[l].event.commit # r.event.commit
                               /\ x[l].event.created >= r.event.created
    <3> TAKE l \in 1 .. Len(x)
    <3>1. PICK m \in 1 .. i : x[l] = revs[m]
      BY <2>3
    <3>2. m \in DOMAIN revs /\ i + 1 \in DOMAIN revs /\ m < i + 1
      BY <1>1, <2>1
    <3> QED
      BY <3>1, <3>2 DEF NewestFirst, DistinctCommits
  <2> HIDE DEF x, y, r
  <2>6. CASE ~r.manifest
    <3>1. ~Installable(p, atts, r)
      BY <2>6 DEF Installable
    <3>2. y = x
      BY <2>2, <2>6
    <3>3. SelectAccepted(p, atts, y) = SelectAccepted(p, atts, Upto(i + 1))
      BY <2>3, <2>4, <3>1, <3>2
    <3>4. y \in T /\ \A l \in 1 .. Len(y) : \E m \in 1 .. i + 1 : y[l] = revs[m]
      BY <2>1, <2>3, <3>2
    <3> QED
      BY <3>3, <3>4 DEF y
  <2>7. CASE r.manifest
    <3> DEFINE u == InsertNewestFirst(x, r)
    <3>1. y = AddRevision(p, atts, x, r)
      BY <2>2, <2>7
    <3>2. /\ y \in T
          /\ \A l \in 1 .. Len(y) : y[l] = r \/ \E m \in 1 .. Len(x) : y[l] = x[m]
      BY <2>2, <2>3, <3>1, AddProperties
    <3>3. UpsertRevision(x, r) = u
      <4>1. \/ UpsertRevision(x, r) = u
            \/ \E k \in 1 .. Len(x) : x[k].event.commit = r.event.commit
        BY <2>2, <2>3, UpsertCases
      <4> QED
        BY <2>5, <4>1
    <3>4. y = CapRevisions(p, atts, u)
      BY <3>1, <3>3 DEF AddRevision
    <3>5. u \in Seq(Revisions) /\ Len(u) = Len(x) + 1 /\ NewestFirst(u) /\ DistinctCommits(u)
      BY <2>2, <2>3, <2>5, InsertWellFormed
    <3>6. SelectAccepted(p, atts, y) = SelectAccepted(p, atts, u)
      BY <3>4, <3>5, CapKeepsOffer
    <3>7. (\A l \in 1 .. Len(x) : u[l] = x[l]) /\ u[Len(x) + 1] = r
      <4>1. Len(x) \in Nat /\ DOMAIN x = 1 .. Len(x)
        BY <2>3, LenProperties
      <4>2. \A l \in 1 .. Len(x) + 1 : u[l] =
              IF l <= Len(x) /\ x[l].event.created >= r.event.created THEN x[l]
              ELSE IF l = 1 \/ x[l-1].event.created >= r.event.created THEN r
              ELSE x[l-1]
        BY <4>1 DEF InsertNewestFirst
      <4> HIDE DEF u
      <4>3. \A l \in 1 .. Len(x) : u[l] = x[l]
        BY <2>5, <4>1, <4>2
      <4>4. u[Len(x) + 1] = r
        <5>1. Len(x) + 1 \in 1 .. Len(x) + 1 /\ ~(Len(x) + 1 <= Len(x))
          BY <4>1
        <5>2. Len(x) + 1 # 1 => (Len(x) + 1) - 1 \in 1 .. Len(x)
          BY <4>1
        <5> QED
          BY <2>5, <4>2, <5>1, <5>2
      <4> QED
        BY <4>3, <4>4
    <3>8. SelectAccepted(p, atts, u) =
            IF SelectAccepted(p, atts, x) # {} THEN SelectAccepted(p, atts, x)
            ELSE IF Installable(p, atts, r) THEN {r} ELSE {}
      <4> HIDE DEF u
      <4>1. SelectAccepted(p, atts, u) =
              IF SelectAccepted(p, atts, x) # {} THEN SelectAccepted(p, atts, x)
              ELSE IF Installable(p, atts, u[Len(x) + 1]) THEN {u[Len(x) + 1]} ELSE {}
        BY <2>3, <3>5, <3>7, OfferOfLonger
      <4> QED
        BY <3>7, <4>1
    <3> HIDE DEF u
    <3>9. SelectAccepted(p, atts, y) = SelectAccepted(p, atts, Upto(i + 1))
      BY <2>3, <2>4, <3>6, <3>8
    <3>10. \A l \in 1 .. Len(y) : \E m \in 1 .. i + 1 : y[l] = revs[m]
      <4> TAKE l \in 1 .. Len(y)
      <4>1. CASE y[l] = r
        BY <2>1, <4>1 DEF r
      <4>2. ASSUME NEW m \in 1 .. Len(x), y[l] = x[m]
            PROVE  \E j \in 1 .. i + 1 : y[l] = revs[j]
        BY <2>1, <2>3, <4>2
      <4> QED
        BY <3>2, <4>1, <4>2
    <3> QED
      BY <3>2, <3>9, <3>10 DEF y
  <2> QED
    BY <2>6, <2>7
<1> HIDE DEF Same
<1>9. Same(n)
  <2>1. 0 \in Good
    BY <1>7
  <2>2. ASSUME NEW i \in Nat, i \in Good PROVE i + 1 \in Good
    BY <1>1, <1>8, <2>2
  <2> HIDE DEF Good
  <2>3. Nat \subseteq Good
    BY <2>1, <2>2, SetInduction
  <2> QED
    BY <1>1, <2>3 DEF Good
<1>10. Upto(n) = revs
  <2>1. n \in 0 .. n /\ Len(Upto(n)) = Len(revs)
    BY <1>1, <1>6 DEF n
  <2>2. \A m \in 1 .. Len(revs) : Upto(n)[m] = revs[m]
    BY <1>6, <2>1 DEF n
  <2>3. Upto(n) \in Seq(Revisions)
    BY <1>6, <2>1
  <2> QED
    BY <2>1, <2>2, <2>3, SeqEqual
<1> QED
  BY <1>5, <1>9, <1>10 DEF Same
=============================================================================
