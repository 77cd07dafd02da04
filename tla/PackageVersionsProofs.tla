----------------------- MODULE PackageVersionsProofs -----------------------
(***************************************************************************)
(* comparePackageVersions orders all versions, of any length, as its       *)
(* comment says.                                                           *)
(***************************************************************************)
EXTENDS PackageVersions, FiniteLemmas, SequenceTheorems

LEMMA ElementForms ==
  ASSUME NEW x \in Elements
  PROVE  (\E n \in Nat : x = Run(n)) \/ (\E b \in 0 .. 255 \ 48 .. 57 : x = Char(b))
BY DEF Elements, Run, Char

\* Two different elements are ordered, the way their ranks are.
LEMMA ElementsFollowRanks ==
  ASSUME NEW x \in Elements, NEW y \in Elements, x # y
  PROVE  /\ CompareElements(x, y) \in {-1, 1}
         /\ CompareElements(x, y) = 1 <=> RankedAfter(x, y)
         /\ CompareElements(x, y) = -1 <=> RankedAfter(y, x)
<1>1. CASE \E n, k \in Nat : x = Run(n) /\ y = Run(k)
  <2> PICK n \in Nat, k \in Nat : x = Run(n) /\ y = Run(k)
    BY <1>1
  <2>1. n # k /\ x.digits /\ y.digits /\ x.value = n /\ y.value = k /\ x # Tilde /\ y # Tilde
    BY DEF Run, Tilde, Char
  <2>2. Rank(x) = <<2, n>> /\ Rank(y) = <<2, k>>
    BY <2>1 DEF Rank
  <2> QED
    BY <2>1, <2>2 DEF CompareElements, RankedAfter, Sign
<1>2. CASE \E n \in Nat, b \in 0 .. 255 \ 48 .. 57 : x = Run(n) /\ y = Char(b)
  <2> PICK n \in Nat, b \in 0 .. 255 \ 48 .. 57 : x = Run(n) /\ y = Char(b)
    BY <1>2
  <2>1. x.digits /\ ~y.digits /\ x.value = n /\ y.value = b /\ x # Tilde
    BY DEF Run, Tilde, Char
  <2>2. Rank(x) = <<2, n>>
    BY <2>1 DEF Rank
  <2>3. CASE b = 126
    <3>1. y = Tilde /\ Rank(y) = <<0, 0>>
      BY <2>3 DEF Tilde, Rank
    <3> QED
      BY <2>1, <2>2, <3>1 DEF CompareElements, RankedAfter
  <2>4. CASE b # 126
    <3>1. y # Tilde /\ Rank(y) = IF b < 48 THEN <<1, b>> ELSE <<3, b>>
      BY <2>1, <2>4 DEF Tilde, Char, Rank
    <3>2. CompareElements(x, y) = Sign(48 - b)
      BY <2>1, <3>1 DEF CompareElements, Byte
    <3> QED
      BY <2>1, <2>2, <3>1, <3>2 DEF RankedAfter, Sign
  <2> QED
    BY <2>3, <2>4
<1>3. CASE \E n \in Nat, b \in 0 .. 255 \ 48 .. 57 : y = Run(n) /\ x = Char(b)
  <2> PICK n \in Nat, b \in 0 .. 255 \ 48 .. 57 : y = Run(n) /\ x = Char(b)
    BY <1>3
  <2>1. y.digits /\ ~x.digits /\ y.value = n /\ x.value = b /\ y # Tilde
    BY DEF Run, Tilde, Char
  <2>2. Rank(y) = <<2, n>>
    BY <2>1 DEF Rank
  <2>3. CASE b = 126
    <3>1. x = Tilde /\ Rank(x) = <<0, 0>>
      BY <2>3 DEF Tilde, Rank
    <3> QED
      BY <2>1, <2>2, <3>1 DEF CompareElements, RankedAfter
  <2>4. CASE b # 126
    <3>1. x # Tilde /\ Rank(x) = IF b < 48 THEN <<1, b>> ELSE <<3, b>>
      BY <2>1, <2>4 DEF Tilde, Char, Rank
    <3>2. CompareElements(x, y) = Sign(b - 48)
      BY <2>1, <3>1 DEF CompareElements, Byte
    <3> QED
      BY <2>1, <2>2, <3>1, <3>2 DEF RankedAfter, Sign
  <2> QED
    BY <2>3, <2>4
<1>4. CASE \E b, c \in 0 .. 255 \ 48 .. 57 : x = Char(b) /\ y = Char(c)
  <2> PICK b \in 0 .. 255 \ 48 .. 57, c \in 0 .. 255 \ 48 .. 57 : x = Char(b) /\ y = Char(c)
    BY <1>4
  <2>1. b # c /\ ~x.digits /\ ~y.digits /\ x.value = b /\ y.value = c
    BY DEF Char
  <2>2. (x = Tilde <=> b = 126) /\ (y = Tilde <=> c = 126)
    BY <2>1 DEF Char, Tilde
  <2>3. Rank(x) = IF b = 126 THEN <<0, 0>> ELSE IF b < 48 THEN <<1, b>> ELSE <<3, b>>
    BY <2>1, <2>2 DEF Rank
  <2>4. Rank(y) = IF c = 126 THEN <<0, 0>> ELSE IF c < 48 THEN <<1, c>> ELSE <<3, c>>
    BY <2>1, <2>2 DEF Rank
  <2>5. CompareElements(x, y) = IF b = 126 THEN -1 ELSE IF c = 126 THEN 1 ELSE Sign(b - c)
    BY <2>1, <2>2 DEF CompareElements, Byte
  <2> QED
    BY <2>1, <2>3, <2>4, <2>5 DEF RankedAfter, Sign
<1> QED
  BY <1>1, <1>2, <1>3, <1>4, ElementForms

\* No element is ranked after itself.
LEMMA RankIrreflexive ==
  ASSUME NEW x \in Elements
  PROVE  ~RankedAfter(x, x)
<1>1. x.value \in Nat
  BY ElementForms DEF Run, Char
<1>2. Rank(x)[1] \in Nat /\ Rank(x)[2] \in Nat
  BY <1>1 DEF Rank
<1> QED
  BY <1>2 DEF RankedAfter

\* The loop stops, at one place.
LEMMA StopsOnce ==
  ASSUME NEW left \in Versions, NEW right \in Versions
  PROVE  /\ Stop(left, right) \in 1 .. Len(left) + 1
         /\ Agree(left, right, Stop(left, right) - 1)
         /\ ~Agree(left, right, Stop(left, right))
         /\ \A i \in 1 .. Len(left) + 1 :
              Agree(left, right, i - 1) /\ ~Agree(left, right, i) => i = Stop(left, right)
<1>0. Len(left) \in Nat /\ Len(right) \in Nat
  BY LenProperties DEF Versions
<1> DEFINE Beyond == {i \in Nat : ~Agree(left, right, i)}
           Less == {ss \in Nat \X Nat : ss[1] < ss[2]}
<1>1. Len(left) + 1 \in Beyond
  BY <1>0 DEF Agree
<1>2. IsWellFoundedOn(Less, Nat)
  BY NatLessThanWellFounded DEF OpToRel
<1>3. PICK m \in Beyond : \A y \in Beyond : ~ (<<y, m>> \in Less)
  BY <1>1, <1>2, WFMin
<1>4. ASSUME NEW y \in Beyond PROVE m <= y
  <2>1. m \in Nat /\ y \in Nat
    OBVIOUS
  <2>2. ~ (y < m)
    BY <1>3, <2>1
  <2> QED
    BY <2>1, <2>2
<1>5. 0 \notin Beyond
  BY <1>0 DEF Agree
<1>6. m \in 1 .. Len(left) + 1 /\ ~Agree(left, right, m)
  BY <1>0, <1>1, <1>4, <1>5
<1>7. Agree(left, right, m - 1)
  BY <1>4, <1>6
<1>8. \A i, j \in 1 .. Len(left) + 1 :
        Agree(left, right, i - 1) /\ ~Agree(left, right, j) => i <= j
  BY <1>0 DEF Agree
<1>9. /\ Stop(left, right) \in 1 .. Len(left) + 1
      /\ Agree(left, right, Stop(left, right) - 1)
      /\ ~Agree(left, right, Stop(left, right))
  BY <1>6, <1>7 DEF Stop
<1> QED
  BY <1>0, <1>8, <1>9

\* One of two versions is the later exactly when the loop says so, whichever way
\* round it is asked, and only a version itself compares as equal to it: the
\* choice among publishers of one source never depends on which it asks first.
THEOREM ComparesAsDocumented ==
  ASSUME NEW left \in Versions, NEW right \in Versions
  PROVE  /\ ComparePackageVersions(left, right) > 0 <=> LaterVersion(left, right)
         /\ ComparePackageVersions(left, right) < 0 <=> LaterVersion(right, left)
         /\ ComparePackageVersions(left, right) = 0 <=> left = right
<1> DEFINE i == Stop(left, right)
<1>0. Len(left) \in Nat /\ Len(right) \in Nat
  BY LenProperties DEF Versions
<1>1. /\ i \in 1 .. Len(left) + 1
      /\ Agree(left, right, i - 1)
      /\ ~Agree(left, right, i)
  BY StopsOnce
<1>2. i - 1 <= Len(right) /\ \A j \in 1 .. i - 1 : left[j] = right[j]
  BY <1>1 DEF Agree
<1>3. LaterVersion(left, right) <=> i <= Len(left) /\ (i <= Len(right) => RankedAfter(left[i], right[i]))
  <2>1. ASSUME NEW j \in 1 .. Len(left), Agree(left, right, j - 1),
               j <= Len(right) => RankedAfter(left[j], right[j])
        PROVE  j = i
    <3>1. CASE j > Len(right)
      BY <1>0, <2>1, <3>1, StopsOnce DEF Agree
    <3>2. CASE j <= Len(right)
      <4>1. left[j] # right[j]
        <5>1. left[j] \in Elements
          BY ElementOfSeq, <1>0 DEF Versions
        <5>2. ~RankedAfter(left[j], left[j])
          BY <5>1, RankIrreflexive
        <5> QED
          BY <2>1, <3>2, <5>2
      <4> QED
        BY <1>0, <2>1, <3>2, <4>1, StopsOnce DEF Agree
    <3> QED
      BY <1>0, <3>1, <3>2
  <2> HIDE DEF i
  <2> QED
    BY <1>0, <1>1, <2>1 DEF LaterVersion
<1>4. LaterVersion(right, left) <=> i <= Len(right) /\ (i <= Len(left) => RankedAfter(right[i], left[i]))
  <2>1. ASSUME NEW j \in 1 .. Len(right), Agree(right, left, j - 1),
               j <= Len(left) => RankedAfter(right[j], left[j])
        PROVE  j = i
    <3>0. Agree(left, right, j - 1) /\ j \in 1 .. Len(left) + 1
      BY <1>0, <2>1 DEF Agree
    <3>1. CASE j > Len(left)
      BY <1>0, <2>1, <3>0, <3>1, StopsOnce DEF Agree
    <3>2. CASE j <= Len(left)
      <4>1. left[j] # right[j]
        <5>1. left[j] \in Elements
          BY ElementOfSeq, <1>0, <3>2 DEF Versions
        <5>2. ~RankedAfter(left[j], left[j])
          BY <5>1, RankIrreflexive
        <5> QED
          BY <2>1, <3>2, <5>2
      <4> QED
        BY <1>0, <2>1, <3>0, <3>2, <4>1, StopsOnce DEF Agree
    <3> QED
      BY <1>0, <3>1, <3>2
  <2>2. i <= Len(right) => Agree(right, left, i - 1) /\ i \in 1 .. Len(right)
    BY <1>0, <1>1 DEF Agree
  <2> HIDE DEF i
  <2> QED
    BY <1>0, <1>1, <2>1, <2>2 DEF LaterVersion
<1>5. CASE i > Len(left)
  <2>1. i = Len(left) + 1 /\ Len(left) <= Len(right)
    BY <1>0, <1>1, <1>2, <1>5
  <2>2. CASE i > Len(right)
    <3>1. Len(left) = Len(right)
      BY <1>0, <2>1, <2>2
    <3>2. left = right
      BY <1>0, <1>2, <2>1, <3>1, SeqEqual DEF Versions
    <3>3. ComparePackageVersions(left, right) = 0
      BY <1>5, <2>2 DEF ComparePackageVersions
    <3> QED
      BY <1>0, <1>1, <1>3, <1>4, <1>5, <2>2, <3>2, <3>3
  <2>3. CASE i <= Len(right)
    <3>1. ComparePackageVersions(left, right) = -1
      BY <1>0, <1>1, <1>5, <2>3 DEF ComparePackageVersions
    <3>2. left # right
      BY <1>0, <1>1, <1>5, <2>3
    <3> QED
      BY <1>0, <1>1, <1>3, <1>4, <1>5, <2>3, <3>1, <3>2
  <2> QED
    BY <1>0, <1>1, <2>2, <2>3
<1>6. CASE i <= Len(left) /\ i > Len(right)
  <2>1. ComparePackageVersions(left, right) = 1
    BY <1>0, <1>1, <1>6 DEF ComparePackageVersions
  <2>2. left # right
    BY <1>0, <1>1, <1>6
  <2> QED
    BY <1>0, <1>1, <1>3, <1>4, <1>6, <2>1, <2>2
<1>7. CASE i <= Len(left) /\ i <= Len(right)
  <2>1. left[i] # right[i]
    BY <1>0, <1>1, <1>7 DEF Agree
  <2>2. left[i] \in Elements /\ right[i] \in Elements
    BY <1>0, <1>1, <1>7, ElementOfSeq DEF Versions
  <2>3. ComparePackageVersions(left, right) = CompareElements(left[i], right[i])
    BY <1>0, <1>1, <1>7 DEF ComparePackageVersions
  <2>4. left # right
    BY <2>1
  <2> HIDE DEF i
  <2> QED
    BY <1>3, <1>4, <1>7, <2>1, <2>2, <2>3, <2>4, ElementsFollowRanks
<1> QED
  BY <1>0, <1>1, <1>5, <1>6, <1>7

LEMMA RankTransitive ==
  ASSUME NEW x \in Elements, NEW y \in Elements, NEW z \in Elements,
         RankedAfter(x, y), RankedAfter(y, z)
  PROVE  RankedAfter(x, z)
<1>1. \A e \in Elements : Rank(e)[1] \in Nat /\ Rank(e)[2] \in Nat
  <2> TAKE e \in Elements
  <2>1. e.value \in Nat
    BY ElementForms DEF Run, Char
  <2> QED
    BY <2>1 DEF Rank
<1>2. /\ Rank(x)[1] \in Nat /\ Rank(x)[2] \in Nat
      /\ Rank(y)[1] \in Nat /\ Rank(y)[2] \in Nat
      /\ Rank(z)[1] \in Nat /\ Rank(z)[2] \in Nat
  BY <1>1
<1> QED
  BY <1>2 DEF RankedAfter

\* Of three versions the order never runs in a circle: with the theorem above,
\* the versions of one source have a latest, whatever order they are met in.
THEOREM LaterIsTransitive ==
  ASSUME NEW a \in Versions, NEW b \in Versions, NEW c \in Versions,
         LaterVersion(a, b), LaterVersion(b, c)
  PROVE  LaterVersion(a, c)
<1>1. Len(a) \in Nat /\ Len(b) \in Nat /\ Len(c) \in Nat
  BY LenProperties DEF Versions
<1>2. PICK i \in 1 .. Len(a) : /\ Agree(a, b, i - 1)
                               /\ i <= Len(b) => RankedAfter(a[i], b[i])
  BY DEF LaterVersion
<1>3. PICK j \in 1 .. Len(b) : /\ Agree(b, c, j - 1)
                               /\ j <= Len(c) => RankedAfter(b[j], c[j])
  BY DEF LaterVersion
<1>4. CASE i < j
  <2>1. i <= Len(b) /\ i <= Len(c) /\ b[i] = c[i]
    BY <1>1, <1>3, <1>4 DEF Agree
  <2>2. Agree(a, c, i - 1)
    BY <1>1, <1>2, <1>3, <1>4 DEF Agree
  <2> QED
    BY <1>2, <2>1, <2>2 DEF LaterVersion
<1>5. CASE i = j
  <2>1. Agree(a, c, i - 1)
    BY <1>1, <1>2, <1>3, <1>5 DEF Agree
  <2>2. ASSUME i <= Len(c) PROVE RankedAfter(a[i], c[i])
    <3>1. a[i] \in Elements /\ b[i] \in Elements /\ c[i] \in Elements
      BY <1>1, <1>5, <2>2, ElementOfSeq DEF Versions
    <3> QED
      BY <1>1, <1>2, <1>3, <1>5, <2>2, <3>1, RankTransitive
  <2> QED
    BY <2>1, <2>2 DEF LaterVersion
<1>6. CASE j < i
  <2>1. j \in 1 .. Len(a) /\ a[j] = b[j]
    BY <1>1, <1>2, <1>6 DEF Agree
  <2>2. Agree(a, c, j - 1)
    BY <1>1, <1>2, <1>3, <1>6 DEF Agree
  <2> QED
    BY <1>3, <2>1, <2>2 DEF LaterVersion
<1> QED
  BY <1>1, <1>4, <1>5, <1>6
=============================================================================
