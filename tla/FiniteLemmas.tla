---------------------------- MODULE FiniteLemmas ----------------------------
(***************************************************************************)
(* Facts about natural numbers, finite sets and folds that know nothing of *)
(* the modules that need them.                                             *)
(*                                                                         *)
(* The folds of the community modules are one function, iter, defined by   *)
(* recursion on the subsets of a set.  That such a function exists is      *)
(* shown here for the subsets of 1 .. n taken apart from the greatest      *)
(* element down (FoldLeft), with the step given as a function; a lemma     *)
(* about one fold expands the fold and cites the existence.                *)
(***************************************************************************)
EXTENDS Integers, FiniteSets, FiniteSetsExt, FiniteSetTheorems,
        WellFoundedInduction, TLAPS

-----------------------------------------------------------------------------
(* Natural numbers *)

\* A non-empty set of natural numbers has a least element, which Min returns.
LEMMA MinIsLeast ==
  ASSUME NEW S \in SUBSET Nat, S # {}
  PROVE  Min(S) \in S /\ \A x \in S : Min(S) <= x
<1> DEFINE Less == {ss \in Nat \X Nat : ss[1] < ss[2]}
<1>1. IsWellFoundedOn(Less, Nat)
  BY NatLessThanWellFounded DEF OpToRel
<1>2. PICK m \in S : \A y \in S : ~ (<<y, m>> \in Less)
  BY <1>1, WFMin
<1>3. ASSUME NEW y \in S PROVE m <= y
  <2>1. y \in Nat /\ m \in Nat
    OBVIOUS
  <2>2. ~ (y < m)
    BY <1>2, <2>1
  <2> QED
    BY <2>1, <2>2
<1> QED
  BY <1>3 DEF Min

\* Induction, over a set instead of a formula.
LEMMA SetInduction ==
  ASSUME NEW S, 0 \in S, \A n \in Nat : n \in S => n + 1 \in S
  PROVE  Nat \subseteq S
<1> DEFINE T == Nat \ S
<1>1. SUFFICES ASSUME T # {} PROVE FALSE
  OBVIOUS
<1>2. Min(T) \in T /\ \A x \in T : Min(T) <= x
  BY <1>1, MinIsLeast
<1>3. Min(T) \in Nat /\ Min(T) # 0
  BY <1>2
<1>4. Min(T) - 1 \in Nat /\ Min(T) - 1 \notin T
  BY <1>2, <1>3
<1>5. (Min(T) - 1) + 1 \in S
  BY <1>4
<1> QED
  BY <1>2, <1>3, <1>5

\* The greatest element of a non-empty set of integers up to n.
LEMMA MaxIsGreatest ==
  ASSUME NEW n \in Nat, NEW S \in SUBSET (1 .. n), S # {}
  PROVE  Max(S) \in S /\ \A x \in S : Max(S) >= x
<1> DEFINE T == {n - x : x \in S}
<1>1. T \in SUBSET Nat /\ T # {}
  <2>1. \A x \in S : x \in 1 .. n /\ n - x \in Nat
    OBVIOUS
  <2> QED
    BY <2>1
<1>2. PICK m \in T : \A y \in T : m <= y
  BY <1>1, MinIsLeast
<1>3. PICK x \in S : m = n - x
  BY <1>2
<1>4. ASSUME NEW y \in S PROVE x >= y
  <2>1. n - y \in T /\ y \in Int /\ x \in Int
    OBVIOUS
  <2>2. n - x <= n - y
    BY <1>2, <1>3, <2>1
  <2> QED
    BY <2>1, <2>2
<1> QED
  BY <1>3, <1>4 DEF Max

\* n times a number that grows.
LEMMA Products ==
  ASSUME NEW n \in Nat, NEW i \in Nat, NEW k \in Nat
  PROVE  /\ n * i \in Nat /\ n * (i + k) \in Nat /\ n * (1 + i) = n * i + n
         /\ n * (i + k) >= n * i
         /\ n >= 1 => n * (i + k) >= n * i + k
         /\ k >= 1 => n * (i + k) >= n * i + n
<1>1. n * i \in Nat /\ n * k \in Nat /\ n * (i + k) = n * i + n * k /\ n * (1 + i) = n * i + n
  OBVIOUS
<1>2. n >= 1 => n * k >= k
  OBVIOUS
<1>3. k >= 1 => n * k >= n
  OBVIOUS
<1> QED
  BY <1>1, <1>2, <1>3

-----------------------------------------------------------------------------
(* Folds *)

\* Recursion on the subsets of 1 .. n: take the greatest element off, go on with
\* the rest, and combine the two.
FoldsOver(g, n, T, base, step) ==
  /\ g \in [SUBSET (1 .. n) -> T]
  /\ \A s \in SUBSET (1 .. n) :
       g[s] = IF s = {} THEN base ELSE step[Max(s), g[s \ {Max(s)}]]

LEMMA FoldExtends ==
  ASSUME NEW n \in Nat, NEW T, NEW base \in T, NEW step \in [Nat \X T -> T],
         NEW g, FoldsOver(g, n, T, base, step)
  PROVE  \E h : FoldsOver(h, n + 1, T, base, step)
<1> DEFINE h == [s \in SUBSET (1 .. n + 1) |->
                   IF n + 1 \in s THEN step[n + 1, g[s \ {n + 1}]] ELSE g[s]]
<1>1. \A s \in SUBSET (1 .. n + 1) : s \ {n + 1} \in SUBSET (1 .. n)
  OBVIOUS
<1>2. \A s \in SUBSET (1 .. n) : g[s] \in T
  BY DEF FoldsOver
<1>3. ASSUME NEW s \in SUBSET (1 .. n + 1), n + 1 \in s
      PROVE  /\ h[s] \in T
             /\ h[s] = IF s = {} THEN base ELSE step[Max(s), h[s \ {Max(s)}]]
  <2>1. h[s] = step[n + 1, g[s \ {n + 1}]]
    BY <1>3
  <2>2. Max(s) = n + 1
    <3>1. n + 1 \in Nat /\ s # {}
      BY <1>3
    <3>2. Max(s) \in s /\ Max(s) >= n + 1
      BY <1>3, <3>1, MaxIsGreatest
    <3>3. Max(s) \in 1 .. n + 1
      BY <3>2
    <3> QED
      BY <3>2, <3>3
  <2>3. h[s \ {n + 1}] = g[s \ {n + 1}]
    OBVIOUS
  <2> HIDE DEF h
  <2>4. h[s] \in T
    <3>1. g[s \ {n + 1}] \in T /\ n + 1 \in Nat
      BY <1>1, <1>2
    <3>2. <<n + 1, g[s \ {n + 1}]>> \in Nat \X T
      BY <3>1
    <3> QED
      BY <2>1, <3>2
  <2> QED
    BY <1>3, <2>1, <2>2, <2>3, <2>4
<1>4. ASSUME NEW s \in SUBSET (1 .. n + 1), n + 1 \notin s
      PROVE  /\ h[s] \in T
             /\ h[s] = IF s = {} THEN base ELSE step[Max(s), h[s \ {Max(s)}]]
  <2>1. h[s] = g[s] /\ s \in SUBSET (1 .. n) /\ s \ {n + 1} = s
    BY <1>1, <1>4
  <2>2. h[s \ {Max(s)}] = g[s \ {Max(s)}]
    BY <1>4, <2>1
  <2>3. g[s] = IF s = {} THEN base ELSE step[Max(s), g[s \ {Max(s)}]]
    BY <2>1 DEF FoldsOver
  <2> HIDE DEF h
  <2> QED
    BY <1>2, <2>1, <2>2, <2>3
<1>5. DOMAIN h = SUBSET (1 .. n + 1)
  OBVIOUS
<1>6. h = [s \in SUBSET (1 .. n + 1) |-> h[s]]
  OBVIOUS
<1> HIDE DEF h
<1>7. h \in [SUBSET (1 .. n + 1) -> T]
  BY <1>3, <1>4, <1>6
<1>8. FoldsOver(h, n + 1, T, base, step)
  BY <1>3, <1>4, <1>7 DEF FoldsOver
<1> QED
  BY <1>8

LEMMA FoldExists ==
  ASSUME NEW T, NEW base \in T, NEW step \in [Nat \X T -> T], NEW n \in Nat
  PROVE  \E g : FoldsOver(g, n, T, base, step)
<1> DEFINE S == {m \in Nat : \E g : FoldsOver(g, m, T, base, step)}
<1>1. 0 \in S
  <2> DEFINE g == [s \in SUBSET (1 .. 0) |-> base]
  <2>1. \A s \in SUBSET (1 .. 0) : s = {}
    OBVIOUS
  <2>2. FoldsOver(g, 0, T, base, step)
    BY <2>1 DEF FoldsOver
  <2> QED
    BY <2>2
<1>2. \A m \in Nat : m \in S => m + 1 \in S
  <2> TAKE m \in Nat
  <2> HAVE m \in S
  <2>1. \E g : FoldsOver(g, m, T, base, step)
    OBVIOUS
  <2>2. \E h : FoldsOver(h, m + 1, T, base, step)
    BY <2>1, FoldExtends
  <2> QED
    BY <2>2
<1> HIDE DEF S
<1>3. n \in S
  BY <1>1, <1>2, SetInduction
<1> QED
  BY <1>3 DEF S

\* Removing the last index of a prefix leaves the prefix before it.
LEMMA PrefixMax ==
  ASSUME NEW i \in Nat, i # 0
  PROVE  Max(1 .. i) = i /\ (1 .. i) \ {i} = 1 .. i - 1
<1>1. 1 .. i \in SUBSET (1 .. i) /\ i \in 1 .. i
  OBVIOUS
<1>2. Max(1 .. i) \in 1 .. i /\ Max(1 .. i) >= i
  BY <1>1, MaxIsGreatest
<1> QED
  BY <1>2

-----------------------------------------------------------------------------
(* Finite sets *)

\* Enough inodes: of two more than there are writers, one is neither the file
\* nor open in any of them.
LEMMA OneIsFree ==
  ASSUME NEW writers, IsFiniteSet(writers), NEW file, NEW open \in [writers -> Int]
  PROVE  \E i \in 1 .. Cardinality(writers) + 2 :
           i # file /\ \A w \in writers : i # open[w]
<1> DEFINE n == Cardinality(writers)
           used == {open[w] : w \in writers}
<1>1. n \in Nat
  BY FS_CardinalityType
<1>2. IsFiniteSet(used) /\ Cardinality(used) \in Nat /\ Cardinality(used) <= n
  <2>1. open \in Surjection(writers, used)
    BY DEF Surjection
  <2>2. IsFiniteSet(used) /\ Cardinality(used) <= n
    BY <2>1, FS_Surjection DEF ExistsSurjection
  <2> QED
    BY <2>2, FS_CardinalityType
<1> HIDE DEF used, n
<1>3. /\ IsFiniteSet(used \cup {file})
      /\ Cardinality(used \cup {file}) \in {Cardinality(used), Cardinality(used) + 1}
  BY <1>2, FS_AddElement
<1>4. Cardinality(1 .. n + 2) = n + 2
  BY <1>1, FS_Interval
<1>5. ~(1 .. n + 2 \subseteq used \cup {file})
  BY <1>1, <1>2, <1>3, <1>4, FS_Subset
<1> QED
  BY <1>5 DEF used, n

\* One element more, at most.
LEMMA OneMore ==
  ASSUME NEW S, IsFiniteSet(S), NEW a
  PROVE  /\ IsFiniteSet(S \cup {a}) /\ Cardinality(S \cup {a}) \in Nat
         /\ Cardinality(S) \in Nat /\ Cardinality(S \cup {a}) <= Cardinality(S) + 1
<1>1. Cardinality(S) \in Nat
  BY FS_CardinalityType
<1>2. /\ IsFiniteSet(S \cup {a})
      /\ Cardinality(S \cup {a}) \in {Cardinality(S), Cardinality(S) + 1}
  BY FS_AddElement
<1> QED
  BY <1>1, <1>2

\* Sets that differ in one element at most.
LEMMA OneDifference ==
  ASSUME NEW S, IsFiniteSet(S), NEW T, NEW a, \A x : x # a => (x \in S <=> x \in T)
  PROVE  /\ Cardinality(S) \in Nat /\ Cardinality(T) \in Nat /\ IsFiniteSet(T)
         /\ (a \in S <=> a \in T) => Cardinality(T) = Cardinality(S) /\ T = S
         /\ a \in S /\ a \notin T => Cardinality(T) = Cardinality(S) - 1
         /\ a \notin S /\ a \in T => Cardinality(T) = Cardinality(S) + 1
<1>1. Cardinality(S) \in Nat
  BY FS_CardinalityType
<1>2. CASE a \in S <=> a \in T
  <2>1. S = T
    BY <1>2
  <2> QED
    BY <1>1, <1>2, <2>1
<1>3. CASE a \in S /\ a \notin T
  <2>1. T = S \ {a}
    BY <1>3
  <2> QED
    BY <1>1, <1>3, <2>1, FS_RemoveElement, FS_CardinalityType
<1>4. CASE a \notin S /\ a \in T
  <2>1. T = S \cup {a}
    BY <1>4
  <2> QED
    BY <1>1, <1>4, <2>1, FS_AddElement, FS_CardinalityType
<1> QED
  BY <1>2, <1>3, <1>4

-----------------------------------------------------------------------------
(* Sums *)

\* Sums over the subsets of S: take some element off and go on with the rest.
SumsOver(g, S, f) ==
  /\ g \in [SUBSET S -> Nat]
  /\ \A s \in SUBSET S :
       g[s] = IF s = {} THEN 0
              ELSE f[CHOOSE x \in s : TRUE] + g[s \ {CHOOSE x \in s : TRUE}]

\* There are such sums: first for the subsets of at most n elements, by induction.
LEMMA SumsExist ==
  ASSUME NEW S, IsFiniteSet(S), NEW f, \A x \in S : f[x] \in Nat
  PROVE  \E g : SumsOver(g, S, f)
<1> DEFINE One(s) == CHOOSE x \in s : TRUE
           Upto(g, n) ==
             /\ g \in [SUBSET S -> Nat]
             /\ \A s \in SUBSET S : Cardinality(s) <= n =>
                  g[s] = IF s = {} THEN 0 ELSE f[One(s)] + g[s \ {One(s)}]
           Good == {n \in Nat : \E g : Upto(g, n)}
<1>1. \A s \in SUBSET S : s # {} =>
        /\ One(s) \in s /\ One(s) \in S /\ s \ {One(s)} \in SUBSET S
        /\ Cardinality(s) \in Nat
        /\ Cardinality(s \ {One(s)}) = Cardinality(s) - 1
  <2> TAKE s \in SUBSET S
  <2> HAVE s # {}
  <2>1. One(s) \in s
    OBVIOUS
  <2>2. IsFiniteSet(s)
    BY FS_Subset
  <2> HIDE DEF One
  <2> QED
    BY <2>1, <2>2, FS_RemoveElement, FS_CardinalityType
<1>2. \A s \in SUBSET S : Cardinality(s) \in Nat /\ (Cardinality(s) <= 0 => s = {})
  <2> TAKE s \in SUBSET S
  <2>1. IsFiniteSet(s)
    BY FS_Subset
  <2> QED
    BY <2>1, FS_EmptySet, FS_CardinalityType
<1>3. 0 \in Good
  <2> DEFINE g == [s \in SUBSET S |-> 0]
  <2>1. Upto(g, 0)
    BY <1>2
  <2> QED
    BY <2>1
<1>4. ASSUME NEW n \in Nat, n \in Good PROVE n + 1 \in Good
  <2>1. PICK g : Upto(g, n)
    BY <1>4
  <2> HIDE DEF One
  <2> DEFINE h == [s \in SUBSET S |->
                     IF s = {} THEN 0 ELSE f[One(s)] + g[s \ {One(s)}]]
  <2>2. h \in [SUBSET S -> Nat]
    <3>1. ASSUME NEW s \in SUBSET S
          PROVE  (IF s = {} THEN 0 ELSE f[One(s)] + g[s \ {One(s)}]) \in Nat
      <4>1. s # {} => f[One(s)] \in Nat /\ g[s \ {One(s)}] \in Nat
        BY <1>1, <2>1
      <4> QED
        BY <4>1
    <3> QED
      BY <3>1
  <2>3. ASSUME NEW s \in SUBSET S, Cardinality(s) <= n + 1, s # {}
        PROVE  h[s] = f[One(s)] + h[s \ {One(s)}]
    <3> DEFINE t == s \ {One(s)}
    <3>1. t \in SUBSET S /\ Cardinality(t) \in Nat /\ Cardinality(t) <= n
      BY <1>1, <1>2, <2>3
    <3>2. g[t] = IF t = {} THEN 0 ELSE f[One(t)] + g[t \ {One(t)}]
      BY <2>1, <3>1
    <3>3. h[t] = g[t]
      BY <3>1, <3>2
    <3>4. h[s] = f[One(s)] + g[t]
      BY <2>3
    <3> QED
      BY <3>3, <3>4
  <2>4. h[{}] = 0
    OBVIOUS
  <2> HIDE DEF h
  <2>5. Upto(h, n + 1)
    BY <2>2, <2>3, <2>4
  <2> HIDE DEF Upto
  <2> QED
    BY <2>5
<1> HIDE DEF Good, Upto, One
<1>5. Cardinality(S) \in Good
  <2>1. Nat \subseteq Good
    BY <1>3, <1>4, SetInduction
  <2> QED
    BY <2>1, FS_CardinalityType
<1>6. PICK g : Upto(g, Cardinality(S))
  BY <1>5 DEF Good
<1>7. \A s \in SUBSET S : Cardinality(s) <= Cardinality(S)
  BY FS_Subset
<1>8. SumsOver(g, S, f)
  BY <1>6, <1>7 DEF SumsOver, Upto, One
<1> QED
  BY <1>8

\* Whichever element is taken off, the sum loses what it adds.
LEMMA SumsLose ==
  ASSUME NEW S, IsFiniteSet(S), NEW f, \A x \in S : f[x] \in Nat, NEW g, SumsOver(g, S, f),
         NEW s \in SUBSET S, NEW y \in s
  PROVE  g[s] = f[y] + g[s \ {y}]
<1> DEFINE One(t) == CHOOSE x \in t : TRUE
           Loses(t) == \A x \in t : g[t] = f[x] + g[t \ {x}]
           Good == {n \in Nat : \A t \in SUBSET S : Cardinality(t) = n => Loses(t)}
<1>1. \A t \in SUBSET S : t # {} =>
        One(t) \in t /\ g[t] = f[One(t)] + g[t \ {One(t)}]
  BY DEF SumsOver
<1>2. \A t \in SUBSET S : g[t] \in Nat
  BY DEF SumsOver
<1>3. \A t \in SUBSET S : \A x \in t :
        /\ t \ {x} \in SUBSET S /\ Cardinality(t) \in Nat
        /\ Cardinality(t \ {x}) = Cardinality(t) - 1
  <2> TAKE t \in SUBSET S
  <2> TAKE x \in t
  <2>1. IsFiniteSet(t)
    BY FS_Subset
  <2> QED
    BY <2>1, FS_RemoveElement, FS_CardinalityType
<1>4. 0 \in Good
  <2>1. ASSUME NEW t \in SUBSET S, Cardinality(t) = 0 PROVE t = {}
    BY <2>1, FS_Subset, FS_EmptySet
  <2> QED
    BY <2>1
<1> HIDE DEF One
<1>5. ASSUME NEW n \in Nat, n \in Good PROVE n + 1 \in Good
  <2> SUFFICES ASSUME NEW t \in SUBSET S, Cardinality(t) = n + 1, NEW x \in t
               PROVE  g[t] = f[x] + g[t \ {x}]
    OBVIOUS
  <2> DEFINE z == One(t)
  <2>1. z \in t /\ g[t] = f[z] + g[t \ {z}]
    BY <1>1
  <2>2. CASE z = x
    BY <2>1, <2>2
  <2>3. CASE z # x
    <3> HIDE DEF z
    <3> DEFINE u == t \ {z}
               v == t \ {x}
               w == (t \ {z}) \ {x}
    <3>1. u \in SUBSET S /\ v \in SUBSET S /\ w \in SUBSET S /\ x \in u /\ z \in v
      BY <2>1, <2>3
    <3>2. Cardinality(u) = n /\ Cardinality(v) = n
      BY <1>3, <2>1
    <3>3. w = v \ {z} /\ w = u \ {x}
      OBVIOUS
    <3> HIDE DEF u, v, w
    <3>4. Loses(u) /\ Loses(v)
      BY <1>5, <3>1, <3>2
    <3>5. g[u] = f[x] + g[w] /\ g[v] = f[z] + g[w]
      BY <3>1, <3>3, <3>4
    <3>6. f[x] \in Nat /\ f[z] \in Nat /\ g[w] \in Nat /\ g[t] = f[z] + g[u]
      BY <1>2, <2>1, <3>1 DEF u
    <3>7. g[t] = f[x] + g[v]
      BY <3>5, <3>6
    <3> QED
      BY <3>7 DEF v
  <2> QED
    BY <2>2, <2>3
<1> HIDE DEF Good, Loses
<1>6. Cardinality(s) \in Good
  <2>1. Nat \subseteq Good
    BY <1>4, <1>5, SetInduction
  <2> QED
    BY <1>3, <2>1
<1> QED
  BY <1>6 DEF Good, Loses
=============================================================================
