---------------------------- MODULE DownloadProofs ----------------------------
(***************************************************************************)
(* Proofs about downloads and the deletion of models, for every finite set *)
(* of downloads and files, every set of repositories and any sizes; and    *)
(* about what is made of a downloaded file (Conversions): the reader of    *)
(* its header, the estimate of the memory it needs, and the files and rows *)
(* of its repository, for headers and listings of any length.              *)
(*                                                                         *)
(* The space bound adds up chunks over sets of inodes and of downloads,    *)
(* the reader lengths over pairs and elements, the estimate costs over     *)
(* layers.  The first section derives what they need to know of such       *)
(* sums, from their definition and the well-foundedness of the naturals.   *)
(***************************************************************************)
EXTENDS Downloads, Conversions, FiniteSetTheorems, WellFoundedInduction, TLAPS

-----------------------------------------------------------------------------
(* Sums over finite sets.                                                  *)

LessThan == {p \in Nat \X Nat : p[1] < p[2]}

LEMMA LessThanWellFounded == IsWellFoundedOn(LessThan, Nat)
  BY NatLessThanWellFounded, Zenon DEF OpToRel, LessThan

\* Induction on the naturals, over a set of numbers instead of a predicate.
LEMMA NatIsLeast ==
    ASSUME NEW S \in SUBSET Nat,
           \A n \in Nat : (\A m \in Nat : m < n => m \in S) => n \in S
    PROVE  S = Nat
<1> SUFFICES ASSUME Nat \ S # {} PROVE FALSE
  OBVIOUS
<1>1. PICK x \in Nat \ S : \A y \in Nat \ S : ~ (<<y, x>> \in LessThan)
  BY LessThanWellFounded, WFMin
<1>2. ASSUME NEW m \in Nat, m < x PROVE m \in S
  <2>1. <<m, x>> \in LessThan
    BY <1>2 DEF LessThan
  <2> QED
    BY <1>1, <2>1
<1> QED
  BY <1>1, <1>2

Pick(s) == CHOOSE x \in s : TRUE

Sums(g, w, S) == g = [s \in SUBSET S |-> IF s = {} THEN 0 ELSE w[Pick(s)] + g[s \ {Pick(s)}]]

Total(w, S) == MapThenSumSet(LAMBDA x : w[x], S)

LEMMA PickIn == ASSUME NEW s, s # {} PROVE Pick(s) \in s
  BY DEF Pick

LEMMA Smaller ==
    ASSUME NEW s, IsFiniteSet(s), NEW x \in s
    PROVE  /\ IsFiniteSet(s \ {x}) /\ Cardinality(s) \in Nat
           /\ Cardinality(s \ {x}) \in Nat /\ Cardinality(s \ {x}) = Cardinality(s) - 1
  BY FS_RemoveElement, FS_CardinalityType

\* By steps of the size of the sets: the definition on sets of n elements uses
\* only sets of n - 1.
LEMMA SumsExist ==
    ASSUME NEW w, NEW S, IsFiniteSet(S)
    PROVE  \E g : Sums(g, w, S)
<1> DEFINE Sub(n) == {s \in SUBSET S : Cardinality(s) <= n}
           Step(g, s) == IF s = {} THEN 0 ELSE w[Pick(s)] + g[s \ {Pick(s)}]
           Upto(g, n) == g = [s \in Sub(n) |-> Step(g, s)]
           Good == {n \in Nat : \E g : Upto(g, n)}
<1>1. \A s \in SUBSET S : IsFiniteSet(s) /\ Cardinality(s) \in Nat
  BY FS_Subset, FS_CardinalityType
<1>2. ASSUME NEW n \in Nat, \A m \in Nat : m < n => m \in Good
      PROVE  n \in Good
  <2>1. CASE n = 0
    <3> DEFINE g == [s \in Sub(0) |-> 0]
    <3>1. \A s \in Sub(0) : s = {}
      BY <1>1, FS_EmptySet
    <3>2. Upto(g, 0)
      BY <3>1
    <3> QED
      BY <2>1, <3>2
  <2>2. CASE n # 0
    <3>1. n - 1 \in Nat /\ n - 1 < n
      BY <2>2
    <3>2. n - 1 \in Good
      <4> HIDE DEF Good
      <4> QED
        BY <1>2, <3>1
    <3>6. PICK h : Upto(h, n - 1)
      BY <3>2
    <3> DEFINE g == [s \in Sub(n) |-> Step(h, s)]
    <3>3. ASSUME NEW s \in Sub(n), s # {}
          PROVE  s \ {Pick(s)} \in Sub(n - 1) /\ s \ {Pick(s)} \in Sub(n)
      BY <1>1, <3>3, PickIn, Smaller
    <3>4. ASSUME NEW t \in Sub(n - 1), t \in Sub(n) PROVE g[t] = h[t]
      BY <3>6, <3>4
    <3>5. ASSUME NEW s \in Sub(n) PROVE Step(h, s) = Step(g, s)
      <4>1. CASE s = {}
        BY <4>1
      <4>2. CASE s # {}
        <5>1. g[s \ {Pick(s)}] = h[s \ {Pick(s)}]
          BY <3>3, <3>4, <4>2
        <5> HIDE DEF g
        <5> QED
          BY <4>2, <5>1
      <4> QED
        BY <4>1, <4>2
    <3>7. g = [s \in Sub(n) |-> Step(g, s)]
      <4> HIDE DEF Step, Sub
      <4> QED
        BY <3>5
    <3> QED
      BY <3>7
  <2> QED
    BY <2>1, <2>2
<1>3. Good = Nat
  <2> HIDE DEF Good
  <2>1. Good \in SUBSET Nat
    BY DEF Good
  <2> QED
    BY <1>2, <2>1, NatIsLeast
<1>4. PICK g : Upto(g, Cardinality(S))
  BY <1>1, <1>3
<1>5. Sub(Cardinality(S)) = SUBSET S
  BY <1>1, FS_Subset
<1> QED
  BY <1>4, <1>5 DEF Sums

\* The equation of a sum determines it, on whatever larger set it is taken.
LEMMA SumsAgree ==
    ASSUME NEW w, NEW v, NEW S, NEW T, NEW g, NEW h, IsFiniteSet(S), S \subseteq T,
           Sums(g, w, S), Sums(h, v, T), \A x \in S : w[x] = v[x]
    PROVE  \A s \in SUBSET S : g[s] = h[s]
<1> DEFINE Good == {n \in Nat : \A s \in SUBSET S : Cardinality(s) = n => g[s] = h[s]}
<1>1. \A s \in SUBSET S : IsFiniteSet(s) /\ Cardinality(s) \in Nat
  BY FS_Subset, FS_CardinalityType
<1>2. ASSUME NEW n \in Nat, \A m \in Nat : m < n => m \in Good,
             NEW s \in SUBSET S, Cardinality(s) = n
      PROVE  g[s] = h[s]
  <2>1. /\ g[s] = IF s = {} THEN 0 ELSE w[Pick(s)] + g[s \ {Pick(s)}]
        /\ h[s] = IF s = {} THEN 0 ELSE v[Pick(s)] + h[s \ {Pick(s)}]
    BY DEF Sums
  <2>2. CASE s = {}
    BY <2>1, <2>2
  <2>3. CASE s # {}
    <3> DEFINE t == s \ {Pick(s)}
    <3>1. Pick(s) \in s /\ t \in SUBSET S
      BY <2>3, PickIn
    <3>2. Cardinality(t) \in Nat /\ Cardinality(t) < n
      BY <1>1, <1>2, <3>1, Smaller
    <3>3. g[t] = h[t]
      BY <1>2, <3>1, <3>2
    <3> QED
      BY <2>1, <2>3, <3>1, <3>3
  <2> QED
    BY <2>2, <2>3
<1>3. Good = Nat
  <2>1. \A n \in Nat : (\A m \in Nat : m < n => m \in Good) => n \in Good
    BY <1>2
  <2>2. Good \in SUBSET Nat
    OBVIOUS
  <2> HIDE DEF Good
  <2> QED
    BY <2>1, <2>2, NatIsLeast
<1> QED
  BY <1>1, <1>3

\* MapThenSumSet is such a sum.
LEMMA TotalSums ==
    ASSUME NEW w, NEW S, IsFiniteSet(S)
    PROVE  \E g : Sums(g, w, S) /\ Total(w, S) = g[S]
<1> DEFINE it == CHOOSE g : Sums(g, w, S)
<1>1. Sums(it, w, S)
  BY SumsExist
<1>2. Total(w, S) = it[S]
  BY Zenon DEF Total, MapThenSumSet, MapThenFoldSet, Sums, Pick
<1> QED
  BY <1>1, <1>2

LEMMA TotalEmpty == ASSUME NEW w PROVE Total(w, {}) = 0
<1>1. PICK g : Sums(g, w, {}) /\ Total(w, {}) = g[{}]
  BY TotalSums, FS_EmptySet
<1> QED
  BY <1>1 DEF Sums

\* The total depends on the summands of the set alone.
LEMMA TotalSame ==
    ASSUME NEW w, NEW v, NEW S, IsFiniteSet(S), \A x \in S : w[x] = v[x]
    PROVE  Total(w, S) = Total(v, S)
<1>1. PICK g : Sums(g, w, S) /\ Total(w, S) = g[S]
  BY TotalSums
<1>2. PICK h : Sums(h, v, S) /\ Total(v, S) = h[S]
  BY TotalSums
<1> QED
  BY <1>1, <1>2, SumsAgree

LEMMA TotalPick ==
    ASSUME NEW w, NEW S, IsFiniteSet(S), S # {}
    PROVE  Total(w, S) = w[Pick(S)] + Total(w, S \ {Pick(S)})
<1> DEFINE T == S \ {Pick(S)}
<1>1. IsFiniteSet(T) /\ Pick(S) \in S
  BY PickIn, Smaller
<1>2. PICK g : Sums(g, w, S) /\ Total(w, S) = g[S]
  BY TotalSums
<1>3. PICK h : Sums(h, w, T) /\ Total(w, T) = h[T]
  BY <1>1, TotalSums
<1>4. h[T] = g[T]
  BY <1>1, <1>2, <1>3, SumsAgree
<1> QED
  BY <1>2, <1>3, <1>4 DEF Sums

LEMMA TotalNat ==
    ASSUME NEW w, NEW S, IsFiniteSet(S), \A x \in S : w[x] \in Nat
    PROVE  Total(w, S) \in Nat
<1> DEFINE Good == {n \in Nat : \A s \in SUBSET S : Cardinality(s) = n => Total(w, s) \in Nat}
<1>1. \A s \in SUBSET S : IsFiniteSet(s) /\ Cardinality(s) \in Nat
  BY FS_Subset, FS_CardinalityType
<1>2. ASSUME NEW n \in Nat, \A m \in Nat : m < n => m \in Good,
             NEW s \in SUBSET S, Cardinality(s) = n
      PROVE  Total(w, s) \in Nat
  <2>1. CASE s = {}
    BY <2>1, TotalEmpty
  <2>2. CASE s # {}
    <3> DEFINE t == s \ {Pick(s)}
    <3>1. Pick(s) \in s /\ t \in SUBSET S
      BY <2>2, PickIn
    <3>2. Cardinality(t) \in Nat /\ Cardinality(t) < n
      BY <1>1, <1>2, <3>1, Smaller
    <3>3. Total(w, t) \in Nat
      BY <1>2, <3>1, <3>2
    <3> QED
      BY <1>1, <2>2, <3>1, <3>3, TotalPick
  <2> QED
    BY <2>1, <2>2
<1>3. Good = Nat
  <2>1. \A n \in Nat : (\A m \in Nat : m < n => m \in Good) => n \in Good
    BY <1>2
  <2>2. Good \in SUBSET Nat
    OBVIOUS
  <2> HIDE DEF Good
  <2> QED
    BY <2>1, <2>2, NatIsLeast
<1> QED
  BY <1>1, <1>3

\* Any element may be taken first.
LEMMA TotalRemove ==
    ASSUME NEW w, NEW S, IsFiniteSet(S), \A x \in S : w[x] \in Int, NEW x \in S
    PROVE  Total(w, S) = w[x] + Total(w, S \ {x}) /\ Total(w, S) \in Int
<1> DEFINE Splits(s, y) == Total(w, s) = w[y] + Total(w, s \ {y})
           Good == {n \in Nat : \A s \in SUBSET S : Cardinality(s) = n =>
                                   Total(w, s) \in Int /\ \A y \in s : Splits(s, y)}
<1>1. \A s \in SUBSET S : IsFiniteSet(s) /\ Cardinality(s) \in Nat
  BY FS_Subset, FS_CardinalityType
<1>2. ASSUME NEW n \in Nat, \A m \in Nat : m < n => m \in Good,
             NEW s \in SUBSET S, Cardinality(s) = n
      PROVE  Total(w, s) \in Int /\ \A y \in s : Splits(s, y)
  <2>1. CASE s = {}
    BY <2>1, TotalEmpty
  <2>2. CASE s # {}
    <3> DEFINE c == Pick(s)
               t == s \ {c}
    <3>1. c \in s /\ t \in SUBSET S
      BY <2>2, PickIn
    <3>2. Splits(s, c)
      BY <1>1, <2>2, TotalPick
    <3>3. ASSUME NEW u \in SUBSET S, NEW y \in s, u = s \ {y}
          PROVE  Total(w, u) \in Int /\ \A z \in u : Splits(u, z)
      <4>1. Cardinality(u) \in Nat /\ Cardinality(u) < n
        BY <1>1, <1>2, <3>3, Smaller
      <4> QED
        BY <1>2, <3>3, <4>1
    <3>4. Total(w, t) \in Int /\ Total(w, s) \in Int
      BY <3>1, <3>2, <3>3
    <3>5. ASSUME NEW y \in s, y # c PROVE Splits(s, y)
      <4> DEFINE u == s \ {y}
                 both == (s \ {c}) \ {y}
      <4>1. c \in u /\ y \in t /\ u \ {c} = both /\ t \ {y} = both /\ u \in SUBSET S
        BY <3>1, <3>5
      <4>2. Total(w, t) = w[y] + Total(w, both)
        BY <3>1, <3>3, <4>1
      <4>3. Total(w, u) = w[c] + Total(w, both)
        BY <3>3, <4>1
      <4>4. both \in SUBSET S /\ both = t \ {y} /\ Total(w, both) \in Int
        <5>1. IsFiniteSet(t) /\ Cardinality(t) \in Nat /\ Cardinality(t) = n - 1
          BY <1>1, <1>2, <3>1, Smaller
        <5>2. Cardinality(t \ {y}) \in Nat /\ Cardinality(t \ {y}) = Cardinality(t) - 1
          BY <4>1, <5>1, Smaller
        <5>3. both \in SUBSET S /\ Cardinality(both) \in Nat /\ Cardinality(both) < n
          BY <3>1, <4>1, <5>1, <5>2
        <5> QED
          BY <1>2, <4>1, <5>3
      <4>5. w[c] \in Int /\ w[y] \in Int
        BY <3>1
      <4> HIDE DEF c, t, u, both
      <4> QED
        BY <3>2, <4>2, <4>3, <4>4, <4>5 DEF t, u
    <3> QED
      BY <3>2, <3>4, <3>5
  <2> QED
    BY <2>1, <2>2
<1>3. Good = Nat
  <2>1. \A n \in Nat : (\A m \in Nat : m < n => m \in Good) => n \in Good
    BY <1>2
  <2>2. Good \in SUBSET Nat
    OBVIOUS
  <2> HIDE DEF Good
  <2> QED
    BY <2>1, <2>2, NatIsLeast
<1> QED
  BY <1>1, <1>3

\* Sums are monotone, and a set may be enlarged by elements that count for 0.
LEMMA TotalLe ==
    ASSUME NEW w, NEW v, NEW S, IsFiniteSet(S),
           \A x \in S : w[x] \in Int /\ v[x] \in Int /\ w[x] <= v[x]
    PROVE  Total(w, S) <= Total(v, S) /\ Total(w, S) \in Int /\ Total(v, S) \in Int
<1> DEFINE Le(s) == Total(w, s) <= Total(v, s) /\ Total(w, s) \in Int /\ Total(v, s) \in Int
           Good == {n \in Nat : \A s \in SUBSET S : Cardinality(s) = n => Le(s)}
<1>1. \A s \in SUBSET S : IsFiniteSet(s) /\ Cardinality(s) \in Nat
  BY FS_Subset, FS_CardinalityType
<1>2. ASSUME NEW n \in Nat, \A m \in Nat : m < n => m \in Good,
             NEW s \in SUBSET S, Cardinality(s) = n
      PROVE  Le(s)
  <2>1. CASE s = {}
    BY <2>1, TotalEmpty
  <2>2. CASE s # {}
    <3> DEFINE c == Pick(s)
               t == s \ {c}
    <3>1. c \in s /\ c \in S /\ t \in SUBSET S
      BY <2>2, PickIn
    <3>2. Cardinality(t) \in Nat /\ Cardinality(t) < n
      BY <1>1, <1>2, <3>1, Smaller
    <3>3. Le(t)
      BY <1>2, <3>1, <3>2
    <3>4. Total(w, s) = w[c] + Total(w, t) /\ Total(v, s) = v[c] + Total(v, t)
      BY <1>1, <2>2, TotalPick
    <3>5. w[c] \in Int /\ v[c] \in Int /\ w[c] <= v[c]
      BY <3>1
    <3> HIDE DEF c, t
    <3> QED
      BY <3>3, <3>4, <3>5
  <2> QED
    BY <2>1, <2>2
<1>3. Good = Nat
  <2>1. \A n \in Nat : (\A m \in Nat : m < n => m \in Good) => n \in Good
    BY <1>2
  <2>2. Good \in SUBSET Nat
    OBVIOUS
  <2> HIDE DEF Good
  <2> QED
    BY <2>1, <2>2, NatIsLeast
<1> QED
  BY <1>1, <1>3

LEMMA TotalWithin ==
    ASSUME NEW w, NEW v, NEW S, IsFiniteSet(S), NEW T \in SUBSET S,
           \A x \in T : w[x] \in Int /\ v[x] = w[x], \A x \in S \ T : v[x] = 0
    PROVE  Total(v, S) = Total(w, T) /\ Total(v, S) \in Int
<1> DEFINE Eq(s) == Total(v, s) = Total(w, s \cap T) /\ Total(v, s) \in Int
           Good == {n \in Nat : \A s \in SUBSET S : Cardinality(s) = n => Eq(s)}
<1>1. \A s \in SUBSET S : IsFiniteSet(s) /\ Cardinality(s) \in Nat
  BY FS_Subset, FS_CardinalityType
<1>2. ASSUME NEW n \in Nat, \A m \in Nat : m < n => m \in Good,
             NEW s \in SUBSET S, Cardinality(s) = n
      PROVE  Eq(s)
  <2>1. CASE s = {}
    <3>1. s \cap T = {}
      BY <2>1
    <3> QED
      BY <2>1, <3>1, TotalEmpty
  <2>2. CASE s # {}
    <3> DEFINE c == Pick(s)
               t == s \ {c}
    <3>1. c \in s /\ c \in S /\ t \in SUBSET S
      BY <2>2, PickIn
    <3>2. Cardinality(t) \in Nat /\ Cardinality(t) < n
      BY <1>1, <1>2, <3>1, Smaller
    <3>3. Eq(t)
      BY <1>2, <3>1, <3>2
    <3>4. Total(v, s) = v[c] + Total(v, t)
      BY <1>1, <2>2, TotalPick
    <3>5. ASSUME c \in T PROVE Total(w, s \cap T) = w[c] + Total(w, t \cap T)
      <4>1. (s \cap T) \ {c} = t \cap T /\ c \in s \cap T
        BY <3>1, <3>5
      <4>2. IsFiniteSet(s \cap T) /\ \A x \in s \cap T : w[x] \in Int
        BY <1>1, <3>1
      <4> HIDE DEF c, t
      <4> QED
        BY <4>1, <4>2, TotalRemove
    <3>6. ASSUME c \notin T PROVE s \cap T = t \cap T
      BY <3>6
    <3>7. (c \in T => v[c] = w[c] /\ w[c] \in Int) /\ (c \notin T => v[c] = 0)
      BY <3>1
    <3> HIDE DEF c, t
    <3> QED
      BY <3>3, <3>4, <3>5, <3>6, <3>7
  <2> QED
    BY <2>1, <2>2
<1>3. Good = Nat
  <2>1. \A n \in Nat : (\A m \in Nat : m < n => m \in Good) => n \in Good
    BY <1>2
  <2>2. Good \in SUBSET Nat
    OBVIOUS
  <2> HIDE DEF Good
  <2> QED
    BY <2>1, <2>2, NatIsLeast
<1>4. Eq(S) /\ S \cap T = T
  BY <1>1, <1>3
<1> QED
  BY <1>4

\* One summand may grow, or shrink, by a given amount.
LEMMA TotalOne ==
    ASSUME NEW w, NEW v, NEW S, IsFiniteSet(S), NEW c \in S, NEW k \in Int,
           \A x \in S : w[x] \in Int /\ v[x] \in Int,
           \A x \in S \ {c} : w[x] <= v[x], w[c] <= v[c] + k
    PROVE  Total(w, S) <= Total(v, S) + k /\ Total(w, S) \in Int /\ Total(v, S) \in Int
<1> DEFINE T == S \ {c}
<1>1. IsFiniteSet(T)
  BY FS_RemoveElement
<1>2. /\ \A x \in S : w[x] \in Int
      /\ \A x \in S : v[x] \in Int
  OBVIOUS
<1>3. Total(w, T) <= Total(v, T) /\ Total(w, T) \in Int /\ Total(v, T) \in Int
  <2>1. \A x \in T : w[x] \in Int /\ v[x] \in Int /\ w[x] <= v[x]
    OBVIOUS
  <2> HIDE DEF T
  <2> QED
    BY <1>1, <2>1, TotalLe
<1>4. Total(w, S) = w[c] + Total(w, T)
  BY <1>2, TotalRemove
<1>5. Total(v, S) = v[c] + Total(v, T)
  BY <1>2, TotalRemove
<1> HIDE DEF T
<1> QED
  BY ONLY <1>2, <1>3, <1>4, <1>5, k \in Int, w[c] <= v[c] + k

\* A total over a set is the total over a part of it and over the rest.
LEMMA TotalSplit ==
    ASSUME NEW w, NEW S, IsFiniteSet(S), NEW T \in SUBSET S, \A x \in S : w[x] \in Int
    PROVE  /\ Total(w, S) = Total(w, T) + Total(w, S \ T)
           /\ Total(w, T) \in Int /\ Total(w, S \ T) \in Int
<1> DEFINE Eq(s) == /\ Total(w, s) = Total(w, s \cap T) + Total(w, s \ T)
                    /\ Total(w, s \cap T) \in Int /\ Total(w, s \ T) \in Int
           Good == {n \in Nat : \A s \in SUBSET S : Cardinality(s) = n => Eq(s)}
<1>1. \A s \in SUBSET S : IsFiniteSet(s) /\ Cardinality(s) \in Nat
  BY FS_Subset, FS_CardinalityType
<1>2. ASSUME NEW n \in Nat, \A m \in Nat : m < n => m \in Good,
             NEW s \in SUBSET S, Cardinality(s) = n
      PROVE  Eq(s)
  <2>1. CASE s = {}
    <3>1. s \cap T = {} /\ s \ T = {}
      BY <2>1
    <3>2. Total(w, s) = 0 /\ Total(w, s \cap T) = 0 /\ Total(w, s \ T) = 0
      BY <2>1, <3>1, TotalEmpty
    <3> QED
      BY <3>2
  <2>2. CASE s # {}
    <3> DEFINE c == Pick(s)
               t == s \ {c}
    <3>1. c \in s /\ c \in S /\ t \in SUBSET S
      BY <2>2, PickIn
    <3>2. Cardinality(t) \in Nat /\ Cardinality(t) < n
      BY <1>1, <1>2, <3>1, Smaller
    <3>3. Eq(t)
      BY <1>2, <3>1, <3>2
    <3>4. Total(w, s) = w[c] + Total(w, t)
      BY <1>1, <2>2, TotalPick
    <3>5. ASSUME c \in T
          PROVE  Total(w, s \cap T) = w[c] + Total(w, t \cap T) /\ s \ T = t \ T
      <4>1. (s \cap T) \ {c} = t \cap T /\ c \in s \cap T /\ s \ T = t \ T
        BY <3>1, <3>5
      <4>2. IsFiniteSet(s \cap T) /\ \A x \in s \cap T : w[x] \in Int
        BY <1>1, <3>1
      <4> HIDE DEF c, t
      <4> QED
        BY <4>1, <4>2, TotalRemove
    <3>6. ASSUME c \notin T
          PROVE  Total(w, s \ T) = w[c] + Total(w, t \ T) /\ s \cap T = t \cap T
      <4>1. (s \ T) \ {c} = t \ T /\ c \in s \ T /\ s \cap T = t \cap T
        BY <3>1, <3>6
      <4>2. IsFiniteSet(s \ T) /\ \A x \in s \ T : w[x] \in Int
        BY <1>1, <3>1
      <4> HIDE DEF c, t
      <4> QED
        BY <4>1, <4>2, TotalRemove
    <3>7. w[c] \in Int
      BY <3>1
    <3> DEFINE a == Total(w, t \cap T)
               b == Total(w, t \ T)
    <3>8. a \in Int /\ b \in Int /\ Total(w, t) = a + b
      BY <3>3
    <3>9. CASE c \in T
      <4>1. Total(w, s \cap T) = w[c] + a /\ Total(w, s \ T) = b
        BY <3>5, <3>9
      <4> HIDE DEF a, b, c, t
      <4> QED
        BY <3>4, <3>7, <3>8, <4>1
    <3>10. CASE c \notin T
      <4>1. Total(w, s \cap T) = a /\ Total(w, s \ T) = w[c] + b
        BY <3>6, <3>10
      <4> HIDE DEF a, b, c, t
      <4> QED
        BY <3>4, <3>7, <3>8, <4>1
    <3> QED
      BY <3>9, <3>10
  <2> QED
    BY <2>1, <2>2
<1>3. Good = Nat
  <2>1. \A n \in Nat : (\A m \in Nat : m < n => m \in Good) => n \in Good
    BY <1>2
  <2>2. Good \in SUBSET Nat
    OBVIOUS
  <2> HIDE DEF Good
  <2> QED
    BY <2>1, <2>2, NatIsLeast
<1>4. Eq(S) /\ S \cap T = T
  BY <1>1, <1>3
<1> QED
  BY <1>4

\* A factor all summands have is a factor of the total.
LEMMA TotalTimes ==
    ASSUME NEW w, NEW v, NEW S, IsFiniteSet(S), NEW k \in Int,
           \A x \in S : w[x] \in Int /\ v[x] = w[x] * k
    PROVE  Total(v, S) = Total(w, S) * k /\ Total(w, S) \in Int
<1> DEFINE Eq(s) == Total(v, s) = Total(w, s) * k /\ Total(w, s) \in Int
           Good == {n \in Nat : \A s \in SUBSET S : Cardinality(s) = n => Eq(s)}
<1>1. \A s \in SUBSET S : IsFiniteSet(s) /\ Cardinality(s) \in Nat
  BY FS_Subset, FS_CardinalityType
<1>2. ASSUME NEW n \in Nat, \A m \in Nat : m < n => m \in Good,
             NEW s \in SUBSET S, Cardinality(s) = n
      PROVE  Eq(s)
  <2>1. CASE s = {}
    BY <2>1, TotalEmpty
  <2>2. CASE s # {}
    <3> DEFINE c == Pick(s)
               t == s \ {c}
    <3>1. c \in s /\ c \in S /\ t \in SUBSET S
      BY <2>2, PickIn
    <3>2. Cardinality(t) \in Nat /\ Cardinality(t) < n
      BY <1>1, <1>2, <3>1, Smaller
    <3>3. Eq(t)
      BY <1>2, <3>1, <3>2
    <3>4. Total(w, s) = w[c] + Total(w, t) /\ Total(v, s) = v[c] + Total(v, t)
      BY <1>1, <2>2, TotalPick
    <3>5. w[c] \in Int /\ v[c] = w[c] * k
      BY <3>1
    <3> DEFINE a == w[c]
               b == Total(w, t)
    <3>6. (a + b) * k = a * k + b * k
      <4> HIDE DEF a, b, c, t
      <4>1. \A x, y \in Int : (x + y) * k = x * k + y * k
        OBVIOUS
      <4> QED
        BY <3>3, <3>5, <4>1 DEF a, b
    <3> HIDE DEF c, t
    <3> QED
      BY <3>3, <3>4, <3>5, <3>6
  <2> QED
    BY <2>1, <2>2
<1>3. Good = Nat
  <2>1. \A n \in Nat : (\A m \in Nat : m < n => m \in Good) => n \in Good
    BY <1>2
  <2>2. Good \in SUBSET Nat
    OBVIOUS
  <2> HIDE DEF Good
  <2> QED
    BY <2>1, <2>2, NatIsLeast
<1> QED
  BY <1>1, <1>3

-----------------------------------------------------------------------------
(* The invariant.                                                          *)

Begun(t) == job[t].at \notin {"none", "insert"}

\* Where a task is tells its file, its offset and what the map shows of it.
InPhase(t) ==
    LET j == job[t]
    IN  /\ ~Begun(t) <=> dl[t].status = "none"
        /\ ~Begun(t) => ~j.blind /\ ~j.early
        /\ j.at = "end" => ~Downloading(t)
        /\ j.at \in {"none", "insert", "list", "df", "count"} => dl[t].progress = 0 /\ j.file = 1
        /\ j.at \in {"df", "count", "open", "check", "write", "register", "complete"}
              => dl[t].total = Size(j.files)
        /\ j.at \in {"open", "check", "write"} => j.file \in 1 .. Len(j.files)
        /\ j.at = "open" => dl[t].progress = Chunks * (j.file - 1)
        /\ j.at \in {"check", "write"} =>
              /\ j.pos \in 0 .. (Chunks - 1) /\ j.ino \in Tasks
              /\ dl[t].progress = Chunks * (j.file - 1) + j.pos

Base == TypeOK /\ \A t \in Tasks : InPhase(t)

\* Two downloads of a repository that are inserted, or about to be, overlapped.
Inserting(t) == job[t].at = "insert" \/ Downloading(t)
PairsRaced ==
    \A t, u \in Tasks :
        t # u /\ Inserting(t) /\ Inserting(u) /\ job[t].repo = job[u].repo
        => job[t].raced /\ job[u].raced

\* A cancellation in time stays ahead of the task until the task has ended, and
\* a row of the models table is its task's, which has registered it.
EarlyHeeded ==
    /\ \A t \in Tasks : job[t].early => job[t].at = "end" \/ (Cancelled(t) /\ CheckAhead(t))
    /\ \A m \in models :
          /\ job[m.by].at \in {"complete", "end"} /\ ~job[m.by].early
          /\ m.repo = job[m.by].repo /\ m.files = job[m.by].files

\* Inodes stay within the directory of the task that made them, and files are
\* removed only for a task whose row is gone.
InodesAtHome ==
    /\ \A p \in Dirs \X Files : link[p] # NoTask => Begun(link[p]) /\ Dir(link[p]) = p[1]
    /\ \A t \in Tasks : job[t].ino # NoTask =>
          Begun(job[t].ino) /\ Dir(job[t].ino) = Dir(t)
    /\ del.on => \E u \in Tasks :
          /\ job[u].repo = del.repo /\ job[u].at \in {"complete", "end"}
          /\ \A m \in models : m.by # u

Sole(t) == \A u \in Tasks \ {t} : Begun(u) => Dir(u) # Dir(t)

Done(t, f) == link[<<Dir(t), f>>] = t /\ Whole(<<t, f>>)

\* What a task that has its directory to itself has written so far.  When the
\* disk has refused a chunk of the open file, the file will not be finished.
FilesWritten(t) ==
    LET j == job[t]
    IN  /\ j.at = "open" => \A k \in 1 .. (j.file - 1) : Done(t, j.files[k])
        /\ j.at \in {"check", "write"} =>
              /\ j.ino = t /\ link[Path(t)] = t
              /\ t \notin failing => 1 .. j.pos \subseteq data[<<t, File(t)>>]
              /\ \A k \in 1 .. (j.file - 1) : j.files[k] # File(t) => Done(t, j.files[k])
        /\ j.at = "register" \/ (\E m \in models : m.by = t)
              => \A k \in DOMAIN j.files : Done(t, j.files[k])

OwnFilesWritten == \A t \in Tasks : Sole(t) => FilesWritten(t)

\* A df that was asked misses only chunks that were counted as missed.
DfHolds ==
    /\ SpaceBounded
    /\ \A t \in Tasks : job[t].at = "count" => Used <= job[t].used + missed

-----------------------------------------------------------------------------
(* The two sums of the module, as totals of functions.                     *)

SizeSum(d, S) == MapThenSumSet(LAMBDA i : Cardinality(d[i]), S)
RestSum(d, S) == MapThenSumSet(LAMBDA u : d[u].total - d[u].progress, S)

Sizes(d, S) == [i \in S |-> Cardinality(d[i])]
Rests(d, S) == [u \in S |-> d[u].total - d[u].progress]

LEMMA SizeSumIsTotal ==
    ASSUME NEW d, NEW S, IsFiniteSet(S)
    PROVE  SizeSum(d, S) = Total(Sizes(d, S), S)
<1> DEFINE w == Sizes(d, S)
           Sized(g) == g = [s \in SUBSET S |->
              IF s = {} THEN 0 ELSE Cardinality(d[Pick(s)]) + g[s \ {Pick(s)}]]
           it == CHOOSE g : Sized(g)
<1>1. ASSUME NEW g PROVE Sized(g) <=> Sums(g, w, S)
  <2>1. ASSUME NEW s \in SUBSET S, s # {} PROVE w[Pick(s)] = Cardinality(d[Pick(s)])
    BY <2>1, PickIn DEF Sizes
  <2> HIDE DEF w
  <2>2. [s \in SUBSET S |-> IF s = {} THEN 0 ELSE Cardinality(d[Pick(s)]) + g[s \ {Pick(s)}]]
          = [s \in SUBSET S |-> IF s = {} THEN 0 ELSE w[Pick(s)] + g[s \ {Pick(s)}]]
    BY <2>1
  <2> QED
    BY <2>2 DEF Sums
<1>2. \E g : Sized(g)
  BY <1>1, SumsExist
<1>3. Sized(it)
  <2> HIDE DEF Sized
  <2> QED
    BY <1>2
<1>4. SizeSum(d, S) = it[S]
  BY Zenon DEF SizeSum, MapThenSumSet, MapThenFoldSet, Pick
<1>5. PICK h : Sums(h, w, S) /\ Total(w, S) = h[S]
  BY TotalSums
<1>6. Sums(it, w, S)
  BY <1>1, <1>3
<1> HIDE DEF it, w, Sized
<1> QED
  BY <1>4, <1>5, <1>6, SumsAgree DEF w

LEMMA RestSumIsTotal ==
    ASSUME NEW d, NEW S, IsFiniteSet(S)
    PROVE  RestSum(d, S) = Total(Rests(d, S), S)
<1> DEFINE w == Rests(d, S)
           Rested(g) == g = [s \in SUBSET S |->
              IF s = {} THEN 0 ELSE (d[Pick(s)].total - d[Pick(s)].progress) + g[s \ {Pick(s)}]]
           it == CHOOSE g : Rested(g)
<1>1. ASSUME NEW g PROVE Rested(g) <=> Sums(g, w, S)
  <2>1. ASSUME NEW s \in SUBSET S, s # {}
        PROVE  w[Pick(s)] = d[Pick(s)].total - d[Pick(s)].progress
    BY <2>1, PickIn DEF Rests
  <2> HIDE DEF w
  <2>2. [s \in SUBSET S |->
            IF s = {} THEN 0 ELSE (d[Pick(s)].total - d[Pick(s)].progress) + g[s \ {Pick(s)}]]
          = [s \in SUBSET S |-> IF s = {} THEN 0 ELSE w[Pick(s)] + g[s \ {Pick(s)}]]
    BY <2>1
  <2> QED
    BY <2>2 DEF Sums
<1>2. \E g : Rested(g)
  BY <1>1, SumsExist
<1>3. Rested(it)
  <2> HIDE DEF Rested
  <2> QED
    BY <1>2
<1>4. RestSum(d, S) = it[S]
  BY Zenon DEF RestSum, MapThenSumSet, MapThenFoldSet, Pick
<1>5. PICK h : Sums(h, w, S) /\ Total(w, S) = h[S]
  BY TotalSums
<1>6. Sums(it, w, S)
  BY <1>1, <1>3
<1> HIDE DEF it, w, Rested
<1> QED
  BY <1>4, <1>5, <1>6, SumsAgree DEF w

Live == {i \in Tasks \X Files : Linked(i) \/ Opened(i)}

LEMMA UsedIsSum == Used = SizeSum(data, Live)
  BY Zenon DEF Used, SizeSum, Live, MapThenSumSet, MapThenFoldSet
LEMMA UsedIsSumPrime == Used' = SizeSum(data', Live')
  BY Zenon DEF Used, SizeSum, Live, MapThenSumSet, MapThenFoldSet
LEMMA InFlightIsSum ==
    \A t : InFlight(t) = RestSum(dl, {u \in Tasks \ {t} : Downloading(u)})
  BY Zenon DEF InFlight, RestSum, Remaining, MapThenSumSet, MapThenFoldSet

-----------------------------------------------------------------------------
(* Base holds of every state.                                              *)

Jobs    == [at : Places, repo : Repos, files : Wanted, file : Nat, pos : 0 .. Chunks,
            ino : Tasks \union {NoTask}, used : Nat, early : BOOLEAN,
            blind : BOOLEAN, raced : BOOLEAN]
Entries == [status : Statuses, total : Nat, progress : Nat]

LEMMA WantedShape ==
    ASSUME NEW w \in Wanted
    PROVE  /\ w \in Seq(Files) /\ Len(w) \in Nat \ {0} /\ DOMAIN w = 1 .. Len(w)
           /\ \A k \in 1 .. Len(w) : w[k] \in Files
           /\ Size(w) \in Nat
<1>1. w \in Seq(Files) /\ w # <<>> /\ Chunks \in Nat
  BY DownloadsAssumption
<1>2. Len(w) \in Nat /\ Len(w) # 0
  BY <1>1
<1> QED
  BY <1>1, <1>2 DEF Size

\* Offsets stay within the size of the list.
LEMMA Offsets ==
    ASSUME NEW w \in Wanted, NEW k \in 1 .. Len(w)
    PROVE  /\ Chunks * (k - 1) \in Nat
           /\ Chunks * (k - 1) + Chunks = Chunks * k
           /\ Chunks * k <= Size(w)
<1>1. Chunks \in Nat /\ Len(w) \in Nat /\ k \in Nat /\ k - 1 \in Nat /\ Len(w) - k \in Nat
  BY WantedShape, DownloadsAssumption
<1>2. ASSUME NEW c \in Nat, NEW a \in Nat, NEW b \in Nat
      PROVE  c * a \in Nat /\ c * (a + b) = c * a + c * b
  OBVIOUS
<1>3. Chunks * (k - 1) \in Nat /\ Chunks * ((k - 1) + 1) = Chunks * (k - 1) + Chunks * 1
  BY <1>1, <1>2
<1>4. Chunks * (k + (Len(w) - k)) = Chunks * k + Chunks * (Len(w) - k)
      /\ Chunks * (Len(w) - k) \in Nat /\ Chunks * k \in Nat
  BY <1>1, <1>2
<1>5. (k - 1) + 1 = k /\ k + (Len(w) - k) = Len(w) /\ Chunks * 1 = Chunks
  BY <1>1
<1> QED
  BY <1>1, <1>3, <1>4, <1>5 DEF Size

LEMMA LiveFinite ==
    /\ IsFiniteSet(Tasks) /\ IsFiniteSet(Tasks \X Files)
    /\ IsFiniteSet(Live) /\ IsFiniteSet(Live')
<1>1. IsFiniteSet(Tasks \X Files)
  BY DownloadsAssumption, FS_Product
<1>2. Live \subseteq Tasks \X Files /\ Live' \subseteq Tasks \X Files
  BY DEF Live
<1> QED
  BY <1>1, <1>2, FS_Subset, DownloadsAssumption

LEMMA ChunksFinite ==
    ASSUME TypeOK, NEW i \in Tasks \X Files
    PROVE  IsFiniteSet(data[i]) /\ Cardinality(data[i]) \in Nat
<1>1. data[i] \subseteq 1 .. Chunks /\ IsFiniteSet(1 .. Chunks)
  BY DownloadsAssumption, FS_Interval DEF TypeOK
<1> QED
  BY <1>1, FS_Subset, FS_CardinalityType

LEMMA UsedIsTotal ==
    ASSUME TypeOK
    PROVE  Used = Total(Sizes(data, Live), Live) /\ Used \in Nat
<1>1. \A i \in Live : Sizes(data, Live)[i] \in Nat
  BY ChunksFinite DEF Sizes, Live
<1> QED
  BY <1>1, UsedIsSum, LiveFinite, SizeSumIsTotal, TotalNat

\* The marks of what the disk refused.
DiskMarks == failing \subseteq Tasks /\ refused \subseteq Tasks \X Files

\* It is enough to look at the task that took the step.
LEMMA OneTask ==
    ASSUME Base, DiskMarks', NEW t \in Tasks, NEW j \in Jobs, NEW e \in Entries,
           job' = [job EXCEPT ![t] = j], dl' = [dl EXCEPT ![t] = e],
           e.progress <= Size(j.files), j.ino # NoTask => j.at \in {"check", "write"},
           link' \in [Dirs \X Files -> Tasks \union {NoTask}],
           data' \in [Tasks \X Files -> SUBSET (1 .. Chunks)],
           models' \subseteq Rows, del' \in [on : BOOLEAN, repo : Repos],
           missed' \in Nat, faults' \in 0 .. MaxFaults, InPhase(t)'
    PROVE  Base'
<1>1. job' \in [Tasks -> Jobs] /\ dl' \in [Tasks -> Entries]
  BY DEF Base, TypeOK, Jobs, Entries
<1>2. \A u \in Tasks : /\ dl'[u].progress <= Size(job'[u].files)
                       /\ job'[u].ino # NoTask => job'[u].at \in {"check", "write"}
  BY DEF Base, TypeOK
<1>3. TypeOK'
  BY <1>1, <1>2 DEF TypeOK, Jobs, Entries, DiskMarks
<1>4. ASSUME NEW u \in Tasks, u # t PROVE InPhase(u)'
  <2>1. job'[u] = job[u] /\ dl'[u] = dl[u]
    BY <1>4 DEF Base, TypeOK
  <2> QED
    BY <2>1 DEF Base, InPhase, Begun, Downloading
<1> QED
  BY <1>3, <1>4 DEF Base

\* One field of a job is set, and the others stay.
LEMMA AtField ==
    ASSUME NEW j \in Jobs, NEW v \in Places, NEW k, k = [j EXCEPT !.at = v]
    PROVE  /\ k \in Jobs /\ k.at = v
           /\ k.repo = j.repo /\ k.files = j.files /\ k.file = j.file /\ k.pos = j.pos
           /\ k.ino = j.ino /\ k.used = j.used /\ k.early = j.early
           /\ k.blind = j.blind /\ k.raced = j.raced
  BY DEF Jobs

LEMMA FileField ==
    ASSUME NEW j \in Jobs, NEW v \in Nat, NEW k, k = [j EXCEPT !.file = v]
    PROVE  /\ k \in Jobs /\ k.file = v
           /\ k.at = j.at /\ k.repo = j.repo /\ k.files = j.files /\ k.pos = j.pos
           /\ k.ino = j.ino /\ k.used = j.used /\ k.early = j.early
           /\ k.blind = j.blind /\ k.raced = j.raced
  BY DEF Jobs

LEMMA PosField ==
    ASSUME NEW j \in Jobs, NEW v \in 0 .. Chunks, NEW k, k = [j EXCEPT !.pos = v]
    PROVE  /\ k \in Jobs /\ k.pos = v
           /\ k.at = j.at /\ k.repo = j.repo /\ k.files = j.files /\ k.file = j.file
           /\ k.ino = j.ino /\ k.used = j.used /\ k.early = j.early
           /\ k.blind = j.blind /\ k.raced = j.raced
  BY DEF Jobs

LEMMA InoField ==
    ASSUME NEW j \in Jobs, NEW v \in Tasks \union {NoTask}, NEW k, k = [j EXCEPT !.ino = v]
    PROVE  /\ k \in Jobs /\ k.ino = v
           /\ k.at = j.at /\ k.repo = j.repo /\ k.files = j.files /\ k.file = j.file
           /\ k.pos = j.pos /\ k.used = j.used /\ k.early = j.early
           /\ k.blind = j.blind /\ k.raced = j.raced
  BY DEF Jobs

LEMMA UsedField ==
    ASSUME NEW j \in Jobs, NEW v \in Nat, NEW k, k = [j EXCEPT !.used = v]
    PROVE  /\ k \in Jobs /\ k.used = v
           /\ k.at = j.at /\ k.repo = j.repo /\ k.files = j.files /\ k.file = j.file
           /\ k.pos = j.pos /\ k.ino = j.ino /\ k.early = j.early
           /\ k.blind = j.blind /\ k.raced = j.raced
  BY DEF Jobs

LEMMA UnusedIsJob ==
    /\ Unused \in Jobs /\ Idle \in [on : BOOLEAN, repo : Repos]
    /\ Unused.at = "none" /\ Unused.ino = NoTask /\ Unused.file = 1
    /\ ~Unused.early /\ ~Unused.blind /\ ~Unused.raced
<1>1. (CHOOSE r \in Repos : TRUE) \in Repos
  BY DownloadsAssumption
<1>2. (CHOOSE w \in Wanted : TRUE) \in Wanted
  BY DownloadsAssumption
<1> QED
  BY <1>1, <1>2, DownloadsAssumption DEF Unused, Jobs, Idle, Places

LEMMA BaseInit == Init => Base
<1> SUFFICES ASSUME Init PROVE Base
  OBVIOUS
<1>1. ASSUME NEW t \in Tasks
      PROVE  /\ job[t] = Unused /\ dl[t] = [status |-> "none", total |-> 0, progress |-> 0]
             /\ dl[t] \in Entries /\ Size(job[t].files) \in Nat
  BY UnusedIsJob, WantedShape DEF Init, Entries, Statuses, Jobs
<1>2. TypeOK
  <2>1. job \in [Tasks -> Jobs] /\ dl \in [Tasks -> Entries]
    BY <1>1, UnusedIsJob DEF Init
  <2>2. \A t \in Tasks : /\ dl[t].progress <= Size(job[t].files)
                         /\ job[t].ino # NoTask => job[t].at \in {"check", "write"}
    BY <1>1, UnusedIsJob
  <2>3. data \in [Tasks \X Files -> SUBSET (1 .. Chunks)] /\ missed \in Nat
        /\ link \in [Dirs \X Files -> Tasks \union {NoTask}]
        /\ models \subseteq Rows /\ faults \in 0 .. MaxFaults
    BY DownloadsAssumption DEF Init
  <2> QED
    BY <2>1, <2>2, <2>3, UnusedIsJob DEF TypeOK, Jobs, Entries, Init
<1>3. \A t \in Tasks : InPhase(t)
  BY <1>1, UnusedIsJob DEF InPhase, Begun, Downloading
<1> QED
  BY <1>2, <1>3 DEF Base

\* What Base says of one task.
LEMMA TaskShape ==
    ASSUME Base, NEW t \in Tasks
    PROVE  /\ job[t] \in Jobs /\ dl[t] \in Entries
           /\ dl[t].progress <= Size(job[t].files)
           /\ job[t].ino # NoTask => job[t].at \in {"check", "write"}
           /\ InPhase(t)
           /\ DOMAIN job = Tasks /\ DOMAIN dl = Tasks
  BY DEF Base, TypeOK, Jobs, Entries

LEMMA RestType ==
    ASSUME Base
    PROVE  /\ link \in [Dirs \X Files -> Tasks \union {NoTask}]
           /\ data \in [Tasks \X Files -> SUBSET (1 .. Chunks)]
           /\ models \subseteq Rows /\ del \in [on : BOOLEAN, repo : Repos]
           /\ missed \in Nat /\ faults \in 0 .. MaxFaults /\ DiskMarks
  BY DEF Base, TypeOK, DiskMarks

LEMMA FaultType == ASSUME faults \in 0 .. MaxFaults, Fault PROVE faults' \in 0 .. MaxFaults
  BY DownloadsAssumption DEF Fault

\* A job that has ended, and the entry of a failed download.
Ended(j) == [j EXCEPT !.at = "end", !.ino = NoTask, !.file = 1, !.pos = 0, !.used = 0]

LEMMA EndedShape ==
    ASSUME NEW j \in Jobs
    PROVE  /\ Ended(j) \in Jobs
           /\ Ended(j).at = "end" /\ Ended(j).ino = NoTask /\ Ended(j).file = 1
           /\ Ended(j).repo = j.repo /\ Ended(j).files = j.files
           /\ Ended(j).early = j.early /\ Ended(j).blind = j.blind /\ Ended(j).raced = j.raced
<1> DEFINE a == [j EXCEPT !.at = "end"]
           b == [a EXCEPT !.ino = NoTask]
           c == [b EXCEPT !.file = 1]
           d == [c EXCEPT !.pos = 0]
           e == [d EXCEPT !.used = 0]
<1>1. 0 \in 0 .. Chunks /\ "end" \in Places
  BY DownloadsAssumption DEF Places
<1>2. Ended(j) = e
  BY Zenon DEF Ended
<1>3. a \in Jobs /\ b \in Jobs /\ c \in Jobs /\ d \in Jobs
  <2>1. a \in Jobs
    BY <1>1, AtField
  <2>2. b \in Jobs
    BY <2>1, InoField
  <2>3. c \in Jobs
    BY <2>2, FileField
  <2> QED
    BY <1>1, <2>1, <2>2, <2>3, PosField
<1> HIDE DEF a, b, c, d, e
<1>4. b.at = "end" /\ b.ino = NoTask /\ b.repo = j.repo /\ b.files = j.files
      /\ b.early = j.early /\ b.blind = j.blind /\ b.raced = j.raced
  BY <1>1, <1>3, AtField, InoField DEF a, b
<1>5. d.at = b.at /\ d.ino = b.ino /\ d.repo = b.repo /\ d.files = b.files /\ d.file = 1
      /\ d.early = b.early /\ d.blind = b.blind /\ d.raced = b.raced
  BY <1>1, <1>3, FileField, PosField DEF c, d
<1>6. e \in Jobs /\ e.at = d.at /\ e.ino = d.ino /\ e.repo = d.repo /\ e.files = d.files
      /\ e.file = d.file /\ e.early = d.early /\ e.blind = d.blind /\ e.raced = d.raced
  BY <1>3, UsedField DEF e
<1> QED
  BY <1>2, <1>4, <1>5, <1>6

\* A job that moves on keeps its request and its history.
Kept(j, k) ==
    /\ k.repo = j.repo /\ k.files = j.files
    /\ k.early = j.early /\ k.raced = j.raced

\* What the steps make of a job.
Moved(j, p)      == [j EXCEPT !.at = p]
Counting(j, n)   == [j EXCEPT !.at = "count", !.used = n]
Unasked(j)       == [j EXCEPT !.at = "open", !.blind = TRUE]
Admitting(j)     == [j EXCEPT !.at = "open", !.used = 0]
Opening(j, i)    == [j EXCEPT !.at = "check", !.pos = 0, !.ino = i]
NextChunk(j)     == [j EXCEPT !.at = "check", !.pos = @ + 1]
NextFile(j)      == [j EXCEPT !.at = "open", !.file = @ + 1, !.ino = NoTask]
LastFile(j)      == [j EXCEPT !.at = "register", !.ino = NoTask]
Cancelling(j, b) == [j EXCEPT !.early = b]
Racing(j)        == [j EXCEPT !.raced = TRUE]
Starting(r, w, b) ==
    [Unused EXCEPT !.at = "insert", !.repo = r, !.files = w, !.raced = b]

LEMMA MovedShape ==
    ASSUME NEW j \in Jobs, NEW p \in Places
    PROVE  /\ Moved(j, p) \in Jobs /\ Kept(j, Moved(j, p)) /\ Moved(j, p).at = p /\ Moved(j, p).file = j.file
           /\ Moved(j, p).pos = j.pos /\ Moved(j, p).ino = j.ino /\ Moved(j, p).used = j.used /\ Moved(j, p).blind = j.blind
  BY DEF Moved, Jobs, Kept

LEMMA CountingShape ==
    ASSUME NEW j \in Jobs, NEW n \in Nat
    PROVE  /\ Counting(j, n) \in Jobs /\ Kept(j, Counting(j, n)) /\ Counting(j, n).at = "count" /\ Counting(j, n).used = n
           /\ Counting(j, n).file = j.file /\ Counting(j, n).pos = j.pos /\ Counting(j, n).ino = j.ino /\ Counting(j, n).blind = j.blind
  BY DEF Counting, Jobs, Kept, Places

LEMMA BlindShape ==
    ASSUME NEW j \in Jobs
    PROVE  /\ Unasked(j) \in Jobs /\ Kept(j, Unasked(j)) /\ Unasked(j).at = "open" /\ Unasked(j).blind
           /\ Unasked(j).file = j.file /\ Unasked(j).pos = j.pos /\ Unasked(j).ino = j.ino /\ Unasked(j).used = j.used
  BY DEF Unasked, Jobs, Kept, Places

LEMMA AdmittedShape ==
    ASSUME NEW j \in Jobs
    PROVE  /\ Admitting(j) \in Jobs /\ Kept(j, Admitting(j)) /\ Admitting(j).at = "open" /\ Admitting(j).blind = j.blind
           /\ Admitting(j).file = j.file /\ Admitting(j).pos = j.pos /\ Admitting(j).ino = j.ino
<1> DEFINE a == Moved(j, "open")
           e == [a EXCEPT !.used = 0]
<1>1. a \in Jobs /\ a.at = "open" /\ Kept(j, a) /\ a.blind = j.blind
      /\ a.file = j.file /\ a.pos = j.pos /\ a.ino = j.ino
  BY MovedShape DEF Places
<1>2. Admitting(j) = e
  BY Zenon DEF Admitting, Moved
<1> HIDE DEF a, e
<1>3. e \in Jobs /\ Kept(a, e) /\ e.at = a.at /\ e.blind = a.blind
      /\ e.file = a.file /\ e.pos = a.pos /\ e.ino = a.ino
  BY <1>1, UsedField DEF Kept, e
<1> QED
  BY <1>1, <1>2, <1>3 DEF Kept

LEMMA OpenedShape ==
    ASSUME NEW j \in Jobs, NEW i \in Tasks
    PROVE  /\ Opening(j, i) \in Jobs /\ Kept(j, Opening(j, i)) /\ Opening(j, i).at = "check" /\ Opening(j, i).pos = 0 /\ Opening(j, i).ino = i
           /\ Opening(j, i).file = j.file /\ Opening(j, i).blind = j.blind
<1> DEFINE a == Moved(j, "check")
           b == [a EXCEPT !.pos = 0]
           e == [b EXCEPT !.ino = i]
<1>1. 0 \in 0 .. Chunks /\ "check" \in Places
  BY DownloadsAssumption DEF Places
<1>2. a \in Jobs /\ a.at = "check" /\ Kept(j, a) /\ a.file = j.file /\ a.blind = j.blind
  BY <1>1, MovedShape
<1>3. Opening(j, i) = e
  BY Zenon DEF Opening, Moved
<1> HIDE DEF a
<1>4. b \in Jobs /\ b.pos = 0 /\ b.at = a.at /\ Kept(a, b) /\ b.file = a.file /\ b.blind = a.blind
  BY <1>1, <1>2, PosField DEF Kept
<1> HIDE DEF b, e
<1>5. e \in Jobs /\ e.ino = i /\ Kept(b, e) /\ e.at = b.at /\ e.pos = b.pos
      /\ e.file = b.file /\ e.blind = b.blind
  BY <1>4, InoField DEF Kept, e
<1> QED
  BY <1>2, <1>3, <1>4, <1>5 DEF Kept

LEMMA NextChunkShape ==
    ASSUME NEW j \in Jobs, j.pos + 1 < Chunks
    PROVE  /\ NextChunk(j) \in Jobs /\ Kept(j, NextChunk(j)) /\ NextChunk(j).at = "check" /\ NextChunk(j).pos = j.pos + 1
           /\ NextChunk(j).ino = j.ino /\ NextChunk(j).file = j.file /\ NextChunk(j).blind = j.blind
<1> DEFINE a == Moved(j, "check")
           e == [a EXCEPT !.pos = j.pos + 1]
<1>1. a \in Jobs /\ a.at = "check" /\ Kept(j, a) /\ a.file = j.file /\ a.blind = j.blind
      /\ a.pos = j.pos /\ a.ino = j.ino
  BY MovedShape DEF Places
<1>2. NextChunk(j) = e /\ j.pos + 1 \in 0 .. Chunks
  BY DownloadsAssumption DEF Jobs, NextChunk, Moved
<1> HIDE DEF a, e
<1>3. e \in Jobs /\ e.pos = j.pos + 1 /\ Kept(a, e) /\ e.at = a.at
      /\ e.ino = a.ino /\ e.file = a.file /\ e.blind = a.blind
  BY <1>1, <1>2, PosField DEF Kept, e
<1> QED
  BY <1>1, <1>2, <1>3 DEF Kept

LEMMA NextFileShape ==
    ASSUME NEW j \in Jobs
    PROVE  /\ NextFile(j) \in Jobs /\ Kept(j, NextFile(j)) /\ NextFile(j).at = "open" /\ NextFile(j).ino = NoTask
           /\ NextFile(j).file = j.file + 1 /\ NextFile(j).blind = j.blind
<1> DEFINE a == Moved(j, "open")
           b == [a EXCEPT !.file = j.file + 1]
           e == [b EXCEPT !.ino = NoTask]
<1>1. a \in Jobs /\ a.at = "open" /\ Kept(j, a) /\ a.file = j.file /\ a.blind = j.blind
  BY MovedShape DEF Places
<1>2. NextFile(j) = e /\ j.file + 1 \in Nat
  BY DEF Jobs, NextFile, Moved
<1> HIDE DEF a
<1>3. b \in Jobs /\ b.file = j.file + 1 /\ b.at = a.at /\ Kept(a, b) /\ b.blind = a.blind
  BY <1>1, <1>2, FileField DEF Kept
<1> HIDE DEF b, e
<1>4. e \in Jobs /\ e.ino = NoTask /\ Kept(b, e) /\ e.at = b.at
      /\ e.file = b.file /\ e.blind = b.blind
  BY <1>3, InoField DEF Kept, e
<1> QED
  BY <1>1, <1>2, <1>3, <1>4 DEF Kept

LEMMA LastFileShape ==
    ASSUME NEW j \in Jobs
    PROVE  /\ LastFile(j) \in Jobs /\ Kept(j, LastFile(j)) /\ LastFile(j).at = "register" /\ LastFile(j).ino = NoTask
           /\ LastFile(j).blind = j.blind
  BY DEF LastFile, Jobs, Kept, Places

LEMMA CancelShape ==
    ASSUME NEW j \in Jobs, NEW b \in BOOLEAN
    PROVE  /\ Cancelling(j, b) \in Jobs /\ Cancelling(j, b).early = b /\ Cancelling(j, b).at = j.at /\ Cancelling(j, b).repo = j.repo
           /\ Cancelling(j, b).files = j.files /\ Cancelling(j, b).raced = j.raced /\ Cancelling(j, b).file = j.file
           /\ Cancelling(j, b).pos = j.pos /\ Cancelling(j, b).ino = j.ino /\ Cancelling(j, b).used = j.used /\ Cancelling(j, b).blind = j.blind
  BY DEF Cancelling, Jobs

LEMMA RacedShape ==
    ASSUME NEW j \in Jobs
    PROVE  /\ Racing(j) \in Jobs /\ Racing(j).early = j.early /\ Racing(j).at = j.at /\ Racing(j).repo = j.repo
           /\ Racing(j).files = j.files /\ Racing(j).raced = TRUE /\ Racing(j).file = j.file
           /\ Racing(j).pos = j.pos /\ Racing(j).ino = j.ino /\ Racing(j).used = j.used /\ Racing(j).blind = j.blind
  BY DEF Racing, Jobs

LEMMA StartedShape ==
    ASSUME NEW r \in Repos, NEW w \in Wanted, NEW b \in BOOLEAN
    PROVE  /\ Starting(r, w, b) \in Jobs /\ Starting(r, w, b).at = "insert" /\ Starting(r, w, b).repo = r /\ Starting(r, w, b).files = w /\ Starting(r, w, b).raced = b
           /\ Starting(r, w, b).file = 1 /\ Starting(r, w, b).ino = NoTask /\ ~Starting(r, w, b).early /\ ~Starting(r, w, b).blind
<1> DEFINE u == Unused
           e == [at |-> "insert", repo |-> r, files |-> w, file |-> u.file, pos |-> u.pos,
                 ino |-> u.ino, used |-> u.used, early |-> u.early,
                 blind |-> u.blind, raced |-> b]
<1>1. u \in Jobs /\ u.file = 1 /\ u.ino = NoTask /\ ~u.early /\ ~u.blind
  BY UnusedIsJob
<1>2. Starting(r, w, b) = [u EXCEPT !.at = "insert", !.repo = r, !.files = w, !.raced = b]
  BY Zenon DEF Starting
<1> HIDE DEF u
<1>3. Starting(r, w, b) = e
  BY <1>1, <1>2 DEF Jobs
<1>4. /\ e.at = "insert" /\ e.repo = r /\ e.files = w /\ e.raced = b
      /\ e.file = u.file /\ e.ino = u.ino /\ e.early = u.early /\ e.blind = u.blind
  OBVIOUS
<1>5. e \in Jobs
  <2>1. "insert" \in Places
    BY DEF Places
  <2> QED
    BY <1>1, <2>1 DEF Jobs
<1> HIDE DEF e
<1> QED
  BY <1>1, <1>3, <1>4, <1>5, Zenon

\* The step of a task changes its job and its entry of the map alone, and no
\* step changes what was asked for.
Turn(t) ==
    /\ job' = [job EXCEPT ![t] = job'[t]] /\ job'[t] \in Jobs
    /\ dl' = [dl EXCEPT ![t] = dl'[t]] /\ dl'[t] \in Entries
    /\ Kept(job[t], job'[t])

LEMMA TurnIs ==
    ASSUME Base, NEW t \in Tasks, NEW j \in Jobs, NEW e \in Entries,
           job' = [job EXCEPT ![t] = j], dl' = [dl EXCEPT ![t] = e], Kept(job[t], j)
    PROVE  Turn(t) /\ job'[t] = j /\ dl'[t] = e
<1>1. job'[t] = j /\ dl'[t] = e
  BY TaskShape
<1> QED
  BY <1>1 DEF Turn

\* The same, with the two updates under one name.
Steps(t, j, e) == job' = [job EXCEPT ![t] = j] /\ dl' = [dl EXCEPT ![t] = e]

LEMMA TurnAt ==
    ASSUME Base, NEW t \in Tasks, NEW j \in Jobs, NEW e \in Entries, Steps(t, j, e), Kept(job[t], j)
    PROVE  Turn(t) /\ job'[t] = j /\ dl'[t] = e
  BY TurnIs DEF Steps

LEMMA SameEntry ==
    ASSUME Base, NEW t \in Tasks
    PROVE  dl = [dl EXCEPT ![t] = dl[t]]
  BY DEF Base, TypeOK

LEMMA InsertShape ==
    ASSUME Base, NEW t \in Tasks, StartInsert(t)
    PROVE  /\ Turn(t) /\ job[t].at = "insert" /\ job'[t].at = "list"
           /\ job'[t].file = job[t].file /\ job'[t].ino = job[t].ino
           /\ job'[t].blind = job[t].blind
           /\ dl'[t].status = "Downloading" /\ dl'[t].progress = dl[t].progress
<1> DEFINE j == Moved(job[t], "list")
           e == [dl[t] EXCEPT !.status = "Downloading"]
<1>1. job' = [job EXCEPT ![t] = j] /\ dl' = [dl EXCEPT ![t] = e] /\ job[t].at = "insert"
  BY Zenon DEF StartInsert, Goto, SetStatus, Moved
<1>2. job[t] \in Jobs /\ dl[t] \in Entries /\ "list" \in Places
  BY TaskShape DEF Places
<1>3. j \in Jobs /\ Kept(job[t], j) /\ j.at = "list" /\ j.file = job[t].file
      /\ j.ino = job[t].ino /\ j.blind = job[t].blind
  BY <1>2, MovedShape
<1>4. e \in Entries /\ e.status = "Downloading" /\ e.progress = dl[t].progress
  BY <1>2 DEF Entries, Statuses
<1> HIDE DEF j, e
<1>9. Steps(t, j, e)
  BY <1>1, <1>3, <1>4 DEF Steps
<1> QED
  BY <1>1, <1>3, <1>4, <1>9, TurnAt

LEMMA ListShape ==
    ASSUME Base, NEW t \in Tasks, ListFiles(t), ~Fail(t)
    PROVE  /\ Turn(t) /\ job[t].at = "list" /\ job'[t].at = "df"
           /\ job'[t].file = job[t].file /\ job'[t].ino = job[t].ino
           /\ job'[t].blind = job[t].blind
           /\ dl'[t].status = dl[t].status /\ dl'[t].progress = dl[t].progress
           /\ dl'[t].total = Size(job[t].files)
           /\ UNCHANGED <<link, data, failing, refused, models, del, missed, faults>>
<1> DEFINE j == Moved(job[t], "df")
           e == [dl[t] EXCEPT !.total = Size(job[t].files)]
<1>1. job' = [job EXCEPT ![t] = j] /\ dl' = [dl EXCEPT ![t] = e] /\ job[t].at = "list"
      /\ UNCHANGED <<link, data, failing, refused, models, del, missed, faults>>
  BY Zenon DEF ListFiles, Goto, Moved
<1>2. job[t] \in Jobs /\ dl[t] \in Entries /\ "df" \in Places
  BY TaskShape DEF Places
<1>3. j \in Jobs /\ Kept(job[t], j) /\ j.at = "df" /\ j.file = job[t].file
      /\ j.ino = job[t].ino /\ j.blind = job[t].blind
  BY <1>2, MovedShape
<1>4. Size(job[t].files) \in Nat
  BY <1>2, WantedShape DEF Jobs
<1>5. e \in Entries /\ e.status = dl[t].status /\ e.progress = dl[t].progress
      /\ e.total = Size(job[t].files)
  BY <1>2, <1>4 DEF Entries
<1> HIDE DEF j, e
<1>9. Steps(t, j, e)
  BY <1>1, <1>3, <1>5 DEF Steps
<1> QED
  BY <1>1, <1>3, <1>5, <1>9, TurnAt

\* df answers, or fails.
Asked(t) ==
    /\ job'[t].at = "count" /\ job'[t].used \in Answers(t) /\ job'[t].blind = job[t].blind
    /\ missed' = missed + (Used - job'[t].used) /\ UNCHANGED faults
NotAsked(t) == job'[t].at = "open" /\ job'[t].blind /\ Fault /\ UNCHANGED missed

LEMMA DfShape ==
    ASSUME Base, NEW t \in Tasks, AskDf(t)
    PROVE  /\ Turn(t) /\ job[t].at = "df" /\ (Asked(t) \/ NotAsked(t))
           /\ job'[t].file = job[t].file /\ job'[t].ino = job[t].ino
           /\ dl'[t] = dl[t] /\ UNCHANGED <<link, data, failing, refused, models, del>>
<1>1. job[t] \in Jobs /\ dl[t] \in Entries /\ dl' = [dl EXCEPT ![t] = dl[t]] /\ job[t].at = "df"
      /\ UNCHANGED <<link, data, failing, refused, models, del>>
  BY TaskShape, SameEntry DEF AskDf
<1>2. ASSUME NEW n \in Answers(t),
             job' = [job EXCEPT ![t].at = "count", ![t].used = n],
             missed' = missed + (Used - n), UNCHANGED faults
      PROVE  Turn(t) /\ Asked(t) /\ job'[t].file = job[t].file /\ job'[t].ino = job[t].ino
             /\ dl'[t] = dl[t]
  <2> DEFINE j == Counting(job[t], n)
  <2>1. job' = [job EXCEPT ![t] = j]
    BY <1>2, TaskShape DEF Counting
  <2>2. n \in Nat
    BY UsedIsTotal DEF Base, Answers
  <2>3. j \in Jobs /\ Kept(job[t], j) /\ j.at = "count" /\ j.used = n
        /\ j.file = job[t].file /\ j.ino = job[t].ino /\ j.blind = job[t].blind
    BY <1>1, <2>2, CountingShape
  <2> HIDE DEF j
  <2>4. Steps(t, j, dl[t])
    BY <1>1, <2>1 DEF Steps
  <2>5. Turn(t) /\ job'[t] = j /\ dl'[t] = dl[t]
    BY <1>1, <2>3, <2>4, TurnAt
  <2> QED
    BY <1>1, <1>2, <2>3, <2>5 DEF Asked
<1>3. ASSUME job' = [job EXCEPT ![t].at = "open", ![t].blind = TRUE], Fault, UNCHANGED missed
      PROVE  Turn(t) /\ NotAsked(t) /\ job'[t].file = job[t].file /\ job'[t].ino = job[t].ino
             /\ dl'[t] = dl[t]
  <2> DEFINE j == Unasked(job[t])
  <2>1. job' = [job EXCEPT ![t] = j]
    BY <1>3, TaskShape DEF Unasked
  <2>2. j \in Jobs /\ Kept(job[t], j) /\ j.at = "open" /\ j.blind
        /\ j.file = job[t].file /\ j.ino = job[t].ino
    BY <1>1, BlindShape
  <2> HIDE DEF j
  <2>3. Steps(t, j, dl[t])
    BY <1>1, <2>1 DEF Steps
  <2>4. Turn(t) /\ job'[t] = j /\ dl'[t] = dl[t]
    BY <1>1, <2>2, <2>3, TurnAt
  <2> QED
    BY <1>1, <1>3, <2>2, <2>4 DEF NotAsked
<1>4. \/ \E n \in Answers(t) : /\ job' = [job EXCEPT ![t].at = "count", ![t].used = n]
                               /\ missed' = missed + (Used - n) /\ UNCHANGED faults
      \/ job' = [job EXCEPT ![t].at = "open", ![t].blind = TRUE] /\ Fault /\ UNCHANGED missed
  BY Zenon DEF AskDf
<1> QED
  BY <1>1, <1>2, <1>3, <1>4

\* A task that ends, in whatever way.
EndTurn(t) ==
    /\ Turn(t) /\ job'[t].at = "end" /\ job'[t].ino = NoTask /\ job'[t].file = 1
    /\ job'[t].blind = job[t].blind

LEMMA QuitShape ==
    ASSUME Base, NEW t \in Tasks, NEW e \in Entries, Quit(t), dl' = [dl EXCEPT ![t] = e]
    PROVE  EndTurn(t) /\ dl'[t] = e
<1>1. job[t] \in Jobs
  BY TaskShape
<1>2. job' = [job EXCEPT ![t] = Ended(job[t])]
  BY Zenon DEF Quit, Ended
<1>3. /\ Ended(job[t]) \in Jobs /\ Kept(job[t], Ended(job[t]))
      /\ Ended(job[t]).at = "end" /\ Ended(job[t]).ino = NoTask
      /\ Ended(job[t]).file = 1 /\ Ended(job[t]).blind = job[t].blind
  BY <1>1, EndedShape DEF Kept
<1>9. Steps(t, Ended(job[t]), e)
  BY <1>2 DEF Steps
<1> QED
  BY <1>3, <1>9, TurnAt DEF EndTurn

LEMMA ErrorShape ==
    ASSUME Base, NEW t \in Tasks, SetError(t)
    PROVE  EndTurn(t) /\ dl'[t].status = "Failed" /\ dl'[t].progress = dl[t].progress
<1> DEFINE e == [dl[t] EXCEPT !.status = "Failed"]
<1>1. e \in Entries /\ e.status = "Failed" /\ e.progress = dl[t].progress
  BY TaskShape DEF Entries, Statuses
<1>2. Quit(t) /\ dl' = [dl EXCEPT ![t] = e]
  BY Zenon DEF SetError, SetStatus
<1> HIDE DEF e
<1> QED
  BY <1>1, <1>2, QuitShape

LEMMA CountShape ==
    ASSUME Base, NEW t \in Tasks, CountSpace(t), ~SetError(t)
    PROVE  /\ Turn(t) /\ job[t].at = "count" /\ job'[t].at = "open"
           /\ Fits(job[t].used, Required(t))
           /\ job'[t].file = job[t].file /\ job'[t].ino = job[t].ino
           /\ job'[t].blind = job[t].blind /\ dl'[t] = dl[t]
<1> DEFINE j == Admitting(job[t])
<1>1. job' = [job EXCEPT ![t] = j] /\ job[t].at = "count" /\ dl' = [dl EXCEPT ![t] = dl[t]]
      /\ Fits(job[t].used, Required(t))
  BY TaskShape, SameEntry DEF CountSpace, Admitting
<1>2. job[t] \in Jobs /\ dl[t] \in Entries
  BY TaskShape
<1>3. j \in Jobs /\ Kept(job[t], j) /\ j.at = "open" /\ j.file = job[t].file
      /\ j.ino = job[t].ino /\ j.blind = job[t].blind
  BY <1>2, AdmittedShape
<1> HIDE DEF j
<1>9. Steps(t, j, dl[t])
  BY <1>1, <1>2, <1>3 DEF Steps
<1> QED
  BY <1>1, <1>2, <1>3, <1>9, TurnAt

LEMMA FailShape ==
    ASSUME Base, NEW t \in Tasks, Fail(t)
    PROVE  /\ EndTurn(t) /\ dl'[t].status = "Failed" /\ dl'[t].progress = dl[t].progress
           /\ Fault /\ UNCHANGED <<link, data, failing, refused, models, del, missed>>
  BY ErrorShape DEF Fail

\* Where an open file is: within the list, and its name within the files.
LEMMA FileShape ==
    ASSUME Base, NEW t \in Tasks, job[t].at \in {"open", "check", "write"}
    PROVE  /\ job[t].file \in 1 .. Len(job[t].files) /\ Len(job[t].files) \in Nat
           /\ File(t) \in Files /\ Path(t) \in Dirs \X Files
           /\ Path(t) = <<Dir(t), File(t)>> /\ Dir(t) \in Dirs
  BY TaskShape, WantedShape, DownloadsAssumption DEF InPhase, Jobs, File, Path, Dir

\* The inode that File::create finds or makes.
Target(t) == IF link[Path(t)] = NoTask THEN t ELSE link[Path(t)]

LEMMA OpenShape ==
    ASSUME Base, NEW t \in Tasks, OpenFile(t), ~Fail(t)
    PROVE  /\ job[t].at = "open"
           /\ \/ /\ Cancelled(t) /\ EndTurn(t) /\ dl'[t] = dl[t]
                 /\ UNCHANGED <<link, data, failing, refused, models, del, missed, faults>>
              \/ /\ ~Cancelled(t) /\ Turn(t) /\ dl'[t] = dl[t]
                 /\ job'[t].at = "check" /\ job'[t].pos = 0 /\ job'[t].ino = Target(t)
                 /\ job'[t].file = job[t].file /\ job'[t].blind = job[t].blind
                 /\ Target(t) \in Tasks
                 /\ link' = [link EXCEPT ![Path(t)] = Target(t)]
                 /\ data' = [data EXCEPT ![<<Target(t), File(t)>>] = {}]
                 /\ refused' = refused \ {<<Target(t), File(t)>>}
                 /\ UNCHANGED <<failing, models, del, missed, faults>>
<1>1. job[t].at = "open" /\ dl' = [dl EXCEPT ![t] = dl[t]] /\ job[t] \in Jobs /\ dl[t] \in Entries
  BY TaskShape, SameEntry DEF OpenFile
<1>2. CASE Cancelled(t)
  <2>1. Quit(t) /\ UNCHANGED <<dl, link, data, failing, refused, models, del, missed, faults>>
    BY <1>2, Zenon DEF OpenFile
  <2> QED
    BY <1>1, <1>2, <2>1, QuitShape
<1>3. CASE ~Cancelled(t)
  <2> DEFINE j == Opening(job[t], Target(t))
  <2>1. /\ job' = [job EXCEPT ![t].at = "check", ![t].pos = 0, ![t].ino = Target(t)]
        /\ link' = [link EXCEPT ![Path(t)] = Target(t)]
        /\ data' = [data EXCEPT ![<<Target(t), File(t)>>] = {}]
        /\ refused' = refused \ {<<Target(t), File(t)>>}
        /\ UNCHANGED <<dl, failing, models, del, missed, faults>>
    BY <1>3, Zenon DEF OpenFile, Target
  <2>2. Target(t) \in Tasks
    BY <1>1, FileShape, RestType DEF Target
  <2>3. job' = [job EXCEPT ![t] = j]
    <3> HIDE DEF Target
    <3> QED
      BY <2>1, TaskShape DEF Opening
  <2>4. /\ j \in Jobs /\ Kept(job[t], j) /\ j.at = "check" /\ j.pos = 0 /\ j.ino = Target(t)
        /\ j.file = job[t].file /\ j.blind = job[t].blind
    BY <1>1, <2>2, OpenedShape
  <2> HIDE DEF j
  <2>5. Turn(t) /\ job'[t] = j /\ dl'[t] = dl[t]
    <3>1. Steps(t, j, dl[t])
      BY <1>1, <2>3, <2>4 DEF Steps
    <3> QED
      BY <1>1, <2>3, <2>4, <3>1, TurnAt
  <2> QED
    BY <1>1, <1>3, <2>1, <2>2, <2>4, <2>5
<1> QED
  BY <1>2, <1>3

LEMMA CheckShape ==
    ASSUME Base, NEW t \in Tasks, CheckChunk(t)
    PROVE  /\ job[t].at = "check" /\ dl'[t] = dl[t]
           /\ UNCHANGED <<data, failing, refused, models, del, missed, faults>>
           /\ \/ Cancelled(t) /\ EndTurn(t) /\ link' = [link EXCEPT ![Path(t)] = NoTask]
              \/ /\ ~Cancelled(t) /\ Turn(t) /\ UNCHANGED link
                 /\ job'[t].at = "write" /\ job'[t].pos = job[t].pos /\ job'[t].ino = job[t].ino
                 /\ job'[t].file = job[t].file /\ job'[t].blind = job[t].blind
<1>1. job[t].at = "check" /\ dl' = [dl EXCEPT ![t] = dl[t]] /\ job[t] \in Jobs /\ dl[t] \in Entries
      /\ UNCHANGED <<data, failing, refused, models, del, missed, faults>>
  BY TaskShape, SameEntry DEF CheckChunk
<1>2. CASE Cancelled(t)
  BY <1>1, <1>2, QuitShape DEF CheckChunk
<1>3. CASE ~Cancelled(t)
  <2> DEFINE j == Moved(job[t], "write")
  <2>1. job' = [job EXCEPT ![t] = j] /\ UNCHANGED link
    BY <1>3, Zenon DEF CheckChunk, Goto, Moved
  <2>2. /\ j \in Jobs /\ Kept(job[t], j) /\ j.at = "write" /\ j.pos = job[t].pos
        /\ j.ino = job[t].ino /\ j.file = job[t].file /\ j.blind = job[t].blind
    <3>1. "write" \in Places
      BY DEF Places
    <3> QED
      BY <1>1, <3>1, MovedShape
  <2> HIDE DEF j
  <2>3. Turn(t) /\ job'[t] = j /\ dl'[t] = dl[t]
    <3>1. Steps(t, j, dl[t])
      BY <1>1, <2>1, <2>2 DEF Steps
    <3> QED
      BY <1>1, <2>1, <2>2, <3>1, TurnAt
  <2> QED
    BY <1>1, <1>3, <2>1, <2>2, <2>3
<1> QED
  BY <1>2, <1>3

\* What a written chunk leads to: the next one, the next file, or the row.
ChunkNext(t) == job[t].pos + 1 < Chunks
FileNext(t)  == job[t].pos + 1 = Chunks /\ job[t].file < Len(job[t].files)
RowNext(t)   == job[t].pos + 1 = Chunks /\ job[t].file = Len(job[t].files)

InFile(t) == /\ job'[t].at = "check" /\ job'[t].pos = job[t].pos + 1
             /\ job'[t].ino = job[t].ino /\ job'[t].file = job[t].file

\* The chunk reaches the disk, or is lost, or an earlier loss is told.
Lands(t) ==
    /\ data' = [data EXCEPT ![<<job[t].ino, File(t)>>] = @ \union {job[t].pos + 1}]
    /\ missed' = IF Unseen(t) THEN missed + 1 ELSE missed
    /\ UNCHANGED <<failing, refused, faults>>

Misses(t) ==
    /\ Fault /\ UNCHANGED <<data, missed>>
    /\ IF ChunkNext(t) THEN failing' = failing \union {t} /\ refused' = refused
       ELSE refused' = refused \union {<<job[t].ino, File(t)>>} /\ failing' = failing

Told(t) ==
    /\ job[t].at = "write" /\ t \in failing /\ SetError(t)
    /\ UNCHANGED <<link, data, failing, refused, models, del, missed, faults>>

LEMMA ToldShape ==
    ASSUME Base, NEW t \in Tasks, Told(t)
    PROVE  /\ job[t].at = "write" /\ EndTurn(t)
           /\ dl'[t].status = "Failed" /\ dl'[t].progress = dl[t].progress
           /\ UNCHANGED <<link, data, failing, refused, models, del, missed, faults>>
  BY ErrorShape DEF Told

LEMMA WriteShape ==
    ASSUME Base, NEW t \in Tasks, WriteChunk(t), ~Fail(t), ~Told(t)
    PROVE  /\ job[t].at = "write" /\ Turn(t) /\ t \notin failing
           /\ Lands(t) \/ Misses(t)
           /\ dl'[t].progress = dl[t].progress + 1
           /\ dl'[t].status = dl[t].status /\ dl'[t].total = dl[t].total
           /\ job'[t].blind = job[t].blind
           /\ ChunkNext(t) => InFile(t)
           /\ FileNext(t) => /\ job'[t].at = "open" /\ job'[t].file = job[t].file + 1
                             /\ job'[t].ino = NoTask
           /\ RowNext(t) => job'[t].at = "register" /\ job'[t].ino = NoTask
           /\ ChunkNext(t) \/ FileNext(t) \/ RowNext(t)
           /\ UNCHANGED <<link, models, del>>
<1> DEFINE e == [dl[t] EXCEPT !.progress = Progress(t)]
<1>1. /\ job[t].at = "write" /\ t \notin failing /\ (Lands(t) \/ Misses(t))
      /\ dl' = [dl EXCEPT ![t] = e]
      /\ job' = IF job[t].pos + 1 < Chunks
                THEN [job EXCEPT ![t].at = "check", ![t].pos = @ + 1]
                ELSE IF job[t].file < Len(job[t].files)
                THEN [job EXCEPT ![t].at = "open", ![t].file = @ + 1, ![t].ino = NoTask]
                ELSE [job EXCEPT ![t].at = "register", ![t].ino = NoTask]
      /\ UNCHANGED <<link, models, del>>
  <2>1. job[t].at = "write"
    BY DEF WriteChunk
  <2>2. HandOver(t) /\ t \notin failing /\ UNCHANGED <<link, models, del>>
        /\ (Lands(t) \/ Misses(t))
    BY Zenon DEF WriteChunk, Told, Lands, Misses, ChunkNext
  <2> QED
    BY <2>1, <2>2, Zenon DEF HandOver
<1>2. /\ job[t] \in Jobs /\ dl[t] \in Entries /\ job[t].pos \in 0 .. (Chunks - 1)
      /\ dl[t].progress = Chunks * (job[t].file - 1) + job[t].pos
      /\ job[t].file \in 1 .. Len(job[t].files) /\ Len(job[t].files) \in Nat
  BY <1>1, TaskShape, FileShape DEF InPhase
<1>3. Progress(t) = dl[t].progress + 1 /\ dl[t].progress \in Nat
  BY <1>2 DEF Progress, Entries
<1>4. /\ e \in Entries /\ e.progress = dl[t].progress + 1
      /\ e.status = dl[t].status /\ e.total = dl[t].total
  <2> HIDE DEF Progress
  <2> QED
    BY <1>2, <1>3 DEF Entries
<1> HIDE DEF e
<1>5. Chunks \in Nat /\ job[t].pos + 1 <= Chunks
  BY <1>2, DownloadsAssumption
<1> DEFINE Same == job'[t].blind = job[t].blind /\ Turn(t) /\ dl'[t] = e
<1>6. ASSUME ChunkNext(t) PROVE InFile(t) /\ Same
  <2> DEFINE j == NextChunk(job[t])
  <2>1. job' = [job EXCEPT ![t] = j]
    BY <1>1, <1>6, TaskShape DEF NextChunk, ChunkNext
  <2>2. /\ j \in Jobs /\ Kept(job[t], j) /\ j.at = "check" /\ j.pos = job[t].pos + 1
        /\ j.ino = job[t].ino /\ j.file = job[t].file /\ j.blind = job[t].blind
    BY <1>2, <1>6, NextChunkShape DEF ChunkNext
  <2> HIDE DEF j
  <2>3. Turn(t) /\ job'[t] = j /\ dl'[t] = e
    <3>1. Steps(t, j, e)
      BY <1>1, <2>1 DEF Steps
    <3> HIDE DEF e
    <3> QED
      BY <1>4, <2>2, <3>1, TurnAt
  <2> QED
    BY <2>2, <2>3 DEF InFile
<1>7. ASSUME FileNext(t)
      PROVE  /\ job'[t].at = "open" /\ job'[t].file = job[t].file + 1
             /\ job'[t].ino = NoTask /\ Same
  <2> DEFINE j == NextFile(job[t])
  <2>1. job' = [job EXCEPT ![t] = j]
    <3>1. job' = [job EXCEPT ![t].at = "open", ![t].file = @ + 1, ![t].ino = NoTask]
      BY <1>1, <1>5, <1>7 DEF FileNext
    <3>2. DOMAIN job = Tasks
      BY TaskShape
    <3> QED
      BY <3>1, <3>2 DEF NextFile
  <2>2. /\ j \in Jobs /\ Kept(job[t], j) /\ j.at = "open" /\ j.file = job[t].file + 1
        /\ j.ino = NoTask /\ j.blind = job[t].blind
    BY <1>2, NextFileShape
  <2> HIDE DEF j
  <2>3. Turn(t) /\ job'[t] = j /\ dl'[t] = e
    <3>1. Steps(t, j, e)
      BY <1>1, <2>1 DEF Steps
    <3> HIDE DEF e
    <3> QED
      BY <1>4, <2>2, <3>1, TurnAt
  <2> QED
    BY <2>2, <2>3
<1>8. ASSUME RowNext(t) PROVE job'[t].at = "register" /\ job'[t].ino = NoTask /\ Same
  <2> DEFINE j == LastFile(job[t])
  <2>1. job' = [job EXCEPT ![t] = j]
    <3>1. job' = [job EXCEPT ![t].at = "register", ![t].ino = NoTask]
      BY <1>1, <1>2, <1>5, <1>8 DEF RowNext
    <3>2. DOMAIN job = Tasks
      BY TaskShape
    <3> QED
      BY <3>1, <3>2 DEF LastFile
  <2>2. /\ j \in Jobs /\ Kept(job[t], j) /\ j.at = "register"
        /\ j.ino = NoTask /\ j.blind = job[t].blind
    BY <1>2, LastFileShape
  <2> HIDE DEF j
  <2>3. Turn(t) /\ job'[t] = j /\ dl'[t] = e
    <3>1. Steps(t, j, e)
      BY <1>1, <2>1 DEF Steps
    <3> HIDE DEF e
    <3> QED
      BY <1>4, <2>2, <3>1, TurnAt
  <2> QED
    BY <2>2, <2>3
<1>9. ChunkNext(t) \/ FileNext(t) \/ RowNext(t)
  BY <1>2, <1>5 DEF ChunkNext, FileNext, RowNext
<1> QED
  BY <1>1, <1>4, <1>6, <1>7, <1>8, <1>9, Zenon

LEMMA RegisterShape ==
    ASSUME Base, NEW t \in Tasks, RegisterModel(t), ~Fail(t)
    PROVE  /\ job[t].at = "register" /\ Turn(t) /\ job'[t].at = "complete"
           /\ job'[t].ino = job[t].ino /\ job'[t].blind = job[t].blind /\ dl'[t] = dl[t]
           /\ models' = models \union
                 {[by |-> t, repo |-> job[t].repo, files |-> job[t].files]}
           /\ UNCHANGED <<link, data, failing, refused, del, missed, faults>>
<1> DEFINE j == Moved(job[t], "complete")
<1>1. /\ job[t].at = "register" /\ job' = [job EXCEPT ![t] = j] /\ dl' = dl
      /\ models' = models \union {[by |-> t, repo |-> job[t].repo, files |-> job[t].files]}
      /\ UNCHANGED <<link, data, failing, refused, del, missed, faults>>
  BY Zenon DEF RegisterModel, Goto, Moved
<1>2. job[t] \in Jobs /\ dl[t] \in Entries /\ "complete" \in Places
      /\ dl' = [dl EXCEPT ![t] = dl[t]]
  BY <1>1, TaskShape, SameEntry DEF Places
<1>3. /\ j \in Jobs /\ Kept(job[t], j) /\ j.at = "complete"
      /\ j.ino = job[t].ino /\ j.blind = job[t].blind
  BY <1>2, MovedShape
<1> HIDE DEF j
<1>4. Turn(t) /\ job'[t] = j /\ dl'[t] = dl[t]
  <2>1. Steps(t, j, dl[t])
    BY <1>1, <1>2, <1>3 DEF Steps
  <2> QED
    BY <1>1, <1>2, <1>3, <2>1, TurnAt
<1> QED
  BY <1>1, <1>3, <1>4

LEMMA CompleteShape ==
    ASSUME Base, NEW t \in Tasks, Complete(t)
    PROVE  /\ job[t].at = "complete" /\ EndTurn(t)
           /\ dl'[t].status = "Complete" /\ dl'[t].progress = Size(job[t].files)
           /\ UNCHANGED <<link, data, failing, refused, models, del, missed, faults>>
<1> DEFINE e == [dl[t] EXCEPT !.status = "Complete", !.progress = Size(job[t].files)]
<1>1. Size(job[t].files) \in Nat
  BY TaskShape, WantedShape DEF Jobs
<1>2. e \in Entries /\ e.status = "Complete" /\ e.progress = Size(job[t].files)
  BY <1>1, TaskShape DEF Entries, Statuses
<1>3. dl' = [dl EXCEPT ![t] = e] /\ Quit(t) /\ job[t].at = "complete"
      /\ UNCHANGED <<link, data, failing, refused, models, del, missed, faults>>
  <2>1. dl' = [dl EXCEPT ![t].status = "Complete", ![t].progress = Size(job[t].files)]
    BY DEF Complete
  <2>2. DOMAIN dl = Tasks
    BY TaskShape
  <2> QED
    BY <2>1, <2>2 DEF Complete
<1> HIDE DEF e
<1> QED
  BY <1>2, <1>3, QuitShape

LEMMA CancelledShape ==
    ASSUME Base, NEW t \in Tasks, CancelDownload(t)
    PROVE  /\ Downloading(t)
           /\ job' = [job EXCEPT ![t] = job'[t]] /\ dl' = [dl EXCEPT ![t] = dl'[t]]
           /\ job'[t] \in Jobs /\ dl'[t] \in Entries
           /\ job'[t].early = CheckAhead(t) /\ job'[t].at = job[t].at
           /\ job'[t].repo = job[t].repo /\ job'[t].files = job[t].files
           /\ job'[t].raced = job[t].raced /\ job'[t].file = job[t].file
           /\ job'[t].pos = job[t].pos /\ job'[t].ino = job[t].ino
           /\ job'[t].used = job[t].used /\ job'[t].blind = job[t].blind
           /\ dl'[t].status = "Cancelled" /\ dl'[t].progress = dl[t].progress
           /\ dl'[t].total = dl[t].total
           /\ UNCHANGED <<link, data, failing, refused, models, del, missed, faults>>
<1> DEFINE j == Cancelling(job[t], CheckAhead(t))
           e == [dl[t] EXCEPT !.status = "Cancelled"]
<1>1. Downloading(t) /\ job' = [job EXCEPT ![t] = j] /\ dl' = [dl EXCEPT ![t] = e]
      /\ UNCHANGED <<link, data, failing, refused, models, del, missed, faults>>
  BY Zenon DEF CancelDownload, SetStatus, Cancelling
<1>2. CheckAhead(t) \in BOOLEAN
  BY DEF CheckAhead
<1>3. /\ j \in Jobs /\ j.early = CheckAhead(t) /\ j.at = job[t].at /\ j.repo = job[t].repo
      /\ j.files = job[t].files /\ j.raced = job[t].raced /\ j.file = job[t].file
      /\ j.pos = job[t].pos /\ j.ino = job[t].ino /\ j.used = job[t].used
      /\ j.blind = job[t].blind
  BY <1>2, TaskShape, CancelShape
<1>4. /\ e \in Entries /\ e.status = "Cancelled" /\ e.progress = dl[t].progress
      /\ e.total = dl[t].total
  BY TaskShape DEF Entries, Statuses
<1> HIDE DEF j, e
<1>5. job'[t] = j /\ dl'[t] = e
  BY <1>1, TaskShape
<1> QED
  BY <1>1, <1>3, <1>4, <1>5

\* A start, and what it marks: the starts of the repository under way.
Beside(r) == {u \in Tasks : job[u].at = "insert" /\ job[u].repo = r}

Starts(t, r, w) ==
    /\ job' = [u \in Tasks |->
                 IF u = t THEN Starting(r, w, Beside(r) # {})
                 ELSE IF u \in Beside(r) THEN Racing(job[u]) ELSE job[u]]
    /\ job[t].at = "none" /\ dl[t].status = "none" /\ NotDownloading(t, r)
    /\ faults' \in 0 .. MaxFaults
    /\ UNCHANGED <<dl, link, data, failing, refused, models, del, missed>>

\* What a start makes of its own job, and what of another's.
StartedJob(k, r, w) ==
    /\ k.at = "insert" /\ k.repo = r /\ k.files = w /\ k.raced = (Beside(r) # {})
    /\ k.file = 1 /\ k.ino = NoTask /\ ~k.early /\ ~k.blind

LeftJob(k, j, beside) ==
    /\ k.early = j.early /\ k.at = j.at /\ k.repo = j.repo /\ k.files = j.files
    /\ k.file = j.file /\ k.pos = j.pos /\ k.ino = j.ino /\ k.used = j.used
    /\ k.blind = j.blind /\ k.raced = IF beside THEN TRUE ELSE j.raced

StartsAs(t, r, w) ==
    /\ Starts(t, r, w) /\ job' \in [Tasks -> Jobs] /\ StartedJob(job'[t], r, w)
    /\ \A u \in Tasks \ {t} : LeftJob(job'[u], job[u], u \in Beside(r))

LEMMA StartShape ==
    ASSUME Base, NEW t \in Tasks, StartCheck(t)
    PROVE  \E r \in Repos, w \in Wanted : StartsAs(t, r, w)
<1>1. PICK r \in Repos, w \in Wanted : Starts(t, r, w)
  <2>1. PICK r \in Repos, w \in Wanted :
           /\ job' = [u \in Tasks |->
                        IF u = t THEN Starting(r, w, Beside(r) # {})
                        ELSE IF u \in Beside(r) THEN Racing(job[u]) ELSE job[u]]
           /\ job[t].at = "none" /\ dl[t].status = "none" /\ NotDownloading(t, r)
           /\ UNCHANGED faults \/ Fault
           /\ UNCHANGED <<dl, link, data, failing, refused, models, del, missed>>
    BY Zenon DEF StartCheck, Beside, Starting, Racing
  <2>2. faults' \in 0 .. MaxFaults
    BY <2>1, FaultType, RestType
  <2> QED
    BY <2>1, <2>2, Zenon DEF Starts
<1>2. job'[t] = Starting(r, w, Beside(r) # {}) /\ (Beside(r) # {}) \in BOOLEAN
  BY <1>1 DEF Starts
<1>3. job'[t] \in Jobs /\ StartedJob(job'[t], r, w)
  <2> DEFINE b == Beside(r) # {}
  <2>1. b \in BOOLEAN
    OBVIOUS
  <2> HIDE DEF b
  <2> DEFINE k == Starting(r, w, b)
  <2>2. /\ k \in Jobs /\ k.at = "insert" /\ k.repo = r /\ k.files = w /\ k.raced = b
        /\ k.file = 1 /\ k.ino = NoTask /\ ~k.early /\ ~k.blind
    BY <2>1, StartedShape
  <2>3. job'[t] = k
    BY <1>2 DEF b
  <2> HIDE DEF k
  <2> QED
    BY <2>2, <2>3, Zenon DEF b, StartedJob
<1>4. ASSUME NEW u \in Tasks \ {t}
      PROVE  job'[u] \in Jobs /\ LeftJob(job'[u], job[u], u \in Beside(r))
  <2>1. job[u] \in Jobs /\ job[u].raced \in BOOLEAN
    BY TaskShape DEF Jobs
  <2>2. CASE u \in Beside(r)
    <3>1. job'[u] = Racing(job[u])
      BY <1>1, <1>4, <2>2 DEF Starts
    <3>2. /\ Racing(job[u]) \in Jobs /\ Racing(job[u]).early = job[u].early
          /\ Racing(job[u]).at = job[u].at /\ Racing(job[u]).repo = job[u].repo
          /\ Racing(job[u]).files = job[u].files /\ Racing(job[u]).file = job[u].file
          /\ Racing(job[u]).pos = job[u].pos /\ Racing(job[u]).ino = job[u].ino
          /\ Racing(job[u]).used = job[u].used /\ Racing(job[u]).blind = job[u].blind
          /\ Racing(job[u]).raced = TRUE
      BY <2>1, RacedShape
    <3> QED
      BY <2>2, <3>1, <3>2 DEF LeftJob
  <2>3. CASE u \notin Beside(r)
    <3>1. job'[u] = job[u]
      BY <1>1, <1>4, <2>3 DEF Starts
    <3> QED
      BY <2>1, <2>3, <3>1 DEF LeftJob
  <2> QED
    BY <2>2, <2>3
<1>5. job' \in [Tasks -> Jobs]
  <2>1. \A u \in Tasks : job'[u] \in Jobs
    BY <1>3, <1>4
  <2>2. job' = [u \in Tasks |-> job'[u]]
    BY <1>1, Zenon DEF Starts
  <2> QED
    BY ONLY <2>1, <2>2
<1>6. StartsAs(t, r, w)
  BY <1>1, <1>3, <1>4, <1>5 DEF StartsAs
<1> QED
  BY <1>6

\* What holds of a start's job and of the others', whatever was asked for.
LEMMA StartsOwn ==
    ASSUME Base, NEW t \in Tasks, StartCheck(t)
    PROVE  /\ job'[t].at = "insert" /\ job'[t].file = 1 /\ job'[t].ino = NoTask
           /\ ~job'[t].early /\ ~job'[t].blind /\ job[t].at = "none"
<1>1. PICK r \in Repos, w \in Wanted : StartsAs(t, r, w)
  BY StartShape
<1> QED
  BY <1>1 DEF StartsAs, StartedJob, Starts

LEMMA StartsBeside ==
    ASSUME Base, NEW t \in Tasks, StartCheck(t), NEW u \in Tasks \ {t}
    PROVE  /\ job'[u].early = job[u].early /\ job'[u].at = job[u].at /\ job'[u].repo = job[u].repo
           /\ job'[u].files = job[u].files /\ job'[u].file = job[u].file
           /\ job'[u].pos = job[u].pos /\ job'[u].ino = job[u].ino
           /\ job'[u].used = job[u].used /\ job'[u].blind = job[u].blind
<1>1. PICK r \in Repos, w \in Wanted : StartsAs(t, r, w)
  BY StartShape
<1>2. LeftJob(job'[u], job[u], u \in Beside(r))
  BY <1>1 DEF StartsAs
<1> QED
  BY ONLY <1>2 DEF LeftJob

-----------------------------------------------------------------------------
(* Every step preserves Base.                                              *)

LEMMA MarksNext == ASSUME Base, [Next]_vars PROVE DiskMarks'
<1>1. DiskMarks
  BY RestType
<1>2. UNCHANGED <<failing, refused>> => DiskMarks'
  BY <1>1 DEF DiskMarks
<1>3. ASSUME NEW t \in Tasks, TaskStep(t), ~UNCHANGED <<failing, refused>> PROVE DiskMarks'
  <2>1. OpenFile(t) \/ WriteChunk(t)
    BY <1>3 DEF TaskStep, StartInsert, ListFiles, Fail, AskDf, CountSpace, CheckChunk,
                RegisterModel, Complete
  <2>2. ~Fail(t) /\ ~Told(t)
    BY <1>3 DEF Fail, Told
  <2>3. CASE OpenFile(t)
    BY <1>1, <1>2, <2>2, <2>3, OpenShape DEF DiskMarks
  <2>4. CASE WriteChunk(t)
    <3>1. job[t].at = "write" /\ (Lands(t) \/ Misses(t))
      BY <2>2, <2>4, WriteShape
    <3>2. <<job[t].ino, File(t)>> \in Tasks \X Files
      BY <3>1, FileShape, TaskShape DEF InPhase
    <3> QED
      BY <1>1, <1>3, <3>1, <3>2 DEF DiskMarks, Lands, Misses
  <2> QED
    BY <2>1, <2>3, <2>4
<1>4. ASSUME NEW t \in Tasks, StartCheck(t) \/ CancelDownload(t) PROVE UNCHANGED <<failing, refused>>
  BY <1>4 DEF StartCheck, CancelDownload
<1>5. (\E m \in models : DeleteRow(m)) \/ DeleteFiles \/ Restart \/ UNCHANGED vars
        => UNCHANGED <<failing, refused>>
  BY Zenon DEF DeleteRow, DeleteFiles, Restart, vars
<1> QED
  BY <1>2, <1>3, <1>4, <1>5, Zenon DEF Next

LEMMA BaseTurn ==
    ASSUME Base, DiskMarks', NEW t \in Tasks, Turn(t), InPhase(t)',
           dl'[t].progress <= Size(job'[t].files),
           job'[t].ino # NoTask => job'[t].at \in {"check", "write"},
           link' \in [Dirs \X Files -> Tasks \union {NoTask}],
           data' \in [Tasks \X Files -> SUBSET (1 .. Chunks)],
           models' \subseteq Rows, UNCHANGED del, missed' \in Nat, faults' \in 0 .. MaxFaults
    PROVE  Base'
  BY OneTask, RestType DEF Turn

LEMMA BaseEnd ==
    ASSUME Base, DiskMarks', NEW t \in Tasks, EndTurn(t),
           dl'[t].progress <= Size(job[t].files), dl'[t].status \notin {"none", "Downloading"},
           link' \in [Dirs \X Files -> Tasks \union {NoTask}],
           UNCHANGED <<data, failing, refused, models, del, missed>>, faults' \in 0 .. MaxFaults
    PROVE  Base'
<1>1. job'[t].files = job[t].files
  BY DEF EndTurn, Turn, Kept
<1>2. InPhase(t)'
  BY DEF EndTurn, InPhase, Begun, Downloading
<1> QED
  BY <1>1, <1>2, BaseTurn, RestType DEF EndTurn

LEMMA BaseFail == ASSUME Base, DiskMarks', NEW t \in Tasks, Fail(t) PROVE Base'
<1>1. /\ EndTurn(t) /\ dl'[t].status = "Failed" /\ dl'[t].progress <= Size(job[t].files)
      /\ UNCHANGED <<link, data, failing, refused, models, del, missed>> /\ faults' \in 0 .. MaxFaults
  BY FailShape, TaskShape, RestType, FaultType
<1> QED
  BY <1>1, BaseEnd, RestType

LEMMA BaseInsert == ASSUME Base, DiskMarks', NEW t \in Tasks, StartInsert(t) PROVE Base'
<1>1. /\ Turn(t) /\ job[t].at = "insert" /\ job'[t].at = "list" /\ job'[t].file = 1
      /\ job'[t].files = job[t].files /\ job'[t].ino = NoTask
      /\ dl'[t].status = "Downloading" /\ dl'[t].progress = 0
      /\ dl'[t].progress <= Size(job[t].files)
  BY InsertShape, TaskShape DEF Turn, Kept, InPhase
<1>2. InPhase(t)'
  BY <1>1 DEF InPhase, Begun, Downloading
<1> QED
  BY <1>1, <1>2, BaseTurn, RestType DEF StartInsert

LEMMA BaseList == ASSUME Base, DiskMarks', NEW t \in Tasks, ListFiles(t), ~Fail(t) PROVE Base'
<1>1. /\ Turn(t) /\ job[t].at = "list" /\ job'[t].at = "df" /\ job'[t].file = 1
      /\ job'[t].files = job[t].files /\ job'[t].ino = NoTask
      /\ dl'[t].status = dl[t].status /\ dl[t].status # "none" /\ dl'[t].progress = 0
      /\ dl'[t].total = Size(job[t].files) /\ dl'[t].progress <= Size(job[t].files)
      /\ UNCHANGED <<link, data, failing, refused, models, del, missed, faults>>
  BY ListShape, TaskShape DEF Turn, Kept, InPhase, Begun
<1>2. InPhase(t)'
  BY <1>1 DEF InPhase, Begun
<1> QED
  BY <1>1, <1>2, BaseTurn, RestType

LEMMA FirstFile ==
    ASSUME Base, NEW t \in Tasks
    PROVE  1 \in 1 .. Len(job[t].files) /\ Chunks * (1 - 1) = 0
<1>1. Len(job[t].files) \in Nat \ {0} /\ Chunks \in Nat
  BY TaskShape, WantedShape, DownloadsAssumption DEF Jobs
<1> QED
  BY <1>1

LEMMA BaseDf == ASSUME Base, DiskMarks', NEW t \in Tasks, AskDf(t) PROVE Base'
<1>1. /\ Turn(t) /\ job[t].at = "df" /\ job'[t].at \in {"count", "open"} /\ job'[t].file = 1
      /\ job'[t].files = job[t].files /\ job'[t].ino = NoTask
      /\ dl'[t] = dl[t] /\ dl[t].status # "none" /\ dl[t].progress = 0
      /\ dl[t].total = Size(job[t].files) /\ dl[t].progress <= Size(job[t].files)
  BY DfShape, TaskShape DEF Turn, Kept, InPhase, Begun, Asked, NotAsked
<1>2. InPhase(t)'
  BY <1>1, FirstFile DEF InPhase, Begun
<1>3. UNCHANGED <<link, data, models, del>> /\ faults' \in 0 .. MaxFaults /\ missed' \in Nat
  <2>1. UNCHANGED <<link, data, models, del>> /\ (Asked(t) \/ NotAsked(t))
    BY DfShape
  <2>2. ASSUME NEW n \in Answers(t) PROVE Used - n \in Nat
    BY UsedIsTotal DEF Base, Answers
  <2> QED
    BY <2>1, <2>2, RestType, FaultType DEF Asked, NotAsked
<1> QED
  BY <1>1, <1>2, <1>3, BaseTurn, RestType

LEMMA BaseCount == ASSUME Base, DiskMarks', NEW t \in Tasks, CountSpace(t) PROVE Base'
<1>1. UNCHANGED <<link, data, failing, refused, models, del, missed, faults>>
  BY DEF CountSpace
<1>2. CASE SetError(t)
  BY <1>1, <1>2, ErrorShape, BaseEnd, TaskShape, RestType
<1>3. CASE ~SetError(t)
  <2>1. /\ Turn(t) /\ job[t].at = "count" /\ job'[t].at = "open" /\ job'[t].file = 1
        /\ job'[t].files = job[t].files /\ job'[t].ino = NoTask
        /\ dl'[t] = dl[t] /\ dl[t].status # "none" /\ dl[t].progress = 0
        /\ dl[t].total = Size(job[t].files) /\ dl[t].progress <= Size(job[t].files)
    BY <1>3, CountShape, TaskShape DEF Turn, Kept, InPhase, Begun
  <2>2. InPhase(t)'
    BY <2>1, FirstFile DEF InPhase, Begun
  <2> QED
    BY <1>1, <2>1, <2>2, BaseTurn, RestType
<1> QED
  BY <1>2, <1>3

LEMMA BaseOpen == ASSUME Base, DiskMarks', NEW t \in Tasks, OpenFile(t), ~Fail(t) PROVE Base'
<1>1. job[t].at = "open" /\ dl'[t] = dl[t] /\ UNCHANGED <<models, del, missed, faults>>
  BY OpenShape
<1>2. CASE Cancelled(t)
  BY <1>1, <1>2, OpenShape, BaseEnd, TaskShape, RestType DEF Cancelled
<1>3. CASE ~Cancelled(t)
  <2>1. /\ Turn(t) /\ job'[t].at = "check" /\ job'[t].pos = 0 /\ job'[t].ino = Target(t)
        /\ job'[t].file = job[t].file /\ Target(t) \in Tasks
        /\ link' = [link EXCEPT ![Path(t)] = Target(t)]
        /\ data' = [data EXCEPT ![<<Target(t), File(t)>>] = {}]
        /\ job'[t].files = job[t].files
    BY <1>3, OpenShape DEF Turn, Kept
  <2>2. /\ job[t].file \in 1 .. Len(job[t].files) /\ dl[t].total = Size(job[t].files)
        /\ dl[t].progress = Chunks * (job[t].file - 1) /\ dl[t].progress \in Nat
        /\ dl[t].status # "none" /\ dl[t].progress <= Size(job[t].files)
    BY <1>1, TaskShape DEF InPhase, Begun, Entries
  <2>3. dl'[t].progress = Chunks * (job[t].file - 1) + 0 /\ 0 \in 0 .. (Chunks - 1)
    BY <1>1, <2>2, DownloadsAssumption
  <2>4. InPhase(t)'
    BY <1>1, <2>1, <2>2, <2>3 DEF InPhase, Begun
  <2>5. link' \in [Dirs \X Files -> Tasks \union {NoTask}]
        /\ data' \in [Tasks \X Files -> SUBSET (1 .. Chunks)]
    BY <1>1, <2>1, FileShape, RestType
  <2> QED
    BY <1>1, <2>1, <2>2, <2>4, <2>5, BaseTurn, RestType
<1> QED
  BY <1>2, <1>3

LEMMA BaseCheck == ASSUME Base, DiskMarks', NEW t \in Tasks, CheckChunk(t) PROVE Base'
<1>1. job[t].at = "check" /\ dl'[t] = dl[t] /\ UNCHANGED <<data, failing, refused, models, del, missed, faults>>
  BY CheckShape
<1>2. CASE Cancelled(t)
  <2>1. link' \in [Dirs \X Files -> Tasks \union {NoTask}]
    BY <1>1, <1>2, CheckShape, FileShape, RestType
  <2> QED
    BY <1>1, <1>2, <2>1, CheckShape, BaseEnd, TaskShape, RestType DEF Cancelled
<1>3. CASE ~Cancelled(t)
  <2>1. /\ Turn(t) /\ UNCHANGED link
        /\ job'[t].at = "write" /\ job'[t].pos = job[t].pos /\ job'[t].ino = job[t].ino
        /\ job'[t].file = job[t].file /\ job'[t].files = job[t].files
    BY <1>3, CheckShape DEF Turn, Kept
  <2>2. InPhase(t)'
    BY <1>1, <2>1, TaskShape DEF InPhase, Begun
  <2> QED
    BY <1>1, <2>1, <2>2, BaseTurn, TaskShape, RestType
<1> QED
  BY <1>2, <1>3

LEMMA BaseTold == ASSUME Base, DiskMarks', NEW t \in Tasks, Told(t) PROVE Base'
  BY ToldShape, BaseEnd, TaskShape, RestType

LEMMA BaseWrite ==
    ASSUME Base, DiskMarks', NEW t \in Tasks, WriteChunk(t), ~Fail(t), ~Told(t)
    PROVE  Base'
<1> DEFINE w == job[t].files
           k == job[t].file
           p == job[t].pos
<1>1. /\ job[t].at = "write" /\ w \in Wanted /\ k \in 1 .. Len(w) /\ p \in 0 .. (Chunks - 1)
      /\ job[t].ino \in Tasks /\ dl[t].progress = Chunks * (k - 1) + p
      /\ dl[t].total = Size(w) /\ dl[t].status # "none" /\ Chunks \in Nat /\ Len(w) \in Nat
      /\ dl[t].progress \in Nat
  BY WriteShape, TaskShape, FileShape, DownloadsAssumption DEF InPhase, Begun, Jobs, Entries
<1>0. k \in 1 .. Len(w) /\ Len(w) \in Nat
  BY WriteShape, FileShape
<1>2. /\ Turn(t) /\ job'[t].files = w
      /\ dl'[t].progress = Chunks * (k - 1) + (p + 1)
      /\ dl'[t].status = dl[t].status /\ dl'[t].total = dl[t].total
      /\ UNCHANGED <<link, models, del>> /\ faults' \in 0 .. MaxFaults
  <2>0. faults' \in 0 .. MaxFaults
    BY WriteShape, RestType, FaultType DEF Lands, Misses
  <2>1. dl'[t].progress = dl[t].progress + 1
    BY WriteShape
  <2>2. Chunks * (k - 1) \in Nat
    BY <1>1, Offsets
  <2>3. dl'[t].progress = Chunks * (k - 1) + (p + 1)
    <3> DEFINE a == Chunks * (k - 1)
    <3> HIDE DEF a, k, p, w
    <3> QED
      BY <1>1, <2>1, <2>2 DEF a
  <2> QED
    BY <2>0, <2>3, WriteShape DEF Turn, Kept
<1>3. dl'[t].progress <= Size(w)
  <2> DEFINE a == Chunks * (k - 1)
  <2>1. a \in Nat /\ a + Chunks = Chunks * k /\ Chunks * k <= Size(w) /\ Size(w) \in Nat
    BY <1>1, Offsets, WantedShape
  <2> HIDE DEF a, k, w, p
  <2> QED
    BY <1>1, <1>2, <2>1 DEF a
<1>4. InPhase(t)' /\ (job'[t].ino # NoTask => job'[t].at \in {"check", "write"})
  <2>1. CASE ChunkNext(t)
    <3>1. /\ job'[t].at = "check" /\ job'[t].pos = p + 1 /\ job'[t].ino = job[t].ino
          /\ job'[t].file = k
      BY <2>1, WriteShape DEF InFile
    <3>2. p + 1 \in 0 .. (Chunks - 1)
      BY <1>1, <2>1 DEF ChunkNext
    <3> HIDE DEF k, w, p
    <3> QED
      BY <1>1, <1>2, <3>1, <3>2 DEF InPhase, Begun
  <2>2. CASE FileNext(t)
    <3>1. job'[t].at = "open" /\ job'[t].file = k + 1 /\ job'[t].ino = NoTask
      BY <2>2, WriteShape
    <3>2. k + 1 \in 1 .. Len(w) /\ (k + 1) - 1 = k
      BY <1>0, <2>2 DEF FileNext
    <3>3. dl'[t].progress = Chunks * ((k + 1) - 1)
      <4>1. Chunks * (k - 1) + Chunks = Chunks * k
        BY <1>1, Offsets
      <4>2. p + 1 = Chunks
        BY <2>2 DEF FileNext
      <4> HIDE DEF k, w, p
      <4> QED
        BY <1>2, <3>2, <4>1, <4>2
    <3> HIDE DEF k, w, p
    <3> QED
      BY <1>1, <1>2, <3>1, <3>2, <3>3 DEF InPhase, Begun
  <2>3. CASE RowNext(t)
    <3>1. job'[t].at = "register" /\ job'[t].ino = NoTask
      BY <2>3, WriteShape
    <3> HIDE DEF k, w, p
    <3> QED
      BY <1>1, <1>2, <3>1 DEF InPhase, Begun
  <2> QED
    BY <2>1, <2>2, <2>3, WriteShape
<1>5. data' \in [Tasks \X Files -> SUBSET (1 .. Chunks)] /\ missed' \in Nat
  <2>1. CASE Misses(t)
    BY <2>1, RestType DEF Misses
  <2>2. CASE Lands(t)
    <3> DEFINE c == <<job[t].ino, File(t)>>
    <3>1. /\ data' = [data EXCEPT ![c] = @ \union {p + 1}]
          /\ missed' = IF Unseen(t) THEN missed + 1 ELSE missed
      BY <2>2 DEF Lands
    <3>2. File(t) \in Files /\ p + 1 \in 1 .. Chunks
      BY <1>1, FileShape
    <3>3. data \in [Tasks \X Files -> SUBSET (1 .. Chunks)] /\ missed \in Nat /\ c \in Tasks \X Files
      BY <1>1, <3>2, RestType
    <3> HIDE DEF p, c
    <3> QED
      BY ONLY <3>1, <3>2, <3>3
  <2> QED
    BY <2>1, <2>2, WriteShape
<1> QED
  BY <1>2, <1>3, <1>4, <1>5, BaseTurn, RestType

LEMMA BaseRegister == ASSUME Base, DiskMarks', NEW t \in Tasks, RegisterModel(t), ~Fail(t) PROVE Base'
<1>1. /\ job[t].at = "register" /\ Turn(t) /\ job'[t].at = "complete"
      /\ job'[t].ino = job[t].ino /\ dl'[t] = dl[t] /\ job'[t].files = job[t].files
      /\ models' = models \union {[by |-> t, repo |-> job[t].repo, files |-> job[t].files]}
      /\ UNCHANGED <<link, data, failing, refused, del, missed, faults>>
  BY RegisterShape DEF Turn, Kept
<1>2. job[t].ino = NoTask /\ dl[t].status # "none" /\ dl[t].total = Size(job[t].files)
      /\ dl[t].progress <= Size(job[t].files)
  BY <1>1, TaskShape DEF InPhase, Begun
<1>3. InPhase(t)'
  BY <1>1, <1>2 DEF InPhase, Begun
<1>4. models' \subseteq Rows
  <2>1. [by |-> t, repo |-> job[t].repo, files |-> job[t].files] \in Rows
    BY TaskShape DEF Jobs, Rows
  <2> QED
    BY <1>1, <2>1, RestType
<1> QED
  BY <1>1, <1>2, <1>3, <1>4, BaseTurn, RestType

LEMMA BaseComplete == ASSUME Base, DiskMarks', NEW t \in Tasks, Complete(t) PROVE Base'
<1>1. Size(job[t].files) \in Nat
  BY TaskShape, WantedShape DEF Jobs
<1>2. /\ EndTurn(t) /\ dl'[t].status = "Complete" /\ dl'[t].progress <= Size(job[t].files)
      /\ UNCHANGED <<link, data, failing, refused, models, del, missed, faults>>
  BY <1>1, CompleteShape
<1> QED
  BY <1>2, BaseEnd, RestType

LEMMA BaseCancel == ASSUME Base, DiskMarks', NEW t \in Tasks, CancelDownload(t) PROVE Base'
<1> DEFINE j == job'[t]
           e == dl'[t]
<1>1. /\ dl[t].status = "Downloading" /\ job' = [job EXCEPT ![t] = j] /\ dl' = [dl EXCEPT ![t] = e]
      /\ j \in Jobs /\ e \in Entries /\ UNCHANGED <<link, data, failing, refused, models, del, missed, faults>>
  BY CancelledShape, Zenon DEF Downloading
<1>2. /\ j.at = job[t].at /\ j.files = job[t].files /\ j.file = job[t].file
      /\ j.pos = job[t].pos /\ j.ino = job[t].ino
      /\ e.status = "Cancelled" /\ e.progress = dl[t].progress /\ e.total = dl[t].total
  BY CancelledShape, Zenon
<1>3. /\ j.ino # NoTask => j.at \in {"check", "write"}
      /\ e.progress <= Size(j.files) /\ j.at \notin {"none", "insert"}
  BY <1>1, <1>2, TaskShape DEF InPhase, Begun
<1>4. InPhase(t)'
  BY <1>2, <1>3, TaskShape DEF InPhase, Begun, Downloading
<1> HIDE DEF j, e
<1> QED
  BY <1>1, <1>3, <1>4, OneTask, RestType

LEMMA BaseStart == ASSUME Base, DiskMarks', NEW t \in Tasks, StartCheck(t) PROVE Base'
<1>0. PICK r \in Repos, w \in Wanted : StartsAs(t, r, w)
  BY StartShape
<1>1.    /\ Starts(t, r, w) /\ job' \in [Tasks -> Jobs]
         /\ LET k == job'[t]
            IN  /\ k.at = "insert" /\ k.repo = r /\ k.files = w
                /\ k.raced = (Beside(r) # {}) /\ k.file = 1 /\ k.ino = NoTask
                /\ ~k.early /\ ~k.blind
         /\ \A u \in Tasks \ {t} :
               LET k == job'[u]  j == job[u]
               IN  /\ k.early = j.early /\ k.at = j.at /\ k.repo = j.repo
                   /\ k.files = j.files /\ k.file = j.file /\ k.pos = j.pos
                   /\ k.ino = j.ino /\ k.used = j.used /\ k.blind = j.blind
                   /\ k.raced = IF u \in Beside(r) THEN TRUE ELSE j.raced
  BY <1>0 DEF StartsAs, StartedJob, LeftJob
<1>2. /\ job[t].at = "none" /\ dl[t].status = "none" /\ faults' \in 0 .. MaxFaults
      /\ UNCHANGED <<dl, link, data, failing, refused, models, del, missed>>
  BY <1>1 DEF Starts
<1>3. /\ job'[t].at = "insert" /\ job'[t].files = w /\ job'[t].file = 1 /\ job'[t].ino = NoTask
      /\ ~job'[t].early /\ ~job'[t].blind /\ dl'[t] = dl[t] /\ dl[t].progress = 0
      /\ Size(w) \in Nat
  BY <1>1, <1>2, TaskShape, WantedShape DEF InPhase
<1>4. InPhase(t)'
  BY <1>2, <1>3 DEF InPhase, Begun
<1>5. ASSUME NEW u \in Tasks \ {t}
      PROVE  /\ InPhase(u)' /\ dl'[u].progress <= Size(job'[u].files)
             /\ job'[u].ino # NoTask => job'[u].at \in {"check", "write"}
  <2>1. /\ job'[u].early = job[u].early /\ job'[u].at = job[u].at
        /\ job'[u].files = job[u].files /\ job'[u].file = job[u].file
        /\ job'[u].pos = job[u].pos /\ job'[u].ino = job[u].ino
        /\ job'[u].blind = job[u].blind /\ dl'[u] = dl[u]
    BY <1>1, <1>2
  <2>2. InPhase(u)'
    BY <2>1, TaskShape DEF InPhase, Begun, Downloading
  <2> QED
    BY <2>1, <2>2, TaskShape
<1>6. TypeOK'
  <2>1. \A u \in Tasks : /\ dl'[u].progress <= Size(job'[u].files)
                         /\ job'[u].ino # NoTask => job'[u].at \in {"check", "write"}
    BY <1>3, <1>5
  <2> QED
    BY <1>1, <1>2, <2>1 DEF Base, TypeOK, Jobs, DiskMarks
<1> QED
  BY <1>4, <1>5, <1>6 DEF Base

\* The deletion of a model leaves the tasks alone.
LEMMA BaseOther ==
    ASSUME Base, DiskMarks', UNCHANGED <<dl, job>>,
           link' \in [Dirs \X Files -> Tasks \union {NoTask}],
           data' \in [Tasks \X Files -> SUBSET (1 .. Chunks)],
           models' \subseteq Rows, del' \in [on : BOOLEAN, repo : Repos],
           missed' \in Nat, faults' \in 0 .. MaxFaults
    PROVE  Base'
<1>1. TypeOK'
  BY DEF Base, TypeOK, DiskMarks
<1>2. \A t \in Tasks : InPhase(t)'
  BY DEF Base, InPhase, Begun, Downloading
<1> QED
  BY <1>1, <1>2 DEF Base

LEMMA BaseDeleteRow == ASSUME Base, DiskMarks', NEW m \in models, DeleteRow(m) PROVE Base'
<1>1. m \in Rows
  BY RestType
<1>2. del' \in [on : BOOLEAN, repo : Repos] /\ models' \subseteq Rows
      /\ UNCHANGED <<dl, job, link, data, missed, faults>>
  BY <1>1, RestType DEF DeleteRow, Rows
<1> QED
  BY <1>2, BaseOther, RestType

LEMMA BaseDeleteFiles == ASSUME Base, DiskMarks', DeleteFiles PROVE Base'
<1>1. link' \in [Dirs \X Files -> Tasks \union {NoTask}]
  BY RestType DEF DeleteFiles
<1>2. faults' \in 0 .. MaxFaults /\ del' \in [on : BOOLEAN, repo : Repos]
      /\ UNCHANGED <<dl, job, data, models, missed>>
  BY RestType, FaultType, UnusedIsJob DEF DeleteFiles
<1> QED
  BY <1>1, <1>2, BaseOther, RestType

\* What a restart makes of a download.
Gone(t) == IF dl[t].status = "none" THEN dl[t] ELSE [dl[t] EXCEPT !.status = "gone"]
Left(t) == IF job[t].at \in {"none", "insert"} THEN Unused ELSE Ended(job[t])

LEMMA RestartShape ==
    ASSUME Base, Restart, NEW t \in Tasks
    PROVE  /\ job'[t] = Left(t) /\ dl'[t] = Gone(t)
           /\ job'[t] \in Jobs /\ dl'[t] \in Entries
           /\ job'[t].ino = NoTask /\ job'[t].file = 1
           /\ ~Begun(t) => job'[t].at = "none" /\ dl'[t] = dl[t]
                           /\ ~job'[t].early /\ ~job'[t].blind
           /\ Begun(t) => /\ job'[t].at = "end" /\ Kept(job[t], job'[t])
                          /\ job'[t].blind = job[t].blind
                          /\ dl'[t].status = "gone" /\ dl'[t].progress = dl[t].progress
<1>1. job'[t] = Left(t)
  BY Zenon DEF Restart, Left, Ended
<1>2. dl'[t] = Gone(t)
  BY Zenon DEF Restart, Gone
<1>3. job[t] \in Jobs /\ dl[t] \in Entries /\ (~Begun(t) <=> dl[t].status = "none")
  BY TaskShape DEF InPhase
<1>4. CASE Begun(t)
  <2>1. /\ Ended(job[t]) \in Jobs /\ Kept(job[t], Ended(job[t]))
        /\ Ended(job[t]).at = "end" /\ Ended(job[t]).ino = NoTask
        /\ Ended(job[t]).file = 1 /\ Ended(job[t]).blind = job[t].blind
    BY <1>3, EndedShape DEF Kept
  <2>2. job'[t] = Ended(job[t])
    BY <1>1, <1>4 DEF Left, Begun
  <2>3. dl'[t] = [dl[t] EXCEPT !.status = "gone"]
    BY <1>2, <1>3, <1>4 DEF Gone
  <2>4. dl'[t] \in Entries /\ dl'[t].status = "gone" /\ dl'[t].progress = dl[t].progress
    BY <1>3, <2>3 DEF Entries, Statuses
  <2> QED
    BY <1>1, <1>2, <1>4, <2>1, <2>2, <2>4
<1>5. CASE ~Begun(t)
  <2>1. job'[t] = Unused
    BY <1>1, <1>5 DEF Left, Begun
  <2>2. dl'[t] = dl[t]
    BY <1>2, <1>3, <1>5 DEF Gone
  <2> QED
    BY <1>1, <1>2, <1>3, <1>5, <2>1, <2>2, UnusedIsJob
<1> QED
  BY <1>4, <1>5

LEMMA BaseRestart == ASSUME Base, DiskMarks', Restart PROVE Base'
<1>1. ASSUME NEW t \in Tasks
      PROVE  /\ job'[t] \in Jobs /\ dl'[t] \in Entries /\ job'[t].ino = NoTask
             /\ dl'[t].progress <= Size(job'[t].files) /\ InPhase(t)'
  <2>1. CASE Begun(t)
    <3>1. /\ job'[t].at = "end" /\ job'[t].files = job[t].files
          /\ dl'[t].status = "gone" /\ dl'[t].progress = dl[t].progress
          /\ job'[t] \in Jobs /\ dl'[t] \in Entries /\ job'[t].ino = NoTask
      BY <2>1, RestartShape DEF Kept
    <3>2. InPhase(t)'
      BY <3>1 DEF InPhase, Begun, Downloading
    <3> QED
      BY <3>1, <3>2, TaskShape
  <2>2. CASE ~Begun(t)
    <3>1. /\ job'[t].at = "none" /\ dl'[t] = dl[t] /\ ~job'[t].early /\ ~job'[t].blind
          /\ job'[t] \in Jobs /\ dl'[t] \in Entries /\ job'[t].ino = NoTask
          /\ job'[t].file = 1
      BY <2>2, RestartShape
    <3>2. dl[t].status = "none" /\ dl[t].progress = 0
      BY <2>2, TaskShape DEF InPhase, Begun
    <3>3. Size(job'[t].files) \in Nat
      BY <3>1, WantedShape DEF Jobs
    <3>4. InPhase(t)'
      BY <3>1, <3>2 DEF InPhase, Begun
    <3> QED
      BY <3>1, <3>2, <3>3, <3>4
  <2> QED
    BY <2>1, <2>2
<1>2. job' \in [Tasks -> Jobs]
  <2>1. job' = [t \in Tasks |-> job'[t]]
    BY Zenon DEF Restart
  <2> QED
    BY <1>1, <2>1
<1>3. dl' \in [Tasks -> Entries]
  <2>1. dl' = [t \in Tasks |-> dl'[t]]
    BY Zenon DEF Restart
  <2> QED
    BY <1>1, <2>1
<1>4. /\ UNCHANGED <<link, data, failing, refused, models, missed>> /\ faults' \in 0 .. MaxFaults
      /\ del' \in [on : BOOLEAN, repo : Repos]
  BY RestType, FaultType, UnusedIsJob DEF Restart
<1>5. TypeOK'
  BY <1>1, <1>2, <1>3, <1>4, RestType DEF TypeOK, Jobs, Entries, DiskMarks
<1> QED
  BY <1>1, <1>5 DEF Base

LEMMA BaseTask == ASSUME Base, DiskMarks', NEW t \in Tasks, TaskStep(t) PROVE Base'
<1>1. CASE Fail(t) \/ Told(t)
  BY <1>1, BaseFail, BaseTold
<1>2. CASE ~Fail(t) /\ ~Told(t)
  BY <1>2, BaseInsert, BaseList, BaseDf, BaseCount, BaseOpen, BaseCheck, BaseWrite,
     BaseRegister, BaseComplete, Zenon DEF TaskStep
<1> QED
  BY <1>1, <1>2

LEMMA BaseNext == Base /\ [Next]_vars => Base'
<1> SUFFICES ASSUME Base, [Next]_vars PROVE Base'
  OBVIOUS
<1>0. DiskMarks'
  BY MarksNext
<1>1. CASE UNCHANGED vars
  BY <1>0, <1>1, BaseOther, RestType DEF vars
<1>2. CASE Next
  BY <1>0, <1>2, BaseStart, BaseTask, BaseCancel, BaseDeleteRow, BaseDeleteFiles, BaseRestart,
     Zenon DEF Next
<1> QED
  BY <1>1, <1>2

\* In every state a download's place, its offset and what the map shows of it
\* agree: the progress is what the files before the open one hold, plus the
\* chunks written to it, and never more than the total (run_download of hf.rs).
THEOREM DownloadsInPhase == Spec => []Base
  BY BaseInit, BaseNext, PTL DEF Spec

-----------------------------------------------------------------------------
(* Duplicates.                                                             *)

\* What every step of a task has in common.
LEMMA TaskTurn ==
    ASSUME Base, NEW t \in Tasks, TaskStep(t)
    PROVE  /\ Turn(t) /\ Begun(t)' /\ job[t].at \notin {"none", "end"}
           /\ job'[t].at # "insert" /\ UNCHANGED del
           /\ Downloading(t)' => Inserting(t)
<1> DEFINE Common == /\ Turn(t) /\ Begun(t)' /\ job[t].at \notin {"none", "end"}
                     /\ job'[t].at # "insert" /\ UNCHANGED del
                     /\ Downloading(t)' => Inserting(t)
<1> USE DEF Begun, Downloading, Inserting
<1>1. CASE Fail(t)
  <2>1. job[t].at \notin {"none", "end"}
    BY DEF TaskStep, StartInsert, ListFiles, AskDf, CountSpace, OpenFile, CheckChunk,
           WriteChunk, RegisterModel, Complete
  <2> QED
    BY <1>1, <2>1, FailShape DEF EndTurn
<1>0. CASE Told(t)
  BY <1>0, ToldShape DEF EndTurn
<1>2. CASE ~Fail(t) /\ ~Told(t)
  <2>1. StartInsert(t) => Common
    BY InsertShape DEF StartInsert
  <2>2. ListFiles(t) => Common
    BY <1>2, ListShape
  <2>3. AskDf(t) => Common
    BY DfShape DEF Asked, NotAsked, AskDf
  <2>4. CountSpace(t) => Common
    BY CountShape, ErrorShape DEF EndTurn, CountSpace
  <2>5. OpenFile(t) => Common
    BY <1>2, OpenShape DEF EndTurn
  <2>6. CheckChunk(t) => Common
    BY CheckShape DEF EndTurn
  <2>7. WriteChunk(t) => Common
    BY <1>2, WriteShape DEF InFile
  <2>8. RegisterModel(t) => Common
    BY <1>2, RegisterShape
  <2>9. Complete(t) => Common
    BY CompleteShape DEF EndTurn
  <2> HIDE DEF Common
  <2>10. Common
    BY <2>1, <2>2, <2>3, <2>4, <2>5, <2>6, <2>7, <2>8, <2>9, Zenon DEF TaskStep
  <2> QED
    BY <2>10 DEF Common
<1> QED
  BY <1>0, <1>1, <1>2

\* Only a start adds to the downloads that are inserted or about to be.
LEMMA NoneInserting ==
    ASSUME Base, [Next]_vars, \A t \in Tasks : ~StartCheck(t), NEW u \in Tasks, Inserting(u)'
    PROVE  Inserting(u) /\ job'[u].repo = job[u].repo /\ job'[u].raced = job[u].raced
<1> USE DEF Inserting, Downloading
<1>1. CASE job' = job /\ dl' = dl
  BY <1>1
<1>2. ASSUME NEW t \in Tasks, TaskStep(t) PROVE Inserting(u) /\ job'[u].repo = job[u].repo
                                                /\ job'[u].raced = job[u].raced
  <2>1. CASE u = t
    BY <1>2, <2>1, TaskTurn DEF Turn, Kept
  <2>2. CASE u # t
    <3>1. job'[u] = job[u] /\ dl'[u] = dl[u]
      BY <1>2, <2>2, TaskTurn, TaskShape DEF Turn
    <3> QED
      BY <3>1
  <2> QED
    BY <2>1, <2>2
<1>3. ASSUME NEW t \in Tasks, CancelDownload(t) PROVE Inserting(u) /\ job'[u].repo = job[u].repo
                                                      /\ job'[u].raced = job[u].raced
  <2>1. CASE u = t
    BY <1>3, <2>1, CancelledShape
  <2>2. CASE u # t
    <3>1. job'[u] = job[u] /\ dl'[u] = dl[u]
      BY <1>3, <2>2, CancelledShape, TaskShape
    <3> QED
      BY <3>1
  <2> QED
    BY <2>1, <2>2
<1>4. ~Restart
  <2>1. Restart => ~Inserting(u)'
    BY RestartShape, TaskShape DEF Begun, InPhase
  <2> QED
    BY <2>1
<1>5. CASE (\E m \in models : DeleteRow(m)) \/ DeleteFiles \/ UNCHANGED vars
  BY <1>1, <1>5 DEF DeleteRow, DeleteFiles, vars
<1> QED
  BY <1>2, <1>3, <1>4, <1>5, Zenon DEF Next

LEMMA PairsRacedInit == Init => PairsRaced
<1> SUFFICES ASSUME Init PROVE PairsRaced
  OBVIOUS
<1>1. \A t \in Tasks : ~Inserting(t)
  BY UnusedIsJob DEF Init, Inserting, Downloading
<1> QED
  BY <1>1 DEF PairsRaced

LEMMA PairsRacedNext == Base /\ PairsRaced /\ [Next]_vars => PairsRaced'
<1> SUFFICES ASSUME Base, PairsRaced, [Next]_vars, NEW t \in Tasks, NEW u \in Tasks, t # u,
                    Inserting(t)', Inserting(u)', job'[t].repo = job'[u].repo
             PROVE  job'[t].raced /\ job'[u].raced
  BY DEF PairsRaced
<1>1. CASE \A v \in Tasks : ~StartCheck(v)
  <2>1. /\ Inserting(t) /\ job'[t].repo = job[t].repo /\ job'[t].raced = job[t].raced
        /\ Inserting(u) /\ job'[u].repo = job[u].repo /\ job'[u].raced = job[u].raced
    BY <1>1, NoneInserting
  <2> QED
    BY <2>1 DEF PairsRaced
<1>2. ASSUME NEW v \in Tasks, StartCheck(v) PROVE job'[t].raced /\ job'[u].raced
  <2>0. PICK r \in Repos, w \in Wanted : StartsAs(v, r, w)
    BY <1>2, StartShape
  <2>1.    /\ Starts(v, r, w)
           /\ LET k == job'[v]
              IN  k.at = "insert" /\ k.repo = r /\ k.raced = (Beside(r) # {})
           /\ \A x \in Tasks \ {v} :
                 LET k == job'[x]  j == job[x]
                 IN  /\ k.at = j.at /\ k.repo = j.repo
                     /\ k.raced = IF x \in Beside(r) THEN TRUE ELSE j.raced
    BY <2>0 DEF StartsAs, StartedJob, LeftJob
  <2>2. ASSUME NEW x \in Tasks \ {v}, Inserting(x)', job'[x].repo = r
        PROVE  x \in Beside(r) /\ job'[x].raced /\ job'[v].raced
    <3>1. job'[x].at = job[x].at /\ job'[x].repo = job[x].repo /\ dl'[x] = dl[x]
      BY <2>1 DEF Starts
    <3>2. ~Downloading(x)
      BY <2>1, <2>2, <3>1 DEF Starts, NotDownloading
    <3>3. x \in Beside(r)
      BY <2>2, <3>1, <3>2 DEF Inserting, Downloading, Beside
    <3> QED
      BY <2>1, <3>3
  <2>3. CASE t = v
    BY <2>1, <2>2, <2>3
  <2>4. CASE u = v
    BY <2>1, <2>2, <2>4
  <2>5. CASE t # v /\ u # v
    <3>1. ASSUME NEW x \in {t, u}
          PROVE  /\ Inserting(x) /\ job'[x].repo = job[x].repo
                 /\ job[x].raced => job'[x].raced
      <4>1. job'[x].at = job[x].at /\ job'[x].repo = job[x].repo /\ dl'[x] = dl[x]
            /\ job'[x].raced = IF x \in Beside(r) THEN TRUE ELSE job[x].raced
        BY <2>1, <2>5 DEF Starts
      <4> QED
        BY <4>1 DEF Inserting, Downloading
    <3> QED
      BY <3>1 DEF PairsRaced
  <2> QED
    BY <2>3, <2>4, <2>5
<1> QED
  BY <1>1, <1>2

\* Two downloads of one repository run at once only if the second checked for
\* duplicates before the first was inserted (start_download of api/hf.rs).
THEOREM OneDownload == Spec => []OneDownloadPerRepo
<1>1. PairsRaced => OneDownloadPerRepo
  BY DEF PairsRaced, OneDownloadPerRepo, Inserting
<1> QED
  BY <1>1, PairsRacedInit, PairsRacedNext, DownloadsInPhase, PTL DEF Spec

-----------------------------------------------------------------------------
(* Cancellations in time.                                                  *)

Heeded(t) == job[t].early => job[t].at = "end" \/ (Cancelled(t) /\ CheckAhead(t))

RowOf(m) ==
    /\ job[m.by].at \in {"complete", "end"} /\ ~job[m.by].early
    /\ m.repo = job[m.by].repo /\ m.files = job[m.by].files

LEMMA HeededTask ==
    ASSUME Base, NEW t \in Tasks, TaskStep(t), Heeded(t)
    PROVE  Heeded(t)'
<1> SUFFICES ASSUME job'[t].early, job'[t].at # "end"
             PROVE  Cancelled(t)' /\ CheckAhead(t)'
  BY DEF Heeded
<1>1. Cancelled(t) /\ CheckAhead(t) /\ ~Fail(t) /\ ~Told(t)
  <2>1. job[t].early /\ job[t].at # "end"
    BY TaskTurn DEF Turn, Kept
  <2> QED
    BY <2>1, FailShape, ToldShape DEF Heeded, EndTurn
<1> DEFINE Goal == Cancelled(t)' /\ CheckAhead(t)'
<1> USE DEF CheckAhead
<1>2. ~StartInsert(t) /\ ~RegisterModel(t) /\ ~Complete(t)
  BY <1>1 DEF StartInsert, RegisterModel, Complete
<1>3. ListFiles(t) => Goal
  BY <1>1, ListShape DEF Cancelled
<1>4. AskDf(t) => Goal
  BY <1>1, DfShape DEF Cancelled, Asked, NotAsked
<1>5. CountSpace(t) => Goal
  BY <1>1, CountShape, ErrorShape DEF Cancelled, EndTurn
<1>6. ~OpenFile(t) /\ ~CheckChunk(t)
  BY <1>1, OpenShape, CheckShape DEF EndTurn
<1>7. WriteChunk(t) => Goal
  <2> SUFFICES ASSUME WriteChunk(t) PROVE Goal
    OBVIOUS
  <2>1. job[t].at = "write" /\ dl'[t].status = dl[t].status
        /\ (ChunkNext(t) \/ FileNext(t) \/ RowNext(t))
    BY <1>1, WriteShape
  <2>2. ~RowNext(t)
    BY <1>1, <2>1 DEF RowNext, LastChunk
  <2>3. job'[t].at \in {"check", "open"}
    BY <1>1, <2>1, <2>2, WriteShape DEF InFile
  <2> QED
    BY <1>1, <2>1, <2>3 DEF Cancelled
<1> HIDE DEF Goal
<1>8. Goal
  BY <1>2, <1>3, <1>4, <1>5, <1>6, <1>7, Zenon DEF TaskStep
<1> QED
  BY <1>8 DEF Goal

LEMMA RowsTask ==
    ASSUME Base, EarlyHeeded, NEW t \in Tasks, TaskStep(t), NEW m \in models'
    PROVE  RowOf(m)' /\ (m \in models \/ (job[t].at = "register" /\ m.by = t))
<1> USE DEF RowOf
<1>1. CASE m \in models
  <2>1. m.by \in Tasks /\ RowOf(m)
    BY <1>1, RestType DEF Rows, EarlyHeeded
  <2>2. CASE m.by # t
    <3>1. job'[m.by] = job[m.by]
      BY <2>1, <2>2, TaskTurn, TaskShape DEF Turn
    <3> QED
      BY <1>1, <2>1, <3>1
  <2>3. CASE m.by = t
    <3>1. job[t].at = "complete"
      BY <2>1, <2>3, TaskTurn
    <3>2. Complete(t)
      BY <3>1 DEF TaskStep, StartInsert, ListFiles, AskDf, CountSpace, OpenFile, CheckChunk,
                  WriteChunk, RegisterModel
    <3>3. job'[t].at = "end" /\ Kept(job[t], job'[t])
      BY <3>2, CompleteShape DEF EndTurn, Turn
    <3> QED
      BY <1>1, <2>1, <2>3, <3>3 DEF Kept
  <2> QED
    BY <2>2, <2>3
<1>2. CASE m \notin models
  <2>1. RegisterModel(t) /\ ~Fail(t)
    BY <1>2, Zenon DEF TaskStep, StartInsert, ListFiles, AskDf, CountSpace, OpenFile, CheckChunk,
                WriteChunk, RegisterModel, Complete, Fail
  <2>2. /\ job[t].at = "register" /\ job'[t].at = "complete" /\ Kept(job[t], job'[t])
        /\ m = [by |-> t, repo |-> job[t].repo, files |-> job[t].files]
    BY <1>2, <2>1, RegisterShape DEF Turn
  <2>3. ~job[t].early
    BY <2>2 DEF EarlyHeeded, CheckAhead
  <2> QED
    BY <2>2, <2>3 DEF Kept
<1> QED
  BY <1>1, <1>2

LEMMA EarlyHeededInit == Init => EarlyHeeded
  BY UnusedIsJob DEF Init, EarlyHeeded

LEMMA EarlyHeededNext == Base /\ EarlyHeeded /\ [Next]_vars => EarlyHeeded'
<1> SUFFICES ASSUME Base, EarlyHeeded, [Next]_vars PROVE EarlyHeeded'
  OBVIOUS
<1>0. /\ \A t \in Tasks : Heeded(t)
      /\ \A m \in models : RowOf(m) /\ m.by \in Tasks
  BY RestType DEF EarlyHeeded, Heeded, RowOf, Rows
<1> SUFFICES (\A u \in Tasks : Heeded(u)') /\ (\A m \in models' : RowOf(m)')
  BY DEF EarlyHeeded, Heeded, RowOf
<1> DEFINE Goal == (\A u \in Tasks : Heeded(u)') /\ (\A m \in models' : RowOf(m)')
<1>1. ASSUME NEW t \in Tasks, TaskStep(t) PROVE Goal
  <2>1. ASSUME NEW u \in Tasks PROVE Heeded(u)'
    <3>1. CASE u = t
      BY <1>0, <1>1, <3>1, HeededTask
    <3>2. CASE u # t
      <4>1. job'[u] = job[u] /\ dl'[u] = dl[u]
        BY <1>1, <3>2, TaskTurn, TaskShape DEF Turn
      <4> QED
        BY <1>0, <4>1 DEF Heeded, Cancelled, CheckAhead, LastChunk
    <3> QED
      BY <3>1, <3>2
  <2> QED
    BY <1>1, <2>1, RowsTask
<1>2. ASSUME NEW t \in Tasks, StartCheck(t) PROVE Goal
  <2>0. PICK r \in Repos, w \in Wanted : StartsAs(t, r, w)
    BY <1>2, StartShape
  <2>1.    /\ Starts(t, r, w) /\ ~job'[t].early
           /\ \A u \in Tasks \ {t} :
                 LET k == job'[u]  j == job[u]
                 IN  /\ k.early = j.early /\ k.at = j.at /\ k.repo = j.repo
                     /\ k.files = j.files /\ k.file = j.file /\ k.pos = j.pos
    BY <2>0 DEF StartsAs, StartedJob, LeftJob
  <2>2. job[t].at = "none" /\ dl' = dl /\ models' = models
    BY <2>1 DEF Starts
  <2>3. \A u \in Tasks \ {t} : Heeded(u)'
    BY <1>0, <2>1, <2>2 DEF Heeded, Cancelled, CheckAhead, LastChunk
  <2>4. \A m \in models' : RowOf(m)'
    BY <1>0, <2>1, <2>2 DEF RowOf
  <2> QED
    BY <2>1, <2>3, <2>4 DEF Heeded
<1>3. ASSUME NEW t \in Tasks, CancelDownload(t) PROVE Goal
  <2>1. ASSUME NEW u \in Tasks \ {t} PROVE job'[u] = job[u] /\ dl'[u] = dl[u]
    BY <1>3, <2>1, CancelledShape, TaskShape
  <2>2. /\ job'[t].early = CheckAhead(t) /\ job'[t].at = job[t].at
        /\ job'[t].repo = job[t].repo /\ job'[t].files = job[t].files
        /\ job'[t].file = job[t].file /\ job'[t].pos = job[t].pos
        /\ dl'[t].status = "Cancelled" /\ models' = models
    BY <1>3, CancelledShape
  <2>3. Heeded(t)'
    BY <2>2 DEF Heeded, Cancelled, CheckAhead, LastChunk
  <2>4. \A u \in Tasks \ {t} : Heeded(u)'
    BY <1>0, <2>1 DEF Heeded, Cancelled, CheckAhead, LastChunk
  <2>5. ASSUME NEW m \in models PROVE RowOf(m)'
    <3>1. CASE m.by = t
      BY <1>0, <2>2, <3>1 DEF RowOf, CheckAhead
    <3>2. CASE m.by # t
      BY <1>0, <2>1, <2>2, <3>2 DEF RowOf
    <3> QED
      BY <3>1, <3>2
  <2> QED
    BY <2>2, <2>3, <2>4, <2>5
<1>4. ASSUME Restart PROVE Goal
  <2>1. models' = models
    BY <1>4 DEF Restart
  <2>2. \A u \in Tasks : Heeded(u)'
    BY <1>4, RestartShape DEF Heeded
  <2>3. ASSUME NEW m \in models PROVE RowOf(m)'
    BY <1>0, <1>4, <2>3, RestartShape DEF RowOf, Begun, Kept
  <2> QED
    BY <2>1, <2>2, <2>3
<1>5. ASSUME UNCHANGED <<dl, job>> /\ models' \subseteq models PROVE Goal
  BY <1>0, <1>5 DEF Heeded, RowOf, Cancelled, CheckAhead, LastChunk
<1>6. (\E m \in models : DeleteRow(m)) \/ DeleteFiles \/ UNCHANGED vars
         => UNCHANGED <<dl, job>> /\ models' \subseteq models
  BY DEF DeleteRow, DeleteFiles, vars
<1> HIDE DEF Goal
<1>7. Goal
  <2>1. CASE Next
    BY <1>1, <1>2, <1>3, <1>4, <1>5, <1>6, <2>1 DEF Next
  <2>2. CASE UNCHANGED vars
    BY <1>5, <1>6, <2>2
  <2> QED
    BY <2>1, <2>2
<1> QED
  BY <1>7 DEF Goal

LEMMA AlwaysHeeded == Spec => []EarlyHeeded
  BY EarlyHeededInit, EarlyHeededNext, DownloadsInPhase, PTL DEF Spec

\* A download cancelled while a check for it lay ahead registers no model
\* (cancel_download, stream_response_to_file of api/hf.rs).
THEOREM CancelledInTime == Spec => []CancelInTimeHolds
<1>1. EarlyHeeded => CancelInTimeHolds
  BY DEF EarlyHeeded, CancelInTimeHolds
<1> QED
  BY <1>1, AlwaysHeeded, PTL

-----------------------------------------------------------------------------
(* The files of a download that has its repository to itself.              *)

\* A download that has begun keeps its request, and one that has registered
\* its model stays beyond that point.
LEMMA BegunStays ==
    ASSUME Base, [Next]_vars, NEW u \in Tasks, Begun(u)
    PROVE  /\ Begun(u)' /\ job'[u].repo = job[u].repo /\ job'[u].files = job[u].files
           /\ Dir(u)' = Dir(u)
           /\ job[u].at \in {"complete", "end"} => job'[u].at \in {"complete", "end"}
<1> DEFINE Goal == /\ Begun(u)' /\ job'[u].repo = job[u].repo /\ job'[u].files = job[u].files
                   /\ job[u].at \in {"complete", "end"} => job'[u].at \in {"complete", "end"}
<1>1. ASSUME job'[u] = job[u] PROVE Goal
  BY <1>1 DEF Begun
<1>2. ASSUME NEW t \in Tasks, TaskStep(t) PROVE Goal
  <2>1. CASE u # t
    BY <1>1, <1>2, <2>1, TaskTurn, TaskShape DEF Turn
  <2>2. CASE u = t
    <3>1. job[t].at = "complete" => Complete(t)
      BY <1>2 DEF TaskStep, StartInsert, ListFiles, AskDf, CountSpace, OpenFile, CheckChunk,
                  WriteChunk, RegisterModel
    <3>2. job[t].at = "complete" => job'[t].at = "end"
      BY <3>1, CompleteShape DEF EndTurn
    <3> QED
      BY <1>2, <2>2, <3>2, TaskTurn DEF Turn, Kept
  <2> QED
    BY <2>1, <2>2
<1>3. ASSUME NEW t \in Tasks, StartCheck(t) PROVE Goal
  BY <1>3, StartsOwn, StartsBeside DEF Begun
<1>4. ASSUME NEW t \in Tasks, CancelDownload(t) PROVE Goal
  <2>1. CASE u # t
    BY <1>1, <1>4, <2>1, CancelledShape, TaskShape
  <2>2. CASE u = t
    BY <1>4, <2>2, CancelledShape DEF Begun
  <2> QED
    BY <2>1, <2>2
<1>5. ASSUME Restart PROVE Goal
  BY <1>5, RestartShape DEF Kept, Begun
<1>6. (\E m \in models : DeleteRow(m)) \/ DeleteFiles \/ UNCHANGED vars => job' = job
  BY DEF DeleteRow, DeleteFiles, vars
<1> HIDE DEF Goal
<1>7. Goal
  <2>1. CASE Next
    BY <1>1, <1>2, <1>3, <1>4, <1>5, <1>6, <2>1 DEF Next
  <2>2. CASE UNCHANGED vars
    BY <1>1, <1>6, <2>2
  <2> QED
    BY <2>1, <2>2
<1> QED
  BY <1>7 DEF Goal, Dir

LEMMA DirType ==
    ASSUME Base, NEW t \in Tasks
    PROVE  Dir(t) \in Dirs
  BY TaskShape, DownloadsAssumption DEF Jobs, Dir

\* Which steps touch the links, the chunks and the open inodes.
Opens(t) ==
    /\ job[t].at = "open" /\ job'[t].at = "check" /\ job'[t].pos = 0
    /\ job'[t].ino = Target(t) /\ Target(t) \in Tasks /\ job'[t].file = job[t].file
    /\ link' = [link EXCEPT ![Path(t)] = Target(t)]
    /\ data' = [data EXCEPT ![<<Target(t), File(t)>>] = {}]
    /\ refused' = refused \ {<<Target(t), File(t)>>} /\ failing' = failing

Unlinks(t) ==
    /\ job[t].at = "check" /\ job'[t].at = "end" /\ job'[t].ino = NoTask
    /\ link' = [link EXCEPT ![Path(t)] = NoTask]
    /\ UNCHANGED <<data, failing, refused>>

Writes(t) ==
    /\ job[t].at = "write" /\ link' = link /\ job'[t].ino \in {job[t].ino, NoTask}
    /\ \/ data' = [data EXCEPT ![<<job[t].ino, File(t)>>] = @ \union {job[t].pos + 1}]
       \/ data' = data
    /\ failing \subseteq failing' /\ refused \subseteq refused'

Leaves(t) == /\ UNCHANGED <<link, data, failing, refused>>
             /\ job'[t].ino \in {job[t].ino, NoTask}

LEMMA FileSteps ==
    ASSUME Base, NEW t \in Tasks, TaskStep(t)
    PROVE  Opens(t) \/ Unlinks(t) \/ Writes(t) \/ Leaves(t)
<1>1. CASE Fail(t)
  BY <1>1, FailShape DEF EndTurn, Leaves
<1>0. CASE Told(t)
  BY <1>0, ToldShape DEF EndTurn, Leaves
<1>2. CASE ~Fail(t) /\ ~Told(t)
  <2>1. StartInsert(t) => Leaves(t)
    BY InsertShape DEF StartInsert, Leaves
  <2>2. ListFiles(t) => Leaves(t)
    BY <1>2, ListShape DEF Leaves
  <2>3. AskDf(t) => Leaves(t)
    BY DfShape DEF AskDf, Leaves
  <2>4. CountSpace(t) => Leaves(t)
    BY CountShape, ErrorShape DEF EndTurn, CountSpace, Leaves
  <2>5. OpenFile(t) => Leaves(t) \/ Opens(t)
    BY <1>2, OpenShape DEF EndTurn, Leaves, Opens
  <2>6. CheckChunk(t) => Leaves(t) \/ Unlinks(t)
    BY CheckShape DEF EndTurn, Leaves, Unlinks
  <2>7. WriteChunk(t) => Writes(t)
    BY <1>2, WriteShape
       DEF InFile, Writes, Lands, Misses
  <2>8. RegisterModel(t) => Leaves(t)
    BY <1>2, RegisterShape DEF Leaves
  <2>9. Complete(t) => Leaves(t)
    BY CompleteShape DEF EndTurn, Leaves
  <2> QED
    BY <2>1, <2>2, <2>3, <2>4, <2>5, <2>6, <2>7, <2>8, <2>9, Zenon DEF TaskStep
<1> QED
  BY <1>0, <1>1, <1>2

\* The three parts of InodesAtHome.
LinksHome == \A p \in Dirs \X Files : link[p] # NoTask =>
                 Begun(link[p]) /\ Dir(link[p]) = p[1]
InoHome(t) == job[t].ino # NoTask => Begun(job[t].ino) /\ Dir(job[t].ino) = Dir(t)
DeletedRow(u) == /\ job[u].repo = del.repo /\ job[u].at \in {"complete", "end"}
                 /\ \A m \in models : m.by # u

LEMMA LinksHomeNext ==
    ASSUME Base, LinksHome, [Next]_vars PROVE LinksHome'
<1> SUFFICES ASSUME NEW p \in Dirs \X Files, NEW u \in Tasks, link'[p] = u
             PROVE  Begun(u)' /\ Dir(u)' = p[1]
  <2>1. \A p \in Dirs \X Files : link'[p] # NoTask => link'[p] \in Tasks
    BY BaseNext DEF Base, TypeOK
  <2> QED
    BY <2>1 DEF LinksHome, Begun, Dir
<1>1. CASE link[p] = u
  <2>1. Begun(u) /\ Dir(u) = p[1]
    BY <1>1, DownloadsAssumption DEF LinksHome
  <2> QED
    BY <2>1, BegunStays
<1>2. ASSUME link[p] # u, NEW t \in Tasks, TaskStep(t)
      PROVE  Begun(u)' /\ Dir(u)' = p[1]
  <2>1. Opens(t) \/ Unlinks(t)
    BY <1>2, FileSteps DEF Writes, Leaves
  <2>2. CASE Unlinks(t)
    BY <1>2, <2>2, RestType, DownloadsAssumption DEF Unlinks
  <2>3. CASE Opens(t)
    <3>1. link'[p] = Target(t) /\ p = Path(t) /\ Path(t)[1] = Dir(t)
      BY <1>2, <2>3, RestType, FileShape DEF Opens, Path
    <3>2. u = t
      BY <1>2, <3>1 DEF Target
    <3>3. Begun(t)
      BY <2>3 DEF Opens, Begun
    <3> QED
      BY <3>1, <3>2, <3>3, BegunStays
  <2> QED
    BY <2>1, <2>2, <2>3
<1>3. (\E t \in Tasks : StartCheck(t) \/ CancelDownload(t)) \/ (\E m \in models : DeleteRow(m))
        \/ DeleteFiles \/ Restart \/ UNCHANGED vars => link'[p] \in {link[p], NoTask}
  BY RestType DEF StartCheck, CancelDownload, DeleteRow, DeleteFiles, Restart, vars
<1> QED
  BY <1>1, <1>2, <1>3, DownloadsAssumption DEF Next

\* Outside a task's own steps its inode stays or is closed.
LEMMA InoStays ==
    ASSUME Base, [Next]_vars, NEW t \in Tasks, ~TaskStep(t)
    PROVE  job'[t].ino \in {job[t].ino, NoTask} /\ (job'[t].ino # NoTask => Begun(t))
<1> DEFINE Goal == job'[t].ino \in {job[t].ino, NoTask} /\ (job'[t].ino # NoTask => Begun(t))
<1>0. ASSUME job'[t].ino = job[t].ino PROVE Goal
  BY <1>0, TaskShape DEF Begun
<1>1. ASSUME NEW v \in Tasks, TaskStep(v) PROVE Goal
  <2>1. job'[t] = job[t]
    BY <1>1, TaskTurn, TaskShape DEF Turn
  <2> QED
    BY <1>0, <2>1
<1>2. ASSUME NEW v \in Tasks, StartCheck(v) PROVE Goal
  <2>1. CASE t = v
    BY <1>2, <2>1, StartsOwn
  <2>2. CASE t # v
    BY <1>0, <1>2, <2>2, StartsBeside
  <2> QED
    BY <2>1, <2>2
<1>3. ASSUME NEW v \in Tasks, CancelDownload(v) PROVE Goal
  <2>1. CASE t = v
    BY <1>0, <1>3, <2>1, CancelledShape
  <2>2. CASE t # v
    BY <1>0, <1>3, <2>2, CancelledShape, TaskShape
  <2> QED
    BY <2>1, <2>2
<1>4. ASSUME Restart PROVE Goal
  BY <1>4, RestartShape
<1>5. (\E m \in models : DeleteRow(m)) \/ DeleteFiles \/ UNCHANGED vars => job' = job
  BY DEF DeleteRow, DeleteFiles, vars
<1> HIDE DEF Goal
<1>6. Goal
  <2>1. CASE Next
    BY <1>0, <1>1, <1>2, <1>3, <1>4, <1>5, <2>1 DEF Next
  <2>2. CASE UNCHANGED vars
    BY <1>0, <1>5, <2>2
  <2> QED
    BY <2>1, <2>2
<1> QED
  BY <1>6 DEF Goal

LEMMA InoHomeNext ==
    ASSUME Base, LinksHome, NEW t \in Tasks, InoHome(t), [Next]_vars PROVE InoHome(t)'
<1> SUFFICES ASSUME NEW u \in Tasks, job'[t].ino = u
             PROVE  Begun(u)' /\ Dir(u)' = Dir(t)'
  <2>1. job'[t].ino # NoTask => job'[t].ino \in Tasks
    BY BaseNext, TaskShape DEF Base, TypeOK
  <2> QED
    BY <2>1 DEF InoHome, Begun, Dir
<1>1. CASE job[t].ino = u /\ Begun(t)
  <2>1. Begun(u) /\ Dir(u) = Dir(t)
    BY <1>1, DownloadsAssumption DEF InoHome
  <2> QED
    BY <1>1, <2>1, BegunStays
<1>2. CASE TaskStep(t) /\ ~(job[t].ino = u /\ Begun(t))
  <2>1. Opens(t) \/ Unlinks(t) \/ (job[t].ino = u)
    BY <1>2, FileSteps, DownloadsAssumption DEF Writes, Leaves
  <2>2. ~Unlinks(t)
    BY DownloadsAssumption DEF Unlinks
  <2>3. ~(job[t].ino = u)
    BY <1>2, TaskShape, DownloadsAssumption DEF Begun
  <2>4. u = Target(t) /\ job[t].at = "open"
    BY <2>1, <2>2, <2>3 DEF Opens
  <2>5. Begun(u) /\ Dir(u) = Dir(t) /\ Begun(t)
    <3>1. Begun(t)
      BY <2>4 DEF Begun
    <3>2. Path(t) \in Dirs \X Files /\ Path(t)[1] = Dir(t)
      BY <2>4, FileShape
    <3> QED
      BY <2>4, <3>1, <3>2 DEF Target, LinksHome
  <2> QED
    BY <2>5, BegunStays
<1>3. ASSUME ~TaskStep(t) PROVE job[t].ino = u /\ Begun(t)
  BY <1>3, InoStays, DownloadsAssumption
<1> QED
  BY <1>1, <1>2, <1>3

LEMMA DeletedRowNext ==
    ASSUME Base, EarlyHeeded, [Next]_vars, del.on => \E u \in Tasks : DeletedRow(u), del'.on
    PROVE  \E u \in Tasks : DeletedRow(u)'
<1>1. ASSUME NEW m \in models, DeleteRow(m) PROVE DeletedRow(m.by)'
  <2>1. /\ m.by \in Tasks /\ job[m.by].at \in {"complete", "end"} /\ job[m.by].repo = m.repo
        /\ \A n \in models : n.by = m.by => n = m
    <3>1. \A n \in models : /\ n \in Rows /\ n.repo = job[n.by].repo /\ n.files = job[n.by].files
                            /\ job[n.by].at \in {"complete", "end"}
      BY RestType DEF EarlyHeeded
    <3>2. \A n \in Rows : n.by \in Tasks /\ n = [by |-> n.by, repo |-> n.repo, files |-> n.files]
      BY DEF Rows
    <3> QED
      BY <3>1, <3>2
  <2>2. del'.repo = m.repo /\ models' = models \ {m} /\ job' = job
    BY <1>1 DEF DeleteRow
  <2> QED
    BY <2>1, <2>2 DEF DeletedRow
<1>2. ASSUME \A m \in models : ~DeleteRow(m) PROVE \E u \in Tasks : DeletedRow(u)'
  <2>1. ~DeleteFiles /\ ~Restart
    BY UnusedIsJob DEF DeleteFiles, Restart, Idle
  <2>2. \/ \E t \in Tasks : StartCheck(t) \/ CancelDownload(t) \/ TaskStep(t)
        \/ UNCHANGED vars
    BY <1>2, <2>1 DEF Next
  <2>3. del' = del
    BY <2>2, TaskTurn DEF StartCheck, CancelDownload, vars
  <2>4. PICK u \in Tasks : DeletedRow(u)
    BY <2>3
  <2>5. ASSUME NEW m \in models' PROVE m.by # u
    <3>1. CASE m \in models
      BY <2>4, <3>1 DEF DeletedRow
    <3>2. CASE m \notin models
      <4>1. PICK t \in Tasks : TaskStep(t)
        BY <2>2, <3>2 DEF StartCheck, CancelDownload, vars
      <4> QED
        BY <2>4, <3>2, <4>1, RowsTask DEF DeletedRow
    <3> QED
      BY <3>1, <3>2
  <2>6. Begun(u)
    BY <2>4 DEF DeletedRow, Begun
  <2> QED
    BY <2>3, <2>4, <2>5, <2>6, BegunStays DEF DeletedRow
<1> QED
  BY <1>1, <1>2, RestType DEF Rows

LEMMA InodesAtHomeNext == Base /\ EarlyHeeded /\ InodesAtHome /\ [Next]_vars => InodesAtHome'
<1> SUFFICES ASSUME Base, EarlyHeeded, InodesAtHome, [Next]_vars PROVE InodesAtHome'
  OBVIOUS
<1>1. LinksHome /\ (\A t \in Tasks : InoHome(t)) /\ (del.on => \E u \in Tasks : DeletedRow(u))
  BY DEF InodesAtHome, LinksHome, InoHome, DeletedRow
<1>2. LinksHome'
  BY <1>1, LinksHomeNext
<1>3. \A t \in Tasks : InoHome(t)'
  BY <1>1, InoHomeNext
<1>4. del'.on => \E u \in Tasks : DeletedRow(u)'
  BY <1>1, DeletedRowNext
<1> QED
  BY <1>2, <1>3, <1>4 DEF InodesAtHome, LinksHome, InoHome, DeletedRow

LEMMA InodesAtHomeInit == Init => InodesAtHome
<1> SUFFICES ASSUME Init PROVE InodesAtHome
  OBVIOUS
<1>1. \A t \in Tasks : job[t].ino = NoTask
  BY UnusedIsJob DEF Init
<1> QED
  BY <1>1 DEF Init, InodesAtHome, Idle

LEMMA AlwaysHome == Spec => []InodesAtHome
  BY InodesAtHomeInit, InodesAtHomeNext, AlwaysHeeded, DownloadsInPhase, PTL DEF Spec

\* Nobody else has a sole owner's inodes, or links in its repository.
LEMMA Alone ==
    ASSUME Base, InodesAtHome, NEW t \in Tasks, Begun(t), Sole(t)
    PROVE  /\ \A f \in Files : link[<<Dir(t), f>>] \in {t, NoTask}
           /\ job[t].ino \in {t, NoTask}
           /\ \A u \in Tasks \ {t} : Begun(u) =>
                 /\ Dir(u) # Dir(t) /\ job[u].ino # t
                 /\ \A f \in Files : link[<<Dir(u), f>>] # t
<1> USE DEF Sole, InodesAtHome
<1>1. ASSUME NEW f \in Files, NEW r \in Dirs
      PROVE  /\ link[<<r, f>>] # NoTask => /\ link[<<r, f>>] \in Tasks
                                           /\ Begun(link[<<r, f>>])
                                           /\ Dir(link[<<r, f>>]) = r
  <2>1. <<r, f>> \in Dirs \X Files
    OBVIOUS
  <2> QED
    BY <2>1, RestType
<1>2. \A f \in Files : link[<<Dir(t), f>>] \in {t, NoTask}
  BY <1>1, DirType
<1>3. job[t].ino \in {t, NoTask}
  BY TaskShape DEF Jobs
<1>4. ASSUME NEW u \in Tasks \ {t}, Begun(u)
      PROVE  /\ Dir(u) # Dir(t) /\ job[u].ino # t
             /\ \A f \in Files : link[<<Dir(u), f>>] # t
  <2>1. Dir(u) # Dir(t)
    BY <1>4
  <2>2. job[u].ino # t
    BY <1>4, <2>1, DownloadsAssumption
  <2>3. ASSUME NEW f \in Files PROVE link[<<Dir(u), f>>] # t
    BY <1>1, <2>1, DirType, DownloadsAssumption
  <2> QED
    BY <2>1, <2>2, <2>3
<1> QED
  BY <1>2, <1>3, <1>4

\* So what it has written is untouched by the others.
FilesKept(t) ==
    /\ \A f \in Files : /\ link'[<<Dir(t), f>>] = link[<<Dir(t), f>>]
                        /\ data'[<<t, f>>] = data[<<t, f>>]
                        /\ <<t, f>> \in refused => <<t, f>> \in refused'
    /\ t \in failing => t \in failing'
    /\ \A m \in models' : m.by = t => m \in models

LEMMA OthersKeepFiles ==
    ASSUME Base, EarlyHeeded, InodesAtHome, NEW t \in Tasks, Begun(t), Sole(t),
           NEW u \in Tasks \ {t}, TaskStep(u)
    PROVE  FilesKept(t)
<1>1. ASSUME NEW m \in models', m.by = t PROVE m \in models
  BY <1>1, RowsTask
<1>2. ASSUME NEW f \in Files
      PROVE  /\ link'[<<Dir(t), f>>] = link[<<Dir(t), f>>]
             /\ data'[<<t, f>>] = data[<<t, f>>]
             /\ <<t, f>> \in refused => <<t, f>> \in refused'
  <2>1. <<Dir(t), f>> \in Dirs \X Files /\ <<t, f>> \in Tasks \X Files
    BY DirType
  <2>2. CASE Leaves(u)
    BY <2>2 DEF Leaves
  <2>3. CASE Writes(u)
    <3>1. Begun(u) /\ job[u].ino # t
      BY <2>3, Alone DEF Writes, Begun
    <3> QED
      BY <2>1, <2>3, <3>1, RestType DEF Writes
  <2>4. CASE Unlinks(u) \/ Opens(u)
    <3>1. Begun(u) /\ job[u].at \in {"open", "check"}
      BY <2>4 DEF Unlinks, Opens, Begun
    <3>2. Dir(u) # Dir(t) /\ Path(u) = <<Dir(u), File(u)>>
          /\ File(u) \in Files /\ Path(u) \in Dirs \X Files /\ link[Path(u)] # t
      BY <3>1, Alone, FileShape
    <3>3. link'[<<Dir(t), f>>] = link[<<Dir(t), f>>]
      BY <2>1, <2>4, <3>2, RestType DEF Unlinks, Opens
    <3>4. Target(u) # t
      BY <3>2 DEF Target
    <3>5. data'[<<t, f>>] = data[<<t, f>>]
      BY <2>1, <2>4, <3>4, RestType DEF Unlinks, Opens
    <3>6. <<t, f>> \in refused => <<t, f>> \in refused'
      BY <2>4, <3>4 DEF Unlinks, Opens
    <3> QED
      BY <3>3, <3>5, <3>6
  <2> QED
    BY <2>2, <2>3, <2>4, FileSteps
<1>3. t \in failing => t \in failing'
  BY FileSteps DEF Leaves, Writes, Unlinks, Opens
<1> QED
  BY <1>1, <1>2, <1>3 DEF FilesKept

\* What is kept of a job and of the files keeps FilesWritten.
LEMMA WrittenStays ==
    ASSUME Base, NEW t \in Tasks, FilesWritten(t), FilesKept(t),
           job'[t].repo = job[t].repo, job'[t].files = job[t].files,
           \/ /\ job'[t].at = job[t].at /\ job'[t].file = job[t].file
              /\ job'[t].pos = job[t].pos /\ job'[t].ino = job[t].ino
           \/ job'[t].at \notin {"open", "check", "write", "register"}
    PROVE  FilesWritten(t)'
<1>1. \A k \in 1 .. Len(job[t].files) : job[t].files[k] \in Files
      /\ Len(job[t].files) \in Nat /\ DOMAIN job[t].files = 1 .. Len(job[t].files)
  BY TaskShape, WantedShape DEF Jobs
<1>2. \A f \in Files : Done(t, f) => Done(t, f)'
  BY DEF Done, FilesKept, Whole, Dir
<1>3. (\E m \in models' : m.by = t) => \E m \in models : m.by = t
  BY DEF FilesKept
<1>4. CASE job'[t].at \notin {"open", "check", "write", "register"}
  BY <1>1, <1>2, <1>3, <1>4 DEF FilesWritten
<1>5. CASE /\ job'[t].at = job[t].at /\ job'[t].file = job[t].file
           /\ job'[t].pos = job[t].pos /\ job'[t].ino = job[t].ino
  <2>1. CASE job[t].at \in {"open", "check", "write"}
    <3>1. /\ job[t].file \in 1 .. Len(job[t].files) /\ File(t) \in Files
          /\ Path(t) = <<Dir(t), File(t)>>
      BY <2>1, FileShape
    <3>2. File(t)' = File(t) /\ Path(t)' = Path(t)
      BY <1>5 DEF File, Path, Dir
    <3>3. \A k \in 1 .. (job[t].file - 1) : job[t].files[k] \in Files
      BY <1>1, <3>1
    <3>4. link'[Path(t)] = link[Path(t)] /\ data'[<<t, File(t)>>] = data[<<t, File(t)>>]
          /\ (t \in failing => t \in failing')
      BY <3>1 DEF FilesKept
    <3>5. job[t].at # "register" /\ job'[t].at # "register"
      BY <1>5, <2>1
    <3> QED
      BY <1>1, <1>2, <1>3, <1>5, <3>2, <3>3, <3>4, <3>5 DEF FilesWritten
  <2>2. CASE job[t].at \notin {"open", "check", "write"}
    BY <1>1, <1>2, <1>3, <1>5, <2>2 DEF FilesWritten
  <2> QED
    BY <2>1, <2>2
<1> QED
  BY <1>4, <1>5

\* A task's own steps add to its files until they are whole.
LEMMA OwnModel ==
    ASSUME Base, EarlyHeeded, NEW t \in Tasks, \E m \in models : m.by = t
    PROVE  job[t].at \in {"complete", "end"}
  BY DEF EarlyHeeded

LEMMA WrittenOpen ==
    ASSUME Base, EarlyHeeded, InodesAtHome, NEW t \in Tasks, Begun(t), Sole(t), FilesWritten(t),
           OpenFile(t), ~Fail(t)
    PROVE  FilesWritten(t)'
<1>1. job[t].at = "open" /\ models' = models /\ ~(\E m \in models' : m.by = t)
  BY OpenShape, OwnModel
<1>2. CASE Cancelled(t)
  <2>1. job'[t].at = "end"
    BY <1>2, OpenShape DEF EndTurn
  <2> QED
    BY <1>1, <2>1 DEF FilesWritten
<1>3. CASE ~Cancelled(t)
  <2>1. /\ Turn(t) /\ job'[t].at = "check" /\ job'[t].pos = 0 /\ job'[t].ino = Target(t)
        /\ job'[t].file = job[t].file /\ link' = [link EXCEPT ![Path(t)] = Target(t)]
        /\ data' = [data EXCEPT ![<<Target(t), File(t)>>] = {}]
        /\ refused' = refused \ {<<Target(t), File(t)>>}
    BY <1>3, OpenShape
  <2>2. /\ Path(t) \in Dirs \X Files /\ Path(t) = <<Dir(t), File(t)>> /\ File(t) \in Files /\ Dir(t) \in Dirs
        /\ job[t].file \in 1 .. Len(job[t].files) /\ Len(job[t].files) \in Nat
    BY <1>1, FileShape
  <2>3. Target(t) = t
    BY <2>2, Alone DEF Target
  <2>4. File(t)' = File(t) /\ Path(t)' = Path(t)
    BY <2>1 DEF File, Path, Dir, Turn, Kept
  <2>5. link'[Path(t)] = t /\ 1 .. 0 = {}
    BY <2>1, <2>2, <2>3, RestType
  <2>6. ASSUME NEW k \in 1 .. (job[t].file - 1), job[t].files[k] # File(t)
        PROVE  Done(t, job[t].files[k])'
    <3>1. Done(t, job[t].files[k]) /\ job[t].files[k] \in Files
      BY <1>1, <2>2, TaskShape, WantedShape DEF FilesWritten, Jobs
    <3>2. /\ link'[<<Dir(t), job[t].files[k]>>] = link[<<Dir(t), job[t].files[k]>>]
          /\ data'[<<t, job[t].files[k]>>] = data[<<t, job[t].files[k]>>]
          /\ <<t, job[t].files[k]>> \in refused => <<t, job[t].files[k]>> \in refused'
      BY <2>1, <2>2, <2>3, <2>6, <3>1, RestType
    <3>3. job'[t].files = job[t].files /\ Dir(t)' = Dir(t)
      BY <2>1 DEF Turn, Kept, Dir
    <3> QED
      BY <3>1, <3>2, <3>3 DEF Done, Whole
  <2> QED
    BY <1>1, <2>1, <2>3, <2>4, <2>5, <2>6 DEF FilesWritten, Turn, Kept
<1> QED
  BY <1>2, <1>3

LEMMA WrittenWrite ==
    ASSUME Base, EarlyHeeded, InodesAtHome, NEW t \in Tasks, Begun(t), Sole(t), FilesWritten(t),
           WriteChunk(t), ~Fail(t), ~Told(t)
    PROVE  FilesWritten(t)'
<1> DEFINE w == job[t].files
           n == job[t].file
           p == job[t].pos
           i == <<t, File(t)>>
<1>1. /\ job[t].at = "write" /\ models' = models /\ ~(\E m \in models' : m.by = t)
      /\ Turn(t) /\ link' = link /\ t \notin failing /\ (Lands(t) \/ Misses(t))
      /\ ChunkNext(t) \/ FileNext(t) \/ RowNext(t)
  BY WriteShape, OwnModel
<1>2. /\ job[t].ino = t /\ link[Path(t)] = t /\ 1 .. p \subseteq data[i]
      /\ \A k \in 1 .. (n - 1) : w[k] # File(t) => Done(t, w[k])
  BY <1>1 DEF FilesWritten
<1>3. /\ n \in 1 .. Len(w) /\ Len(w) \in Nat /\ w \in Wanted /\ File(t) = w[n]
      /\ Path(t) = <<Dir(t), File(t)>> /\ File(t) \in Files /\ Dir(t) \in Dirs
      /\ p \in 0 .. (Chunks - 1) /\ Chunks \in Nat /\ DOMAIN w = 1 .. Len(w)
      /\ \A k \in 1 .. Len(w) : w[k] \in Files
  BY <1>1, FileShape, TaskShape, WantedShape, DownloadsAssumption DEF Jobs, InPhase, File
\* The chunk is there, or it is marked as refused.
<1>4. /\ data[i] \subseteq data'[i]
      /\ Lands(t) => p + 1 \in data'[i]
      /\ Misses(t) => IF ChunkNext(t) THEN t \in failing' ELSE i \in refused'
  <2>1. i \in Tasks \X Files
    BY <1>3
  <2>2. CASE Lands(t)
    BY <1>1, <1>2, <2>1, <2>2, RestType DEF Lands, Misses, Fault
  <2>3. CASE Misses(t)
    BY <1>1, <1>2, <2>1, <2>3, RestType DEF Misses, Lands, Fault
  <2> QED
    BY <1>1, <2>2, <2>3
<1>5. /\ job'[t].repo = job[t].repo /\ job'[t].files = w /\ Dir(t)' = Dir(t)
  BY <1>1 DEF Turn, Kept, Dir
<1>6. ASSUME NEW f \in Files, f # File(t), Done(t, f) PROVE Done(t, f)'
  <2>1. data'[<<t, f>>] = data[<<t, f>>] /\ (<<t, f>> \in refused => <<t, f>> \in refused')
    BY <1>1, <1>2, <1>3, <1>6, RestType DEF Lands, Misses
  <2> QED
    BY <1>1, <1>5, <1>6, <2>1 DEF Done, Whole
<1>7. CASE ChunkNext(t)
  <2>1. /\ job'[t].at = "check" /\ job'[t].pos = p + 1 /\ job'[t].ino = t /\ job'[t].file = n
    BY <1>2, <1>7, WriteShape DEF InFile
  <2>2. File(t)' = File(t) /\ Path(t)' = Path(t)
    BY <1>5, <2>1 DEF File, Path, Dir
  <2>3. \A k \in 1 .. (n - 1) : w[k] # File(t) => Done(t, w[k])'
    <3> SUFFICES ASSUME NEW k \in 1 .. (n - 1), w[k] # File(t) PROVE Done(t, w[k])'
      OBVIOUS
    <3>1. w[k] \in Files /\ Done(t, w[k])
      BY <1>2, <1>3
    <3> QED
      BY <1>5, <1>6, <3>1 DEF Done
  <2>4. t \notin failing' => 1 .. (p + 1) \subseteq data'[i]
    <3>1. 1 .. (p + 1) = (1 .. p) \union {p + 1}
      BY <1>3
    <3> HIDE DEF p, i
    <3> QED
      BY <1>1, <1>2, <1>4, <1>7, <3>1
  <2> QED
    BY <1>1, <1>2, <1>5, <2>1, <2>2, <2>3, <2>4 DEF FilesWritten
<1>8. CASE FileNext(t) \/ RowNext(t)
  <2>1. p + 1 = Chunks
    BY <1>8 DEF FileNext, RowNext
  <2>5. \A c \in 1 .. Chunks : c \in data'[i] \/ (c = Chunks /\ i \in refused')
    <3>1. ~ChunkNext(t) /\ 1 .. Chunks = (1 .. p) \union {Chunks}
      BY <1>3, <2>1 DEF ChunkNext
    <3> HIDE DEF p, i
    <3> QED
      BY <1>1, <1>2, <1>4, <2>1, <3>1
  <2>2. ASSUME NEW k \in 1 .. n PROVE Done(t, w[k])'
    <3>0. w[k] \in Files
      BY <1>3
    <3>1. CASE w[k] = File(t)
      <4>1. w[k]' = File(t) /\ link'[<<Dir(t)', File(t)>>] = t
        BY <1>1, <1>2, <1>3, <1>5, <3>1
      <4> QED
        BY <2>5, <4>1 DEF Done, Whole
    <3>2. CASE w[k] # File(t)
      <4>1. k \in 1 .. (n - 1)
        BY <1>3, <3>2
      <4>2. Done(t, w[k])
        BY <1>2, <3>2, <4>1
      <4> QED
        BY <1>5, <1>6, <3>0, <3>2, <4>2 DEF Done
    <3> QED
      BY <3>1, <3>2
  <2>3. CASE FileNext(t)
    <3>1. job'[t].at = "open" /\ job'[t].file = n + 1
      BY <2>3, WriteShape
    <3>3. (n + 1) - 1 = n
      BY <1>3
    <3>2. \A k \in 1 .. (job'[t].file - 1) : Done(t, w[k])'
      BY <2>2, <3>1, <3>3
    <3> QED
      BY <1>1, <1>5, <3>1, <3>2 DEF FilesWritten
  <2>4. CASE RowNext(t)
    <3>1. job'[t].at = "register" /\ n = Len(w)
      BY <2>4, WriteShape DEF RowNext
    <3>2. \A k \in DOMAIN w : Done(t, w[k])'
      BY <1>3, <2>2, <3>1
    <3> QED
      BY <1>1, <1>5, <3>1, <3>2 DEF FilesWritten
  <2> QED
    BY <1>8, <2>3, <2>4
<1> QED
  BY <1>1, <1>7, <1>8

LEMMA OwnFilesKept ==
    ASSUME NEW t \in Tasks, UNCHANGED <<link, data, failing, refused, models>>
    PROVE  FilesKept(t)
  BY DEF FilesKept

LEMMA WrittenTask ==
    ASSUME Base, EarlyHeeded, InodesAtHome, NEW t \in Tasks, Begun(t), Sole(t), FilesWritten(t),
           TaskStep(t)
    PROVE  FilesWritten(t)'
<1> DEFINE Goal == FilesWritten(t)'
<1>1. CASE Fail(t) \/ Told(t)
  <2>1. /\ UNCHANGED <<link, data, failing, refused, models>> /\ job'[t].at = "end"
        /\ job'[t].repo = job[t].repo /\ job'[t].files = job[t].files
    BY <1>1, FailShape, ToldShape DEF EndTurn, Turn, Kept
  <2> QED
    BY <2>1, OwnFilesKept, WrittenStays
<1>2. CASE ~Fail(t) /\ ~Told(t)
  <2>1. ASSUME UNCHANGED <<link, data, failing, refused, models>>, Turn(t),
               job'[t].at \notin {"open", "check", "write", "register"}
        PROVE  Goal
    BY <2>1, OwnFilesKept, WrittenStays DEF Turn, Kept
  <2>2. ASSUME models' = models, job[t].at \notin {"complete", "end"}, job'[t].at = "open",
               job'[t].file = 1
        PROVE  Goal
    <3>1. ~(\E m \in models' : m.by = t)
      BY <2>2, OwnModel
    <3>2. \A k : ~(k \in 1 .. (job'[t].file - 1))
      BY <2>2
    <3> QED
      BY <2>2, <3>1, <3>2 DEF FilesWritten
  <2>3. ~StartInsert(t)
    BY DEF StartInsert, Begun
  <2>4. ListFiles(t) => Goal
    BY <1>2, <2>1, ListShape
  <2>5. AskDf(t) => Goal
    <3> SUFFICES ASSUME AskDf(t) PROVE Goal
      OBVIOUS
    <3>1. InPhase(t)
      BY TaskShape
    <3>2. /\ Turn(t) /\ job[t].at = "df" /\ job'[t].file = job[t].file
          /\ job'[t].at \in {"count", "open"}
      BY ONLY AskDf(t), Base, t \in Tasks, DfShape DEF Asked, NotAsked
    <3>3. job[t].file = 1
      BY ONLY <3>1, <3>2 DEF InPhase
    <3>4. /\ Turn(t) /\ job[t].at = "df" /\ job'[t].at \in {"count", "open"}
          /\ job'[t].file = 1 /\ UNCHANGED <<link, data, failing, refused, models>>
      BY <3>2, <3>3 DEF AskDf
    <3> QED
      BY <2>1, <2>2, <3>4
  <2>6. CountSpace(t) => Goal
    <3> SUFFICES ASSUME CountSpace(t) PROVE Goal
      OBVIOUS
    <3>1. job[t].at = "count" /\ UNCHANGED <<link, data, failing, refused, models>>
      BY DEF CountSpace
    <3>2. CASE SetError(t)
      BY <2>1, <3>1, <3>2, ErrorShape DEF EndTurn
    <3>3. CASE ~SetError(t)
      <4>1. job'[t].at = "open" /\ job'[t].file = 1
        BY <3>1, <3>3, CountShape, TaskShape DEF InPhase
      <4> QED
        BY <2>2, <3>1, <4>1
    <3> QED
      BY <3>2, <3>3
  <2>7. OpenFile(t) => Goal
    BY <1>2, WrittenOpen
  <2>8. CheckChunk(t) => Goal
    <3> SUFFICES ASSUME CheckChunk(t) PROVE Goal
      OBVIOUS
    <3>1. job[t].at = "check" /\ UNCHANGED <<models, data, failing, refused>> /\ ~(\E m \in models' : m.by = t)
      BY CheckShape, OwnModel
    <3>2. CASE Cancelled(t)
      BY <3>1, <3>2, CheckShape DEF FilesWritten, EndTurn
    <3>3. CASE ~Cancelled(t)
      <4>1. /\ Turn(t) /\ link' = link /\ job'[t].at = "write" /\ job'[t].pos = job[t].pos
            /\ job'[t].ino = job[t].ino /\ job'[t].file = job[t].file
            /\ job'[t].files = job[t].files /\ job'[t].repo = job[t].repo
        BY <3>3, CheckShape DEF Turn, Kept
      <4>2. File(t)' = File(t) /\ Path(t)' = Path(t)
        BY <4>1 DEF File, Path, Dir
      <4>3. \A f : Done(t, f)' <=> Done(t, f)
        BY <3>1, <4>1 DEF Done, Whole, Dir
      <4> QED
        BY <3>1, <4>1, <4>2, <4>3 DEF FilesWritten
    <3> QED
      BY <3>2, <3>3
  <2>9. WriteChunk(t) => Goal
    BY <1>2, WrittenWrite
  <2>10. RegisterModel(t) => Goal
    <3> SUFFICES ASSUME RegisterModel(t) PROVE Goal
      OBVIOUS
    <3>1. /\ job[t].at = "register" /\ Turn(t) /\ job'[t].at = "complete"
          /\ UNCHANGED <<link, data, failing, refused>>
      BY <1>2, RegisterShape
    <3>2. \A k \in DOMAIN job[t].files : Done(t, job[t].files[k])
      BY <3>1 DEF FilesWritten
    <3> QED
      BY <3>1, <3>2 DEF FilesWritten, Done, Whole, Dir, Turn, Kept
  <2>11. Complete(t) => Goal
    <3> SUFFICES ASSUME Complete(t) PROVE Goal
      OBVIOUS
    <3>1. /\ Turn(t) /\ job'[t].at = "end" /\ UNCHANGED <<link, data, failing, refused, models>>
      BY CompleteShape DEF EndTurn
    <3> QED
      BY <2>1, <3>1
  <2> HIDE DEF Goal
  <2>12. Goal
    BY <2>3, <2>4, <2>5, <2>6, <2>7, <2>8, <2>9, <2>10, <2>11, Zenon DEF TaskStep
  <2> QED
    BY <2>12 DEF Goal
<1> QED
  BY <1>1, <1>2

LEMMA OwnFilesInit == Init => OwnFilesWritten
<1> SUFFICES ASSUME Init, NEW t \in Tasks PROVE FilesWritten(t)
  BY DEF OwnFilesWritten
<1>1. job[t].at = "none" /\ models = {}
  BY UnusedIsJob DEF Init
<1> QED
  BY <1>1 DEF FilesWritten

LEMMA OwnFilesNext ==
    Base /\ EarlyHeeded /\ InodesAtHome /\ OwnFilesWritten /\ [Next]_vars => OwnFilesWritten'
<1> SUFFICES ASSUME Base, EarlyHeeded, InodesAtHome, OwnFilesWritten, [Next]_vars,
                    NEW t \in Tasks, Sole(t)'
             PROVE  FilesWritten(t)'
  BY DEF OwnFilesWritten
<1> DEFINE Goal == FilesWritten(t)'
<1>1. CASE ~Begun(t)
  <2>1. job'[t].at \in {"none", "insert", "list"}
    <3> DEFINE Early == job'[t].at \in {"none", "insert", "list"}
    <3>1. ASSUME job'[t].at = job[t].at PROVE Early
      BY <1>1, <3>1 DEF Begun
    <3>2. ASSUME NEW u \in Tasks, TaskStep(u) PROVE Early
      <4>1. CASE u = t
        <5>1. StartInsert(t)
          BY <1>1, <3>2, <4>1 DEF Begun, TaskStep, ListFiles, AskDf, CountSpace, OpenFile,
             CheckChunk, WriteChunk, RegisterModel, Complete
        <5> QED
          BY <5>1, InsertShape
      <4>2. CASE u # t
        <5>1. job'[t] = job[t]
          BY <3>2, <4>2, TaskTurn, TaskShape DEF Turn
        <5> QED
          BY <3>1, <5>1
      <4> QED
        BY <4>1, <4>2
    <3>3. ASSUME NEW u \in Tasks, StartCheck(u) PROVE Early
      <4>1. CASE u = t
        BY <3>3, <4>1, StartsOwn
      <4>2. CASE u # t
        BY <3>1, <3>3, <4>2, StartsBeside
      <4> QED
        BY <4>1, <4>2
    <3>4. ASSUME NEW u \in Tasks, CancelDownload(u) PROVE Early
      <4>1. CASE u = t
        BY <3>1, <3>4, <4>1, CancelledShape
      <4>2. CASE u # t
        <5>1. job'[t] = job[t]
          BY <3>4, <4>2, CancelledShape, TaskShape
        <5> QED
          BY <3>1, <5>1
      <4> QED
        BY <4>1, <4>2
    <3>5. ASSUME Restart PROVE Early
      BY <1>1, <3>5, RestartShape
    <3>6. (\E m \in models : DeleteRow(m)) \/ DeleteFiles \/ UNCHANGED vars => job' = job
      BY DEF DeleteRow, DeleteFiles, vars
    <3> HIDE DEF Early
    <3>7. Early
      <4>1. CASE Next
        BY <3>1, <3>2, <3>3, <3>4, <3>5, <3>6, <4>1 DEF Next
      <4>2. CASE UNCHANGED vars
        BY <3>1, <3>6, <4>2
      <4> QED
        BY <4>1, <4>2
    <3> QED
      BY <3>7 DEF Early
  <2>2. ~(\E m \in models' : m.by = t)
    BY <2>1, EarlyHeededNext DEF EarlyHeeded
  <2> QED
    BY <2>1, <2>2 DEF FilesWritten
<1>2. CASE Begun(t)
  <2>1. Sole(t)
    BY <1>2, BegunStays DEF Sole
  <2>2. FilesWritten(t)
    BY <2>1 DEF OwnFilesWritten
  <2>3. job'[t].repo = job[t].repo /\ job'[t].files = job[t].files
    BY <1>2, BegunStays
  <2>4. ASSUME NEW u \in Tasks, TaskStep(u) PROVE Goal
    <3>1. CASE u = t
      BY <1>2, <2>1, <2>2, <2>4, <3>1, WrittenTask
    <3>2. CASE u # t
      <4>1. job'[t] = job[t]
        BY <2>4, <3>2, TaskTurn, TaskShape DEF Turn
      <4>2. FilesKept(t)
        BY <1>2, <2>1, <2>4, <3>2, OthersKeepFiles
      <4> QED
        BY <2>2, <4>1, <4>2, WrittenStays
    <3> QED
      BY <3>1, <3>2
  <2>5. ASSUME NEW u \in Tasks, StartCheck(u) PROVE Goal
    <3>1. /\ job'[t].at = job[t].at /\ job'[t].file = job[t].file
          /\ job'[t].pos = job[t].pos /\ job'[t].ino = job[t].ino
      BY <1>2, <2>5, StartsOwn, StartsBeside DEF Begun
    <3>2. UNCHANGED <<link, data, failing, refused, models>>
      BY <2>5 DEF StartCheck
    <3> QED
      BY <2>2, <2>3, <3>1, <3>2, OwnFilesKept, WrittenStays
  <2>6. ASSUME NEW u \in Tasks, CancelDownload(u) PROVE Goal
    <3>1. /\ job'[t].at = job[t].at /\ job'[t].file = job[t].file
          /\ job'[t].pos = job[t].pos /\ job'[t].ino = job[t].ino
      BY <2>6, CancelledShape, TaskShape
    <3>2. UNCHANGED <<link, data, failing, refused, models>>
      BY <2>6 DEF CancelDownload
    <3> QED
      BY <2>2, <2>3, <3>1, <3>2, OwnFilesKept, WrittenStays
  <2>7. ASSUME Restart PROVE Goal
    <3>1. job'[t].at = "end" /\ UNCHANGED <<link, data, failing, refused, models>>
      BY <1>2, <2>7, RestartShape DEF Restart
    <3> QED
      BY <2>2, <2>3, <3>1, OwnFilesKept, WrittenStays
  <2>8. ASSUME NEW m \in models, DeleteRow(m) PROVE Goal
    <3>1. FilesKept(t) /\ job' = job
      BY <2>8 DEF DeleteRow, FilesKept
    <3> QED
      BY <2>2, <3>1, WrittenStays
  <2>9. ASSUME DeleteFiles PROVE Goal
    <3>1. job' = job /\ UNCHANGED <<data, failing, refused, models>>
      BY <2>9 DEF DeleteFiles
    <3>2. CASE SafeRepo[del.repo] = Dir(t)
      <4>1. PICK u \in Tasks : DeletedRow(u)
        BY <2>9 DEF DeleteFiles, InodesAtHome, DeletedRow
      <4>2. u = t
        BY <2>1, <3>2, <4>1 DEF DeletedRow, Sole, Begun, Dir
      <4> QED
        BY <3>1, <4>1, <4>2 DEF DeletedRow, FilesWritten
    <3>3. CASE SafeRepo[del.repo] # Dir(t)
      <4>1. \A f \in Files : link'[<<Dir(t), f>>] = link[<<Dir(t), f>>]
        BY <2>9, <3>3, DirType DEF DeleteFiles
      <4>2. FilesKept(t)
        BY <3>1, <4>1 DEF FilesKept
      <4> QED
        BY <2>2, <3>1, <4>2, WrittenStays
    <3> QED
      BY <3>2, <3>3
  <2>10. ASSUME UNCHANGED vars PROVE Goal
    <3>1. job' = job /\ UNCHANGED <<link, data, failing, refused, models>>
      BY <2>10 DEF vars
    <3> QED
      BY <2>2, <3>1, OwnFilesKept, WrittenStays
  <2> HIDE DEF Goal
  <2>11. Goal
    BY <2>4, <2>5, <2>6, <2>7, <2>8, <2>9, <2>10 DEF Next
  <2> QED
    BY <2>11 DEF Goal
<1> QED
  BY <1>1, <1>2

LEMMA AlwaysWritten == Spec => []OwnFilesWritten
  BY OwnFilesInit, OwnFilesNext, AlwaysHome, AlwaysHeeded, DownloadsInPhase, PTL DEF Spec

\* A row inserted by a download has all its files on the disk, as long as nobody
\* else asked for a repository of its directory, and whole but for a last chunk
\* that the disk refused after the task had closed the file, which nothing tells
\* (stream_response_to_file, run_download, delete_model).
THEOREM SoleOwnersKeepFiles == Spec => []SoleOwnerHasFiles
<1>1. Base /\ EarlyHeeded /\ OwnFilesWritten => SoleOwnerHasFiles
  <2> SUFFICES ASSUME Base, EarlyHeeded, OwnFilesWritten, NEW m \in models,
                      \A t \in Tasks \ {m.by} : job[t].at # "none" => Dir(t) # SafeRepo[m.repo]
               PROVE  HasFiles(m)
    BY DEF SoleOwnerHasFiles
  <2>1. m.by \in Tasks /\ m.repo = job[m.by].repo /\ m.files = job[m.by].files
    BY RestType DEF EarlyHeeded, Rows
  <2>2. Sole(m.by)
    BY <2>1 DEF Sole, Begun, Dir
  <2>3. \A k \in DOMAIN m.files : Done(m.by, m.files[k])
    BY <2>1, <2>2 DEF OwnFilesWritten, FilesWritten
  <2> QED
    BY <2>1, <2>3, DownloadsAssumption DEF HasFiles, Done, Dir
<1> QED
  BY <1>1, AlwaysWritten, AlwaysHeeded, DownloadsInPhase, PTL

-----------------------------------------------------------------------------
(* The space on the disk.                                                  *)

\* What is used, and what is awaited, as totals over all inodes and all tasks.
Held == [i \in Tasks \X Files |-> IF i \in Live THEN Cardinality(data[i]) ELSE 0]

NeedOf(u) == IF Admitted(u) /\ Downloading(u) THEN Remaining(u) ELSE 0
Need == [u \in Tasks |-> NeedOf(u)]

Awaited == MapThenSumSet(Remaining, {t \in Tasks : Admitted(t) /\ Downloading(t)})

HeldCounts ==
    \A i \in Tasks \X Files :
        /\ Held[i] \in Nat
        /\ i \in Live => Held[i] = Cardinality(data[i])
        /\ i \notin Live => Held[i] = 0

LEMMA HeldNat == TypeOK => HeldCounts
  BY ChunksFinite DEF Held, HeldCounts
LEMMA HeldNatPrime == (TypeOK => HeldCounts)'
  BY HeldNat, PTL

UsedHeld == Used = Total(Held, Tasks \X Files) /\ Used \in Nat

LEMMA UsedIsHeld == TypeOK => UsedHeld
<1> SUFFICES ASSUME TypeOK PROVE UsedHeld
  OBVIOUS
<1> DEFINE w == Sizes(data, Live)
           S == Tasks \X Files
<1>1. IsFiniteSet(S) /\ Live \in SUBSET S
  BY LiveFinite DEF Live
<1>2. \A x \in Live : w[x] \in Int /\ Held[x] = w[x]
  BY HeldNat DEF HeldCounts, Sizes, Live
<1>3. \A x \in S \ Live : Held[x] = 0
  BY HeldNat DEF HeldCounts
<1>4. Used = Total(w, Live) /\ Used \in Nat
  BY UsedIsTotal
<1> HIDE DEF w, S
<1>5. Total(Held, S) = Total(w, Live)
  BY <1>1, <1>2, <1>3, TotalWithin
<1> QED
  BY <1>4, <1>5 DEF S, UsedHeld
LEMMA UsedIsHeldPrime == (TypeOK => UsedHeld)'
  BY UsedIsHeld, PTL

\* No download has written more than it announced.
LEMMA RestNat ==
    ASSUME Base, NEW u \in Tasks
    PROVE  (Downloading(u) => Remaining(u) \in Nat) /\ NeedOf(u) \in Nat
<1>1. ASSUME Downloading(u) PROVE Remaining(u) \in Nat
  <2>1. /\ job[u].at \in {"list", "df", "count"} => dl[u].progress = 0
        /\ job[u].at \in {"open", "check", "write", "register", "complete"}
              => dl[u].total = Size(job[u].files)
        /\ job[u].at \in {"list", "df", "count", "open", "check", "write", "register", "complete"}
    BY <1>1, TaskShape DEF InPhase, Begun, Downloading, Jobs, Places
  <2>2. dl[u].total \in Nat /\ dl[u].progress \in Nat /\ dl[u].progress <= Size(job[u].files)
    BY TaskShape DEF Entries
  <2> QED
    BY <2>1, <2>2 DEF Remaining
<1> QED
  BY <1>1 DEF NeedOf

NeedsNat == \A u \in Tasks : NeedOf(u) \in Nat
LEMMA NeedsAreNat == Base => NeedsNat
  BY RestNat DEF NeedsNat
LEMMA RestNatPrime == ASSUME Base' PROVE \A u \in Tasks : NeedOf(u)' \in Nat
<1>1. (Base => NeedsNat)'
  BY NeedsAreNat, PTL
<1> QED
  BY <1>1 DEF NeedsNat

AwaitedNeed == Awaited = Total(Need, Tasks) /\ Awaited \in Int

LEMMA AwaitedIsNeed == Base => AwaitedNeed
<1> SUFFICES ASSUME Base PROVE AwaitedNeed
  OBVIOUS
<1> DEFINE P == {t \in Tasks : Admitted(t) /\ Downloading(t)}
           w == Rests(dl, P)
<1>1. Awaited = RestSum(dl, P)
  BY Zenon DEF Awaited, RestSum, Remaining, MapThenSumSet, MapThenFoldSet
<1>2. IsFiniteSet(Tasks) /\ P \in SUBSET Tasks /\ IsFiniteSet(P)
  BY LiveFinite, FS_Subset
<1>3. \A x \in P : w[x] \in Int /\ Need[x] = w[x]
  BY RestNat DEF Rests, Need, NeedOf, Remaining
<1>4. \A x \in Tasks \ P : Need[x] = 0
  BY DEF Need, NeedOf
<1> HIDE DEF w, P
<1>5. Total(Need, Tasks) = Total(w, P) /\ Total(Need, Tasks) \in Int
  BY <1>2, <1>3, <1>4, TotalWithin
<1> QED
  BY <1>1, <1>2, <1>5, RestSumIsTotal DEF w, AwaitedNeed
LEMMA AwaitedIsNeedPrime == (Base => AwaitedNeed)'
  BY AwaitedIsNeed, PTL

\* The downloads a space check counts await at least what the admitted ones do.
LEMMA InFlightCovers ==
    ASSUME Base, NEW t \in Tasks
    PROVE  InFlight(t) \in Int /\ Total(Need, Tasks \ {t}) \in Int
           /\ Total(Need, Tasks \ {t}) <= InFlight(t)
<1> DEFINE T == Tasks \ {t}
           P == {u \in T : Downloading(u)}
           w == Rests(dl, P)
           v == [u \in T |-> IF Downloading(u) THEN Remaining(u) ELSE 0]
<1>1. InFlight(t) = RestSum(dl, P)
  BY InFlightIsSum
<1>2. IsFiniteSet(T) /\ P \in SUBSET T /\ IsFiniteSet(P)
  BY LiveFinite, FS_Subset
<1>3. \A x \in P : w[x] \in Int /\ v[x] = w[x]
  BY RestNat DEF Rests, Remaining
<1>4. \A x \in T \ P : v[x] = 0
  OBVIOUS
<1>5. \A x \in T : Need[x] \in Int /\ v[x] \in Int /\ Need[x] <= v[x]
  BY RestNat DEF Need, NeedOf
<1> HIDE DEF w, P, T, v
<1>6. Total(v, T) = Total(w, P) /\ Total(v, T) \in Int
  BY <1>2, <1>3, <1>4, TotalWithin
<1>7. Total(Need, T) <= Total(v, T) /\ Total(Need, T) \in Int
  BY <1>2, <1>5, TotalLe
<1> QED
  BY <1>1, <1>2, <1>6, <1>7, RestSumIsTotal DEF w, T

\* What a step must leave of a task that is none of its business.
InoKept(u) ==
    job'[u].ino # NoTask => /\ job'[u].ino = job[u].ino
                            /\ job'[u].file = job[u].file /\ job'[u].files = job[u].files

\* A step that closes and unlinks frees space.
LEMMA UsedShrinks ==
    ASSUME Base, Base', data' = data,
           \A p \in Dirs \X Files : link'[p] \in {link[p], NoTask},
           \A u \in Tasks : InoKept(u)
    PROVE  Used' <= Used
<1>1. \A i \in Tasks \X Files : i \in Live' => i \in Live
  <2> SUFFICES ASSUME NEW i \in Tasks \X Files, i \in Live' PROVE Linked(i) \/ Opened(i)
    BY DEF Live
  <2>1. i[1] # NoTask /\ i[2] \in Files /\ (Linked(i)' \/ Opened(i)')
    BY DownloadsAssumption DEF Live
  <2>2. Linked(i)' => Linked(i)
    BY <2>1 DEF Linked
  <2>3. Opened(i)' => Opened(i)
    BY <2>1 DEF Opened, File, InoKept
  <2> QED
    BY <2>1, <2>2, <2>3
<1>2. \A i \in Tasks \X Files : Held[i] \in Int /\ Held'[i] \in Int /\ Held'[i] <= Held[i]
  <2>1. HeldCounts /\ HeldCounts'
    BY HeldNat, HeldNatPrime DEF Base
  <2>2. \A i \in Tasks \X Files : Cardinality(data'[i]) = Cardinality(data[i])
    OBVIOUS
  <2> QED
    BY <1>1, <2>1, <2>2 DEF HeldCounts
<1>3. Used = Total(Held, Tasks \X Files)
  BY UsedIsHeld DEF Base, UsedHeld
<1>4. Used' = Total(Held', Tasks \X Files)
  BY UsedIsHeldPrime DEF Base, UsedHeld
<1> QED
  BY <1>2, <1>3, <1>4, LiveFinite, TotalLe

\* So does File::create, which empties what it finds.
LEMMA UsedOpens ==
    ASSUME Base, Base', NEW t \in Tasks, Turn(t), Opens(t)
    PROVE  Used' <= Used
<1> DEFINE i0 == <<Target(t), File(t)>>
<1>1. /\ i0 \in Tasks \X Files /\ Path(t) \in Dirs \X Files
      /\ Path(t) = <<Dir(t), File(t)>> /\ File(t)' = File(t)
  BY FileShape DEF Opens, Turn, Kept, File
<1>2. \A u \in Tasks : u # t => job'[u] = job[u]
  BY TaskShape DEF Turn
<1>3. \A i \in Tasks \X Files : i \in Live' => i = i0 \/ i \in Live
  <2> SUFFICES ASSUME NEW i \in Tasks \X Files, i \in Live', i # i0
               PROVE  Linked(i) \/ Opened(i)
    BY DEF Live
  <2>1. i = <<i[1], i[2]>> /\ i[1] \in Tasks /\ i[2] \in Files
    OBVIOUS
  <2>2. ASSUME NEW r \in Dirs, link'[<<r, i[2]>>] = i[1] PROVE link[<<r, i[2]>>] = i[1]
    <3>1. CASE <<r, i[2]>> = Path(t)
      <4>1. i[2] = File(t) /\ i[1] = Target(t)
        BY <1>1, <2>2, <3>1, RestType DEF Opens
      <4> QED
        BY <2>1, <4>1
    <3>2. CASE <<r, i[2]>> # Path(t)
      BY <2>1, <2>2, <3>2, RestType DEF Opens
    <3> QED
      BY <3>1, <3>2
  <2>3. ASSUME NEW u \in Tasks, job'[u].ino = i[1], File(u)' = i[2]
        PROVE  job[u].ino = i[1] /\ File(u) = i[2]
    <3>1. u # t
      BY <1>1, <2>1, <2>3 DEF Opens
    <3> QED
      BY <1>2, <2>3, <3>1 DEF File
  <2>4. Linked(i)' \/ Opened(i)'
    BY DEF Live
  <2> QED
    BY <2>2, <2>3, <2>4 DEF Linked, Opened
<1>4. \A i \in Tasks \X Files : Held[i] \in Int /\ Held'[i] \in Int /\ Held'[i] <= Held[i]
  <2>1. HeldCounts /\ HeldCounts'
    BY HeldNat, HeldNatPrime DEF Base
  <2>2. data'[i0] = {} /\ \A i \in Tasks \X Files : i # i0 => data'[i] = data[i]
    BY <1>1, RestType DEF Opens
  <2>3. Cardinality(data'[i0]) = 0
    BY <2>2, FS_EmptySet
  <2> HIDE DEF i0
  <2>4. Held'[i0] <= Held[i0]
    BY <1>1, <2>1, <2>3 DEF HeldCounts
  <2>5. ASSUME NEW i \in Tasks \X Files, i # i0 PROVE Held'[i] <= Held[i]
    <3>1. Cardinality(data'[i]) = Cardinality(data[i]) /\ (i \in Live' => i \in Live)
      BY <1>3, <2>2, <2>5
    <3> QED
      BY <2>1, <3>1 DEF HeldCounts
  <2> QED
    BY <2>1, <2>4, <2>5 DEF HeldCounts
<1>5. Used = Total(Held, Tasks \X Files)
  BY UsedIsHeld DEF Base, UsedHeld
<1>6. Used' = Total(Held', Tasks \X Files)
  BY UsedIsHeldPrime DEF Base, UsedHeld
<1> QED
  BY <1>4, <1>5, <1>6, LiveFinite, TotalLe

\* A chunk takes one unit, or none when it overwrites another task's.
LEMMA UsedWrites ==
    ASSUME Base, Base', NEW t \in Tasks, Turn(t), Writes(t), Lands(t),
           \A u \in Tasks : InoKept(u)
    PROVE  Used' <= Used + 1
<1> DEFINE i0 == <<job[t].ino, File(t)>>
           c == job[t].pos + 1
<1>1. i0 \in Tasks \X Files
  BY FileShape, TaskShape DEF Writes, InPhase
<1>2. \A i \in Tasks \X Files : i \in Live' => i \in Live
  <2> SUFFICES ASSUME NEW i \in Tasks \X Files, i \in Live' PROVE Linked(i) \/ Opened(i)
    BY DEF Live
  <2>1. i[1] # NoTask /\ (Linked(i)' \/ Opened(i)') /\ link' = link
    BY DownloadsAssumption DEF Live, Writes
  <2>2. Linked(i)' => Linked(i)
    BY <2>1 DEF Linked
  <2>3. Opened(i)' => Opened(i)
    BY <2>1 DEF Opened, File, InoKept
  <2> QED
    BY <2>1, <2>2, <2>3
<1>3. /\ data'[i0] = data[i0] \union {c}
      /\ \A i \in Tasks \X Files : i # i0 => data'[i] = data[i]
  BY <1>1, RestType DEF Lands
<1>4. Cardinality(data'[i0]) <= Cardinality(data[i0]) + 1
  <2> HIDE DEF i0, c
  <2>1. IsFiniteSet(data[i0]) /\ Cardinality(data[i0]) \in Nat
    BY <1>1, ChunksFinite DEF Base
  <2>2. Cardinality(data[i0] \union {c}) \in {Cardinality(data[i0]), Cardinality(data[i0]) + 1}
    BY <2>1, FS_AddElement
  <2> QED
    BY <1>3, <2>1, <2>2
<1>5. HeldCounts /\ HeldCounts'
  BY HeldNat, HeldNatPrime DEF Base
<1> HIDE DEF i0, c
<1>6. ASSUME NEW i \in Tasks \X Files, i # i0 PROVE Held'[i] <= Held[i]
  <2>1. Cardinality(data'[i]) = Cardinality(data[i])
    BY <1>3, <1>6
  <2> QED
    BY <1>2, <1>5, <2>1 DEF HeldCounts
<1>7. Held'[i0] <= Held[i0] + 1
  BY <1>1, <1>2, <1>4, <1>5 DEF HeldCounts
<1>8. \A i \in Tasks \X Files : Held[i] \in Int /\ Held'[i] \in Int
  BY <1>5 DEF HeldCounts
<1>9. Used = Total(Held, Tasks \X Files)
  BY UsedIsHeld DEF Base, UsedHeld
<1>10. Used' = Total(Held', Tasks \X Files)
  BY UsedIsHeldPrime DEF Base, UsedHeld
<1> QED
  BY <1>1, <1>6, <1>7, <1>8, <1>9, <1>10, LiveFinite, TotalOne

\* The rest of what a step leaves alone.
Counted(u) == job[u].at = "count" => Used <= job[u].used + missed

CountKept(u) ==
    job'[u].at = "count" => \/ Used <= job'[u].used + missed'
                            \/ job[u].at = "count" /\ job'[u].used = job[u].used

Untouched(u) == CountKept(u) /\ (job[u].blind => job'[u].blind)

LEMMA OtherUntouched ==
    ASSUME NEW u \in Tasks, job'[u] = job[u]
    PROVE  Untouched(u) /\ InoKept(u) /\ (dl'[u] = dl[u] => NeedOf(u)' = NeedOf(u))
  BY DEF Untouched, InoKept, CountKept, NeedOf, Admitted, Downloading, Remaining

\* A task that is not about to write, or not shown as Downloading, needs nothing.
LEMMA NeedsNothing ==
    ASSUME NEW u, job'[u].at \in {"none", "insert", "list", "df", "count", "end"}
                  \/ dl'[u].status # "Downloading"
    PROVE  NeedOf(u)' = 0
  BY DEF NeedOf, Admitted, Downloading

LEMMA NeedsTheSame ==
    ASSUME NEW u, dl'[u] = dl[u], Admitted(u), Admitted(u)'
    PROVE  NeedOf(u)' = NeedOf(u)
  BY DEF NeedOf, Downloading, Remaining

\* A step that lands no chunk and admits no one: what the task awaits can only
\* fall, and what df misses is counted.
Calm(t) ==
    /\ Untouched(t) /\ missed' >= missed /\ NeedOf(t)' <= NeedOf(t)
    /\ InoKept(t) \/ Opens(t)

LEMMA EndCalm ==
    ASSUME Base, NEW t \in Tasks, EndTurn(t), missed' = missed PROVE Calm(t)
<1>1. NeedOf(t)' = 0 /\ NeedOf(t) \in Nat /\ missed \in Nat
  BY NeedsNothing, RestNat, RestType DEF EndTurn
<1> QED
  BY <1>1 DEF EndTurn, Calm, Untouched, InoKept, CountKept

Blindly(t) ==
    /\ Untouched(t) /\ InoKept(t) /\ missed' = missed /\ job'[t].blind
    /\ UNCHANGED <<link, data>>

Admits(t) ==
    /\ Untouched(t) /\ InoKept(t) /\ missed' = missed
    /\ job[t].at = "count" /\ job'[t].at = "open" /\ dl'[t] = dl[t]
    /\ UNCHANGED <<link, data>> /\ Fits(job[t].used, Required(t))

Chunk(t) ==
    /\ Untouched(t) /\ InoKept(t) /\ Writes(t) /\ Lands(t) /\ job'[t].at # "count"
    /\ Downloading(t) => NeedOf(t)' = NeedOf(t) - 1
    /\ ~Downloading(t) => NeedOf(t)' = NeedOf(t)

LEMMA SpaceWrite ==
    ASSUME Base, NEW t \in Tasks, WriteChunk(t), ~Fail(t), ~Told(t)
    PROVE  (Lands(t) => Chunk(t)) /\ (Misses(t) => Calm(t)) /\ (Lands(t) \/ Misses(t))
<1>1. Writes(t)
  BY WriteShape DEF InFile, Writes, Lands, Misses
<1>2. job'[t].at \in {"check", "open", "register"}
  BY WriteShape DEF InFile
<1>3. InoKept(t)
  BY WriteShape DEF InFile, InoKept, Turn, Kept
<1>4. Untouched(t)
  BY <1>2, <1>3, WriteShape DEF Untouched, CountKept
<1>5. Admitted(t) /\ Admitted(t)'
  BY <1>2, WriteShape DEF Admitted
<1>6. /\ dl'[t].progress = dl[t].progress + 1 /\ dl'[t].total = dl[t].total
      /\ dl'[t].status = dl[t].status
      /\ dl[t].total \in Nat /\ dl[t].progress \in Nat
  BY WriteShape, TaskShape DEF Entries
<1>7. Downloading(t)' <=> Downloading(t)
  BY <1>6 DEF Downloading
<1>8. Remaining(t)' = Remaining(t) - 1
  BY <1>6 DEF Remaining
<1>9. /\ Downloading(t) => NeedOf(t)' = NeedOf(t) - 1
      /\ ~Downloading(t) => NeedOf(t)' = NeedOf(t)
  BY <1>5, <1>7, <1>8 DEF NeedOf
<1> QED
  <2>1. NeedOf(t) \in Nat /\ missed \in Nat /\ (Lands(t) \/ Misses(t))
    BY RestNat, RestType, WriteShape
  <2>2. Lands(t) => Chunk(t)
    BY <1>1, <1>2, <1>3, <1>4, <1>9 DEF Chunk
  <2>3. Misses(t) => Calm(t)
    BY <1>3, <1>4, <1>9, <2>1 DEF Calm, Misses
  <2> QED
    BY <2>1, <2>2, <2>3

LEMMA SpaceTask ==
    ASSUME Base, NEW t \in Tasks, TaskStep(t)
    PROVE  Calm(t) \/ Blindly(t) \/ Admits(t) \/ Chunk(t)
<1> USE DEF Calm, Blindly, Untouched, InoKept, CountKept
<1>0. NeedOf(t) \in Nat /\ missed \in Nat /\ (job[t].at \notin {"check", "write"} => job[t].ino = NoTask)
  BY RestNat, RestType, TaskShape
<1>1. CASE Fail(t) \/ Told(t)
  BY <1>1, FailShape, ToldShape, EndCalm
<1>2. CASE ~Fail(t) /\ ~Told(t)
  <2>1. StartInsert(t) => Calm(t)
    BY <1>0, InsertShape, NeedsNothing DEF StartInsert
  <2>2. ListFiles(t) => Calm(t)
    BY <1>0, <1>2, ListShape, NeedsNothing
  <2>3. AskDf(t) => Calm(t) \/ Blindly(t)
    <3>1. SUFFICES ASSUME AskDf(t) PROVE Calm(t) \/ Blindly(t)
      OBVIOUS
    <3>2. InoKept(t) /\ UNCHANGED <<link, data>>
      BY <1>0, <3>1, DfShape
    <3>3. CASE Asked(t)
      <4>1. NeedOf(t)' = 0
        BY <3>3, NeedsNothing DEF Asked
      <4>2. Used \in Nat /\ job'[t].used \in 0 .. Used
        BY <3>3, UsedIsTotal DEF Base, Asked, Answers
      <4>3. missed' >= missed /\ Used <= job'[t].used + missed'
        <5> DEFINE n == job'[t].used
        <5>1. missed' = missed + (Used - n) /\ n \in 0 .. Used
          BY <3>3, <4>2 DEF Asked
        <5> HIDE DEF n
        <5> QED
          BY <1>0, <4>2, <5>1 DEF n
      <4> QED
        BY <1>0, <3>2, <3>3, <4>1, <4>3 DEF Asked
    <3>4. CASE NotAsked(t)
      BY <3>2, <3>4 DEF NotAsked
    <3> QED
      BY <3>1, <3>3, <3>4, DfShape
  <2>4. ASSUME CountSpace(t) PROVE Calm(t) \/ Admits(t)
    <3>1. UNCHANGED <<link, data, missed>>
      BY <2>4 DEF CountSpace
    <3>2. CASE SetError(t)
      BY <3>1, <3>2, ErrorShape, EndCalm
    <3>3. CASE ~SetError(t)
      BY <1>0, <2>4, <3>1, <3>3, CountShape DEF Admits
    <3> QED
      BY <3>2, <3>3
  <2>5. OpenFile(t) => Calm(t)
    <3>1. SUFFICES ASSUME OpenFile(t) PROVE Calm(t)
      OBVIOUS
    <3>2. CASE EndTurn(t) /\ missed' = missed
      BY <3>2, EndCalm
    <3>3. CASE Turn(t) /\ dl'[t] = dl[t] /\ job'[t].at = "check" /\ ~EndTurn(t)
      <4>1. NeedOf(t)' = NeedOf(t)
        BY <1>2, <3>1, <3>3, OpenShape, NeedsTheSame DEF Admitted
      <4>2. Opens(t) /\ missed' = missed /\ job'[t].blind = job[t].blind
        BY <1>2, <3>1, <3>3, OpenShape DEF Opens
      <4> QED
        BY <1>0, <3>3, <4>1, <4>2
    <3> QED
      BY <1>2, <3>1, <3>2, <3>3, OpenShape
  <2>6. CheckChunk(t) => Calm(t)
    <3>1. SUFFICES ASSUME CheckChunk(t) PROVE Calm(t)
      OBVIOUS
    <3>2. CASE EndTurn(t)
      BY <3>1, <3>2, CheckShape, EndCalm
    <3>3. CASE ~EndTurn(t)
      <4>1. NeedOf(t)' = NeedOf(t)
        BY <3>1, <3>3, CheckShape, NeedsTheSame DEF Admitted
      <4> QED
        BY <1>0, <3>1, <3>3, <4>1, CheckShape DEF Turn, Kept
    <3> QED
      BY <3>2, <3>3
  <2>7. WriteChunk(t) => Chunk(t) \/ Calm(t)
    BY <1>2, SpaceWrite
  <2>8. RegisterModel(t) => Calm(t)
    <3>1. SUFFICES ASSUME RegisterModel(t) PROVE Calm(t)
      OBVIOUS
    <3>2. NeedOf(t)' = NeedOf(t)
      BY <1>2, <3>1, RegisterShape, NeedsTheSame DEF Admitted
    <3> QED
      BY <1>0, <1>2, <3>1, <3>2, RegisterShape
  <2>9. Complete(t) => Calm(t)
    BY CompleteShape, EndCalm
  <2> HIDE DEF Calm, Blindly
  <2> QED
    BY <2>1, <2>2, <2>3, <2>4, <2>5, <2>6, <2>7, <2>8, <2>9, Zenon DEF TaskStep
<1> QED
  BY <1>1, <1>2

\* Steps that free space, or none.
Frees ==
    data' = data /\ \A p \in Dirs \X Files : link'[p] \in {link[p], NoTask}

LEMMA FreesTask ==
    ASSUME Base, NEW t \in Tasks, TaskStep(t)
    PROVE  Opens(t) \/ Frees \/ Chunk(t)
<1>1. CASE Fail(t) \/ Told(t)
  BY <1>1, FailShape, ToldShape DEF Frees
<1>2. CASE Unlinks(t)
  BY <1>2, RestType DEF Unlinks, Frees
<1>3. CASE Leaves(t)
  BY <1>3 DEF Leaves, Frees
<1>4. CASE Writes(t) /\ ~Fail(t) /\ ~Told(t)
  <2>1. WriteChunk(t)
    BY <1>4 DEF Writes, TaskStep, StartInsert, ListFiles, AskDf, CountSpace, OpenFile,
                CheckChunk, RegisterModel, Complete
  <2>2. Misses(t) => Frees
    BY <1>4 DEF Writes, Misses, Frees
  <2> QED
    BY <1>4, <2>1, <2>2, SpaceWrite
<1> QED
  BY <1>1, <1>2, <1>3, <1>4, FileSteps

Informed == \A t \in Tasks : ~job[t].blind
Bounded == Informed => Used + Awaited < Limit + missed

LEMMA SpaceIsBounded == SpaceBounded <=> Bounded
  BY Zenon DEF SpaceBounded, Bounded, Informed, Awaited

Asking == \A u \in Tasks : Counted(u)

LEMMA DfIsSpace == DfHolds <=> Bounded /\ Asking
  BY SpaceIsBounded DEF DfHolds, Asking, Counted
LEMMA DfIsSpacePrime == (DfHolds <=> Bounded /\ Asking)'
  BY DfIsSpace, PTL

LEMMA SpaceNumbers ==
    ASSUME Base
    PROVE  /\ Used \in Nat /\ missed \in Nat /\ Limit \in Nat /\ Awaited \in Int
           /\ Awaited = Total(Need, Tasks)
           /\ \A u \in Tasks : NeedOf(u) \in Nat /\ Need[u] = NeedOf(u) /\ job[u].used \in Nat
  BY UsedIsHeld, AwaitedIsNeed, RestNat, RestType, TaskShape, DownloadsAssumption
     DEF Base, UsedHeld, AwaitedNeed, Need, Jobs

LEMMA SpaceNumbersPrime ==
    ASSUME Base'
    PROVE  /\ Used' \in Nat /\ missed' \in Nat /\ Awaited' \in Int
           /\ Awaited' = Total(Need', Tasks)
           /\ \A u \in Tasks : Need'[u] = NeedOf(u)' /\ job'[u].used \in Nat
  BY UsedIsHeldPrime, AwaitedIsNeedPrime DEF Base, TypeOK, UsedHeld, AwaitedNeed, Need

\* With no chunk written and no one admitted the bound stays.
LEMMA SpaceCalm ==
    ASSUME Base, Base', Bounded, Asking, Used' <= Used, missed' >= missed,
           \A u \in Tasks : Untouched(u) /\ NeedOf(u)' \in Nat /\ NeedOf(u)' <= NeedOf(u)
    PROVE  Bounded' /\ Asking'
<1> USE SpaceNumbers, SpaceNumbersPrime
<1>1. Awaited' <= Awaited
  <2>1. \A u \in Tasks : Need'[u] \in Int /\ Need[u] \in Int /\ Need'[u] <= Need[u]
    OBVIOUS
  <2> QED
    BY <2>1, LiveFinite, TotalLe
<1>2. Informed' => Informed
  BY DEF Informed, Untouched
<1>3. Bounded'
  BY <1>1, <1>2 DEF Bounded
<1>4. Asking'
  BY DEF Asking, Counted, Untouched, CountKept
<1> QED
  BY <1>3, <1>4

LEMMA SpaceBlind ==
    ASSUME Base, Base', Asking, Used' <= Used, missed' = missed, NEW t \in Tasks,
           job'[t].blind, \A u \in Tasks : Untouched(u)
    PROVE  Bounded' /\ Asking'
<1> USE SpaceNumbers, SpaceNumbersPrime
<1>1. Bounded'
  BY DEF Bounded, Informed
<1>2. Asking'
  BY DEF Asking, Counted, Untouched, CountKept
<1> QED
  BY <1>1, <1>2

\* An admission counts what all the admitted downloads have yet to write.
LEMMA SpaceAdmit ==
    ASSUME Base, Base', Asking, NEW t \in Tasks, Admits(t), Used' <= Used,
           \A u \in Tasks : Untouched(u),
           \A u \in Tasks \ {t} : NeedOf(u)' = NeedOf(u)
    PROVE  Bounded' /\ Asking'
<1> USE SpaceNumbers, SpaceNumbersPrime
<1> DEFINE T == Tasks \ {t}
<1>1. /\ dl[t].total \in Nat /\ dl[t].progress = 0 /\ dl'[t] = dl[t] /\ missed' = missed
      /\ job[t].used + (dl[t].total + InFlight(t)) < Limit
      /\ Used <= job[t].used + missed
  BY TaskShape DEF Admits, Fits, Required, InPhase, Entries, Asking, Counted
<1>2. NeedOf(t)' \in Int /\ NeedOf(t)' <= dl[t].total
  BY <1>1 DEF NeedOf, Remaining
<1>3. Total(Need', T) = Total(Need, T)
  <2>1. IsFiniteSet(T)
    BY LiveFinite, FS_Subset
  <2>2. \A x \in T : Need'[x] = Need[x]
    OBVIOUS
  <2> HIDE DEF T
  <2> QED
    BY <2>1, <2>2, TotalSame
<1>4. Total(Need', Tasks) = Need'[t] + Total(Need', T)
  <2>1. \A x \in Tasks : Need'[x] \in Int
    BY <1>2
  <2> QED
    BY <2>1, LiveFinite, TotalRemove
<1>5. Total(Need, T) \in Int /\ InFlight(t) \in Int /\ Total(Need, T) <= InFlight(t)
  BY InFlightCovers
<1>6. Bounded'
  <2>1. Awaited' <= dl[t].total + InFlight(t)
    BY <1>1, <1>2, <1>3, <1>4, <1>5
  <2>2. job[t].used \in Nat
    OBVIOUS
  <2>3. Used' + Awaited' < Limit + missed'
    BY <1>1, <1>5, <2>1, <2>2
  <2> QED
    BY <2>3 DEF Bounded
<1>7. Asking'
  BY <1>1 DEF Asking, Counted, Untouched, CountKept
<1> QED
  BY <1>6, <1>7

\* A chunk is taken from what was awaited, or is missed.
LEMMA SpaceChunk ==
    ASSUME Base, Base', Bounded, Asking, NEW t \in Tasks, Chunk(t), Turn(t), Used' <= Used + 1,
           \A u \in Tasks : Untouched(u),
           \A u \in Tasks \ {t} : job'[u] = job[u] /\ NeedOf(u)' = NeedOf(u)
    PROVE  Bounded' /\ Asking'
<1> USE SpaceNumbers, SpaceNumbersPrime
<1>1. missed' = (IF Unseen(t) THEN missed + 1 ELSE missed) /\ job'[t].at # "count"
  BY DEF Chunk, Lands
<1>2. \A u \in Tasks : Need[u] \in Int /\ Need'[u] \in Int
  BY DEF Chunk
<1>3. \A x \in Tasks \ {t} : Need'[x] <= Need[x]
  BY <1>2
<1>4. Informed' => Informed
  BY DEF Informed, Untouched
<1>5. CASE Downloading(t)
  <2>1. Need'[t] <= Need[t] + (-1)
    BY <1>5 DEF Chunk
  <2>2. Awaited' <= Awaited + (-1)
    BY <1>2, <1>3, <2>1, LiveFinite, TotalOne
  <2>3. Bounded'
    BY <1>1, <1>4, <2>2 DEF Bounded
  <2> QED
    <3>1. ASSUME NEW u \in Tasks PROVE Counted(u)'
      <4>1. CASE u = t
        BY <1>1, <4>1 DEF Counted
      <4>2. CASE u # t
        BY <1>1, <4>2 DEF Counted, Asking, Unseen
      <4> QED
        BY <4>1, <4>2
    <3> QED
      BY <2>3, <3>1 DEF Asking
<1>6. CASE ~Downloading(t)
  <2>1. \A x \in Tasks : Need'[x] <= Need[x]
    BY <1>2, <1>3, <1>6 DEF Chunk
  <2>2. Awaited' <= Awaited /\ missed' = missed + 1
    BY <1>1, <1>2, <1>6, <2>1, LiveFinite, TotalLe DEF Unseen
  <2>3. Bounded'
    BY <1>4, <2>2 DEF Bounded
  <2>4. ASSUME NEW u \in Tasks PROVE Counted(u)'
    <3>1. CASE u = t
      BY <1>1, <3>1 DEF Counted
    <3>2. CASE u # t
      BY <2>2, <3>2 DEF Counted, Asking
    <3> QED
      BY <3>1, <3>2
  <2> QED
    BY <2>3, <2>4 DEF Asking
<1> QED
  BY <1>5, <1>6

LEMMA SpaceTaskNext ==
    ASSUME Base, Base', Bounded, Asking, NEW t \in Tasks, TaskStep(t)
    PROVE  Bounded' /\ Asking'
<1>1. Turn(t) /\ \A u \in Tasks \ {t} : job'[u] = job[u] /\ dl'[u] = dl[u]
  BY TaskTurn, TaskShape DEF Turn
<1>2. \A u \in Tasks \ {t} : Untouched(u) /\ InoKept(u) /\ NeedOf(u)' = NeedOf(u)
  BY <1>1, OtherUntouched
<1>3. ASSUME Untouched(t) PROVE \A u \in Tasks : Untouched(u)
  BY <1>2, <1>3
<1>4. ASSUME InoKept(t) PROVE \A u \in Tasks : InoKept(u)
  BY <1>2, <1>4
<1>5. (InoKept(t) /\ Frees) \/ Opens(t) => Used' <= Used
  <2>1. InoKept(t) /\ Frees => Used' <= Used
    BY <1>4, UsedShrinks DEF Frees
  <2>2. Opens(t) => Used' <= Used
    BY <1>1, UsedOpens
  <2> QED
    BY <2>1, <2>2
<1>6. CASE Chunk(t)
  <2>1. Used' <= Used + 1
    BY <1>1, <1>4, <1>6, UsedWrites DEF Chunk
  <2> QED
    BY <1>1, <1>2, <1>3, <1>6, <2>1, SpaceChunk DEF Chunk
<1>7. CASE ~Chunk(t)
  <2>1. Opens(t) \/ Frees
    BY <1>7, FreesTask
  <2>2. CASE Calm(t)
    <3>1. Used' <= Used /\ missed' >= missed
      BY <1>5, <2>1, <2>2 DEF Calm
    <3>2. \A u \in Tasks : Untouched(u) /\ NeedOf(u) \in Nat /\ NeedOf(u)' <= NeedOf(u)
      BY <1>2, <2>2, RestNat DEF Calm
    <3>3. \A u \in Tasks : NeedOf(u)' \in Nat
      BY RestNatPrime
    <3> QED
      BY <3>1, <3>2, <3>3, SpaceCalm
  <2>3. CASE Blindly(t)
    <3>1. InoKept(t) /\ Frees /\ missed' = missed /\ job'[t].blind
      BY <2>3 DEF Blindly, Frees
    <3> QED
      BY <1>3, <1>5, <2>3, <3>1, SpaceBlind DEF Blindly
  <2>4. CASE Admits(t)
    <3>1. InoKept(t) /\ Frees
      BY <2>4 DEF Admits, Frees
    <3> QED
      BY <1>2, <1>3, <1>5, <2>4, <3>1, SpaceAdmit DEF Admits
  <2> QED
    BY <1>7, <2>2, <2>3, <2>4, SpaceTask
<1> QED
  BY <1>6, <1>7

\* The other steps change no job but to end it, and take no space.
LEMMA SpaceOthers ==
    ASSUME Base, Base', Bounded, Asking, Frees, missed' = missed,
           \A u \in Tasks : /\ Untouched(u) /\ InoKept(u)
                            /\ NeedOf(u)' = NeedOf(u) \/ NeedOf(u)' = 0
    PROVE  Bounded' /\ Asking'
<1>1. Used' <= Used
  BY UsedShrinks DEF Frees
<1>2. \A u \in Tasks : NeedOf(u)' \in Nat /\ NeedOf(u)' <= NeedOf(u)
  BY RestNat
<1>3. missed' >= missed
  BY RestType
<1> QED
  BY <1>1, <1>2, <1>3, SpaceCalm

LEMMA SpaceNext == Base /\ Base' /\ Bounded /\ Asking /\ [Next]_vars => Bounded' /\ Asking'
<1> SUFFICES ASSUME Base, Base', Bounded, Asking, [Next]_vars PROVE Bounded' /\ Asking'
  OBVIOUS
<1>1. ASSUME NEW t \in Tasks, StartCheck(t) PROVE Bounded' /\ Asking'
  <2>1. Frees /\ missed' = missed /\ dl' = dl
    BY <1>1 DEF StartCheck, Frees
  <2>2. ASSUME NEW u \in Tasks
        PROVE  /\ Untouched(u) /\ InoKept(u)
               /\ NeedOf(u)' = NeedOf(u) \/ NeedOf(u)' = 0
    <3>1. CASE u = t
      <4>1. NeedOf(t)' = 0
        BY <1>1, StartsOwn, NeedsNothing
      <4>2. ~job[t].blind /\ job'[t].at = "insert" /\ job'[t].ino = NoTask
        BY <1>1, StartsOwn, TaskShape DEF InPhase, Begun
      <4> QED
        BY <3>1, <4>1, <4>2 DEF Untouched, InoKept, CountKept
    <3>2. CASE u # t
      <4>1. /\ job'[u].at = job[u].at /\ job'[u].ino = job[u].ino /\ job'[u].file = job[u].file
            /\ job'[u].files = job[u].files /\ job'[u].used = job[u].used
            /\ job'[u].blind = job[u].blind
        BY <1>1, <3>2, StartsBeside
      <4> QED
        BY <2>1, <4>1 DEF Untouched, InoKept, CountKept, NeedOf, Admitted, Downloading, Remaining
    <3> QED
      BY <3>1, <3>2
  <2> QED
    BY <2>1, <2>2, SpaceOthers
<1>2. ASSUME NEW t \in Tasks, CancelDownload(t) PROVE Bounded' /\ Asking'
  <2>1. Frees /\ missed' = missed
    BY <1>2, CancelledShape DEF Frees
  <2>2. ASSUME NEW u \in Tasks
        PROVE  /\ Untouched(u) /\ InoKept(u)
               /\ NeedOf(u)' = NeedOf(u) \/ NeedOf(u)' = 0
    <3>1. CASE u = t
      <4>1. NeedOf(t)' = 0
        BY <1>2, CancelledShape, NeedsNothing
      <4> QED
        BY <1>2, <3>1, <4>1, CancelledShape DEF Untouched, InoKept, CountKept
    <3>2. CASE u # t
      BY <1>2, <3>2, CancelledShape, TaskShape, OtherUntouched
    <3> QED
      BY <3>1, <3>2
  <2> QED
    BY <2>1, <2>2, SpaceOthers
<1>3. ASSUME Restart PROVE Bounded' /\ Asking'
  <2>1. Frees /\ missed' = missed
    BY <1>3 DEF Restart, Frees
  <2>2. ASSUME NEW u \in Tasks
        PROVE  /\ Untouched(u) /\ InoKept(u)
               /\ NeedOf(u)' = NeedOf(u) \/ NeedOf(u)' = 0
    <3>1. job'[u].ino = NoTask /\ job'[u].at \in {"none", "end"}
          /\ (job[u].blind => job'[u].blind)
      BY <1>3, RestartShape, TaskShape DEF InPhase
    <3>2. NeedOf(u)' = 0
      BY <3>1, NeedsNothing
    <3> QED
      BY <3>1, <3>2 DEF Untouched, InoKept, CountKept
  <2> QED
    BY <2>1, <2>2, SpaceOthers
<1>4. ASSUME (\E m \in models : DeleteRow(m)) \/ DeleteFiles \/ UNCHANGED vars
      PROVE  Bounded' /\ Asking'
  <2>1. Frees /\ missed' = missed /\ job' = job /\ dl' = dl
    BY <1>4 DEF DeleteRow, DeleteFiles, vars, Frees
  <2> QED
    BY <2>1, OtherUntouched, SpaceOthers
<1> QED
  BY <1>1, <1>2, <1>3, <1>4, SpaceTaskNext DEF Next

LEMMA SpaceInit == Init => Bounded /\ Asking
<1> SUFFICES ASSUME Init PROVE Bounded /\ Asking
  OBVIOUS
<1>1. Base
  BY BaseInit
<1>2. \A u \in Tasks : job[u].at = "none" /\ NeedOf(u) = 0
  BY UnusedIsJob DEF Init, NeedOf, Admitted
<1>3. Used <= 0 /\ Awaited <= 0
  <2>1. \A i \in Tasks \X Files : Held[i] \in Int /\ Held[i] <= 0
    <3>1. \A i \in Tasks \X Files : Cardinality(data[i]) = 0
      BY FS_EmptySet DEF Init
    <3> QED
      BY <3>1 DEF Held
  <2> DEFINE z(S) == [x \in S |-> 0]
  <2>2. ASSUME NEW S, IsFiniteSet(S) PROVE Total(z(S), S) = 0
    <3>1. \A x \in {} : z({})[x] \in Int /\ z(S)[x] = z({})[x]
      OBVIOUS
    <3>2. Total(z(S), S) = Total(z({}), {})
      BY <2>2, TotalWithin
    <3> QED
      BY <3>2, TotalEmpty
  <2>3. Total(Held, Tasks \X Files) <= Total(z(Tasks \X Files), Tasks \X Files)
    BY <2>1, LiveFinite, TotalLe
  <2>4. Total(Need, Tasks) <= Total(z(Tasks), Tasks)
    BY <1>2, LiveFinite, TotalLe DEF Need
  <2> HIDE DEF z
  <2> QED
    BY <1>1, <2>2, <2>3, <2>4, LiveFinite, UsedIsHeld, SpaceNumbers DEF Base, UsedHeld
<1>4. Limit > 0
  BY DownloadsAssumption
<1> QED
  BY <1>1, <1>2, <1>3, <1>4, SpaceNumbers DEF Bounded, Asking, Counted

\* What is used and what the admitted downloads have yet to write stay below
\* the limit, but for the chunks no space check could see: df may miss what is
\* on its way to the disk
\* (validate_disk_space, run_download of api/hf.rs).
THEOREM SpaceStaysBounded == Spec => []SpaceBounded
<1>1. Base /\ Base' /\ DfHolds /\ [Next]_vars => DfHolds'
  BY SpaceNext, DfIsSpace, DfIsSpacePrime
<1>2. Init => DfHolds
  BY SpaceInit, DfIsSpace
<1>3. DfHolds => SpaceBounded
  BY DEF DfHolds
<1> QED
  BY <1>1, <1>2, <1>3, DownloadsInPhase, PTL DEF Spec

-----------------------------------------------------------------------------
(* The reader.                                                             *)

\* The file is one of the headers, which are sequences of well-formed pairs.
Written ==
    /\ G!IsSequence(entries)
    /\ \A i \in DOMAIN entries : G!WellFormed(entries[i].value)

LEMMA WrittenType ==
    ASSUME Written
    PROVE  Len(entries) \in Nat /\ DOMAIN entries = 1 .. Len(entries)
  BY DEF Written, G!IsSequence

\* The cells of a pair: its key, its tag and the value, or an array's type,
\* count and elements.
CellIs(c, width, value) == c = [w |-> width, v |-> value]

PairIs(s, key, value) ==
    /\ s \in Seq({s[k] : k \in DOMAIN s}) /\ Len(s) \in Nat
    /\ CellIs(s[1], "string", key) /\ CellIs(s[2], "4", value.t)
    /\ value.t # G!Array => Len(s) = 3 /\ CellIs(s[3], G!Width(value.t), value.v)
    /\ value.t = G!Array =>
          /\ Len(value.elems) \in Nat /\ DOMAIN value.elems = 1 .. Len(value.elems)
          /\ Len(s) = 4 + Len(value.elems)
          /\ CellIs(s[3], "4", value.of) /\ CellIs(s[4], "8", Len(value.elems))
          /\ \A j \in 1 .. Len(value.elems) :
                CellIs(s[4 + j], G!Width(value.of), value.elems[j])

LEMMA ThreeCells ==
    ASSUME NEW a, NEW b, NEW c
    PROVE  <<a>> \o <<b>> \o <<c>> = <<a, b, c>>
<1>1. <<a>> \o <<b>> = <<a, b>>
  <2> DEFINE s == <<a>> \o <<b>>
  <2>1. <<a>> \in Seq({a, b}) /\ <<b>> \in Seq({a, b})
    OBVIOUS
  <2>2. s \in Seq({a, b}) /\ Len(s) = 2 /\ s[1] = a /\ s[2] = b
    BY <2>1
  <2> HIDE DEF s
  <2>3. s = <<a, b>>
    BY <2>2
  <2> QED
    BY <2>3 DEF s
<1>2. <<a, b>> \o <<c>> = <<a, b, c>>
  <2> DEFINE s == <<a, b>> \o <<c>>
  <2>1. <<a, b>> \in Seq({a, b, c}) /\ <<c>> \in Seq({a, b, c})
    OBVIOUS
  <2>2. s \in Seq({a, b, c}) /\ Len(s) = 3 /\ s[1] = a /\ s[2] = b /\ s[3] = c
    BY <2>1
  <2> HIDE DEF s
  <2>3. s = <<a, b, c>>
    BY <2>2
  <2> QED
    BY <2>3 DEF s
<1> QED
  BY <1>1, <1>2

LEMMA PairCells ==
    ASSUME Written, NEW i \in DOMAIN entries
    PROVE  PairIs(G!Pair(i), entries[i].key, entries[i].value)
<1> DEFINE key == entries[i].key
           value == entries[i].value
           a == [w |-> "string", v |-> key]
           b == [w |-> "4", v |-> value.t]
<1>1. G!WellFormed(value)
  BY DEF Written
<1>2. CASE value.t # G!Array
  <2> DEFINE c == [w |-> G!Width(value.t), v |-> value.v]
  <2>1. G!Pair(i) = <<a>> \o <<b>> \o <<c>>
    BY <1>2 DEF G!Pair, G!Cells, G!Cell
  <2> HIDE DEF a, b, c
  <2>2. <<a>> \o <<b>> \o <<c>> = <<a, b, c>>
    BY ThreeCells
  <2> DEFINE s == <<a, b, c>>
  <2>3. s \in Seq({s[k] : k \in DOMAIN s}) /\ Len(s) = 3 /\ s[1] = a /\ s[2] = b /\ s[3] = c
    OBVIOUS
  <2> HIDE DEF s
  <2>4. G!Pair(i) = s
    BY <2>1, <2>2 DEF s
  <2> QED
    BY <1>2, <2>3, <2>4 DEF PairIs, CellIs, a, b, c
<1>3. CASE value.t = G!Array
  <2> DEFINE c == [w |-> "4", v |-> value.of]
             d == [w |-> "8", v |-> Len(value.elems)]
             e == [j \in DOMAIN value.elems |-> [w |-> G!Width(value.of), v |-> value.elems[j]]]
  <2>1. G!Pair(i) = <<a>> \o <<b>> \o (<<c>> \o <<d>> \o e)
    BY <1>3 DEF G!Pair, G!Cells, G!Cell
  <2>2. Len(value.elems) \in Nat /\ DOMAIN value.elems = 1 .. Len(value.elems)
    BY <1>1, <1>3 DEF G!WellFormed, G!IsSequence
  <2> DEFINE S == {a, b, c, d} \cup {e[j] : j \in DOMAIN e}
  <2>3. e \in Seq(S) /\ Len(e) = Len(value.elems)
    <3>1. e = [j \in 1 .. Len(value.elems) |-> e[j]]
      BY <2>2
    <3>2. \A j \in 1 .. Len(value.elems) : e[j] \in S
      BY <2>2
    <3> HIDE DEF e, S
    <3> QED
      BY <2>2, <3>1, <3>2
  <2>4. a \in S /\ b \in S /\ c \in S /\ d \in S
    OBVIOUS
  <2>5. \A j \in 1 .. Len(value.elems) : e[j] = [w |-> G!Width(value.of), v |-> value.elems[j]]
    BY <2>2
  <2> HIDE DEF a, b, c, d, e, S
  <2> DEFINE t == <<c>> \o <<d>> \o e
             s == <<a>> \o <<b>> \o t
  <2>6. /\ t \in Seq(S) /\ Len(t) = 2 + Len(e) /\ t[1] = c /\ t[2] = d
        /\ \A j \in 1 .. Len(e) : t[2 + j] = e[j]
    BY <2>2, <2>3, <2>4
  <2>7. /\ s \in Seq(S) /\ Len(s) = 2 + Len(t) /\ s[1] = a /\ s[2] = b
        /\ \A j \in 1 .. Len(t) : s[2 + j] = t[j]
    <3> HIDE DEF t
    <3> QED
      BY <2>4, <2>6
  <2>8. /\ Len(s) = 4 + Len(e) /\ s[3] = c /\ s[4] = d
        /\ \A j \in 1 .. Len(e) : s[4 + j] = e[j]
    <3> HIDE DEF s, t
    <3>1. Len(e) \in Nat
      BY <2>2, <2>3
    <3>2. s[3] = c /\ s[4] = d
      BY <2>6, <2>7, <3>1
    <3>3. ASSUME NEW j \in 1 .. Len(e) PROVE s[4 + j] = e[j]
      <4>1. 2 + j \in 1 .. Len(t) /\ 4 + j = 2 + (2 + j)
        BY <2>6, <3>1
      <4> QED
        BY <2>6, <2>7, <4>1
    <3> QED
      BY <2>6, <2>7, <3>1, <3>2, <3>3
  <2>9. s \in Seq({s[k] : k \in DOMAIN s}) /\ Len(s) \in Nat
    <3> HIDE DEF s
    <3> QED
      BY <2>7
  <2> HIDE DEF s
  <2>10. G!Pair(i) = s
    BY <2>1 DEF s, t
  <2>11. CellIs(s[1], "string", key) /\ CellIs(s[2], "4", value.t)
    BY <2>7 DEF CellIs, a, b
  <2>12. CellIs(s[3], "4", value.of) /\ CellIs(s[4], "8", Len(value.elems))
    BY <2>8 DEF CellIs, c, d
  <2>13. \A j \in 1 .. Len(value.elems) :
            CellIs(s[4 + j], G!Width(value.of), value.elems[j])
    BY <2>3, <2>5, <2>8 DEF CellIs
  <2>14. Len(s) = 4 + Len(value.elems)
    BY <2>3, <2>8
  <2>15. PairIs(s, key, value)
    BY <1>3, <2>2, <2>9, <2>11, <2>12, <2>13, <2>14, Zenon DEF PairIs
  <2> QED
    BY <2>10, <2>15
<1> QED
  BY <1>2, <1>3

Lengths == [i \in DOMAIN entries |-> Len(G!Pair(i))]

LEMMA LengthsType ==
    ASSUME Written, NEW i \in DOMAIN entries
    PROVE  Lengths[i] = Len(G!Pair(i)) /\ Lengths[i] \in Nat /\ Lengths[i] >= 3
<1>1. PairIs(G!Pair(i), entries[i].key, entries[i].value)
  BY PairCells
<1> QED
  BY <1>1 DEF Lengths, PairIs

\* Where a pair starts, as a total.
LEMMA StartIsTotal ==
    ASSUME Written, NEW i \in 1 .. (Len(entries) + 1)
    PROVE  G!Start(i) = 1 + Total(Lengths, 1 .. (i - 1))
<1> DEFINE S == 1 .. (i - 1)
           w == Lengths
           Sized(g) == g = [s \in SUBSET S |->
              IF s = {} THEN 0 ELSE Len(G!Pair(Pick(s))) + g[s \ {Pick(s)}]]
           it == CHOOSE g : Sized(g)
<1>0. IsFiniteSet(S) /\ S \subseteq DOMAIN entries
  <2>1. Len(entries) \in Nat /\ DOMAIN entries = 1 .. Len(entries)
    BY WrittenType
  <2>2. 1 \in Int /\ i - 1 \in Int /\ i - 1 <= Len(entries)
    BY <2>1
  <2>3. IsFiniteSet(S)
    BY <2>2, FS_Interval
  <2> QED
    BY <2>1, <2>2, <2>3
<1>1. ASSUME NEW g PROVE Sized(g) <=> Sums(g, w, S)
  <2>1. ASSUME NEW s \in SUBSET S, s # {} PROVE w[Pick(s)] = Len(G!Pair(Pick(s)))
    BY <1>0, <2>1, PickIn DEF Lengths
  <2> HIDE DEF w, S
  <2>2. [s \in SUBSET S |-> IF s = {} THEN 0 ELSE Len(G!Pair(Pick(s))) + g[s \ {Pick(s)}]]
          = [s \in SUBSET S |-> IF s = {} THEN 0 ELSE w[Pick(s)] + g[s \ {Pick(s)}]]
    BY <2>1
  <2> QED
    BY <2>2 DEF Sums
<1>2. \E g : Sized(g)
  BY <1>0, <1>1, SumsExist
<1>3. Sized(it)
  <2> HIDE DEF Sized
  <2> QED
    BY <1>2
<1>4. G!Start(i) = 1 + it[S]
  BY Zenon DEF G!Start, G!MapThenSumSet, G!MapThenFoldSet, Pick
<1>5. PICK h : Sums(h, w, S) /\ Total(w, S) = h[S]
  BY <1>0, TotalSums
<1>6. Sums(it, w, S)
  BY <1>1, <1>3
<1> HIDE DEF it, w, Sized, S
<1>7. it[S] = h[S]
  BY <1>0, <1>5, <1>6, SumsAgree
<1> QED
  BY <1>4, <1>5, <1>7 DEF w, S

\* Each pair starts where the one before it ends, so that of two pairs the later
\* starts at the end of the earlier or after it.
LEMMA StartFirst == ASSUME Written PROVE G!Start(1) = 1
<1>1. 1 \in 1 .. (Len(entries) + 1) /\ 1 .. (1 - 1) = {}
  BY WrittenType
<1> QED
  BY <1>1, StartIsTotal, TotalEmpty

LEMMA StartNext ==
    ASSUME Written, NEW i \in DOMAIN entries
    PROVE  G!Start(i + 1) = G!Start(i) + Len(G!Pair(i))
<1> DEFINE S == 1 .. i
<1>1. Len(entries) \in Nat /\ DOMAIN entries = 1 .. Len(entries)
  BY WrittenType
<1>2. /\ i \in 1 .. (Len(entries) + 1) /\ i + 1 \in 1 .. (Len(entries) + 1)
      /\ S = 1 .. ((i + 1) - 1) /\ S \ {i} = 1 .. (i - 1) /\ i \in S /\ S \subseteq DOMAIN entries
  BY <1>1
<1>3. IsFiniteSet(S)
  BY <1>1, FS_Interval
<1>4. \A j \in S : Lengths[j] \in Int
  BY <1>2, LengthsType
<1>5. Total(Lengths, S) = Lengths[i] + Total(Lengths, S \ {i}) /\ Total(Lengths, S) \in Int
  <2>1. i \in S
    BY <1>2
  <2> HIDE DEF S
  <2> QED
    BY <1>3, <1>4, <2>1, TotalRemove
<1>6. G!Start(i + 1) = 1 + Total(Lengths, S) /\ G!Start(i) = 1 + Total(Lengths, S \ {i})
  BY <1>2, StartIsTotal
<1>7. Lengths[i] = Len(G!Pair(i)) /\ Lengths[i] \in Nat
  BY LengthsType
<1>8. Total(Lengths, S \ {i}) \in Int
  <2>1. IsFiniteSet(S \ {i}) /\ \A j \in S \ {i} : Lengths[j] \in Nat
    BY <1>2, <1>3, LengthsType, FS_Subset
  <2> HIDE DEF S
  <2> QED
    BY <2>1, TotalNat
<1> HIDE DEF S
<1> QED
  BY <1>5, <1>6, <1>7, <1>8

LEMMA LengthsSplit ==
    ASSUME NEW S, IsFiniteSet(S), NEW T \in SUBSET S, \A k \in S : Lengths[k] \in Int
    PROVE  Total(Lengths, S) = Total(Lengths, T) + Total(Lengths, S \ T)
<1> DEFINE w == Lengths
<1>1. \A k \in S : w[k] \in Int
  OBVIOUS
<1> HIDE DEF w
<1>2. Total(w, S) = Total(w, T) + Total(w, S \ T)
  BY <1>1, TotalSplit
<1> QED
  BY <1>2 DEF w

LEMMA StartLater ==
    ASSUME Written, NEW i \in 1 .. (Len(entries) + 1), NEW j \in 1 .. (Len(entries) + 1), i <= j
    PROVE  G!Start(i) \in Nat \ {0} /\ G!Start(j) \in Nat /\ G!Start(i) <= G!Start(j)
<1> DEFINE S == 1 .. (j - 1)
           T == 1 .. (i - 1)
<1>1. Len(entries) \in Nat /\ DOMAIN entries = 1 .. Len(entries)
  BY WrittenType
<1>2. T \in SUBSET S /\ S \subseteq DOMAIN entries /\ S \ T \subseteq S
  BY <1>1
<1>3. IsFiniteSet(S) /\ IsFiniteSet(T) /\ IsFiniteSet(S \ T)
  <2>1. IsFiniteSet(S)
    BY <1>1, FS_Interval
  <2> HIDE DEF S, T
  <2> QED
    BY <1>2, <2>1, FS_Subset
<1>4. \A k \in S : Lengths[k] \in Nat
  BY <1>2, LengthsType
<1>5. G!Start(j) = 1 + Total(Lengths, S) /\ G!Start(i) = 1 + Total(Lengths, T)
  BY StartIsTotal
<1> HIDE DEF S, T
<1>6. Total(Lengths, S) = Total(Lengths, T) + Total(Lengths, S \ T)
  <2>1. \A k \in S : Lengths[k] \in Int
    BY <1>4
  <2>2. T \in SUBSET S /\ IsFiniteSet(S)
    BY <1>2, <1>3
  <2> QED
    BY <2>1, <2>2, LengthsSplit
<1>7. Total(Lengths, T) \in Nat /\ Total(Lengths, S \ T) \in Nat
  BY <1>2, <1>3, <1>4, TotalNat
<1> QED
  BY <1>5, <1>6, <1>7

\* A cell of the file is one of the pair it lies in.
LEMMA FileCell ==
    ASSUME Written, NEW i \in DOMAIN entries, NEW k \in 1 .. Len(G!Pair(i))
    PROVE  /\ G!Start(i) \in Nat \ {0} /\ G!Start(i) + (k - 1) <= Len(G!File)
           /\ G!File[G!Start(i) + (k - 1)] = G!Pair(i)[k]
<1> DEFINE p == G!Start(i) + (k - 1)
           z == G!Start(Len(entries) + 1) - 1
<1>1. Len(entries) \in Nat /\ DOMAIN entries = 1 .. Len(entries)
  BY WrittenType
<1>2. Len(G!Pair(i)) \in Nat
  BY LengthsType
<1>3. /\ G!Start(i) \in Nat \ {0} /\ G!Start(i + 1) <= z + 1 /\ z \in Nat
      /\ G!Start(i + 1) = G!Start(i) + Len(G!Pair(i))
  <2>1. /\ i \in 1 .. (Len(entries) + 1) /\ i + 1 \in 1 .. (Len(entries) + 1)
        /\ Len(entries) + 1 \in 1 .. (Len(entries) + 1)
        /\ i + 1 <= Len(entries) + 1 /\ i <= i
    BY <1>1
  <2>2. G!Start(i) \in Nat \ {0}
    BY <2>1, StartLater
  <2>3. /\ G!Start(i + 1) \in Nat \ {0} /\ G!Start(Len(entries) + 1) \in Nat
        /\ G!Start(i + 1) <= G!Start(Len(entries) + 1)
    BY <2>1, StartLater
  <2> QED
    BY <2>2, <2>3, StartNext
<1>4. p \in G!Start(i) .. (G!Start(i + 1) - 1) /\ p \in 1 .. z
  BY <1>2, <1>3
<1>5. ASSUME NEW j \in DOMAIN entries, p \in G!Start(j) .. (G!Start(j + 1) - 1) PROVE j = i
  <2>1. /\ i \in 1 .. (Len(entries) + 1) /\ i + 1 \in 1 .. (Len(entries) + 1)
        /\ j \in 1 .. (Len(entries) + 1) /\ j + 1 \in 1 .. (Len(entries) + 1)
    BY <1>1
  <2>2. CASE j < i
    <3>1. j + 1 <= i
      BY <1>1, <2>2
    <3>2. G!Start(j + 1) <= G!Start(i) /\ G!Start(j + 1) \in Nat
      BY <2>1, <3>1, StartLater
    <3> HIDE DEF p
    <3> QED
      BY <1>3, <1>4, <1>5, <3>2
  <2>3. CASE i < j
    <3>1. i + 1 <= j
      BY <1>1, <2>3
    <3>2. G!Start(i + 1) <= G!Start(j) /\ G!Start(j) \in Nat /\ G!Start(i + 1) \in Nat
      BY <2>1, <3>1, StartLater
    <3> HIDE DEF p
    <3> QED
      BY <1>3, <1>4, <1>5, <3>2
  <2> QED
    BY <1>1, <2>2, <2>3
<1>6. G!PairAt(p) = i
  <2> DEFINE Within(j) == p \in G!Start(j) .. (G!Start(j + 1) - 1)
  <2>1. Within(i) /\ \A j \in DOMAIN entries : Within(j) => j = i
    BY <1>4, <1>5
  <2>2. G!PairAt(p) = CHOOSE j \in DOMAIN entries : Within(j)
    BY Zenon DEF G!PairAt
  <2> HIDE DEF Within
  <2> QED
    BY <2>1, <2>2
<1>7. p - G!Start(i) + 1 = k
  BY <1>3
<1>8. G!File = [q \in 1 .. z |-> G!Pair(G!PairAt(q))[q - G!Start(G!PairAt(q)) + 1]]
  BY Zenon DEF G!File
<1> HIDE DEF p, z
<1>9. Len(G!File) = z
  BY <1>3, <1>8
<1>10. G!File[p] = G!Pair(i)[k]
  <2>1. G!File[p] = G!Pair(G!PairAt(p))[p - G!Start(G!PairAt(p)) + 1]
    BY <1>4, <1>8
  <2> QED
    BY <1>6, <1>7, <2>1
<1>11. p <= Len(G!File)
  BY <1>3, <1>4, <1>9
<1> QED
  BY <1>3, <1>10, <1>11 DEF p

LEMMA FileLength == ASSUME Written PROVE Len(G!File) \in Nat
<1> DEFINE z == G!Start(Len(entries) + 1) - 1
<1>1. Len(entries) + 1 \in 1 .. (Len(entries) + 1) /\ Len(entries) + 1 <= Len(entries) + 1
  BY WrittenType
<1>2. z \in Nat
  BY <1>1, StartLater
<1>3. G!File = [q \in 1 .. z |-> G!Pair(G!PairAt(q))[q - G!Start(G!PairAt(q)) + 1]]
  BY Zenon DEF G!File
<1> HIDE DEF z
<1> QED
  BY <1>2, <1>3

-----------------------------------------------------------------------------
\* A read of the width that was written is in step, or refuses what is there.
LEMMA ReadCell ==
    ASSUME Written, NEW i \in DOMAIN entries, NEW k \in 1 .. Len(G!Pair(i)),
           NEW width, NEW value, CellIs(G!Pair(i)[k], width, value)
    PROVE  /\ G!Read(G!Start(i) + (k - 1), width)
                = IF width = "string" /\ value \in Unreadable THEN G!Failed ELSE G!Start(i) + k
           /\ G!ValueAt(G!Start(i) + (k - 1)) = value
           /\ G!Start(i) + k \in Nat /\ G!Fine(G!Start(i) + k)
<1>1. /\ G!Start(i) \in Nat \ {0} /\ G!Start(i) + (k - 1) <= Len(G!File)
      /\ G!File[G!Start(i) + (k - 1)] = [w |-> width, v |-> value]
  BY FileCell DEF CellIs
<1>2. k \in Nat \ {0}
  <2>1. Len(G!Pair(i)) \in Nat
    BY LengthsType
  <2> QED
    BY <2>1
<1> DEFINE s == G!Start(i)
<1>3. /\ (s + (k - 1)) + 1 = s + k
      /\ s + k \in Nat \ {0} /\ s + (k - 1) \in Nat \ {0}
  <2>1. s \in Nat \ {0}
    BY <1>1
  <2> HIDE DEF s
  <2> QED
    BY <1>2, <2>1
<1>5. G!File[G!Start(i) + (k - 1)].w = width /\ G!File[G!Start(i) + (k - 1)].v = value
  BY <1>1
<1>6. G!Fine(s + k) /\ G!Fine(s + (k - 1))
  BY <1>3 DEF G!Fine, G!Lost, G!Failed
<1>7. ~ (s + (k - 1) > Len(G!File))
  <2>1. s + (k - 1) <= Len(G!File) /\ s + (k - 1) \in Nat
    BY <1>1, <1>3
  <2>2. Len(G!File) \in Nat
    BY FileLength
  <2> HIDE DEF s
  <2> QED
    BY <2>1, <2>2
<1>8. G!ValueAt(s + (k - 1)) = value
  BY <1>5, Zenon DEF G!ValueAt
<1> QED
  BY <1>3, <1>5, <1>6, <1>7, <1>8, Zenon DEF G!Read

\* What the reader finds at the start of a pair it does not refuse.
Found(p, key, value, next) ==
    /\ G!Fine(p) /\ G!Fine(p + 2) /\ G!Fine(next)
    /\ G!Read(p, "string") = p + 1 /\ G!ValueAt(p) = key
    /\ G!Read(p + 1, "4") = p + 2 /\ G!ValueAt(p + 1) = value.t
    /\ value.t # G!Array =>
          G!ValueAt(p + 2) = value.v /\ G!Read(p + 2, G!Width(value.t)) = next
    /\ value.t = G!Array =>
          /\ G!ValueAt(p + 2) = value.of /\ G!ValueAt((p + 2) + 1) = Len(value.elems)
          /\ Len(value.elems) \in Nat
          /\ G!OverArray(p + 2) = next
          /\ G!ElementsAt(p + 2) = value.elems

\* Only strings have the width of one.
LEMMA WidthOfString ==
    ASSUME NEW t
    PROVE  G!Width(t) = "string" <=> t = G!StringType
  BY DEF G!Width, G!StringType

LEMMA Readable ==
    ASSUME NEW entry
    PROVE  G!Refused(entry) <=>
             \/ entry.key \in Unreadable
             \/ /\ entry.value.t # G!Array
                /\ G!Width(entry.value.t) = "string" /\ entry.value.v \in Unreadable
             \/ /\ entry.value.t = G!Array
                /\ \E j \in DOMAIN entry.value.elems :
                      G!Width(entry.value.of) = "string" /\ entry.value.elems[j] \in Unreadable
<1>1. G!StringType # G!Array
  BY DEF G!StringType, G!Array
<1> DEFINE t == entry.value.t
           of == entry.value.of
           One == entry.value.v \in Unreadable
           Any == \E j \in DOMAIN entry.value.elems : entry.value.elems[j] \in Unreadable
           Width(x) == G!Width(x) = "string"
<1>2. G!Refused(entry) <=> \/ entry.key \in Unreadable
                           \/ t = G!StringType /\ One
                           \/ t = G!Array /\ of = G!StringType /\ Any
  BY Zenon DEF G!Refused
<1>3. (Width(t) <=> t = G!StringType) /\ (Width(of) <=> of = G!StringType)
  BY WidthOfString
<1>4. (\E j \in DOMAIN entry.value.elems : Width(of) /\ entry.value.elems[j] \in Unreadable)
        <=> Width(of) /\ Any
  OBVIOUS
<1> HIDE DEF Any, One, Width
<1>5. G!Refused(entry) <=> \/ entry.key \in Unreadable
                           \/ t # G!Array /\ Width(t) /\ One
                           \/ t = G!Array /\ Width(of) /\ Any
  BY <1>1, <1>2, <1>3
<1> QED
  BY <1>4, <1>5 DEF One, Width

LEMMA PairFound ==
    ASSUME Written, NEW i \in DOMAIN entries, ~ G!Refused(entries[i])
    PROVE  Found(G!Start(i), entries[i].key, entries[i].value, G!Start(i + 1))
<1> DEFINE p == G!Start(i)
           value == entries[i].value
           l == Len(value.elems)
           next == G!Start(i + 1)
<1>1. PairIs(G!Pair(i), entries[i].key, value)
  BY PairCells
<1>2. p \in Nat \ {0} /\ next \in Nat \ {0} /\ next = p + Len(G!Pair(i)) /\ Len(G!Pair(i)) \in Nat
  <2>1. Len(G!Pair(i)) \in Nat /\ Len(G!Pair(i)) >= 3
    BY LengthsType
  <2>2. i \in 1 .. (Len(entries) + 1) /\ i <= i
    BY WrittenType
  <2>3. p \in Nat \ {0}
    BY <2>2, StartLater
  <2> QED
    BY <2>1, <2>3, StartNext
<1>3. Len(G!Pair(i)) >= 3
  BY LengthsType
<1>4. ASSUME NEW k \in 1 .. Len(G!Pair(i)), NEW width, NEW v, CellIs(G!Pair(i)[k], width, v),
             ~ (width = "string" /\ v \in Unreadable)
      PROVE  G!Read(p + (k - 1), width) = p + k /\ G!ValueAt(p + (k - 1)) = v /\ G!Fine(p + k)
  BY <1>4, ReadCell
<1>40. /\ entries[i].key \notin Unreadable
       /\ value.t # G!Array => ~ (G!Width(value.t) = "string" /\ value.v \in Unreadable)
       /\ value.t = G!Array => \A j \in DOMAIN value.elems :
             ~ (G!Width(value.of) = "string" /\ value.elems[j] \in Unreadable)
  BY Readable
<1> HIDE DEF p, value, next
<1>5. G!Read(p, "string") = p + 1 /\ G!ValueAt(p) = entries[i].key
  <2>1. 1 \in 1 .. Len(G!Pair(i)) /\ p + (1 - 1) = p
    BY <1>2, <1>3
  <2>2. CellIs(G!Pair(i)[1], "string", entries[i].key)
    BY <1>1 DEF PairIs
  <2>3. G!Read(p + (1 - 1), "string") = p + 1 /\ G!ValueAt(p + (1 - 1)) = entries[i].key
    BY <1>4, <1>40, <2>1, <2>2
  <2> QED
    BY <2>1, <2>3
<1>6. G!Read(p + 1, "4") = p + 2 /\ G!ValueAt(p + 1) = value.t
  <2>1. 2 \in 1 .. Len(G!Pair(i)) /\ p + (2 - 1) = p + 1
    BY <1>2, <1>3
  <2>2. CellIs(G!Pair(i)[2], "4", value.t)
    BY <1>1 DEF PairIs
  <2>3. "4" # "string"
    OBVIOUS
  <2>4. G!Read(p + (2 - 1), "4") = p + 2 /\ G!ValueAt(p + (2 - 1)) = value.t
    BY <1>4, <2>1, <2>2, <2>3, Zenon
  <2> QED
    BY <2>1, <2>4
<1>7. ASSUME NEW width, NEW v, CellIs(G!Pair(i)[3], width, v),
             ~ (width = "string" /\ v \in Unreadable)
      PROVE  G!Read(p + 2, width) = p + 3 /\ G!ValueAt(p + 2) = v
  <2>1. 3 \in 1 .. Len(G!Pair(i)) /\ p + (3 - 1) = p + 2
    BY <1>2, <1>3
  <2>3. G!Read(p + (3 - 1), width) = p + 3 /\ G!ValueAt(p + (3 - 1)) = v
    BY <1>4, <1>7, <2>1
  <2> QED
    BY <2>1, <2>3
<1>8. ASSUME value.t # G!Array
      PROVE  G!ValueAt(p + 2) = value.v /\ G!Read(p + 2, G!Width(value.t)) = next
  <2>1. Len(G!Pair(i)) = 3 /\ CellIs(G!Pair(i)[3], G!Width(value.t), value.v)
    BY <1>1, <1>8 DEF PairIs
  <2>2. G!Read(p + 2, G!Width(value.t)) = p + 3 /\ G!ValueAt(p + 2) = value.v
    BY <1>7, <1>8, <1>40, <2>1
  <2> QED
    BY <1>2, <2>1, <2>2
<1>9. ASSUME value.t = G!Array
      PROVE  /\ G!ValueAt(p + 2) = value.of /\ G!ValueAt((p + 2) + 1) = l
             /\ l \in Nat
             /\ G!OverArray(p + 2) = next
             /\ G!ElementsAt(p + 2) = value.elems
  <2>1. /\ l \in Nat /\ DOMAIN value.elems = 1 .. l /\ Len(G!Pair(i)) = 4 + l
        /\ CellIs(G!Pair(i)[3], "4", value.of) /\ CellIs(G!Pair(i)[4], "8", l)
        /\ \A j \in 1 .. l : CellIs(G!Pair(i)[4 + j], G!Width(value.of), value.elems[j])
    BY <1>1, <1>9 DEF PairIs
  <2> HIDE DEF l
  <2>2. G!Read(p + 2, "4") = p + 3 /\ G!ValueAt(p + 2) = value.of
    BY <1>7, <2>1
  <2>3. G!Read(p + 3, "8") = p + 4 /\ G!ValueAt(p + 3) = l
    <3>1. 4 \in 1 .. Len(G!Pair(i)) /\ p + (4 - 1) = p + 3
      BY <1>2, <2>1
    <3>2. G!Read(p + (4 - 1), "8") = p + 4 /\ G!ValueAt(p + (4 - 1)) = l
      BY <1>4, <2>1, <3>1
    <3> QED
      BY <3>1, <3>2
  <2>4. ASSUME NEW j \in 1 .. l
        PROVE  /\ G!Fine(G!Read(p + 3 + j, G!Width(value.of)))
               /\ G!ValueAt(p + 3 + j) = value.elems[j]
    <3>1. 4 + j \in 1 .. Len(G!Pair(i)) /\ p + ((4 + j) - 1) = p + 3 + j
      BY <1>2, <2>1
    <3>2. CellIs(G!Pair(i)[4 + j], G!Width(value.of), value.elems[j])
      BY <2>1
    <3>3. /\ G!Read(p + ((4 + j) - 1), G!Width(value.of)) = p + (4 + j)
          /\ G!ValueAt(p + ((4 + j) - 1)) = value.elems[j]
          /\ G!Fine(p + (4 + j))
      BY <1>4, <1>9, <1>40, <2>1, <3>1, <3>2
    <3> QED
      BY <3>1, <3>3
  <2>5. /\ (p + 2) + 1 = p + 3 /\ G!Fine(p + 4) /\ (p + 4) + l = next
        /\ \A j \in 1 .. l : (p + 2) + 1 + j = p + 3 + j
    BY <1>2, <2>1 DEF G!Fine, G!Lost, G!Failed
  <2>6. G!Read(G!Read(p + 2, "4"), "8") = p + 4
    BY <2>2, <2>3
  <2>7. G!OverArray(p + 2) = next
    <3> DEFINE body == G!Read(G!Read(p + 2, "4"), "8")
               Element(j) == G!Read((p + 2) + 1 + j, G!Width(G!ValueAt(p + 2)))
    <3>1. \A j \in 1 .. l : G!Fine(Element(j))
      BY <2>2, <2>4, <2>5
    <3>2. body = p + 4 /\ G!Fine(body) /\ G!ValueAt((p + 2) + 1) = l
      BY <2>3, <2>5, <2>6
    <3>3. G!OverArray(p + 2) =
            IF ~ G!Fine(body) THEN body
            ELSE IF \E j \in 1 .. G!ValueAt((p + 2) + 1) : Element(j) = G!Failed THEN G!Failed
            ELSE IF \E j \in 1 .. G!ValueAt((p + 2) + 1) : Element(j) = G!Lost THEN G!Lost
            ELSE body + G!ValueAt((p + 2) + 1)
      BY Zenon DEF G!OverArray
    <3> HIDE DEF body, Element
    <3>4. \A j \in 1 .. l : Element(j) # G!Failed /\ Element(j) # G!Lost
      BY <3>1 DEF G!Fine
    <3> QED
      BY <2>5, <3>2, <3>3, <3>4
  <2>8. G!ElementsAt(p + 2) = value.elems
    <3>1. G!ElementsAt(p + 2) = [j \in 1 .. l |-> G!ValueAt((p + 2) + 1 + j)]
      BY <2>3, <2>5, Zenon DEF G!ElementsAt
    <3>2. value.elems = [j \in 1 .. l |-> value.elems[j]]
      <4>1. G!WellFormed(value)
        BY DEF Written, value
      <4>2. G!IsSequence(value.elems)
        BY <1>9, <4>1 DEF G!WellFormed
      <4> QED
        BY <2>1, <4>2 DEF G!IsSequence, l
    <3>3. \A j \in 1 .. l : G!ValueAt((p + 2) + 1 + j) = value.elems[j]
      BY <2>4, <2>5
    <3> QED
      BY <3>1, <3>2, <3>3
  <2> QED
    BY <2>1, <2>2, <2>3, <2>5, <2>7, <2>8
<1>10. G!Fine(p) /\ G!Fine(p + 2) /\ G!Fine(next)
  BY <1>2 DEF G!Fine, G!Lost, G!Failed
<1> QED
  BY <1>5, <1>6, <1>8, <1>9, <1>10, Zenon DEF Found, p, value, l, next

\* At the start of a pair it refuses the reader returns an error, at the key or
\* at the value.
Refuses(p, key, value) ==
    /\ G!Fine(p)
    /\ \/ G!Read(p, "string") = G!Failed
       \/ /\ G!Read(p, "string") = p + 1 /\ G!ValueAt(p) = key
          /\ G!Read(p + 1, "4") = p + 2 /\ G!ValueAt(p + 1) = value.t /\ G!Fine(p + 2)
          /\ value.t # G!Array => G!Read(p + 2, G!Width(value.t)) = G!Failed
          /\ value.t = G!Array => G!OverArray(p + 2) = G!Failed

LEMMA PairRefused ==
    ASSUME Written, NEW i \in DOMAIN entries, G!Refused(entries[i])
    PROVE  Refuses(G!Start(i), entries[i].key, entries[i].value)
<1> DEFINE p == G!Start(i)
           key == entries[i].key
           value == entries[i].value
           l == Len(value.elems)
<1>1. PairIs(G!Pair(i), key, value)
  BY PairCells
<1>2. p \in Nat \ {0} /\ Len(G!Pair(i)) \in Nat /\ Len(G!Pair(i)) >= 3
  <2>1. i \in 1 .. (Len(entries) + 1) /\ i <= i
    BY WrittenType
  <2> QED
    BY <2>1, StartLater, LengthsType
<1>3. ASSUME NEW k \in 1 .. Len(G!Pair(i)), NEW width, NEW v, CellIs(G!Pair(i)[k], width, v)
      PROVE  /\ G!Read(p + (k - 1), width)
                   = IF width = "string" /\ v \in Unreadable THEN G!Failed ELSE p + k
             /\ G!ValueAt(p + (k - 1)) = v /\ G!Fine(p + k)
  BY <1>3, ReadCell
<1>4. \/ key \in Unreadable
      \/ /\ value.t # G!Array
         /\ G!Width(value.t) = "string" /\ value.v \in Unreadable
      \/ /\ value.t = G!Array
         /\ \E j \in DOMAIN value.elems :
               G!Width(value.of) = "string" /\ value.elems[j] \in Unreadable
  BY Readable
<1>5. G!Fine(p)
  BY <1>2 DEF G!Fine, G!Lost, G!Failed
<1> HIDE DEF p, key, value
<1>6. /\ G!Read(p, "string") = IF key \in Unreadable THEN G!Failed ELSE p + 1
      /\ G!ValueAt(p) = key
  <2>1. 1 \in 1 .. Len(G!Pair(i)) /\ p + (1 - 1) = p
    BY <1>2
  <2>2. CellIs(G!Pair(i)[1], "string", key)
    BY <1>1 DEF PairIs
  <2>3. /\ G!Read(p + (1 - 1), "string")
             = IF "string" = "string" /\ key \in Unreadable THEN G!Failed ELSE p + 1
        /\ G!ValueAt(p + (1 - 1)) = key
    BY <1>3, <2>1, <2>2
  <2> QED
    BY <2>1, <2>3
<1>7. G!Read(p + 1, "4") = p + 2 /\ G!ValueAt(p + 1) = value.t /\ G!Fine(p + 2)
  <2>1. 2 \in 1 .. Len(G!Pair(i)) /\ p + (2 - 1) = p + 1 /\ "4" # "string"
    BY <1>2
  <2>2. CellIs(G!Pair(i)[2], "4", value.t)
    BY <1>1 DEF PairIs
  <2>3. /\ G!Read(p + (2 - 1), "4")
             = IF "4" = "string" /\ value.t \in Unreadable THEN G!Failed ELSE p + 2
        /\ G!ValueAt(p + (2 - 1)) = value.t /\ G!Fine(p + 2)
    BY <1>3, <2>1, <2>2
  <2> QED
    BY <2>1, <2>3
<1>8. ASSUME NEW width, NEW v, CellIs(G!Pair(i)[3], width, v)
      PROVE  /\ G!Read(p + 2, width)
                   = IF width = "string" /\ v \in Unreadable THEN G!Failed ELSE p + 3
             /\ G!ValueAt(p + 2) = v
  <2>1. 3 \in 1 .. Len(G!Pair(i)) /\ p + (3 - 1) = p + 2
    BY <1>2
  <2>2. /\ G!Read(p + (3 - 1), width)
             = IF width = "string" /\ v \in Unreadable THEN G!Failed ELSE p + 3
        /\ G!ValueAt(p + (3 - 1)) = v
    BY <1>3, <1>8, <2>1
  <2> QED
    BY <2>1, <2>2
<1>9. ASSUME key \notin Unreadable, value.t # G!Array
      PROVE  G!Read(p + 2, G!Width(value.t)) = G!Failed
  <2>1. CellIs(G!Pair(i)[3], G!Width(value.t), value.v)
    BY <1>1, <1>9 DEF PairIs
  <2>2. G!Width(value.t) = "string" /\ value.v \in Unreadable
    BY <1>4, <1>9
  <2> QED
    BY <1>8, <2>1, <2>2
<1>10. ASSUME key \notin Unreadable, value.t = G!Array
       PROVE  G!OverArray(p + 2) = G!Failed
  <2>1. /\ l \in Nat /\ DOMAIN value.elems = 1 .. l /\ Len(G!Pair(i)) = 4 + l
        /\ CellIs(G!Pair(i)[3], "4", value.of) /\ CellIs(G!Pair(i)[4], "8", l)
        /\ \A j \in 1 .. l : CellIs(G!Pair(i)[4 + j], G!Width(value.of), value.elems[j])
    BY <1>1, <1>10 DEF PairIs
  <2> HIDE DEF l
  <2>2. G!Read(p + 2, "4") = p + 3 /\ G!ValueAt(p + 2) = value.of
    <3>1. "4" # "string"
      OBVIOUS
    <3> QED
      BY <1>8, <2>1, <3>1
  <2>3. G!Read(p + 3, "8") = p + 4 /\ G!ValueAt(p + 3) = l /\ G!Fine(p + 4)
    <3>1. 4 \in 1 .. Len(G!Pair(i)) /\ p + (4 - 1) = p + 3 /\ "8" # "string"
      BY <1>2, <2>1
    <3>2. /\ G!Read(p + (4 - 1), "8")
               = IF "8" = "string" /\ l \in Unreadable THEN G!Failed ELSE p + 4
          /\ G!ValueAt(p + (4 - 1)) = l /\ G!Fine(p + 4)
      BY <1>3, <2>1, <3>1
    <3> QED
      BY <3>1, <3>2
  <2>4. PICK j \in 1 .. l : G!Width(value.of) = "string" /\ value.elems[j] \in Unreadable
    BY <1>4, <1>10, <2>1
  <2>5. G!Read((p + 2) + 1 + j, G!Width(value.of)) = G!Failed
    <3>1. 4 + j \in 1 .. Len(G!Pair(i)) /\ p + ((4 + j) - 1) = (p + 2) + 1 + j
      BY <1>2, <2>1
    <3>2. CellIs(G!Pair(i)[4 + j], G!Width(value.of), value.elems[j])
      BY <2>1
    <3>3. G!Read(p + ((4 + j) - 1), G!Width(value.of)) = G!Failed
      BY <1>3, <2>4, <3>1, <3>2
    <3> QED
      BY <3>1, <3>3
  <2>6. (p + 2) + 1 = p + 3
    BY <1>2
  <2> DEFINE body == G!Read(G!Read(p + 2, "4"), "8")
             Element(m) == G!Read((p + 2) + 1 + m, G!Width(G!ValueAt(p + 2)))
  <2>7. G!Fine(body) /\ G!ValueAt((p + 2) + 1) = l /\ Element(j) = G!Failed
    BY <2>2, <2>3, <2>5, <2>6
  <2>8. G!OverArray(p + 2) =
          IF ~ G!Fine(body) THEN body
          ELSE IF \E m \in 1 .. G!ValueAt((p + 2) + 1) : Element(m) = G!Failed THEN G!Failed
          ELSE IF \E m \in 1 .. G!ValueAt((p + 2) + 1) : Element(m) = G!Lost THEN G!Lost
          ELSE body + G!ValueAt((p + 2) + 1)
    BY Zenon DEF G!OverArray
  <2> HIDE DEF body, Element
  <2> QED
    BY <2>7, <2>8
<1> QED
  BY <1>5, <1>6, <1>7, <1>9, <1>10, Zenon DEF Refuses, p, key, value

\* Then it returns one for the turn.
LEMMA TurnFails ==
    ASSUME NEW key, NEW value, Refuses(pos, key, value), G!ReadEntry
    PROVE  pos' = G!Failed
<1>1. ~ G!Fine(G!Failed)
  BY DEF G!Fine
<1>2. CASE G!Read(pos, "string") = G!Failed
  <2>1. G!Read(G!Failed, "4") = G!Failed
    BY <1>1, Zenon DEF G!Read
  <2> QED
    BY <1>1, <1>2, <2>1, Zenon DEF G!ReadEntry
<1>3. CASE /\ G!Read(pos, "string") = pos + 1 /\ G!ValueAt(pos) = key
           /\ G!Read(pos + 1, "4") = pos + 2 /\ G!ValueAt(pos + 1) = value.t /\ G!Fine(pos + 2)
           /\ value.t # G!Array => G!Read(pos + 2, G!Width(value.t)) = G!Failed
           /\ value.t = G!Array => G!OverArray(pos + 2) = G!Failed
  <2>1. G!SkipValue(value.t, pos + 2) = G!Failed
    BY <1>3, Zenon DEF G!SkipValue
  <2>2. G!AfterHeadCountKv(value.t, pos + 2) = G!Failed
    BY <1>1, <1>3, <2>1, Zenon DEF G!AfterHeadCountKv
  <2>3. G!AfterPattern(value.t, pos + 2) = G!Failed
    BY <2>1, Zenon DEF G!AfterPattern
  <2> QED
    BY <1>3, <2>1, <2>2, <2>3, Zenon DEF G!ReadEntry
<1> QED
  BY <1>2, <1>3, Zenon DEF Refuses

-----------------------------------------------------------------------------
(* What the pairs say.                                                     *)

\* The greatest of some of the first n naturals is one of them.
LEMMA GreatestIn ==
    ASSUME NEW n \in Nat, NEW S \in SUBSET (1 .. n), S # {}
    PROVE  G!Max(S) \in S /\ \A y \in S : y <= G!Max(S)
<1> DEFINE T == {n - x : x \in S}
<1>1. T \in SUBSET Nat /\ T # {}
  <2>1. \A x \in S : x \in 1 .. n
    OBVIOUS
  <2>2. \A x \in 1 .. n : n - x \in Nat
    OBVIOUS
  <2>3. \A x \in S : n - x \in Nat
    BY <2>1, <2>2
  <2> QED
    BY <2>3
<1>2. PICK t \in T : \A u \in T : ~ (<<u, t>> \in LessThan)
  <2> HIDE DEF T
  <2> QED
    BY <1>1, LessThanWellFounded, WFMin
<1>3. PICK x \in S : t = n - x
  BY <1>2
<1>4. ASSUME NEW y \in S PROVE x >= y
  <2>1. n - y \in T /\ n - y \in Nat /\ n - x \in Nat /\ y \in Nat /\ x \in Nat
    BY <1>3
  <2>2. <<n - y, n - x>> \in Nat \X Nat /\ <<n - y, n - x>> \notin LessThan
    BY <1>2, <1>3, <2>1
  <2>3. ~ (n - y < n - x)
    BY <2>2 DEF LessThan
  <2> QED
    BY <2>1, <2>3
<1> HIDE DEF T
<1>5. G!Max(S) \in S /\ \A y \in S : G!Max(S) >= y
  BY <1>3, <1>4, Zenon DEF G!Max
<1> QED
  BY <1>5

\* Of the positions in at, up to n, the last one's value.
LatestOf(at, w, n) ==
    LET S == at \cap (1 .. n)
    IN  IF S = {} THEN None ELSE w[G!Max(S)]

LEMMA LatestNext ==
    ASSUME NEW at, NEW w, NEW n \in Nat
    PROVE  LatestOf(at, w, n + 1) = IF n + 1 \in at THEN w[n + 1] ELSE LatestOf(at, w, n)
<1> DEFINE S == at \cap (1 .. n)
           T == at \cap (1 .. (n + 1))
<1>1. CASE n + 1 \notin at
  <2>1. S = T
    BY <1>1
  <2> QED
    BY <1>1, <2>1, Zenon DEF LatestOf
<1>2. CASE n + 1 \in at
  <2>1. T \in SUBSET (1 .. (n + 1)) /\ T # {} /\ n + 1 \in T
    BY <1>2
  <2>2. G!Max(T) \in T /\ \A y \in T : y <= G!Max(T)
    <3>1. n + 1 \in Nat
      OBVIOUS
    <3> HIDE DEF T
    <3> QED
      BY <2>1, <3>1, GreatestIn
  <2>3. G!Max(T) = n + 1
    BY <2>1, <2>2
  <2>4. LatestOf(at, w, n + 1) = w[G!Max(T)]
    BY <2>1, Zenon DEF LatestOf
  <2> QED
    BY <1>2, <2>3, <2>4
<1> QED
  BY <1>1, <1>2

IntsAt(f) == {i \in DOMAIN entries : entries[i].key = f /\ G!IsInt(entries[i].value)}
MaximaAt == {i \in DOMAIN entries : entries[i].key = HeadCountKv /\ G!IsMaximum(entries[i].value)}
CountsAt == {i \in DOMAIN entries : entries[i].key = HeadCountKv /\ G!IsCounts(entries[i].value)}
BoolsAt == {i \in DOMAIN entries : entries[i].key = Pattern /\ G!IsBools(entries[i].value)}

NumberOf == [i \in DOMAIN entries |-> G!Number(entries[i].value)]
LargestOf == [i \in DOMAIN entries |-> G!Largest(entries[i].value)]
NumbersOf == [i \in DOMAIN entries |-> G!Numbers(entries[i].value)]
ElementsOf == [i \in DOMAIN entries |-> G!Elements(entries[i].value)]

SaidBy(n) == [field |-> [f \in Fields |-> LatestOf(IntsAt(f), NumberOf, n)],
              headCountKv |-> LatestOf(MaximaAt, LargestOf, n),
              perLayer |-> LatestOf(CountsAt, NumbersOf, n),
              pattern |-> LatestOf(BoolsAt, ElementsOf, n)]

LEMMA SaidIs ==
    ASSUME Written, got \in 0 .. Len(entries)
    PROVE  G!Said = SaidBy(got)
<1>1. Len(entries) \in Nat /\ DOMAIN entries = 1 .. Len(entries) /\ got \in Nat
  BY WrittenType
<1>2. 1 .. got \subseteq DOMAIN entries
  BY <1>1
<1>3. ASSUME NEW S \in SUBSET (1 .. got), S # {} PROVE G!Max(S) \in DOMAIN entries
  BY <1>1, <1>2, <1>3, GreatestIn
<1>4. ASSUME NEW f PROVE G!Latest(f, G!IsInt, G!Number) = LatestOf(IntsAt(f), NumberOf, got)
  <2> DEFINE S == {i \in 1 .. got : entries[i].key = f /\ G!IsInt(entries[i].value)}
  <2>1. S = IntsAt(f) \cap (1 .. got)
    BY <1>2 DEF IntsAt
  <2>2. S # {} => NumberOf[G!Max(S)] = G!Number(entries[G!Max(S)].value)
    <3>1. S \in SUBSET (1 .. got)
      OBVIOUS
    <3> HIDE DEF S
    <3> QED
      BY <1>3, <3>1, Zenon DEF NumberOf
  <2>3. G!Latest(f, G!IsInt, G!Number) = IF S = {} THEN None ELSE G!Number(entries[G!Max(S)].value)
    BY Zenon DEF G!Latest
  <2> HIDE DEF S
  <2> QED
    BY <2>1, <2>2, <2>3, Zenon DEF LatestOf
<1>5. G!Latest(HeadCountKv, G!IsMaximum, G!Largest) = LatestOf(MaximaAt, LargestOf, got)
  <2> DEFINE S == {i \in 1 .. got : entries[i].key = HeadCountKv /\ G!IsMaximum(entries[i].value)}
  <2>1. S = MaximaAt \cap (1 .. got)
    BY <1>2 DEF MaximaAt
  <2>2. S # {} => LargestOf[G!Max(S)] = G!Largest(entries[G!Max(S)].value)
    <3>1. S \in SUBSET (1 .. got)
      OBVIOUS
    <3> HIDE DEF S
    <3> QED
      BY <1>3, <3>1, Zenon DEF LargestOf
  <2>3. G!Latest(HeadCountKv, G!IsMaximum, G!Largest)
          = IF S = {} THEN None ELSE G!Largest(entries[G!Max(S)].value)
    BY Zenon DEF G!Latest
  <2> HIDE DEF S
  <2> QED
    BY <2>1, <2>2, <2>3, Zenon DEF LatestOf
<1>6. G!Latest(HeadCountKv, G!IsCounts, G!Numbers) = LatestOf(CountsAt, NumbersOf, got)
  <2> DEFINE S == {i \in 1 .. got : entries[i].key = HeadCountKv /\ G!IsCounts(entries[i].value)}
  <2>1. S = CountsAt \cap (1 .. got)
    BY <1>2 DEF CountsAt
  <2>2. S # {} => NumbersOf[G!Max(S)] = G!Numbers(entries[G!Max(S)].value)
    <3>1. S \in SUBSET (1 .. got)
      OBVIOUS
    <3> HIDE DEF S
    <3> QED
      BY <1>3, <3>1, Zenon DEF NumbersOf
  <2>3. G!Latest(HeadCountKv, G!IsCounts, G!Numbers)
          = IF S = {} THEN None ELSE G!Numbers(entries[G!Max(S)].value)
    BY Zenon DEF G!Latest
  <2> HIDE DEF S
  <2> QED
    BY <2>1, <2>2, <2>3, Zenon DEF LatestOf
<1>7. G!Latest(Pattern, G!IsBools, G!Elements) = LatestOf(BoolsAt, ElementsOf, got)
  <2> DEFINE S == {i \in 1 .. got : entries[i].key = Pattern /\ G!IsBools(entries[i].value)}
  <2>1. S = BoolsAt \cap (1 .. got)
    BY <1>2 DEF BoolsAt
  <2>2. S # {} => ElementsOf[G!Max(S)] = G!Elements(entries[G!Max(S)].value)
    <3>1. S \in SUBSET (1 .. got)
      OBVIOUS
    <3> HIDE DEF S
    <3> QED
      BY <1>3, <3>1, Zenon DEF ElementsOf
  <2>3. G!Latest(Pattern, G!IsBools, G!Elements)
          = IF S = {} THEN None ELSE G!Elements(entries[G!Max(S)].value)
    BY Zenon DEF G!Latest
  <2> HIDE DEF S
  <2> QED
    BY <2>1, <2>2, <2>3, Zenon DEF LatestOf
<1>8. [f \in Fields |-> G!Latest(f, G!IsInt, G!Number)]
        = [f \in Fields |-> LatestOf(IntsAt(f), NumberOf, got)]
  BY <1>4, Zenon
<1> QED
  BY <1>5, <1>6, <1>7, <1>8, Zenon DEF G!Said, SaidBy

\* What a pair adds to what the ones before it said.
Understood(m, key, value) ==
    [field |-> [f \in Fields |-> IF f = key /\ G!IsInt(value) THEN G!Number(value) ELSE m.field[f]],
     headCountKv |-> IF key = HeadCountKv /\ G!IsMaximum(value) THEN G!Largest(value)
                     ELSE m.headCountKv,
     perLayer |-> IF key = HeadCountKv /\ G!IsCounts(value) THEN G!Numbers(value) ELSE m.perLayer,
     pattern |-> IF key = Pattern /\ G!IsBools(value) THEN G!Elements(value) ELSE m.pattern]

LEMMA SaidNext ==
    ASSUME Written, NEW n \in Nat, n + 1 \in DOMAIN entries
    PROVE  SaidBy(n + 1) = Understood(SaidBy(n), entries[n + 1].key, entries[n + 1].value)
<1> DEFINE key == entries[n + 1].key
           value == entries[n + 1].value
           m == SaidBy(n)
<1>1. ASSUME NEW f
      PROVE  LatestOf(IntsAt(f), NumberOf, n + 1)
               = IF f = key /\ G!IsInt(value) THEN G!Number(value)
                 ELSE LatestOf(IntsAt(f), NumberOf, n)
  <2>1. NumberOf[n + 1] = G!Number(value) /\ (n + 1 \in IntsAt(f) <=> f = key /\ G!IsInt(value))
    BY Zenon DEF NumberOf, IntsAt
  <2> HIDE DEF key, value
  <2> QED
    BY <2>1, LatestNext, Zenon
<1>2. LatestOf(MaximaAt, LargestOf, n + 1)
        = IF key = HeadCountKv /\ G!IsMaximum(value) THEN G!Largest(value) ELSE m.headCountKv
  <2>1. /\ LargestOf[n + 1] = G!Largest(value)
        /\ n + 1 \in MaximaAt <=> key = HeadCountKv /\ G!IsMaximum(value)
    BY Zenon DEF LargestOf, MaximaAt
  <2>2. m.headCountKv = LatestOf(MaximaAt, LargestOf, n)
    BY DEF SaidBy
  <2>3. LatestOf(MaximaAt, LargestOf, n + 1)
          = IF n + 1 \in MaximaAt THEN LargestOf[n + 1] ELSE LatestOf(MaximaAt, LargestOf, n)
    BY LatestNext, Zenon
  <2> HIDE DEF key, value, m
  <2> QED
    BY <2>1, <2>2, <2>3
<1>3. LatestOf(CountsAt, NumbersOf, n + 1)
        = IF key = HeadCountKv /\ G!IsCounts(value) THEN G!Numbers(value) ELSE m.perLayer
  <2>1. /\ NumbersOf[n + 1] = G!Numbers(value)
        /\ n + 1 \in CountsAt <=> key = HeadCountKv /\ G!IsCounts(value)
    BY Zenon DEF NumbersOf, CountsAt
  <2>2. m.perLayer = LatestOf(CountsAt, NumbersOf, n)
    BY DEF SaidBy
  <2>3. LatestOf(CountsAt, NumbersOf, n + 1)
          = IF n + 1 \in CountsAt THEN NumbersOf[n + 1] ELSE LatestOf(CountsAt, NumbersOf, n)
    BY LatestNext, Zenon
  <2> HIDE DEF key, value, m
  <2> QED
    BY <2>1, <2>2, <2>3
<1>4. LatestOf(BoolsAt, ElementsOf, n + 1)
        = IF key = Pattern /\ G!IsBools(value) THEN G!Elements(value) ELSE m.pattern
  <2>1. /\ ElementsOf[n + 1] = G!Elements(value)
        /\ n + 1 \in BoolsAt <=> key = Pattern /\ G!IsBools(value)
    BY Zenon DEF ElementsOf, BoolsAt
  <2>2. m.pattern = LatestOf(BoolsAt, ElementsOf, n)
    BY DEF SaidBy
  <2>3. LatestOf(BoolsAt, ElementsOf, n + 1)
          = IF n + 1 \in BoolsAt THEN ElementsOf[n + 1] ELSE LatestOf(BoolsAt, ElementsOf, n)
    BY LatestNext, Zenon
  <2> HIDE DEF key, value, m
  <2> QED
    BY <2>1, <2>2, <2>3
<1>5. [f \in Fields |-> LatestOf(IntsAt(f), NumberOf, n + 1)]
        = [f \in Fields |-> IF f = key /\ G!IsInt(value) THEN G!Number(value) ELSE m.field[f]]
  <2>1. \A f \in Fields : m.field[f] = LatestOf(IntsAt(f), NumberOf, n)
    BY DEF SaidBy
  <2> HIDE DEF key, value, m
  <2> QED
    BY <1>1, <2>1
<1> HIDE DEF key, value, m
<1>6. SaidBy(n + 1) = Understood(m, key, value)
  BY <1>2, <1>3, <1>4, <1>5, Zenon DEF SaidBy, Understood
<1> QED
  BY <1>6, Zenon DEF key, value, m

\* Before the first pair nothing is said.
LEMMA SaidNothing == SaidBy(0) = G!Unread
<1>1. ASSUME NEW at, NEW w PROVE LatestOf(at, w, 0) = None
  <2>1. at \cap (1 .. 0) = {}
    OBVIOUS
  <2> QED
    BY <2>1, Zenon DEF LatestOf
<1> QED
  BY <1>1, Zenon DEF SaidBy, G!Unread

-----------------------------------------------------------------------------
(* One turn of the reader.                                                 *)

\* What the reader made of a value: an integer, or None.
LEMMA IntFound ==
    ASSUME U32 \in Nat \ {0}, None \notin Nat, NEW p, NEW key, NEW value, NEW next,
           Found(p, key, value, next), G!WellFormed(value)
    PROVE  /\ G!IsInt(value) => G!IntAt(value.t, p + 2) = G!Number(value)
                                /\ G!IntAt(value.t, p + 2) # None /\ value.t # G!Array
           /\ ~ G!IsInt(value) => G!IntAt(value.t, p + 2) = None
<1>1. CASE G!IsInt(value)
  <2>1. value.t \in G!IntTypes /\ value.t # G!Array
    BY <1>1 DEF G!IsInt, G!IntTypes, G!Array
  <2>2. value.v \in Int /\ G!ValueAt(p + 2) = value.v /\ G!Fine(G!Read(p + 2, G!Width(value.t)))
    BY <2>1 DEF G!WellFormed, Found
  <2>3. value.v % U32 \in Nat
    BY <2>2
  <2>4. G!IntAt(value.t, p + 2) = value.v % U32
    BY <2>1, <2>2, Zenon DEF G!IntAt
  <2> QED
    BY <1>1, <2>1, <2>3, <2>4, Zenon DEF G!Number
<1>2. CASE ~ G!IsInt(value)
  BY <1>2, Zenon DEF G!IsInt, G!IntAt
<1> QED
  BY <1>1, <1>2

\* The reader ends at the next pair.
LEMMA TurnEnds ==
    ASSUME NEW p, NEW key, NEW value, NEW next, Found(p, key, value, next)
    PROVE  /\ G!SkipValue(value.t, p + 2) = next
           /\ G!AfterPattern(value.t, p + 2) = next
           /\ (value.t = G!Array => value.of \in G!IntTypes \/ value.elems = <<>>)
                => G!AfterHeadCountKv(value.t, p + 2) = next
<1>1. G!SkipValue(value.t, p + 2) = next
  BY Zenon DEF Found, G!SkipValue
<1>2. ASSUME value.t = G!Array => value.of \in G!IntTypes \/ value.elems = <<>>
      PROVE  G!AfterHeadCountKv(value.t, p + 2) = next
  <2>1. CASE value.t # G!Array
    BY <1>1, <2>1, Zenon DEF G!AfterHeadCountKv
  <2>2. CASE value.t = G!Array
    <3>1. /\ G!OverArray(p + 2) = next /\ G!ValueAt(p + 2) = value.of
          /\ G!ValueAt((p + 2) + 1) = Len(value.elems) /\ G!Fine(next)
      BY <2>2 DEF Found
    <3>2. ~ (G!ValueAt(p + 2) \notin G!IntTypes /\ G!ValueAt((p + 2) + 1) > 0)
      <4>1. value.elems = <<>> => ~ (Len(value.elems) > 0)
        OBVIOUS
      <4> QED
        BY <1>2, <2>2, <3>1, <4>1
    <3> QED
      BY <2>2, <3>1, <3>2, Zenon DEF G!AfterHeadCountKv
  <2> QED
    BY <2>1, <2>2
<1> QED
  BY <1>1, <1>2, Zenon DEF G!AfterPattern

IsMeta(m) == m = [field |-> [f \in Fields |-> m.field[f]], headCountKv |-> m.headCountKv,
                  perLayer |-> m.perLayer, pattern |-> m.pattern]

LEMMA MetaOf ==
    ASSUME NEW m, IsMeta(m), NEW key, NEW value, NEW p, NEW next,
           U32 \in Nat \ {0}, None \notin Nat, Found(p, key, value, next), G!WellFormed(value),
           HeadCountKv # Pattern, HeadCountKv \notin Fields, Pattern \notin Fields
    PROVE  /\ key = HeadCountKv /\ (value.t = G!Array => value.of \in G!IntTypes \/ value.elems = <<>>)
                => G!HeadCounts(m, value.t, p + 2) = Understood(m, key, value)
           /\ key = Pattern => G!PatternOf(m, value.t, p + 2) = Understood(m, key, value)
           /\ key \notin {HeadCountKv, Pattern} =>
                 (IF key \in Fields /\ G!IntAt(value.t, p + 2) # None
                  THEN [m EXCEPT !.field[key] = G!IntAt(value.t, p + 2)] ELSE m)
                   = Understood(m, key, value)
<1> DEFINE u == Understood(m, key, value)
<1>1. /\ G!IsInt(value) => /\ G!IntAt(value.t, p + 2) = G!Number(value)
                           /\ G!IntAt(value.t, p + 2) # None /\ value.t # G!Array
      /\ ~ G!IsInt(value) => G!IntAt(value.t, p + 2) = None
  BY IntFound
<1>2. ASSUME key = HeadCountKv, value.t = G!Array => value.of \in G!IntTypes \/ value.elems = <<>>
      PROVE  G!HeadCounts(m, value.t, p + 2) = u
  <2>1. /\ \A f \in Fields : f # key
        /\ key # Pattern
    BY <1>2
  <2>2. CASE value.t = G!Array
    <3>1. /\ G!Fine(G!OverArray(p + 2)) /\ G!ValueAt(p + 2) = value.of
          /\ G!ValueAt((p + 2) + 1) = Len(value.elems) /\ G!ElementsAt(p + 2) = value.elems
      BY <2>2 DEF Found
    <3>2. G!ValueAt(p + 2) \in G!IntTypes \/ G!ValueAt((p + 2) + 1) = 0
      <4>1. value.elems = <<>> => Len(value.elems) = 0
        OBVIOUS
      <4> QED
        BY <1>2, <2>2, <3>1, <4>1
    <3>3. G!HeadCounts(m, value.t, p + 2)
            = [m EXCEPT !.perLayer = G!AsU32(value.elems),
                        !.headCountKv = IF value.elems = <<>> THEN @
                                        ELSE G!MaxOf(G!AsU32(value.elems))]
      BY <2>2, <3>1, <3>2, Zenon DEF G!HeadCounts
    <3>4. /\ G!IsCounts(value) /\ (G!IsMaximum(value) <=> value.elems # <<>>)
          /\ G!Numbers(value) = G!AsU32(value.elems)
          /\ G!Largest(value) = G!MaxOf(G!AsU32(value.elems))
      BY <1>1, <1>2, <2>2, Zenon DEF G!IsCounts, G!IsMaximum, G!Numbers, G!Largest
    <3>5. u = [field |-> [f \in Fields |-> m.field[f]],
               headCountKv |-> IF value.elems = <<>> THEN m.headCountKv
                               ELSE G!MaxOf(G!AsU32(value.elems)),
               perLayer |-> G!AsU32(value.elems), pattern |-> m.pattern]
      BY <1>2, <2>1, <3>4 DEF Understood
    <3> DEFINE F == [f \in Fields |-> m.field[f]]
               a == G!AsU32(value.elems)
               x == IF value.elems = <<>> THEN m.headCountKv ELSE G!MaxOf(a)
    <3>6. G!HeadCounts(m, value.t, p + 2) = [m EXCEPT !.perLayer = a, !.headCountKv = x]
      BY <3>3, Zenon
    <3> DEFINE h == m.headCountKv
               l == m.perLayer
               q == m.pattern
    <3>7. m = [field |-> F, headCountKv |-> h, perLayer |-> l, pattern |-> q]
      BY Zenon DEF IsMeta
    <3>8. u = [field |-> F, headCountKv |-> x, perLayer |-> a, pattern |-> q]
      BY <3>5
    <3> HIDE DEF u, F, a, x, h, l, q
    <3> QED
      BY <3>6, <3>7, <3>8
  <2>3. CASE value.t # G!Array /\ G!IsInt(value)
    <3>1. G!HeadCounts(m, value.t, p + 2) = [m EXCEPT !.headCountKv = G!Number(value)]
      BY <1>1, <2>3, Zenon DEF G!HeadCounts
    <3>2. ~ G!IsCounts(value) /\ G!IsMaximum(value) /\ G!Largest(value) = G!Number(value)
      BY <2>3, Zenon DEF G!IsCounts, G!IsMaximum, G!Largest
    <3>3. u = [field |-> [f \in Fields |-> m.field[f]], headCountKv |-> G!Number(value),
               perLayer |-> m.perLayer, pattern |-> m.pattern]
      BY <1>2, <2>1, <3>2 DEF Understood
    <3> HIDE DEF u
    <3> QED
      BY <3>1, <3>3 DEF IsMeta
  <2>4. CASE value.t # G!Array /\ ~ G!IsInt(value)
    <3>1. G!HeadCounts(m, value.t, p + 2) = m
      BY <1>1, <2>4, Zenon DEF G!HeadCounts
    <3>2. ~ G!IsCounts(value) /\ ~ G!IsMaximum(value)
      BY <2>4, Zenon DEF G!IsCounts, G!IsMaximum
    <3>3. u = [field |-> [f \in Fields |-> m.field[f]], headCountKv |-> m.headCountKv,
               perLayer |-> m.perLayer, pattern |-> m.pattern]
      BY <1>2, <2>1, <3>2 DEF Understood
    <3> HIDE DEF u
    <3> QED
      BY <3>1, <3>3 DEF IsMeta
  <2> QED
    BY <2>2, <2>3, <2>4
<1>3. ASSUME key = Pattern PROVE G!PatternOf(m, value.t, p + 2) = u
  <2>1. (\A f \in Fields : f # key) /\ key # HeadCountKv
    BY <1>3
  <2>2. CASE G!IsBools(value)
    <3>1. G!PatternOf(m, value.t, p + 2) = [m EXCEPT !.pattern = value.elems]
      BY <2>2, Zenon DEF G!PatternOf, G!IsBools, Found
    <3>2. u = [field |-> [f \in Fields |-> m.field[f]], headCountKv |-> m.headCountKv,
               perLayer |-> m.perLayer, pattern |-> value.elems]
      BY <1>3, <2>1, <2>2 DEF Understood, G!Elements
    <3> HIDE DEF u
    <3> QED
      BY <3>1, <3>2 DEF IsMeta
  <2>3. CASE ~ G!IsBools(value)
    <3>1. G!PatternOf(m, value.t, p + 2) = m
      BY <2>3, Zenon DEF G!PatternOf, G!IsBools, Found
    <3>2. u = [field |-> [f \in Fields |-> m.field[f]], headCountKv |-> m.headCountKv,
               perLayer |-> m.perLayer, pattern |-> m.pattern]
      BY <2>1, <2>3 DEF Understood
    <3> HIDE DEF u
    <3> QED
      BY <3>1, <3>2 DEF IsMeta
  <2> QED
    BY <2>2, <2>3
<1>4. ASSUME key \notin {HeadCountKv, Pattern}
      PROVE  (IF key \in Fields /\ G!IntAt(value.t, p + 2) # None
              THEN [m EXCEPT !.field[key] = G!IntAt(value.t, p + 2)] ELSE m) = u
  <2>1. u = [field |-> [f \in Fields |-> IF f = key /\ G!IsInt(value) THEN G!Number(value)
                                         ELSE m.field[f]],
             headCountKv |-> m.headCountKv, perLayer |-> m.perLayer, pattern |-> m.pattern]
    BY <1>4 DEF Understood
  <2> HIDE DEF u
  <2>2. CASE key \in Fields /\ G!IsInt(value)
    <3> DEFINE F == m.field
               k == G!Number(value)
    <3>1. F = [f \in Fields |-> F[f]]
      BY DEF IsMeta
    <3>2. [m EXCEPT !.field[key] = k] = [m EXCEPT !.field = [F EXCEPT ![key] = k]]
      BY Zenon
    <3>3. [F EXCEPT ![key] = k] = [f \in Fields |-> IF f = key THEN k ELSE F[f]]
      <4> HIDE DEF F, k
      <4> QED
        BY <2>2, <3>1
    <3>4. u = [field |-> [f \in Fields |-> IF f = key THEN k ELSE F[f]],
               headCountKv |-> m.headCountKv, perLayer |-> m.perLayer, pattern |-> m.pattern]
      BY <2>1, <2>2
    <3>5. [m EXCEPT !.field = [F EXCEPT ![key] = k]] = u
      <4> DEFINE g == [F EXCEPT ![key] = k]
      <4>1. u = [field |-> g, headCountKv |-> m.headCountKv, perLayer |-> m.perLayer,
                 pattern |-> m.pattern]
        BY <3>3, <3>4
      <4> HIDE DEF g, F, k
      <4>2. [m EXCEPT !.field = g] = u
        BY <4>1 DEF IsMeta
      <4> QED
        BY <4>2 DEF g
    <3> QED
      BY <1>1, <2>2, <3>2, <3>5
  <2>3. CASE ~ (key \in Fields /\ G!IsInt(value))
    <3>1. ~ (key \in Fields /\ G!IntAt(value.t, p + 2) # None)
      BY <1>1, <2>3
    <3>2. u = [field |-> [f \in Fields |-> m.field[f]], headCountKv |-> m.headCountKv,
               perLayer |-> m.perLayer, pattern |-> m.pattern]
      <4>1. \A f \in Fields : ~ (f = key /\ G!IsInt(value))
        BY <2>3
      <4> QED
        BY <2>1, <4>1
    <3> QED
      BY <3>1, <3>2, Zenon DEF IsMeta
  <2> QED
    BY <2>2, <2>3
<1> QED
  BY <1>2, <1>3, <1>4

-----------------------------------------------------------------------------
(* The reader's invariant.                                                 *)

\* Too many pairs, or one of the first n the reader refuses.
BadBy(n) == Len(entries) > MaxPairs \/ \E i \in 1 .. n : G!Refused(entries[i])

RegularBy(n) == \A i \in 1 .. n :
    LET v == entries[i].value IN
    entries[i].key = HeadCountKv /\ v.t = G!Array => v.of \in G!IntTypes \/ v.elems = <<>>

ReaderInv ==
    /\ Written
    /\ got \in 0 .. Len(entries)
    /\ RegularBy(got) => IF BadBy(got) THEN pos = G!Failed
                         ELSE pos = G!Start(got + 1) /\ meta = SaidBy(got)

LEMMA ReaderStart ==
    ASSUME ConversionsAssumption, G!Init
    PROVE  ReaderInv
<1>1. /\ entries \in Headers /\ got = 0 /\ meta = G!Unread
      /\ pos = IF Len(entries) > MaxPairs THEN G!Failed ELSE 1
  BY DEF G!Init
<1>2. Written
  BY <1>1 DEF ConversionsAssumption, Written
<1>3. Len(entries) \in Nat
  BY <1>2, WrittenType
<1>4. G!Start(got + 1) = 1
  BY <1>1, <1>2, StartFirst
<1>5. BadBy(got) <=> Len(entries) > MaxPairs
  BY <1>1 DEF BadBy
<1>6. meta = SaidBy(got)
  BY <1>1, SaidNothing
<1> QED
  BY <1>1, <1>2, <1>3, <1>4, <1>5, <1>6 DEF ReaderInv

LEMMA SaidShape == ASSUME NEW n PROVE IsMeta(SaidBy(n))
  BY DEF IsMeta, SaidBy

\* One turn, of a file whose head counts are regular up to there.
LEMMA TurnTaken ==
    ASSUME ConversionsAssumption, ReaderInv, RegularBy(got + 1), G!ReadEntry
    PROVE  /\ got + 1 \in DOMAIN entries
           /\ IF BadBy(got + 1) THEN pos' = G!Failed
              ELSE pos' = G!Start((got + 1) + 1) /\ meta' = SaidBy(got + 1)
<1> DEFINE i == got + 1
           key == entries[i].key
           value == entries[i].value
           next == G!Start(i + 1)
           regular == value.t = G!Array => value.of \in G!IntTypes \/ value.elems = <<>>
<1>1. Written /\ got \in Nat /\ i \in DOMAIN entries
  <2>1. got < Len(entries) /\ got \in 0 .. Len(entries) /\ Written
    BY DEF G!ReadEntry, ReaderInv
  <2> QED
    BY <2>1, WrittenType
<1>2. ~ BadBy(got) /\ pos = G!Start(i) /\ meta = SaidBy(got)
  <2>1. RegularBy(got)
    BY <1>1 DEF RegularBy
  <2>2. pos # G!Failed
    BY DEF G!ReadEntry, G!Fine
  <2> QED
    BY <2>1, <2>2 DEF ReaderInv
<1>3. BadBy(i) <=> G!Refused(entries[i])
  <2>1. 1 .. i = 1 .. got \cup {i}
    BY <1>1
  <2> QED
    BY <1>2, <2>1 DEF BadBy
<1>4. CASE G!Refused(entries[i])
  BY <1>1, <1>2, <1>3, <1>4, PairRefused, TurnFails
<1>5. CASE ~ G!Refused(entries[i])
  <2>1. Found(pos, key, value, next)
    BY <1>1, <1>2, <1>5, PairFound
  <2>2. G!WellFormed(value)
    BY <1>1 DEF Written
  <2>3. key = HeadCountKv => regular
    <3>1. i \in 1 .. i
      BY <1>1
    <3> QED
      BY <3>1, Zenon DEF RegularBy
  <2>4. /\ None \notin Nat /\ U32 \in Nat \ {0}
        /\ HeadCountKv # Pattern /\ HeadCountKv \notin Fields /\ Pattern \notin Fields
    BY DEF ConversionsAssumption
  <2>5. /\ G!Read(pos, "string") = pos + 1 /\ G!Read(pos + 1, "4") = pos + 2 /\ G!Fine(pos + 2)
        /\ G!ValueAt(pos) = key /\ G!ValueAt(pos + 1) = value.t
    BY <2>1 DEF Found
  <2> HIDE DEF key, value, next, regular
  <2>6. \/ key = HeadCountKv /\ pos' = G!AfterHeadCountKv(value.t, pos + 2)
           /\ meta' = G!HeadCounts(meta, value.t, pos + 2)
        \/ key = Pattern /\ pos' = G!AfterPattern(value.t, pos + 2)
           /\ meta' = G!PatternOf(meta, value.t, pos + 2)
        \/ key \notin {HeadCountKv, Pattern} /\ pos' = G!SkipValue(value.t, pos + 2)
           /\ meta' = IF key \in Fields /\ G!IntAt(value.t, pos + 2) # None
                      THEN [meta EXCEPT !.field[key] = G!IntAt(value.t, pos + 2)] ELSE meta
    BY <2>5, Zenon DEF G!ReadEntry
  <2>7. pos' = next
    <3>1. /\ G!SkipValue(value.t, pos + 2) = next
          /\ G!AfterPattern(value.t, pos + 2) = next
          /\ regular => G!AfterHeadCountKv(value.t, pos + 2) = next
      BY <2>1, TurnEnds, Zenon DEF regular
    <3> QED
      BY <2>3, <2>6, <3>1
  <2>8. meta' = Understood(meta, key, value)
    <3>1. IsMeta(meta)
      BY <1>2, SaidShape
    <3>2. /\ key = HeadCountKv /\ regular
               => G!HeadCounts(meta, value.t, pos + 2) = Understood(meta, key, value)
          /\ key = Pattern => G!PatternOf(meta, value.t, pos + 2) = Understood(meta, key, value)
          /\ key \notin {HeadCountKv, Pattern} =>
                (IF key \in Fields /\ G!IntAt(value.t, pos + 2) # None
                 THEN [meta EXCEPT !.field[key] = G!IntAt(value.t, pos + 2)] ELSE meta)
                  = Understood(meta, key, value)
      BY <2>1, <2>2, <2>4, <3>1, MetaOf DEF regular
    <3> QED
      BY <2>3, <2>6, <3>2, Zenon
  <2>9. SaidBy(got + 1) = Understood(SaidBy(got), key, value)
    BY <1>1, SaidNext DEF key, value
  <2> QED
    BY <1>1, <1>2, <1>3, <1>5, <2>7, <2>8, <2>9 DEF next
<1> QED
  BY <1>4, <1>5

\* Where pairs start and what they say is decided by the file.
LEMMA StartPrime ==
    (Written => \A i \in 1 .. (Len(entries) + 1) : G!Start(i) = 1 + Total(Lengths, 1 .. (i - 1)))'
<1>1. Written => \A i \in 1 .. (Len(entries) + 1) : G!Start(i) = 1 + Total(Lengths, 1 .. (i - 1))
  BY StartIsTotal
<1> QED
  BY <1>1, PTL

LEMMA SameFile ==
    ASSUME Written, entries' = entries
    PROVE  /\ Written'
           /\ \A i \in 1 .. (Len(entries) + 1) : G!Start(i)' = G!Start(i)
           /\ \A n : SaidBy(n)' = SaidBy(n)
           /\ \A n : (RegularBy(n)' <=> RegularBy(n)) /\ (BadBy(n)' <=> BadBy(n))
<1>1. Written'
  BY DEF Written
<1>2. ASSUME NEW n PROVE (RegularBy(n)' <=> RegularBy(n)) /\ (BadBy(n)' <=> BadBy(n))
  BY Zenon DEF RegularBy, BadBy
<1>3. Lengths' = Lengths
  BY Zenon DEF Lengths, G!Pair
<1>4. ASSUME NEW i \in 1 .. (Len(entries) + 1) PROVE G!Start(i)' = G!Start(i)
  <2>1. G!Start(i) = 1 + Total(Lengths, 1 .. (i - 1))
    BY StartIsTotal
  <2>2. (G!Start(i))' = 1 + Total(Lengths', 1 .. (i - 1))
    BY <1>1, StartPrime
  <2> QED
    BY <1>3, <2>1, <2>2
<1>5. ASSUME NEW n PROVE SaidBy(n)' = SaidBy(n)
  BY Zenon DEF SaidBy, NumberOf, LargestOf, NumbersOf, ElementsOf, IntsAt, MaximaAt, CountsAt, BoolsAt
<1> QED
  BY <1>1, <1>2, <1>4, <1>5

LEMMA ReaderStep ==
    ASSUME ConversionsAssumption, ReaderInv, G!Next
    PROVE  ReaderInv'
<1> DEFINE k == got + 1
<1>1. G!ReadEntry /\ entries' = entries /\ got' = k /\ got < Len(entries)
  BY DEF G!Next, G!ReadEntry
<1>2. Written /\ Len(entries) \in Nat /\ got \in 0 .. Len(entries)
  BY WrittenType DEF ReaderInv
<1>3. Written' /\ got' \in 0 .. Len(entries') /\ k + 1 \in 1 .. (Len(entries) + 1)
  BY <1>1, <1>2, SameFile
<1>4. RegularBy(k) => IF BadBy(k) THEN pos' = G!Failed
                      ELSE pos' = G!Start(k + 1) /\ meta' = SaidBy(k)
  BY <1>1, TurnTaken
<1> HIDE DEF k
<1>5. /\ (RegularBy(got))' <=> RegularBy(k)
      /\ (BadBy(got))' <=> BadBy(k)
      /\ (G!Start(got + 1))' = G!Start(k + 1)
      /\ (SaidBy(got))' = SaidBy(k)
  BY <1>1, <1>2, <1>3, SameFile
<1> QED
  BY <1>3, <1>4, <1>5 DEF ReaderInv

LEMMA ReaderSame ==
    ASSUME ReaderInv, UNCHANGED reader
    PROVE  ReaderInv'
<1>1. entries' = entries /\ pos' = pos /\ got' = got /\ meta' = meta
  BY DEF reader
<1>2. Written /\ got \in 0 .. Len(entries) /\ Len(entries) \in Nat
  BY WrittenType DEF ReaderInv
<1>3. got + 1 \in 1 .. (Len(entries) + 1)
  BY <1>2
<1>4. /\ (RegularBy(got))' <=> RegularBy(got)
      /\ (BadBy(got))' <=> BadBy(got)
      /\ (G!Start(got + 1))' = G!Start(got + 1)
      /\ (SaidBy(got))' = SaidBy(got)
      /\ Written'
  BY <1>1, <1>2, <1>3, SameFile
<1> QED
  BY <1>1, <1>2, <1>4 DEF ReaderInv

LEMMA ReaderUnderstands ==
    ASSUME ReaderInv
    PROVE  G!ReaderInStep
<1>1. G!Said = SaidBy(got)
  BY SaidIs DEF ReaderInv
<1>2. (G!Regular <=> RegularBy(got))
  BY Zenon DEF G!Regular, RegularBy
<1> QED
  BY <1>1, <1>2, Zenon DEF ReaderInv, G!ReaderInStep, BadBy

-----------------------------------------------------------------------------
(* Memory.                                                                 *)

LEMMA LayersTotal ==
    ASSUME NEW S, NEW w
    PROVE  K!Total(S, w) = Total(w, S)
  BY Zenon DEF K!Total, K!MapThenSumSet, K!MapThenFoldSet, Total, MapThenSumSet, MapThenFoldSet

\* The columns of a row are each empty or what the file says; with the aggregates
\* it has all of them.
OfTheFile(r, m) ==
    /\ r.counts = K!Counts(m) /\ r.window = m.window
    /\ r.keyLen = m.keyLen /\ r.valueLen = m.valueLen

IsRowOf(r, m) ==
    /\ r.counts \in {K!NoCounts, K!Counts(m)} /\ r.window \in {None, m.window}
    /\ r.keyLen \in {None, m.keyLen} /\ r.valueLen \in {None, m.valueLen}
    /\ r.agg \in {K!NoAggregates, K!Aggregates(m)}
    /\ r.agg.global # None => OfTheFile(r, m)

Estimated(c, p) == [context |-> c, parallel |-> p, bytes |-> K!KvBytes(c, p)]

\* The row is of the file, and an estimate comes from the row.
MemoryInv ==
    /\ file \in K!Described
    /\ row # None => IsRowOf(row, file)
    /\ ask # None => row # None /\ \E c \in Contexts, p \in Parallels : ask = Estimated(c, p)

\* Rows without aggregates, those of earlier releases among them.
LEMMA OlderRows ==
    ASSUME NEW m, NEW r \in K!Older(m), r # None
    PROVE  IsRowOf(r, m)
<1>1. K!NoAggregates.global = None
  BY DEF K!NoAggregates
<1>2. ASSUME NEW c \in {K!NoCounts, K!Counts(m)}, NEW k \in {None, m.keyLen},
             NEW v \in {None, m.valueLen}, r = K!Row(c, k, v, None, K!NoAggregates, FALSE)
      PROVE  IsRowOf(r, m)
  BY <1>1, <1>2 DEF K!Row, IsRowOf
<1> QED
  BY <1>2 DEF K!Older, K!Empty

LEMMA MemoryStart == ASSUME ConversionsAssumption, K!Init PROVE MemoryInv
<1>1. file \in K!Described /\ ask = None /\ row \in K!Older(file)
  BY DEF ConversionsAssumption, K!Init
<1>2. row # None => IsRowOf(row, file)
  BY <1>1, OlderRows
<1> QED
  BY <1>1, <1>2 DEF MemoryInv

LEMMA AggregatesShape == ASSUME NEW m
    PROVE K!Aggregates(m) = [global |-> K!Aggregates(m).global, swa |-> K!Aggregates(m).swa]
<1> DEFINE g1 == K!Total(DOMAIN m.perLayer \ K!Sliding(m),
                   [i \in DOMAIN m.perLayer |-> K!PerToken(m.perLayer[i], m.keyLen, m.valueLen)]) % U64
           s1 == K!Total(K!Sliding(m),
                   [i \in DOMAIN m.perLayer |->
                      K!PerToken(m.perLayer[i], K!SwaKey(m), K!SwaValue(m))]) % U64
           g2 == (m.layers * K!PerToken(m.kvHeads, m.keyLen, m.valueLen)) % U64
<1>1. \/ K!Aggregates(m) = [global |-> None, swa |-> None]
      \/ K!Aggregates(m) = [global |-> g1, swa |-> s1]
      \/ K!Aggregates(m) = [global |-> g2, swa |-> None]
  BY Zenon DEF K!Aggregates, K!NoAggregates
<1> HIDE DEF g1, s1, g2
<1> QED
  BY <1>1

\* A start of the program completes a row.
LEMMA Completed ==
    ASSUME NEW m, NEW r, IsRowOf(r, m), NEW z
    PROVE  IsRowOf(K!Row(K!Counts(m), K!Either(r.keyLen, m.keyLen),
                         K!Either(r.valueLen, m.valueLen), K!Either(r.window, m.window),
                         [global |-> K!Either(r.agg.global, K!Aggregates(m).global),
                          swa |-> K!Either(r.agg.swa, K!Aggregates(m).swa)], z), m)
<1> DEFINE a == [global |-> K!Either(r.agg.global, K!Aggregates(m).global),
                 swa |-> K!Either(r.agg.swa, K!Aggregates(m).swa)]
<1>1. a = K!Aggregates(m)
  BY AggregatesShape DEF IsRowOf, K!NoAggregates, K!Either
<1>2. /\ K!Either(r.keyLen, m.keyLen) = m.keyLen
      /\ K!Either(r.valueLen, m.valueLen) = m.valueLen
      /\ K!Either(r.window, m.window) = m.window
  BY DEF IsRowOf, K!Either
<1> HIDE DEF a
<1>3. IsRowOf(K!Row(K!Counts(m), m.keyLen, m.valueLen, m.window, a, z), m)
  BY <1>1 DEF K!Row, IsRowOf, OfTheFile
<1> QED
  BY <1>2, <1>3 DEF a

LEMMA MemoryStep ==
    ASSUME MemoryInv, K!Next
    PROVE  MemoryInv'
<1>1. CASE K!Ingest
  <2> DEFINE z == file.window # None /\ K!Either(file.experts, 0) = 0
             Full == K!Row(K!Counts(file), file.keyLen, file.valueLen, file.window,
                           K!Aggregates(file), z)
  <2>1. file' = file /\ ask' = ask /\ ask = None /\ row' \in {K!Empty, Full}
    BY <1>1, Zenon DEF K!Ingest, MemoryInv
  <2>2. IsRowOf(Full, file)
    <3> HIDE DEF z
    <3> QED
      BY DEF K!Row, IsRowOf, OfTheFile
  <2>3. IsRowOf(K!Empty, file)
    <3>1. K!Empty # None => IsRowOf(K!Empty, file)
      BY OlderRows DEF K!Older
    <3>2. K!NoAggregates.global = None
      BY DEF K!NoAggregates
    <3> QED
      BY <3>2 DEF K!Empty, K!Row, IsRowOf
  <2> HIDE DEF Full
  <2>4. IsRowOf(row', file)
    BY <2>1, <2>2, <2>3
  <2> QED
    BY <2>1, <2>4, Zenon DEF MemoryInv
<1>2. CASE K!Backfill
  <2>1. file' = file /\ ask' = None /\ row # None
    BY <1>2 DEF K!Backfill
  <2>2. IsRowOf(row', file)
    BY <1>2, <2>1, Completed, Zenon DEF K!Backfill, MemoryInv
  <2> QED
    BY <2>1, <2>2, Zenon DEF MemoryInv
<1>3. CASE K!Estimate
  <2>1. file' = file /\ row' = row /\ row # None
    BY <1>3 DEF K!Estimate
  <2>2. \E c \in Contexts, p \in Parallels : ask' = Estimated(c, p)
    BY <1>3 DEF K!Estimate, Estimated
  <2>3. ASSUME NEW c \in Contexts, NEW p \in Parallels PROVE Estimated(c, p)' = Estimated(c, p)
    BY <2>1, Zenon DEF Estimated, K!KvBytes, K!FromAggregates, K!FromCounts, K!Counted, K!SwaTokens, K!HeadDim
  <2> QED
    BY <2>1, <2>2, <2>3, Zenon DEF MemoryInv
<1> QED
  BY <1>1, <1>2, <1>3 DEF K!Next

\* Saturating once at the end is the same.
LEMMA SaturatedSum ==
    ASSUME U64 \in Nat \ {0}, NEW x \in Nat, NEW y \in Nat
    PROVE  K!Saturated(K!Saturated(x) + K!Saturated(y)) = K!Saturated(x + y)
  BY DEF K!Saturated, K!Least

LEMMA SaturatedType ==
    ASSUME U64 \in Nat \ {0}, NEW x \in Nat
    PROVE  K!Saturated(x) \in Nat /\ (x < U64 => K!Saturated(x) = x)
  BY DEF K!Saturated, K!Least

LEMMA SaturatedProduct ==
    ASSUME U64 \in Nat \ {0}, NEW x \in Nat, NEW p \in Nat \ {0}
    PROVE  K!Saturated(K!Saturated(x) * p) = K!Saturated(x * p)
<1> DEFINE top == U64 - 1
           a == x * p
           b == top * p
<1>1. top \in Nat /\ a \in Nat /\ b \in Nat
  OBVIOUS
<1>2. ASSUME NEW y \in Nat PROVE y * p >= y
  <2>1. y * p = y * (p - 1) + y /\ y * (p - 1) \in Nat
    OBVIOUS
  <2> QED
    BY <2>1
<1>3. a >= x /\ b >= top
  BY <1>1, <1>2
<1>4. CASE x <= top
  BY <1>1, <1>4 DEF K!Saturated, K!Least
<1>5. CASE x > top
  <2>1. K!Saturated(x) = top
    BY <1>1, <1>5 DEF K!Saturated, K!Least
  <2>2. K!Saturated(x) * p = b
    BY <2>1
  <2> HIDE DEF a, b
  <2>3. K!Saturated(b) = top /\ K!Saturated(a) = top
    BY <1>1, <1>3, <1>5 DEF K!Saturated, K!Least
  <2> QED
    BY <2>2, <2>3 DEF a
<1> QED
  BY <1>1, <1>4, <1>5

\* A sum of lengths that fits is not changed.
LEMMA TokenBytes ==
    ASSUME U32 \in Nat \ {0}, NEW h \in Nat, NEW k \in Nat, NEW v \in Nat, k + v < U32
    PROVE  K!PerToken(h, k, v) = h * (k + v) * 2
<1>1. (k + v) % U32 = k + v
  OBVIOUS
<1> QED
  BY <1>1, Zenon DEF K!PerToken

\* What the aggregates count with are naturals.
LEMMA LayerCosts ==
    ASSUME U32 \in Nat \ {0},
           NEW m \in K!Described, m.keyLen # None, m.valueLen # None, m.perLayer # None
    PROVE  /\ m.keyLen \in Nat /\ m.valueLen \in Nat
           /\ K!SwaKey(m) \in Nat /\ K!SwaValue(m) \in Nat
           /\ DOMAIN m.perLayer = 1 .. Len(m.perLayer) /\ IsFiniteSet(DOMAIN m.perLayer)
           /\ \A i \in DOMAIN m.perLayer :
                 m.perLayer[i] \in Nat /\ K!LayerCost(m)[i] \in Nat /\ K!SwaCost(m)[i] \in Nat
<1>1. /\ m.perLayer \in Seq(0 .. (U32 - 1)) /\ m.keyLen \in Nat /\ m.valueLen \in Nat
      /\ m.keyLenSwa \in {None} \cup Nat /\ m.valueLenSwa \in {None} \cup Nat
  BY DEF K!Described
<1>2. K!SwaKey(m) \in Nat /\ K!SwaValue(m) \in Nat
  BY <1>1 DEF K!Either, K!SwaKey, K!SwaValue
<1>4. DOMAIN m.perLayer = 1 .. Len(m.perLayer) /\ Len(m.perLayer) \in Nat
  BY <1>1
<1>5. IsFiniteSet(1 .. Len(m.perLayer))
  BY <1>4, FS_Interval
<1>6. ASSUME NEW i \in DOMAIN m.perLayer
      PROVE  m.perLayer[i] \in Nat /\ K!LayerCost(m)[i] \in Nat /\ K!SwaCost(m)[i] \in Nat
  <2>1. m.perLayer[i] \in Nat
    BY <1>1
  <2>2. \A x, y \in Nat : x * y * 2 \in Nat
    OBVIOUS
  <2>3. m.keyLen + m.valueLen \in Nat /\ K!SwaKey(m) + K!SwaValue(m) \in Nat
    BY <1>1, <1>2
  <2> QED
    BY <1>6, <2>1, <2>2, <2>3 DEF K!LayerCost, K!SwaCost
<1> QED
  BY <1>1, <1>2, <1>4, <1>5, <1>6

\* A file that describes its layers: the estimate is their sum.
LEMMA ByLayerSum ==
    ASSUME None \notin Nat, U32 \in Nat \ {0}, U64 \in Nat \ {0},
           NEW c \in Nat, NEW p \in Nat \ {0}, file \in K!Described,
           row.agg = K!Aggregates(file), row.agg.global # None, row.window = file.window,
           file.keyLen # None, file.valueLen # None, K!ByLayer(file), K!Fits(file)
    PROVE  K!KvBytes(c, p) = K!Saturated(K!ByLayers(file, c, p))
<1> DEFINE S == DOMAIN file.perLayer
           T == K!Sliding(file)
           R == S \ T
           a == K!LayerCost(file)
           b == K!SwaCost(file)
           t == K!SwaTokens(c)
           v == [i \in S |-> (IF file.pattern[i] = 0 THEN a[i] ELSE b[i]) * K!LayerTokens(file, i, c)]
<1>1. /\ file.perLayer # None
      /\ S = DOMAIN file.pattern
  <2>1. file.perLayer # None /\ file.pattern # None /\ Len(file.perLayer) = Len(file.pattern)
    BY DEF K!ByLayer
  <2>2. file.perLayer \in Seq(0 .. (U32 - 1)) /\ file.pattern \in Seq({0, 1})
    BY <2>1 DEF K!Described
  <2> QED
    BY <2>1, <2>2
<1>2. /\ IsFiniteSet(S) /\ \A i \in S : file.perLayer[i] \in Nat /\ a[i] \in Nat /\ b[i] \in Nat
      /\ file.keyLen \in Nat /\ file.valueLen \in Nat
      /\ K!SwaKey(file) \in Nat /\ K!SwaValue(file) \in Nat
  BY <1>1, LayerCosts
<1>3. T \in SUBSET S /\ \A i \in S : i \in T <=> file.pattern[i] # 0
  BY DEF K!Sliding, K!Windowed, K!Global
<1>4. R \in SUBSET S /\ IsFiniteSet(T) /\ IsFiniteSet(R)
  BY <1>2, <1>3, FS_Subset
<1>5. /\ file.keyLen + file.valueLen < U32 /\ K!SwaKey(file) + K!SwaValue(file) < U32
      /\ Total(a, R) < U64 /\ Total(b, T) < U64
  <2>1. R = K!Global(file) /\ T = K!Windowed(file)
    BY DEF K!Sliding, K!Windowed, K!Global
  <2>2. K!Total(K!Global(file), a) < U64 /\ K!Total(K!Windowed(file), b) < U64
    BY Zenon DEF K!Fits
  <2> HIDE DEF a, b, R, T
  <2> QED
    BY <2>1, <2>2, LayersTotal DEF K!Fits
<1>6. Total(a, R) \in Nat /\ Total(b, T) \in Nat
  <2> HIDE DEF a, b, R, T, S
  <2> QED
    BY <1>2, <1>3, <1>4, TotalNat
<1>7. row.agg = [global |-> Total(a, R), swa |-> Total(b, T)]
  <2> DEFINE a0 == [i \in S |-> K!PerToken(file.perLayer[i], file.keyLen, file.valueLen)]
             b0 == [i \in S |-> K!PerToken(file.perLayer[i], K!SwaKey(file), K!SwaValue(file))]
  <2>1. \A i \in S :
           /\ K!PerToken(file.perLayer[i], file.keyLen, file.valueLen)
                = file.perLayer[i] * (file.keyLen + file.valueLen) * 2
           /\ K!PerToken(file.perLayer[i], K!SwaKey(file), K!SwaValue(file))
                = file.perLayer[i] * (K!SwaKey(file) + K!SwaValue(file)) * 2
    BY <1>2, <1>5, TokenBytes
  <2>2. a0 = a /\ b0 = b
    BY <2>1 DEF K!LayerCost, K!SwaCost
  <2>3. K!Aggregates(file) = [global |-> K!Total(R, a0) % U64, swa |-> K!Total(T, b0) % U64]
    BY Zenon DEF K!Aggregates
  <2>4. Total(a, R) % U64 = Total(a, R) /\ Total(b, T) % U64 = Total(b, T)
    <3> HIDE DEF a, b, R, T
    <3> QED
      BY <1>5, <1>6
  <2> HIDE DEF a0, b0, a, b, R, T
  <2> QED
    BY <2>2, <2>3, <2>4, LayersTotal
<1>8. t \in Nat /\ t = K!Least(c, K!Either(file.window, c))
  <2>1. file.window \in {None} \cup Nat
    BY DEF K!Described
  <2> QED
    BY <2>1 DEF K!SwaTokens, K!Least, K!Either
<1>9. \A i \in R : v[i] = a[i] * c /\ a[i] \in Int
  BY <1>2, <1>3 DEF K!LayerTokens
<1>10. \A i \in T : v[i] = b[i] * t /\ b[i] \in Int
  BY <1>2, <1>3, <1>8 DEF K!LayerTokens
<1> HIDE DEF a, b, v, t, T, R, S
<1>11. Total(v, R) = Total(a, R) * c
  BY <1>4, <1>9, TotalTimes
<1>12. Total(v, T) = Total(b, T) * t
  <2>1. t \in Int
    BY <1>8
  <2> QED
    BY <1>4, <1>10, <2>1, TotalTimes
<1>13. Total(v, S) = Total(v, T) + Total(v, R)
  <2>1. \A i \in S : v[i] \in Int
    <3>1. S = T \cup R
      BY <1>3 DEF R
    <3>2. \A x, y \in Int : x * y \in Int
      OBVIOUS
    <3> QED
      BY <1>8, <1>9, <1>10, <3>1, <3>2
  <2> QED
    BY <1>2, <1>3, <2>1, TotalSplit DEF R
<1> DEFINE x == Total(a, R) * c
           y == Total(b, T) * t
<1>14. x \in Nat /\ y \in Nat
  BY <1>6, <1>8
<1>15. Total(v, S) = x + y
  <2>1. Total(v, S) = y + x
    BY <1>11, <1>12, <1>13
  <2> HIDE DEF x, y
  <2> QED
    BY <1>14, <2>1
<1>16. K!KvBytes(c, p) = K!Saturated(K!Saturated(K!Saturated(x) + K!Saturated(y)) * p)
  <2>1. row.agg.global = Total(a, R) /\ row.agg.swa = Total(b, T) /\ row.agg.swa # None
    BY <1>6, <1>7
  <2> QED
    BY <2>1, Zenon DEF K!KvBytes, K!FromAggregates, t
<1>17. K!ByLayers(file, c, p) = Total(v, S) * p
  BY LayersTotal, Zenon DEF K!ByLayers, v, a, b, S
<1> HIDE DEF x, y
<1>18. K!Saturated(K!Saturated(x) + K!Saturated(y)) = K!Saturated(x + y) /\ x + y \in Nat
  BY <1>14, SaturatedSum
<1>19. K!Saturated(K!Saturated(x + y) * p) = K!Saturated((x + y) * p)
  BY <1>18, SaturatedProduct
<1> QED
  BY <1>15, <1>16, <1>17, <1>18, <1>19

\* One that does not: all layers global, which is what the older formula gives.
LEMMA PlainProduct ==
    ASSUME None \notin Nat, U32 \in Nat \ {0}, U64 \in Nat \ {0},
           NEW c \in Nat, NEW p \in Nat \ {0}, file \in K!Described,
           row.agg = K!Aggregates(file), row.agg.global # None, OfTheFile(row, file),
           file.keyLen # None, file.valueLen # None, ~ K!ByLayer(file), K!Fits(file)
    PROVE  /\ K!KvBytes(c, p) = K!Saturated(K!AllGlobal(file, c, p))
           /\ K!Counted /\ K!AllGlobal(file, c, p) < U64 => K!KvBytes(c, p) = K!FromCounts(c, p)
<1> DEFINE l == file.layers
           h == file.kvHeads
           s == file.keyLen + file.valueLen
           g == l * (h * s * 2)
           bytes == K!AllGlobal(file, c, p)
<1>1. l # None /\ h # None
  <2>1. l = None \/ h = None => K!Aggregates(file) = K!NoAggregates
    BY Zenon DEF K!Aggregates
  <2>2. K!NoAggregates.global = None
    BY DEF K!NoAggregates
  <2> QED
    BY <2>1, <2>2
<1>2. l \in Nat /\ h \in Nat /\ file.keyLen \in Nat /\ file.valueLen \in Nat
  BY <1>1 DEF K!Described
<1>3. s \in Nat /\ s < U32 /\ g < U64
  <2>1. s < U32 /\ g < U64
    BY Zenon DEF K!Fits
  <2> QED
    BY <1>2, <2>1
<1>4. h * s * 2 \in Nat
  <2> HIDE DEF s, h
  <2> QED
    BY <1>2, <1>3
<1>5. g \in Nat
  <2> DEFINE k == h * s * 2
  <2>1. k \in Nat
    BY <1>4
  <2> HIDE DEF k
  <2>2. l * k \in Nat
    BY <1>2, <2>1
  <2> QED
    BY <2>2 DEF k
<1>6. row.agg = [global |-> g, swa |-> None]
  <2>1. K!PerToken(h, file.keyLen, file.valueLen) = h * s * 2
    BY <1>2, <1>3, TokenBytes
  <2>2. K!Aggregates(file)
          = [global |-> (l * K!PerToken(h, file.keyLen, file.valueLen)) % U64, swa |-> None]
    BY <1>1, Zenon DEF K!Aggregates
  <2> HIDE DEF g
  <2>3. g % U64 = g
    BY <1>3, <1>5
  <2>4. l * K!PerToken(h, file.keyLen, file.valueLen) = g
    BY <2>1 DEF g
  <2> QED
    BY <2>2, <2>3, <2>4
<1>7. bytes = g * c * p
  BY Zenon DEF K!AllGlobal
<1> HIDE DEF bytes
<1>8. K!KvBytes(c, p) = K!Saturated(bytes)
  <2>1. K!KvBytes(c, p) = K!Saturated(K!Saturated(K!Saturated(g * c) + 0) * p)
    <3> HIDE DEF g
    <3>1. row.agg.global = g /\ row.agg.swa = None
      BY <1>6
    <3> QED
      BY <3>1, Zenon DEF K!KvBytes, K!FromAggregates
  <2> HIDE DEF g
  <2>2. g * c \in Nat
    BY <1>5
  <2>3. K!Saturated(K!Saturated(g * c) + 0) = K!Saturated(g * c)
    <3> DEFINE x == g * c
    <3>1. x \in Nat
      BY <2>2
    <3> HIDE DEF x
    <3>2. K!Saturated(0) = 0 /\ K!Saturated(x) \in Nat
      BY <3>1, SaturatedType
    <3>3. K!Saturated(K!Saturated(x) + K!Saturated(0)) = K!Saturated(x + 0)
      BY <3>1, SaturatedSum
    <3> QED
      BY <3>1, <3>2, <3>3 DEF x
  <2> QED
    BY <1>7, <2>1, <2>2, <2>3, SaturatedProduct
<1>9. ASSUME K!Counted, bytes < U64
      PROVE  K!KvBytes(c, p) = K!FromCounts(c, p)
  <2> DEFINE x == l * h * s * c * p * 2
  <2>1. K!FromCounts(c, p) = x % U64
    <3>1. /\ row.counts.layers = l /\ row.counts.kvHeads = h
          /\ row.keyLen = file.keyLen /\ row.valueLen = file.valueLen
      BY DEF OfTheFile, K!Counts
    <3>2. /\ K!Either(row.keyLen, K!HeadDim) = file.keyLen
          /\ K!Either(row.valueLen, K!HeadDim) = file.valueLen
      BY <3>1 DEF K!Either
    <3> QED
      BY <1>9, <3>1, <3>2, Zenon DEF K!FromCounts
  <2>2. x = bytes /\ bytes \in Nat
    <3> HIDE DEF l, h, s
    <3>1. x = l * (h * s * 2) * c * p
      BY <1>2, <1>3
    <3>2. bytes = l * (h * s * 2) * c * p
      BY <1>7
    <3>3. g * c \in Nat
      BY <1>5
    <3>4. g * c * p \in Nat
      BY <3>3
    <3> QED
      BY <1>7, <3>1, <3>2, <3>4
  <2> HIDE DEF x
  <2>3. x % U64 = bytes
    BY <1>9, <2>2
  <2>4. K!Saturated(bytes) = bytes
    BY <1>9, <2>2, SaturatedType
  <2> QED
    BY <1>8, <2>1, <2>3, <2>4
<1> QED
  BY <1>8, <1>9 DEF bytes

LEMMA MemoryCounted ==
    ASSUME ConversionsAssumption, MemoryInv
    PROVE  K!EstimateIsTheLayers
<1> SUFFICES ASSUME ask # None, row.agg.global # None, K!Fits(file)
             PROVE  IF K!ByLayer(file)
                    THEN ask.bytes = K!Saturated(K!ByLayers(file, ask.context, ask.parallel))
                    ELSE /\ ask.bytes = K!Saturated(K!AllGlobal(file, ask.context, ask.parallel))
                         /\ K!Counted /\ K!AllGlobal(file, ask.context, ask.parallel) < U64 =>
                               ask.bytes = K!FromCounts(ask.context, ask.parallel)
  BY Zenon DEF K!EstimateIsTheLayers
<1>1. /\ None \notin Nat /\ U32 \in Nat \ {0} /\ U64 \in Nat \ {0}
      /\ file \in K!Described /\ row # None
  BY DEF ConversionsAssumption, MemoryInv
<1>2. /\ row.agg = K!Aggregates(file) /\ OfTheFile(row, file)
      /\ row.window = file.window /\ file.keyLen # None /\ file.valueLen # None
  <2>1. row.agg \in {K!NoAggregates, K!Aggregates(file)} /\ OfTheFile(row, file)
    BY <1>1 DEF MemoryInv, IsRowOf
  <2>2. K!NoAggregates.global = None
    BY DEF K!NoAggregates
  <2>3. row.agg = K!Aggregates(file)
    BY <2>1, <2>2
  <2>4. file.keyLen # None /\ file.valueLen # None
    BY <2>2, <2>3, Zenon DEF K!Aggregates
  <2> QED
    BY <2>1, <2>3, <2>4 DEF OfTheFile
<1>3. PICK c \in Contexts, p \in Parallels : ask = Estimated(c, p)
  BY DEF MemoryInv
<1>4. ask.context = c /\ ask.parallel = p /\ ask.bytes = K!KvBytes(c, p)
  BY <1>3 DEF Estimated
<1>5. c \in Nat /\ p \in Nat \ {0}
  BY DEF ConversionsAssumption
<1>6. CASE K!ByLayer(file)
  BY <1>1, <1>2, <1>4, <1>5, <1>6, ByLayerSum
<1>7. CASE ~ K!ByLayer(file)
  BY <1>1, <1>2, <1>4, <1>5, <1>7, PlainProduct
<1> QED
  BY <1>6, <1>7

LEMMA MemorySame ==
    ASSUME MemoryInv, UNCHANGED memory
    PROVE  MemoryInv'
<1>1. file' = file /\ row' = row /\ ask' = ask
  BY DEF memory
<1>2. ASSUME NEW c \in Contexts, NEW p \in Parallels PROVE Estimated(c, p)' = Estimated(c, p)
  BY <1>1, Zenon DEF Estimated, K!KvBytes, K!FromAggregates, K!FromCounts, K!Counted, K!SwaTokens, K!HeadDim
<1> QED
  BY <1>1, <1>2, Zenon DEF MemoryInv

-----------------------------------------------------------------------------
(* Files.                                                                  *)

\* The least of a set of naturals is in it.
LEMMA LeastPlace ==
    ASSUME NEW S \in SUBSET Nat, S # {}
    PROVE  D!Min(S) \in S /\ \A y \in S : D!Min(S) <= y
<1>1. PICK x \in S : \A y \in S : ~ (<<y, x>> \in LessThan)
  BY LessThanWellFounded, WFMin
<1>2. ASSUME NEW y \in S PROVE x <= y
  <2>1. <<y, x>> \in Nat \X Nat /\ <<y, x>> \notin LessThan
    BY <1>1
  <2>2. ~ (y < x)
    BY <2>1 DEF LessThan
  <2> QED
    BY <2>2
<1> QED
  BY <1>1, <1>2 DEF D!Min

\* The projectors no other comes before.
BestProjectors == {f \in D!Projectors : \A g \in D!Projectors : D!Before(f, g)}
Projector == D!Preferred(D!Projectors)

\* Of files in different places, Preferred names the place of the first one.
LEMMA PreferredIsFirst ==
    ASSUME NEW fs, fs # {}, \A f \in fs : f.place \in Nat,
           \A f, g \in fs : f.place = g.place => f = g
    PROVE  /\ D!Preferred(fs) \in Nat
           /\ {f \in fs : \A g \in fs : D!Before(f, g)} # {}
           /\ \A f \in fs : (\A g \in fs : D!Before(f, g)) => f.place = D!Preferred(fs)
<1> DEFINE Of(p) == {f \in fs : f.precision = p}
           Best == IF Of("f16") # {} THEN Of("f16") ELSE IF Of("bf16") # {} THEN Of("bf16")
                   ELSE IF Of("f32") # {} THEN Of("f32") ELSE fs
           Spots == {f.place : f \in Best}
<1>1. Best \subseteq fs /\ Best # {}
  OBVIOUS
<1>2. ASSUME NEW f \in Best, NEW g \in fs
      PROVE  /\ D!Rank(f) \in Nat /\ D!Rank(g) \in Nat /\ D!Rank(f) <= D!Rank(g)
             /\ g \notin Best => D!Rank(f) < D!Rank(g)
  <2>1. CASE Of("f16") # {}
    BY <2>1 DEF D!Rank
  <2>2. CASE Of("f16") = {} /\ Of("bf16") # {}
    BY <2>2 DEF D!Rank
  <2>3. CASE Of("f16") = {} /\ Of("bf16") = {} /\ Of("f32") # {}
    BY <2>3 DEF D!Rank
  <2>4. CASE Of("f16") = {} /\ Of("bf16") = {} /\ Of("f32") = {}
    BY <2>4 DEF D!Rank
  <2> QED
    BY <2>1, <2>2, <2>3, <2>4
<1>3. D!Preferred(fs) = D!Min(Spots)
  BY Zenon DEF D!Preferred
<1> HIDE DEF Best
<1>4. Spots \in SUBSET Nat /\ Spots # {}
  BY <1>1
<1>5. D!Min(Spots) \in Spots /\ \A y \in Spots : D!Min(Spots) <= y
  <2> HIDE DEF Spots
  <2> QED
    BY <1>4, LeastPlace
<1>6. PICK f0 \in Best : f0.place = D!Min(Spots)
  BY <1>5
<1>7. \A g \in Best : f0.place <= g.place
  BY <1>5, <1>6
<1>8. \A g \in fs : D!Before(f0, g)
  BY <1>1, <1>2, <1>7 DEF D!Before
<1>9. ASSUME NEW f \in fs, \A g \in fs : D!Before(f, g) PROVE f.place = f0.place
  <2>1. f0 \in fs /\ D!Before(f, f0)
    BY <1>1, <1>9
  <2>2. f \in Best
    BY <1>2, <2>1 DEF D!Before
  <2>3. D!Rank(f0) <= D!Rank(f) /\ D!Rank(f) <= D!Rank(f0) /\ D!Rank(f) \in Nat /\ D!Rank(f0) \in Nat
    BY <1>1, <1>2, <2>2
  <2>4. f.place <= f0.place /\ f0.place <= f.place
    BY <1>7, <2>1, <2>2, <2>3 DEF D!Before
  <2> QED
    BY <1>1, <2>1, <2>4
<1> QED
  BY <1>1, <1>3, <1>4, <1>5, <1>6, <1>8, <1>9

\* The projectors are files of the listing, each in a place of its own.
LEMMA ProjectorPlaces ==
    ASSUME D!IsListing(listing)
    PROVE  /\ \A f \in D!Projectors : f.place \in Nat
           /\ \A f, g \in D!Projectors : f.place = g.place => f = g
  BY DEF D!IsListing, D!Projectors, D!FilesAt

\* The place of the projector is that of the one nothing comes before.
LEMMA ProjectorIsBest ==
    ASSUME D!IsListing(listing), None \notin Nat
    PROVE  {f \in D!Projectors : f.place = Projector} = BestProjectors
<1>1. CASE D!Projectors = {}
  BY <1>1 DEF BestProjectors
<1>2. CASE D!Projectors # {}
  <2>1. /\ BestProjectors # {}
        /\ \A f \in BestProjectors : f.place = Projector
    BY <1>2, ProjectorPlaces, PreferredIsFirst DEF BestProjectors, Projector
  <2>2. PICK b \in BestProjectors : b.place = Projector
    BY <2>1
  <2>3. \A f \in D!Projectors : f.place = Projector => f = b
    BY <2>2, ProjectorPlaces DEF BestProjectors
  <2> QED
    BY <2>1, <2>2, <2>3 DEF BestProjectors
<1> QED
  BY <1>1, <1>2

IsRow(r) == r = [id |-> r.id, downloaded |-> r.downloaded, primary |-> r.primary,
                 mmproj |-> r.mmproj, tokenizer |-> r.tokenizer]

\* A row of a download names the projector of the repository; any other names none
\* or one that only projectors among the missing files come before.  What is named
\* is among the files that have been there.
Named(f, been, missing) ==
    f \in D!Projectors \cap been /\ \A g \in D!Projectors : D!Before(f, g) \/ g \in missing

RowFits(r, been, missing) ==
    /\ IsRow(r)
    /\ r.downloaded => r.mmproj = Projector /\ D!Projectors \subseteq been
    /\ ~ r.downloaded => r.mmproj = None \/ \E f : Named(f, been, missing) /\ f.place = r.mmproj

\* The files a download has still to bring.
Coming == D!FilesAt(task.left)

IsJob(j) == /\ j = [at |-> j.at, left |-> j.left]
            /\ j.left \subseteq j.at
            /\ j.at # {} => \E filter \in Filters : j.at = D!Downloadable(filter)

\* What the rows of a repository name, and where its projectors are: once a file
\* is on the disk or a download under way, every projector is there, has been cut
\* short or removed, or is coming.
FilesInv ==
    /\ D!IsListing(listing)
    /\ disk \cup lost \subseteq D!FilesAt(DOMAIN listing)
    /\ IsJob(task)
    /\ disk # {} \/ task.at # {} => D!Projectors \subseteq disk \cup lost \cup Coming
    /\ \A r \in rows : RowFits(r, disk \cup lost, lost)

LEMMA FilesStart == ASSUME ConversionsAssumption, D!Init PROVE FilesInv
<1>1. IsJob(D!Idle) /\ D!Idle.at = {}
  BY DEF IsJob, D!Idle
<1>2. D!IsListing(listing) /\ disk = {} /\ lost = {} /\ rows = {} /\ task = D!Idle
  BY DEF ConversionsAssumption, D!Init
<1> QED
  BY <1>1, <1>2 DEF FilesInv

\* The projectors of a download are the repository's.
LEMMA DownloadsProjectors ==
    ASSUME NEW filter
    PROVE  /\ {f \in D!FilesAt(D!Downloadable(filter)) : D!IsMmproj(f)} = D!Projectors
           /\ D!Projectors \subseteq D!FilesAt(D!Downloadable(filter))
           /\ D!Downloadable(filter) \subseteq DOMAIN listing
  BY DEF D!FilesAt, D!Downloadable, D!IsMmproj, D!Projectors, D!Included

\* The next file is one of those to come, and the rest are the others.
LEMMA NextOfThem ==
    ASSUME FilesInv, task.left # {}
    PROVE  /\ D!NextFile \in D!FilesAt(task.left)
           /\ D!FilesAt(task.left) \subseteq D!FilesAt(DOMAIN listing)
           /\ D!FilesAt(task.left) \subseteq D!FilesAt(task.left \ {D!Min(task.left)}) \cup {D!NextFile}
<1>1. task.left \subseteq DOMAIN listing
  BY DownloadsProjectors DEF FilesInv, IsJob
<1>2. DOMAIN listing \subseteq Nat
  BY DEF FilesInv, D!IsListing
<1>3. D!Min(task.left) \in task.left
  BY <1>1, <1>2, LeastPlace
<1> QED
  BY <1>1, <1>3 DEF D!FilesAt, D!NextFile

LEMMA SameProjectors ==
    ASSUME listing' = listing
    PROVE  /\ D!Projectors' = D!Projectors /\ Projector' = Projector
           /\ D!FilesAt(DOMAIN listing)' = D!FilesAt(DOMAIN listing)
           /\ \A at : D!FilesAt(at)' = D!FilesAt(at)
           /\ \A j : IsJob(j)' <=> IsJob(j)
           /\ \A r, been, missing : RowFits(r, been, missing)' <=> RowFits(r, been, missing)
<1>1. D!Projectors' = D!Projectors
  BY DEF D!Projectors, D!FilesAt
<1>2. Projector' = D!Preferred(D!Projectors')
  BY Zenon DEF Projector, D!Preferred, D!Min
<1>3. Projector' = Projector
  BY <1>1, <1>2, Zenon DEF Projector
<1>4. ASSUME NEW r, NEW been, NEW missing
      PROVE  RowFits(r, been, missing)' <=> RowFits(r, been, missing)
  BY <1>1, <1>3, Zenon DEF RowFits, IsRow, Named, D!Before, D!Rank
<1>5. ASSUME NEW j PROVE IsJob(j)' <=> IsJob(j)
  BY Zenon DEF IsJob, D!Downloadable
<1>6. \A at : D!FilesAt(at)' = D!FilesAt(at)
  BY DEF D!FilesAt
<1>7. D!FilesAt(DOMAIN listing)' = D!FilesAt(DOMAIN listing)
  BY DEF D!FilesAt
<1> QED
  BY <1>1, <1>3, <1>4, <1>5, <1>6, <1>7

\* A row that fitted still does when more files have been there or are missing.
LEMMA StillFits ==
    ASSUME NEW r, NEW b, NEW m, NEW c, NEW n, RowFits(r, b, m), b \subseteq c, m \subseteq n
    PROVE  RowFits(r, c, n)
  BY DEF RowFits, Named

\* After a step that keeps what has been there: the rows as before, or ones that fit.
LEMMA StillNamed ==
    ASSUME FilesInv, listing' = listing,
           disk \cup lost \subseteq disk' \cup lost', lost \subseteq lost',
           disk' \cup lost' \subseteq D!FilesAt(DOMAIN listing),
           IsJob(task'),
           disk' # {} \/ task'.at # {} =>
              D!Projectors \subseteq disk' \cup lost' \cup D!FilesAt(task'.left),
           \A r \in rows' : r \in rows \/ RowFits(r, disk' \cup lost', lost')
    PROVE  FilesInv'
<1>1. \A r \in rows' : RowFits(r, disk' \cup lost', lost')
  BY StillFits DEF FilesInv
<1>2. /\ D!Projectors' = D!Projectors
      /\ D!FilesAt(DOMAIN listing)' = D!FilesAt(DOMAIN listing)
      /\ IsJob(task)' <=> IsJob(task')
      /\ Coming' = D!FilesAt(task'.left)
      /\ (\A r \in rows : RowFits(r, disk \cup lost, lost))'
           <=> \A r \in rows' : RowFits(r, disk' \cup lost', lost')
  BY SameProjectors, Zenon DEF Coming
<1>3. D!IsListing(listing)'
  BY DEF FilesInv, D!IsListing
<1> QED
  BY <1>1, <1>2, <1>3, Zenon DEF FilesInv

\* Without a download under way none of its files is coming.
LEMMA NothingComes == IsJob(D!Idle) /\ D!Idle.at = {} /\ D!FilesAt(D!Idle.left) = {}
  BY DEF IsJob, D!Idle, D!FilesAt

LEMMA StartFits == ASSUME FilesInv, D!Start PROVE FilesInv'
<1>1. PICK filter \in Filters :
        task' = [at |-> D!Downloadable(filter), left |-> D!Downloadable(filter)]
  BY DEF D!Start
<1>2. listing' = listing /\ disk' = disk /\ lost' = lost /\ rows' = rows
  BY DEF D!Start
<1>3. IsJob(task') /\ D!Projectors \subseteq D!FilesAt(task'.left)
  BY <1>1, DownloadsProjectors DEF IsJob
<1> QED
  BY <1>2, <1>3, StillNamed DEF FilesInv

LEMMA FetchFits == ASSUME FilesInv, D!FetchFile PROVE FilesInv'
<1> DEFINE left == task.left \ {D!Min(task.left)}
           j == [at |-> task.at, left |-> left]
<1>1. /\ listing' = listing /\ lost' = lost /\ rows' = rows /\ task.left # {}
      /\ disk' = disk \cup {D!NextFile} /\ IsJob(task)
      /\ task' = [task EXCEPT !.left = left]
  BY DEF D!FetchFile, FilesInv
<1>2. task' = j
  <2> DEFINE a == task.at
             b == task.left
  <2>1. task = [at |-> a, left |-> b]
    BY <1>1 DEF IsJob
  <2> HIDE DEF a, b, left
  <2>2. [task EXCEPT !.left = left] = [at |-> a, left |-> left]
    BY <2>1
  <2> QED
    BY <1>1, <2>2 DEF a
<1>3. IsJob(j) /\ j.left = left /\ task.at # {}
  BY <1>1 DEF IsJob
<1>4. /\ D!NextFile \in D!FilesAt(DOMAIN listing)
      /\ D!FilesAt(task.left) \subseteq D!FilesAt(left) \cup {D!NextFile}
  BY <1>1, NextOfThem
<1>5. D!Projectors \subseteq disk' \cup lost' \cup D!FilesAt(task'.left)
  BY <1>1, <1>2, <1>3, <1>4 DEF FilesInv, Coming
<1>6. disk' \cup lost' \subseteq D!FilesAt(DOMAIN listing)
  BY <1>1, <1>4 DEF FilesInv
<1> HIDE DEF left, j
<1> QED
  BY <1>1, <1>2, <1>3, <1>5, <1>6, StillNamed

\* What a download did not bring is noted.
LEMMA CutFits == ASSUME FilesInv, D!CutShort PROVE FilesInv'
<1>1. /\ listing' = listing /\ rows' = rows /\ task.left # {} /\ task' = D!Idle
      /\ lost' = lost \cup Coming
      /\ disk' \in {disk, disk \cup {D!NextFile}, disk \ {D!NextFile}}
  BY DEF D!CutShort, Coming
<1>2. D!NextFile \in Coming /\ Coming \subseteq D!FilesAt(DOMAIN listing)
  BY <1>1, NextOfThem DEF Coming
<1>3. /\ disk \cup lost \subseteq disk' \cup lost' /\ lost \subseteq lost'
      /\ disk' \cup lost' \subseteq D!FilesAt(DOMAIN listing)
  BY <1>1, <1>2 DEF FilesInv
<1>4. D!Projectors \subseteq disk' \cup lost'
  <2>1. task.at # {}
    BY <1>1 DEF FilesInv, IsJob
  <2> QED
    BY <1>1, <1>3, <2>1 DEF FilesInv
<1> QED
  BY <1>1, <1>3, <1>4, NothingComes, StillNamed

\* A download that has brought all its files names the projector.
LEMMA FinishFits == ASSUME FilesInv, D!Finish PROVE FilesInv'
<1>1. /\ listing' = listing /\ disk' = disk /\ lost' = lost /\ task' = D!Idle
      /\ task # D!Idle /\ task.left = {}
  BY DEF D!Finish
<1>2. task.at # {}
  BY <1>1 DEF FilesInv, IsJob, D!Idle
<1>3. D!Projectors \subseteq disk \cup lost
  <2>1. Coming = {}
    BY <1>1 DEF Coming, D!FilesAt
  <2> QED
    BY <1>2, <2>1 DEF FilesInv
<1>4. ASSUME NEW id, NEW r,
             r = [id |-> id, downloaded |-> TRUE, primary |-> D!Primary(task.at),
                  mmproj |-> D!Detected(D!FilesAt(task.at)), tokenizer |-> D!TokenizerFrom]
      PROVE  RowFits(r, disk \cup lost, lost)
  <2>1. PICK filter \in Filters : task.at = D!Downloadable(filter)
    BY <1>2 DEF FilesInv, IsJob
  <2>2. D!Detected(D!FilesAt(task.at)) = Projector
    BY <2>1, DownloadsProjectors, Zenon DEF D!Detected, Projector
  <2> DEFINE p == D!Primary(task.at)
             m == D!Detected(D!FilesAt(task.at))
             k == D!TokenizerFrom
  <2>3. IsRow(r) /\ r.downloaded = TRUE /\ r.mmproj = m
    <3>1. r = [id |-> id, downloaded |-> TRUE, primary |-> p, mmproj |-> m, tokenizer |-> k]
      BY <1>4
    <3> HIDE DEF p, m, k
    <3> QED
      BY <3>1 DEF IsRow
  <2> QED
    BY <1>3, <2>2, <2>3 DEF RowFits
<1>5. \A r \in rows' : r \in rows \/ RowFits(r, disk' \cup lost', lost')
  BY <1>1, <1>4 DEF D!Finish
<1> QED
  BY <1>1, <1>3, <1>5, NothingComes, StillNamed DEF FilesInv

LEMMA RegisterFits == ASSUME FilesInv, D!Register PROVE FilesInv'
<1>1. listing' = listing /\ disk' = disk /\ lost' = lost /\ task' = task
  BY DEF D!Register
<1>2. ASSUME NEW id, NEW r, r = [id |-> id, downloaded |-> FALSE, primary |-> None,
                                 mmproj |-> None, tokenizer |-> None]
      PROVE  RowFits(r, disk \cup lost, lost)
  BY <1>2 DEF RowFits, IsRow
<1>3. \A r \in rows' : r \in rows \/ RowFits(r, disk' \cup lost', lost')
  BY <1>1, <1>2 DEF D!Register
<1> QED
  BY <1>1, <1>3, StillNamed DEF FilesInv, Coming

\* The projector picked from the directory is one that only missing ones come before.
LEMMA PickedIsNamed ==
    ASSUME FilesInv, task = D!Idle
    PROVE  /\ D!OnDisk = {} => D!Picked = None
           /\ D!OnDisk # {} => /\ \E f : Named(f, disk \cup lost, lost) /\ f.place = D!Picked
                               /\ D!Projectors \subseteq disk \cup lost
<1>1. D!OnDisk = D!Projectors \cap disk
  BY DEF FilesInv, D!OnDisk, D!Projectors
<1>2. D!OnDisk = {} => D!Picked = None
  BY DEF D!Picked, D!Preferred
<1>3. ASSUME D!OnDisk # {}
      PROVE  /\ \E f : Named(f, disk \cup lost, lost) /\ f.place = D!Picked
             /\ D!Projectors \subseteq disk \cup lost
  <2>1. D!Projectors \subseteq disk \cup lost
    BY <1>1, <1>3, NothingComes DEF FilesInv, Coming
  <2>2. /\ \A f \in D!OnDisk : f.place \in Nat
        /\ \A f, g \in D!OnDisk : f.place = g.place => f = g
    BY <1>1, ProjectorPlaces DEF FilesInv
  <2>3. /\ {f \in D!OnDisk : \A g \in D!OnDisk : D!Before(f, g)} # {}
        /\ \A f \in D!OnDisk : (\A g \in D!OnDisk : D!Before(f, g)) => f.place = D!Preferred(D!OnDisk)
    BY <1>3, <2>2, PreferredIsFirst
  <2>4. PICK f \in D!OnDisk : (\A g \in D!OnDisk : D!Before(f, g)) /\ f.place = D!Preferred(D!OnDisk)
    BY <2>3
  <2>5. Named(f, disk \cup lost, lost)
    BY <1>1, <2>1, <2>4 DEF Named
  <2> QED
    BY <2>1, <2>4, <2>5 DEF D!Picked
<1> QED
  BY <1>2, <1>3

\* Without projectors there is none to name.
LEMMA NoProjector == (D!Projectors = {}) => Projector = None
  BY DEF Projector, D!Preferred

LEMMA ProjectorPlaced ==
    ASSUME D!IsListing(listing), D!Projectors # {}
    PROVE  Projector \in Nat
  BY ProjectorPlaces, PreferredIsFirst DEF Projector

LEMMA BackfillFits == ASSUME None \notin Nat, FilesInv, D!Backfill PROVE FilesInv'
<1>1. /\ listing' = listing /\ disk' = disk /\ lost' = lost /\ task' = task /\ task = D!Idle
      /\ rows' = {[r EXCEPT !.mmproj = IF @ = None THEN D!Picked ELSE @] : r \in rows}
  BY DEF D!Backfill
<1>2. ASSUME NEW r \in rows
      PROVE  RowFits([r EXCEPT !.mmproj = IF @ = None THEN D!Picked ELSE @], disk \cup lost, lost)
  <2> DEFINE m == IF r.mmproj = None THEN D!Picked ELSE r.mmproj
             q == [r EXCEPT !.mmproj = m]
  <2>1. RowFits(r, disk \cup lost, lost) /\ IsRow(r)
    BY DEF FilesInv, RowFits
  <2>2. IsRow(q) /\ q.mmproj = m /\ q.downloaded = r.downloaded
    <3> HIDE DEF m
    <3> QED
      BY <2>1 DEF IsRow
  <2>3. m = r.mmproj \/ (r.mmproj = None /\ m = D!Picked)
    OBVIOUS
  <2>4. r.downloaded => m = Projector
    <3>1. CASE r.downloaded /\ r.mmproj = None
      <4>1. Projector = None
        BY <2>1, <3>1 DEF RowFits
      <4>2. D!Projectors = {}
        BY <4>1, ProjectorPlaced DEF FilesInv
      <4>3. D!OnDisk = {}
        BY <4>2 DEF FilesInv, D!OnDisk, D!Projectors
      <4> QED
        BY <1>1, <2>3, <3>1, <4>1, <4>3, PickedIsNamed
    <3>2. CASE r.downloaded /\ r.mmproj # None
      BY <2>1, <3>2 DEF RowFits
    <3> QED
      BY <3>1, <3>2
  <2>5. ~ r.downloaded => m = None \/ \E f : Named(f, disk \cup lost, lost) /\ f.place = m
    BY <1>1, <2>1, <2>3, PickedIsNamed DEF RowFits
  <2> HIDE DEF m
  <2>6. RowFits(q, disk \cup lost, lost)
    <3> HIDE DEF q
    <3> QED
      BY <2>1, <2>2, <2>4, <2>5 DEF RowFits
  <2> QED
    BY <2>6 DEF m
<1>3. \A r \in rows' : RowFits(r, disk' \cup lost', lost')
  BY <1>1, <1>2
<1> QED
  BY <1>1, <1>3, StillNamed DEF FilesInv, Coming

LEMMA DeleteFits == ASSUME FilesInv, D!Delete PROVE FilesInv'
<1>1. /\ listing' = listing /\ task' = task /\ rows' \subseteq rows
      /\ (disk' = {} /\ lost' = lost \cup disk) \/ (disk' = disk /\ lost' = lost)
  BY DEF D!Delete
<1>2. disk' \cup lost' = disk \cup lost /\ lost \subseteq lost'
  BY <1>1
<1>3. disk' # {} => disk # {}
  BY <1>1
<1> QED
  BY <1>1, <1>2, <1>3, StillNamed DEF FilesInv, Coming

LEMMA FilesStep == ASSUME None \notin Nat, FilesInv, D!Next PROVE FilesInv'
<1>1. \/ D!Start \/ D!FetchFile \/ D!CutShort \/ D!Finish \/ D!Register \/ D!Backfill
      \/ D!Delete
  BY DEF D!Next
<1> QED
  BY <1>1, StartFits, FetchFits, CutFits, FinishFits, RegisterFits, BackfillFits, DeleteFits

LEMMA FilesSame ==
    ASSUME FilesInv, UNCHANGED repository
    PROVE  FilesInv'
<1>1. listing' = listing /\ disk' = disk /\ rows' = rows /\ task' = task /\ lost' = lost
  BY DEF repository
<1> QED
  BY <1>1, StillNamed DEF FilesInv, Coming

LEMMA FilesNamed ==
    ASSUME None \notin Nat, FilesInv
    PROVE  D!OneProjector
<1> SUFFICES ASSUME NEW r \in rows, NEW named,
                    named = {f \in D!Projectors : f.place = r.mmproj}
             PROVE  /\ IF r.downloaded THEN named = BestProjectors ELSE r.mmproj = None \/ named # {}
                    /\ \A f \in named : \A g \in D!Projectors : D!Before(f, g) \/ g \in lost
                    /\ named \subseteq disk \cup lost
  BY DEF D!OneProjector, BestProjectors
<1>1. RowFits(r, disk \cup lost, lost)
  BY DEF FilesInv
<1>2. CASE r.downloaded
  <2>1. r.mmproj = Projector /\ D!Projectors \subseteq disk \cup lost
    BY <1>1, <1>2 DEF RowFits
  <2>2. named = BestProjectors
    BY <2>1, ProjectorIsBest DEF FilesInv
  <2> QED
    BY <1>2, <2>1, <2>2 DEF BestProjectors
<1>3. CASE ~ r.downloaded
  <2>1. CASE r.mmproj = None
    <3>1. named = {}
      BY <2>1, ProjectorPlaces DEF FilesInv
    <3> QED
      BY <1>3, <2>1, <3>1
  <2>2. CASE r.mmproj # None
    <3>1. PICK f : Named(f, disk \cup lost, lost) /\ f.place = r.mmproj
      BY <1>1, <1>3, <2>2 DEF RowFits
    <3>2. named = {f}
      BY <3>1, ProjectorPlaces DEF FilesInv, Named
    <3> QED
      BY <1>3, <3>1, <3>2 DEF Named
  <2> QED
    BY <2>1, <2>2
<1> QED
  BY <1>2, <1>3

-----------------------------------------------------------------------------
(* The conversions together.                                               *)

ConversionsInv ==
    /\ part = "reader" => ReaderInv
    /\ part = "memory" => MemoryInv
    /\ part = "files" => FilesInv

LEMMA ConversionsStart == ASSUME ConversionsAssumption, ConversionsInit PROVE ConversionsInv
<1>1. \/ part = "reader" /\ G!Init
      \/ part = "memory" /\ K!Init
      \/ part = "files" /\ D!Init
      \/ part = "conversation"
  BY DEF ConversionsInit
<1> QED
  BY <1>1, ReaderStart, MemoryStart, FilesStart DEF ConversionsInv

LEMMA ConversionsStep ==
    ASSUME ConversionsAssumption, ConversionsInv,
           [ConversionsNext]_<<part, reader, memory, repository, conversation>>
    PROVE  ConversionsInv'
<1>1. CASE ConversionsNext
  <2>1. /\ part' = part
        /\ \/ part = "reader" /\ G!Next
           \/ part = "memory" /\ K!Next
           \/ part = "files" /\ D!Next
           \/ part = "conversation"
    BY <1>1 DEF ConversionsNext
  <2>2. None \notin Nat
    BY DEF ConversionsAssumption
  <2> QED
    BY <2>1, <2>2, ReaderStep, MemoryStep, FilesStep DEF ConversionsInv
<1>2. CASE UNCHANGED <<part, reader, memory, repository, conversation>>
  <2>1. part' = part /\ UNCHANGED reader /\ UNCHANGED memory /\ UNCHANGED repository
    BY <1>2
  <2> QED
    BY <2>1, ReaderSame, MemorySame, FilesSame DEF ConversionsInv
<1> QED
  BY <1>1, <1>2

\* What holds of each conversion at every step.  The reader is where the file says
\* and has understood what it has passed, or has returned an error, and then for
\* too many pairs or a string it refuses.  What a row stores is empty or what the
\* file says, and the estimate comes from the row.  Once a file is on the disk or a
\* download under way, every projector of the repository is there, has been cut
\* short or removed, or is coming; rows of downloads name the best of all of them,
\* other rows one that only missing ones come before (read_gguf_metadata,
\* insert_downloaded_model, backfill_gguf_metadata, run_download,
\* backfill_mmproj_filename, delete_model).
THEOREM ConversionsInvariant == ConversionsSpec => []ConversionsInv
<1>1. ConversionsInit => ConversionsInv
  BY ConversionsAssumption, ConversionsStart
<1>2. ConversionsInv /\ [ConversionsNext]_<<part, reader, memory, repository, conversation>>
        => ConversionsInv'
  BY ConversionsAssumption, ConversionsStep
<1> QED
  BY <1>1, <1>2, PTL DEF ConversionsSpec

\* A header of well-formed pairs, of any number, with any keys and values: as long
\* as the head counts met are integers the reader is at the start of a pair whenever
\* it has finished one, and has understood what the pairs so far say; or there are
\* more than MaxPairs, or a string of those pairs is unreadable, and then it has
\* returned an error (read_gguf_metadata, skip_value).
THEOREM HeadersAreRead == ConversionsSpec => []ReaderInStep
<1>1. ConversionsInv => ReaderInStep
  BY ReaderUnderstands DEF ConversionsInv, ReaderInStep
<1> QED
  BY <1>1, ConversionsInvariant, PTL

\* For any number of layers, head counts, key and value lengths, windows, contexts
\* and slots, and rows completed by a start of the program: if the aggregates are
\* there and have not wrapped, the estimate the administrator is shown is the sum
\* over the layers, or the largest number there is (compute_kv_aggregates,
\* estimate_kv_cache_mb, backfill_gguf_metadata).
THEOREM EstimatesAddUp == ConversionsSpec => []EstimateIsTheLayers
<1>1. ConversionsInv => EstimateIsTheLayers
  BY ConversionsAssumption, MemoryCounted DEF ConversionsInv, EstimateIsTheLayers
<1> QED
  BY <1>1, ConversionsInvariant, PTL

\* For any listing that names each path once, any choice of files and downloads cut
\* short after any of them: the row of a download names the repository's projector,
\* any other row none, or one that only projectors cut short or removed come before
\* (should_include, detect_mmproj_file, pick_mmproj_variant, delete_model).
THEOREM RowsNameTheProjector == ConversionsSpec => []OneProjector
<1>1. ConversionsInv => OneProjector
  <2>1. None \notin Nat
    BY ConversionsAssumption
  <2> QED
    BY <2>1, FilesNamed DEF ConversionsInv, OneProjector
<1> QED
  BY <1>1, ConversionsInvariant, PTL
=============================================================================
