-------------------------- MODULE MeasurementProofs ---------------------------
(***************************************************************************)
(* Theorems about the histograms of a run: their types; that every         *)
(* response is counted once, under its latency; that the percentiles, the  *)
(* extremes and the mean of the report are right to the precision of the   *)
(* histogram; and that a scrape, which takes no lock, reports counts       *)
(* between those of its beginning and of its end and has a copy the        *)
(* iterator does not run off.                                              *)
(*                                                                         *)
(* Powers of two, sums over the threads and walks over the counts are      *)
(* recursive functions; the induction for each is one over a set of        *)
(* numbers, AllNumbers, or of sets, AllSubsets.                            *)
(***************************************************************************)
EXTENDS Measurement, TLAPS, FiniteSetTheorems, WellFoundedInduction

-------------------------------------------------------------------------------
(* Numbers *)

\* Induction over the numbers, for a set of them.
LEMMA AllNumbers ==
    ASSUME NEW D \in SUBSET Nat, 0 \in D, \A n \in D : n + 1 \in D
    PROVE  D = Nat
  <1>1. ASSUME NEW m \in Nat \ D PROVE FALSE
    <2>1. PICK x \in Nat \ D : \A y \in Nat \ D : ~(<<y, x>> \in OpToRel(<, Nat))
      BY NatLessThanWellFounded, WFMin
    <2>2. x - 1 \in Nat /\ x - 1 < x
      OBVIOUS
    <2>3. x - 1 \in D
      BY <2>1, <2>2 DEF OpToRel
    <2>4. (x - 1) + 1 \in D /\ (x - 1) + 1 = x
      BY <2>3
    <2> QED
      BY <2>1, <2>4
  <1> QED
    BY <1>1

\* A set of numbers has a least one, and one with a bound a greatest.
LEMMA LeastOf ==
    ASSUME NEW S \in SUBSET Nat, S # {}
    PROVE  Min(S) \in S /\ \A x \in S : Min(S) <= x
  <1>0. S \subseteq Nat
    OBVIOUS
  <1>1. PICK m \in S : \A y \in S : ~(<<y, m>> \in OpToRel(<, Nat))
    BY <1>0, NatLessThanWellFounded, WFMin, Zenon
  <1>2. ASSUME NEW y \in S PROVE m <= y
    <2>1. y \in Nat /\ m \in Nat
      OBVIOUS
    <2>2. ~(y < m)
      BY <1>1, <2>1 DEF OpToRel
    <2> QED
      BY <2>1, <2>2
  <1> QED
    BY <1>2 DEF Min

LEMMA GreatestOf ==
    ASSUME NEW S \in SUBSET Nat, S # {}, NEW n \in Nat, \A x \in S : x <= n
    PROVE  Max(S) \in S /\ \A x \in S : x <= Max(S)
  <1> DEFINE T == {n - x : x \in S}
  <1>1. T \in SUBSET Nat /\ T # {}
    <2>1. \A x \in S : n - x \in Nat
      OBVIOUS
    <2>2. PICK x \in S : TRUE
      OBVIOUS
    <2>3. n - x \in T
      OBVIOUS
    <2> QED
      BY <2>1, <2>3
  <1>2. Min(T) \in T /\ \A y \in T : Min(T) <= y
    <2> HIDE DEF T
    <2> QED
      BY <1>1, LeastOf
  <1>3. PICK m \in S : Min(T) = n - m
    BY <1>2
  <1>4. ASSUME NEW x \in S PROVE x <= m
    <2>1. n - m <= n - x
      BY <1>2, <1>3
    <2> QED
      BY <2>1
  <1> QED
    BY <1>4 DEF Max

-------------------------------------------------------------------------------
(* Powers of two *)

\* The recursion that defines the powers has a solution on the numbers.
LEMMA PowersExist == \E f : f = [n \in Nat |-> IF n = 0 THEN 1 ELSE 2 * f[n - 1]]
  <1> DEFINE Law(f, n) == \A k \in 0 .. n : f[k] = IF k = 0 THEN 1 ELSE 2 * f[k - 1]
             D == {n \in Nat : \E f \in [0 .. n -> Nat] : Law(f, n)}
  <1>1. 0 \in D
    <2> DEFINE f == [k \in 0 .. 0 |-> 1]
    <2>1. f \in [0 .. 0 -> Nat] /\ Law(f, 0)
      OBVIOUS
    <2> QED
      BY <2>1
  <1>2. ASSUME NEW n \in D PROVE n + 1 \in D
    <2>1. n \in Nat
      OBVIOUS
    <2>2. PICK f \in [0 .. n -> Nat] : Law(f, n)
      BY <1>2
    <2> DEFINE g == [k \in 0 .. n + 1 |-> IF k = n + 1 THEN 2 * f[n] ELSE f[k]]
    <2>3. g \in [0 .. n + 1 -> Nat]
      BY <2>1
    <2>4. ASSUME NEW k \in 0 .. n + 1 PROVE g[k] = IF k = 0 THEN 1 ELSE 2 * g[k - 1]
      <3>1. CASE k = n + 1
        <4>1. g[k] = 2 * f[n] /\ k # 0 /\ k - 1 = n /\ n \in 0 .. n + 1 /\ n # n + 1
          BY <2>1, <3>1
        <4>2. g[k - 1] = f[n]
          BY <4>1
        <4> QED
          BY <4>1, <4>2
      <3>2. CASE k # n + 1
        <4>1. k \in 0 .. n /\ (k # 0 => k - 1 \in 0 .. n /\ k - 1 \in 0 .. n + 1 /\ k - 1 # n + 1)
          BY <2>1, <3>2
        <4>2. g[k] = f[k] /\ (k # 0 => g[k - 1] = f[k - 1])
          BY <3>2, <4>1
        <4>3. f[k] = IF k = 0 THEN 1 ELSE 2 * f[k - 1]
          BY <2>2, <4>1
        <4> HIDE DEF g
        <4> QED
          BY <4>2, <4>3
      <3> QED
        BY <3>1, <3>2
    <2>5. Law(g, n + 1)
      BY <2>4
    <2> HIDE DEF g, Law
    <2> QED
      BY <2>1, <2>3, <2>5, SMTT(60)
  <1>3. D = Nat
    <2> HIDE DEF D
    <2>1. D \in SUBSET Nat
      BY DEF D
    <2> QED
      BY <1>1, <1>2, <2>1, AllNumbers
  <1> DEFINE a(n) == CHOOSE f \in [0 .. n -> Nat] : Law(f, n)
  <1>4. ASSUME NEW n \in Nat PROVE a(n) \in [0 .. n -> Nat] /\ Law(a(n), n)
    <2>1. n \in D
      BY <1>3
    <2> HIDE DEF Law
    <2> QED
      BY <2>1
  <1> HIDE DEF a, D
  <1>5. ASSUME NEW n \in Nat PROVE a(n + 1)[n] = a(n)[n]
    <2> DEFINE f == a(n)
               g == a(n + 1)
               E == {k \in Nat : k <= n => f[k] = g[k]}
    <2>1. Law(f, n) /\ Law(g, n + 1)
      <3> HIDE DEF Law
      <3> QED
        BY <1>4
    <2> HIDE DEF f, g
    <2>2. 0 \in E
      BY <2>1
    <2>3. ASSUME NEW k \in E PROVE k + 1 \in E
      <3>1. k \in Nat
        OBVIOUS
      <3>2. ASSUME k + 1 <= n PROVE f[k + 1] = g[k + 1]
        <4>1. k <= n /\ k + 1 \in 0 .. n /\ k + 1 \in 0 .. n + 1 /\ k + 1 # 0 /\ (k + 1) - 1 = k
          BY <3>1, <3>2
        <4>2. f[k + 1] = 2 * f[k] /\ g[k + 1] = 2 * g[k]
          BY <2>1, <4>1
        <4> QED
          BY <2>3, <4>1, <4>2
      <3> QED
        BY <3>1, <3>2
    <2>4. E = Nat
      <3> HIDE DEF E
      <3>1. E \in SUBSET Nat
        BY DEF E
      <3> QED
        BY <2>2, <2>3, <3>1, AllNumbers
    <2>5. f[n] = g[n]
      BY <2>4
    <2> QED
      BY <2>5 DEF f, g
  <1> DEFINE F == [n \in Nat |-> a(n)[n]]
  <1>6. ASSUME NEW n \in Nat PROVE F[n] = IF n = 0 THEN 1 ELSE 2 * F[n - 1]
    <2>1. Law(a(n), n) /\ n \in 0 .. n
      BY <1>4
    <2>2. a(n)[n] = IF n = 0 THEN 1 ELSE 2 * a(n)[n - 1]
      BY <2>1
    <2>3. ASSUME n # 0 PROVE a(n)[n - 1] = a(n - 1)[n - 1]
      <3>1. n - 1 \in Nat /\ (n - 1) + 1 = n
        BY <2>3
      <3> QED
        BY <1>5, <3>1
    <2>4. n # 0 => F[n - 1] = a(n - 1)[n - 1]
      OBVIOUS
    <2>5. F[n] = a(n)[n]
      OBVIOUS
    <2> HIDE DEF F
    <2> QED
      BY <2>2, <2>3, <2>4, <2>5
  <1>7. F = [n \in Nat |-> IF n = 0 THEN 1 ELSE 2 * F[n - 1]]
    <2>1. F = [n \in Nat |-> F[n]]
      OBVIOUS
    <2> HIDE DEF F
    <2> QED
      BY <1>6, <2>1
  <1> HIDE DEF F
  <1> QED
    BY <1>7

\* Each power is twice the one before.
LEMMA PowerLaws ==
    /\ Power \in [Nat -> Nat \ {0}] /\ Power[0] = 1
    /\ \A n \in Nat : Power[n + 1] = 2 * Power[n]
  <1> DEFINE Law(f) == f = [n \in Nat |-> IF n = 0 THEN 1 ELSE 2 * f[n - 1]]
  <1>1. Power = CHOOSE f : Law(f)
    BY Zenon DEF Power
  <1>2. Law(Power)
    <2>1. \E f : Law(f)
      BY PowersExist
    <2> HIDE DEF Law
    <2> QED
      BY <1>1, <2>1
  <1>3. Power[0] = 1
    BY <1>2
  <1>4. ASSUME NEW n \in Nat PROVE Power[n + 1] = 2 * Power[n]
    <2>1. n + 1 \in Nat /\ n + 1 # 0 /\ (n + 1) - 1 = n
      OBVIOUS
    <2> QED
      BY <1>2, <2>1
  <1> DEFINE D == {n \in Nat : Power[n] \in Nat \ {0}}
  <1>5. D = Nat
    <2>1. 0 \in D
      BY <1>3
    <2>2. ASSUME NEW n \in D PROVE n + 1 \in D
      BY <1>4
    <2> HIDE DEF D
    <2>3. D \in SUBSET Nat
      BY DEF D
    <2> QED
      BY <2>1, <2>2, <2>3, AllNumbers
  <1>6. Power \in [Nat -> Nat \ {0}]
    <2>1. \A n \in Nat : Power[n] \in Nat \ {0}
      BY <1>5
    <2>2. Power = [n \in Nat |-> Power[n]]
      BY <1>2
    <2> QED
      BY <2>1, <2>2
  <1> QED
    BY <1>3, <1>4, <1>6

\* Powers grow, and more than numbers do.
LEMMA PowerGrows ==
    /\ \A n \in Nat : n + 1 <= Power[n]
    /\ \A m, n \in Nat : m <= n => Power[m] <= Power[n]
  <1> DEFINE D == {n \in Nat : n + 1 <= Power[n]}
  <1>1. D = Nat
    <2>1. 0 \in D
      BY PowerLaws
    <2>2. ASSUME NEW n \in D PROVE n + 1 \in D
      BY PowerLaws
    <2> HIDE DEF D
    <2>3. D \in SUBSET Nat
      BY DEF D
    <2> QED
      BY <2>1, <2>2, <2>3, AllNumbers
  <1>2. ASSUME NEW m \in Nat PROVE \A n \in Nat : m <= n => Power[m] <= Power[n]
    <2> DEFINE E == {n \in Nat : m <= n => Power[m] <= Power[n]}
    <2>1. 0 \in E
      BY PowerLaws
    <2>2. ASSUME NEW n \in E PROVE n + 1 \in E
      <3>1. Power[n] \in Nat /\ Power[n + 1] = 2 * Power[n] /\ Power[m] \in Nat
        BY PowerLaws
      <3> QED
        BY <3>1
    <2>3. E = Nat
      <3> HIDE DEF E
      <3>1. E \in SUBSET Nat
        BY DEF E
      <3> QED
        BY <2>1, <2>2, <3>1, AllNumbers
    <2> QED
      BY <2>3
  <1> QED
    BY <1>1, <1>2

\* The power of a sum is the product of the powers.
LEMMA PowerAdds == \A m, n \in Nat : Power[m + n] = Power[m] * Power[n]
  <1> SUFFICES ASSUME NEW m \in Nat PROVE \A n \in Nat : Power[m + n] = Power[m] * Power[n]
    OBVIOUS
  <1> DEFINE D == {n \in Nat : Power[m + n] = Power[m] * Power[n]}
  <1>1. 0 \in D
    BY PowerLaws
  <1>2. ASSUME NEW n \in D PROVE n + 1 \in D
    <2> DEFINE a == Power[m]
               b == Power[n]
    <2>1. n \in Nat /\ m + n \in Nat /\ m + (n + 1) = (m + n) + 1
      OBVIOUS
    <2>2. Power[m + (n + 1)] = 2 * (a * b) /\ Power[n + 1] = 2 * b /\ a \in Nat /\ b \in Nat
      BY <2>1, PowerLaws
    <2> HIDE DEF a, b
    <2>3. 2 * (a * b) = a * (2 * b)
      BY <2>2
    <2> QED
      BY <2>1, <2>2, <2>3 DEF a
  <1>3. D = Nat
    <2> HIDE DEF D
    <2>1. D \in SUBSET Nat
      BY DEF D
    <2> QED
      BY <1>1, <1>2, <2>1, AllNumbers
  <1> QED
    BY <1>3

\* What hdr_init makes of the dimensions: the half is a half, some bucket is the last.
LEMMA Dimensions ==
    /\ SubBucketHalfCount \in Nat \ {0} /\ SubBucketCount = 2 * SubBucketHalfCount
    /\ SubBucketMagnitude - 1 \in Nat /\ SubBucketHalfCount = Power[SubBucketMagnitude - 1]
    /\ SubBucketCount = Power[SubBucketMagnitude] /\ Power[UnitMagnitude] \in Nat \ {0}
    /\ SubBucketMask \in Nat \ {0}
    /\ BucketCount \in Nat \ {0}
  <1>1. /\ SubBucketMagnitude - 1 \in Nat /\ (SubBucketMagnitude - 1) + 1 = SubBucketMagnitude
        /\ UnitMagnitude \in Nat /\ HighestTrackable \in Nat
    BY HistogramAssumption
  <1> DEFINE h == Power[SubBucketMagnitude - 1]
             u == Power[UnitMagnitude]
  <1>2. h \in Nat \ {0} /\ Power[SubBucketMagnitude] = 2 * h /\ u \in Nat \ {0}
    <2>1. Power[(SubBucketMagnitude - 1) + 1] = 2 * h
      BY <1>1, PowerLaws
    <2> QED
      BY <1>1, <2>1, PowerLaws
  <1> HIDE DEF h, u
  <1>3. SubBucketCount = 2 * h /\ SubBucketHalfCount = h
    BY <1>2 DEF SubBucketCount, SubBucketHalfCount
  <1>4. SubBucketMask = (2 * h - 1) * u
    BY <1>3 DEF SubBucketMask, u
  <1>5. (2 * h - 1) * u \in Nat \ {0}
    <2>1. PICK w \in Nat : 2 * h - 1 = w + 1
      <3>1. 2 * h - 2 \in Nat /\ 2 * h - 1 = (2 * h - 2) + 1
        BY <1>2
      <3> QED
        BY <3>1
    <2>2. (w + 1) * u = w * u + u /\ w * u \in Nat
      BY <1>2
    <2> QED
      BY <1>2, <2>1, <2>2
  <1> DEFINE S == {n \in 1 .. HighestTrackable + 1 : SubBucketMask * Power[n - 1] >= HighestTrackable}
  <1>6. HighestTrackable + 1 \in S
    <2> DEFINE p == Power[HighestTrackable]
    <2>1. p \in Nat /\ p >= HighestTrackable + 1
      BY <1>1, PowerGrows, PowerLaws
    <2>2. PICK w \in Nat : SubBucketMask = w + 1
      <3>1. SubBucketMask - 1 \in Nat /\ SubBucketMask = (SubBucketMask - 1) + 1
        BY <1>4, <1>5
      <3> QED
        BY <3>1
    <2> HIDE DEF p
    <2>3. (w + 1) * p = w * p + p /\ w * p \in Nat
      BY <2>1
    <2>4. SubBucketMask * p >= HighestTrackable
      BY <1>1, <2>1, <2>2, <2>3
    <2>5. (HighestTrackable + 1) - 1 = HighestTrackable
      BY <1>1
    <2> QED
      BY <1>1, <2>4, <2>5 DEF p
  <1>7. Min(S) \in S
    <2>1. S \in SUBSET Nat
      BY <1>1
    <2> HIDE DEF S
    <2> QED
      BY <1>6, <2>1, LeastOf
  <1>8. BucketCount = Min(S)
    BY DEF BucketCount
  <1>9. BucketCount \in Nat \ {0}
    BY <1>1, <1>7, <1>8
  <1> QED
    BY <1>1, <1>2, <1>3, <1>4, <1>5, <1>9 DEF h, u, SubBucketCount

-------------------------------------------------------------------------------
(* Sums *)

\* The element a fold takes next, and those it leaves.
First(s) == CHOOSE x \in s : TRUE
Rest(s)  == s \ {First(s)}

\* Induction over the subsets of a finite set, by the element that a fold takes next.
LEMMA AllSubsets ==
    ASSUME NEW T, IsFiniteSet(T), NEW P \in SUBSET SUBSET T, {} \in P,
           \A s \in SUBSET T : s # {} /\ Rest(s) \in P => s \in P
    PROVE  P = SUBSET T
  <1> DEFINE D == {n \in Nat : \A s \in SUBSET T : Cardinality(s) = n => s \in P}
  <1>1. 0 \in D
    <2>1. ASSUME NEW s \in SUBSET T, Cardinality(s) = 0 PROVE s = {}
      BY <2>1, FS_Subset, FS_EmptySet
    <2> QED
      BY <2>1
  <1>2. ASSUME NEW n \in D PROVE n + 1 \in D
    <2>1. ASSUME NEW s \in SUBSET T, Cardinality(s) = n + 1 PROVE s \in P
      <3>1. IsFiniteSet(s)
        BY FS_Subset
      <3>2. s # {}
        BY <2>1, FS_EmptySet
      <3>3. First(s) \in s
        BY <3>2 DEF First
      <3>4. Cardinality(Rest(s)) = n
        <4>1. Cardinality(Rest(s)) = Cardinality(s) - 1
          BY <3>1, <3>3, FS_RemoveElement DEF Rest
        <4> QED
          BY <2>1, <4>1
      <3>5. Rest(s) \in SUBSET T
        BY DEF Rest
      <3> QED
        BY <3>2, <3>4, <3>5
    <2> QED
      BY <2>1
  <1>3. D = Nat
    <2> HIDE DEF D
    <2>1. D \in SUBSET Nat
      BY DEF D
    <2> QED
      BY <1>1, <1>2, <2>1, AllNumbers
  <1>4. ASSUME NEW s \in SUBSET T PROVE s \in P
    <2>1. Cardinality(s) \in Nat
      BY FS_Subset, FS_CardinalityType
    <2> QED
      BY <1>3, <2>1
  <1> QED
    BY <1>4

\* g folds the subsets of T, from the value start: step is given the next element and the
\* value for the others.
Folds(g, start, step, T) ==
    g = [s \in SUBSET T |-> IF s = {} THEN start ELSE step[<<First(s), g[Rest(s)]>>]]

\* There is such a function, and it has its values in the set the steps lead to.
LEMMA FoldsExist ==
    ASSUME NEW T, IsFiniteSet(T), NEW V, NEW start \in V, NEW step \in [T \X V -> V]
    PROVE  \E g \in [SUBSET T -> V] : Folds(g, start, step, T)
  <1> DEFINE Small(n) == {s \in SUBSET T : Cardinality(s) <= n}
             v(g, s) == IF s = {} THEN start ELSE step[<<First(s), g[Rest(s)]>>]
             D == {n \in Nat : \E g \in [Small(n) -> V] : \A s \in Small(n) : g[s] = v(g, s)}
  <1>1. \A s \in SUBSET T : Cardinality(s) \in Nat /\ IsFiniteSet(s) /\ (Cardinality(s) = 0 <=> s = {})
    BY FS_Subset, FS_CardinalityType, FS_EmptySet
  <1>2. 0 \in D
    <2> DEFINE g == [s \in Small(0) |-> start]
    <2>1. \A s \in Small(0) : s = {}
      BY <1>1
    <2>2. g \in [Small(0) -> V] /\ \A s \in Small(0) : g[s] = v(g, s)
      BY <2>1
    <2> QED
      BY <2>2
  <1>3. ASSUME NEW n \in D PROVE n + 1 \in D
    <2>1. n \in Nat
      OBVIOUS
    <2>2. PICK g \in [Small(n) -> V] : \A s \in Small(n) : g[s] = v(g, s)
      BY <1>3
    <2> DEFINE h == [s \in Small(n + 1) |-> v(g, s)]
    <2>3. \A s \in Small(n) : s \in Small(n + 1)
      BY <1>1, <2>1
    <2>4. ASSUME NEW s \in Small(n + 1), s # {} PROVE First(s) \in T /\ Rest(s) \in Small(n)
      <3>1. First(s) \in s
        BY <2>4 DEF First
      <3>2. Cardinality(Rest(s)) = Cardinality(s) - 1 /\ Rest(s) \in SUBSET T
        BY <1>1, <3>1, FS_RemoveElement DEF Rest
      <3>3. Cardinality(s) \in Nat /\ Cardinality(s) <= n + 1
        BY <1>1
      <3>4. Cardinality(Rest(s)) <= n
        BY <2>1, <3>2, <3>3
      <3> QED
        BY <3>1, <3>2, <3>4
    <2> HIDE DEF Small
    <2>5. ASSUME NEW s \in Small(n + 1) PROVE v(g, s) = v(h, s) /\ v(g, s) \in V
      <3>1. CASE s = {}
        BY <3>1
      <3>2. CASE s # {}
        <4>1. Rest(s) \in Small(n) /\ Rest(s) \in Small(n + 1) /\ First(s) \in T
          BY <2>3, <2>4, <3>2
        <4>2. h[Rest(s)] = v(g, Rest(s))
          BY <4>1
        <4>3. g[Rest(s)] = v(g, Rest(s)) /\ g[Rest(s)] \in V
          <5> HIDE DEF v
          <5> QED
            BY <2>2, <4>1
        <4> HIDE DEF h
        <4>4. step[<<First(s), g[Rest(s)]>>] \in V
          BY <4>1, <4>3
        <4> QED
          BY <3>2, <4>2, <4>3, <4>4
      <3> QED
        BY <3>1, <3>2
    <2>6. h \in [Small(n + 1) -> V] /\ \A s \in Small(n + 1) : h[s] = v(h, s)
      <3>1. h = [s \in Small(n + 1) |-> v(g, s)]
        OBVIOUS
      <3> HIDE DEF h, v
      <3> QED
        BY <2>5, <3>1
    <2> HIDE DEF h, v
    <2> QED
      BY <2>1, <2>6
  <1>4. D = Nat
    <2> HIDE DEF D
    <2>1. D \in SUBSET Nat
      BY DEF D
    <2> QED
      BY <1>2, <1>3, <2>1, AllNumbers
  <1>5. Cardinality(T) \in Nat /\ Small(Cardinality(T)) = SUBSET T
    BY FS_Subset, FS_CardinalityType
  <1>6. Cardinality(T) \in D
    BY <1>4, <1>5
  <1> HIDE DEF Small, v
  <1>7. PICK g \in [SUBSET T -> V] : \A s \in SUBSET T : g[s] = v(g, s)
    BY <1>5, <1>6
  <1>8. g = [s \in SUBSET T |-> v(g, s)]
    BY <1>7
  <1> QED
    BY <1>8 DEF Folds, v

\* The sums of f over the subsets of T.
Adds(g, f, T) ==
    g = [s \in SUBSET T |-> IF s = {} THEN 0 ELSE f[First(s)] + g[Rest(s)]]

LEMMA SumsExist ==
    ASSUME NEW T, IsFiniteSet(T), NEW f \in [T -> Nat]
    PROVE  \E g : Adds(g, f, T)
  <1> DEFINE step == [x \in T \X Nat |-> f[x[1]] + x[2]]
  <1>1. step \in [T \X Nat -> Nat]
    OBVIOUS
  <1>2. \A x \in T, n \in Nat : step[<<x, n>>] = f[x] + n
    OBVIOUS
  <1> HIDE DEF step
  <1>3. PICK g \in [SUBSET T -> Nat] : Folds(g, 0, step, T)
    BY <1>1, FoldsExist
  <1>4. ASSUME NEW s \in SUBSET T PROVE g[s] = IF s = {} THEN 0 ELSE f[First(s)] + g[Rest(s)]
    <2>1. g[s] = IF s = {} THEN 0 ELSE step[<<First(s), g[Rest(s)]>>]
      BY <1>3 DEF Folds
    <2>2. s # {} => First(s) \in T /\ g[Rest(s)] \in Nat
      BY DEF First, Rest
    <2> QED
      BY <1>2, <2>1, <2>2
  <1>5. g = [s \in SUBSET T |-> IF s = {} THEN 0 ELSE f[First(s)] + g[Rest(s)]]
    BY <1>4
  <1> QED
    BY <1>5 DEF Adds

\* SumFunction takes the sum of the whole domain.
LEMMA SumUnfolds ==
    ASSUME NEW T, IsFiniteSet(T), NEW f \in [T -> Nat]
    PROVE  \E g : Adds(g, f, T) /\ SumFunction(f) = g[T]
  <1> DEFINE g == CHOOSE g : Adds(g, f, T)
  <1>1. Adds(g, f, T)
    BY SumsExist
  <1>2. g = CHOOSE h : h = [s \in SUBSET T |-> IF s = {} THEN 0
                               ELSE f[CHOOSE x \in s : TRUE] + h[s \ {CHOOSE x \in s : TRUE}]]
    BY Zenon DEF Adds, First, Rest
  <1>3. SumFunction(f) = g[T]
    BY <1>2, Zenon DEF SumFunction, SumFunctionOnSet, FoldFunctionOnSet, MapThenFoldSet
  <1> HIDE DEF g
  <1> QED
    BY <1>1, <1>3

\* The induction for two sums side by side: what holds of 0 and 0, and of two sums with
\* the next element when it holds of those without, holds in the end.
LEMMA SumsTogether ==
    ASSUME NEW T, IsFiniteSet(T), NEW f \in [T -> Nat], NEW g \in [T -> Nat], NEW R,
           <<{}, 0, 0>> \in R,
           \A s, m, n : s \in SUBSET T /\ s # {} /\ <<Rest(s), m, n>> \in R
              => <<s, f[First(s)] + m, g[First(s)] + n>> \in R
    PROVE  <<T, SumFunction(f), SumFunction(g)>> \in R
  <1>1. PICK a : Adds(a, f, T) /\ SumFunction(f) = a[T]
    BY SumUnfolds
  <1>2. PICK b : Adds(b, g, T) /\ SumFunction(g) = b[T]
    BY SumUnfolds
  <1> DEFINE P == {s \in SUBSET T : <<s, a[s], b[s]>> \in R}
  <1>3. a[{}] = 0 /\ b[{}] = 0
    BY <1>1, <1>2 DEF Adds
  <1>4. ASSUME NEW s \in SUBSET T, s # {}
        PROVE  a[s] = f[First(s)] + a[Rest(s)] /\ b[s] = g[First(s)] + b[Rest(s)]
    BY <1>1, <1>2, <1>4 DEF Adds
  <1>5. {} \in P
    BY <1>3
  <1>6. ASSUME NEW s \in SUBSET T, s # {}, Rest(s) \in P PROVE s \in P
    BY <1>4, <1>6
  <1>7. P = SUBSET T
    <2> HIDE DEF P
    <2>1. P \in SUBSET SUBSET T
      BY DEF P
    <2> QED
      BY <1>5, <1>6, <2>1, AllSubsets
  <1> QED
    BY <1>1, <1>2, <1>7

\* Of a set with elements the first is one of them.
LEMMA FirstIsOne == ASSUME NEW s, s # {} PROVE First(s) \in s /\ First(s) \notin Rest(s)
  BY DEF First, Rest

\* A sum of numbers is a number, and at most that of larger ones.
LEMMA SumIsMonotone ==
    ASSUME NEW T, IsFiniteSet(T), NEW f \in [T -> Nat], NEW g \in [T -> Nat],
           \A t \in T : f[t] <= g[t]
    PROVE  /\ SumFunction(f) \in Nat /\ SumFunction(g) \in Nat
           /\ SumFunction(f) <= SumFunction(g)
  <1> DEFINE R == {r \in (SUBSET T) \X Nat \X Nat : r[2] <= r[3]}
  <1>1. \A s, m, n : <<s, m, n>> \in R <=> s \in SUBSET T /\ m \in Nat /\ n \in Nat /\ m <= n
    OBVIOUS
  <1> HIDE DEF R
  <1>2. ASSUME NEW s \in SUBSET T, NEW m, NEW n, s # {}, <<Rest(s), m, n>> \in R
        PROVE  <<s, f[First(s)] + m, g[First(s)] + n>> \in R
    <2>1. First(s) \in T
      BY <1>2, FirstIsOne
    <2>2. /\ f[First(s)] \in Nat /\ g[First(s)] \in Nat /\ f[First(s)] <= g[First(s)]
          /\ m \in Nat /\ n \in Nat /\ m <= n
      BY <1>1, <1>2, <2>1
    <2> QED
      BY <1>1, <2>2
  <1>3. <<T, SumFunction(f), SumFunction(g)>> \in R
    BY <1>1, <1>2, SumsTogether
  <1> QED
    BY <1>1, <1>3

\* One number more by n is a sum more by n.
LEMMA SumGrows ==
    ASSUME NEW T, IsFiniteSet(T), NEW x \in T, NEW n \in Nat,
           NEW f \in [T -> Nat], NEW g \in [T -> Nat],
           g[x] = f[x] + n, \A t \in T \ {x} : g[t] = f[t]
    PROVE  SumFunction(f) \in Nat /\ SumFunction(g) = SumFunction(f) + n
  <1> DEFINE R == {r \in (SUBSET T) \X Nat \X Nat : r[3] = r[2] + IF x \in r[1] THEN n ELSE 0}
  <1>1. \A s, k, m : <<s, k, m>> \in R <=>
           s \in SUBSET T /\ k \in Nat /\ m \in Nat /\ m = k + IF x \in s THEN n ELSE 0
    OBVIOUS
  <1> HIDE DEF R
  <1>3. ASSUME NEW s \in SUBSET T, NEW k, NEW m, s # {}, <<Rest(s), k, m>> \in R
        PROVE  <<s, f[First(s)] + k, g[First(s)] + m>> \in R
    <2>1. First(s) \in T /\ First(s) \in s
      BY <1>3, FirstIsOne
    <2>2. /\ f[First(s)] \in Nat /\ k \in Nat /\ m \in Nat
          /\ m = k + IF x \in Rest(s) THEN n ELSE 0
          /\ g[First(s)] = IF First(s) = x THEN f[First(s)] + n ELSE f[First(s)]
      BY <1>1, <1>3, <2>1
    <2>3. CASE First(s) = x
      <3>1. x \notin Rest(s) /\ x \in s
        BY <2>1, <2>3 DEF Rest
      <3> QED
        BY <1>1, <2>2, <2>3, <3>1
    <2>4. CASE First(s) # x
      <3>1. x \in Rest(s) <=> x \in s
        BY <2>4 DEF Rest
      <3>2. g[First(s)] + m = (f[First(s)] + k) + IF x \in s THEN n ELSE 0
        BY <2>2, <2>4, <3>1
      <3> QED
        BY <1>1, <2>2, <2>4, <3>1, <3>2
    <2> QED
      BY <2>3, <2>4
  <1>4. <<T, SumFunction(f), SumFunction(g)>> \in R
    BY <1>1, <1>3, SumsTogether
  <1> QED
    BY <1>1, <1>4

\* Nothing adds up to nothing.
LEMMA SumOfNothing ==
    ASSUME NEW T, IsFiniteSet(T)
    PROVE  SumFunction([t \in T |-> 0]) = 0
  <1> DEFINE f == [t \in T |-> 0]
             R == {r \in (SUBSET T) \X {0} \X {0} : TRUE}
  <1>1. \A s, m, n : <<s, m, n>> \in R <=> s \in SUBSET T /\ m = 0 /\ n = 0
    OBVIOUS
  <1>2. f \in [T -> Nat] /\ \A t \in T : f[t] = 0
    OBVIOUS
  <1> HIDE DEF R, f
  <1>3. ASSUME NEW s \in SUBSET T, NEW m, NEW n, s # {}, <<Rest(s), m, n>> \in R
        PROVE  <<s, f[First(s)] + m, f[First(s)] + n>> \in R
    <2>1. f[First(s)] = 0 /\ m = 0 /\ n = 0
      BY <1>1, <1>2, <1>3, FirstIsOne
    <2> QED
      BY <1>1, <2>1
  <1>4. <<T, SumFunction(f), SumFunction(f)>> \in R
    BY <1>1, <1>2, <1>3, SumsTogether
  <1> QED
    BY <1>1, <1>4 DEF f

-------------------------------------------------------------------------------
(* Types *)

\* The array has counts, there are finitely many threads, and a histogram not yet
\* allocated is none.
LEMMA Sizes ==
    /\ CountsLen \in Nat \ {0} /\ Indices \subseteq Nat /\ Indices # {}
    /\ Threads \subseteq Nat /\ IsFiniteSet(Threads)
    /\ Empty \in Histograms /\ NoHistogram \notin Histograms
  <1>1. CountsLen \in Nat \ {0}
    BY Dimensions DEF CountsLen
  <1>2. Threads \subseteq Nat /\ IsFiniteSet(Threads)
    BY MeasurementAssumption, FS_Interval DEF Threads
  <1>3. 0 \in Indices /\ Indices \subseteq Nat
    BY <1>1 DEF Indices
  <1>4. Empty \in Histograms
    BY DEF Empty, Histograms
  <1>5. NoHistogram \notin Histograms
    <2>1. DOMAIN NoHistogram.counts = {}
      BY DEF NoHistogram
    <2>2. \A h \in Histograms : DOMAIN h.counts = Indices
      BY DEF Histograms
    <2> QED
      BY <1>3, <2>1, <2>2
  <1> QED
    BY <1>1, <1>2, <1>3, <1>4, <1>5

\* hdr_record_values takes a histogram to a histogram, in which no count is smaller.
LEMMA RecordIsRight ==
    ASSUME NEW h \in Histograms, NEW v, NEW n \in Nat
    PROVE  /\ Record(h, v, n) \in Histograms
           /\ \A i \in Indices : h.counts[i] <= Record(h, v, n).counts[i]
  <1> DEFINE j == CountsIndex(PlaceOf(v))
  <1>1. /\ h.counts \in [Indices -> Nat] /\ h.total_count \in Nat
      BY DEF Histograms
  <1>2. CASE j \in Indices
    <2> DEFINE c == [h.counts EXCEPT ![j] = @ + n]
    <2>1. c \in [Indices -> Nat] /\ \A i \in Indices : h.counts[i] <= c[i]
      <3> HIDE DEF j
      <3> QED
        BY <1>1, <1>2
    <2>2. Record(h, v, n) = [counts |-> c, total_count |-> h.total_count + n]
      BY <1>2 DEF Record
    <2> HIDE DEF c, j
    <2>3. h.total_count + n \in Nat
      BY <1>1
    <2> QED
      BY <2>1, <2>2, <2>3 DEF Histograms
  <1>3. CASE j \notin Indices
    <2>1. Record(h, v, n) = h
      BY <1>3 DEF Record
    <2> QED
      BY <1>1, <2>1
  <1> QED
    BY <1>2, <1>3

\* The next turn of a scrape takes it to a scrape.
LEMMA NextThreadIsRight ==
    ASSUME TypeOK, scrape.thread \in Threads
    PROVE  /\ NextThread \in [thread : 0 .. NumThreads + 1, index : 0 .. CountsLen, h : Histograms]
           /\ NextThread.thread = scrape.thread + 1 /\ NextThread.index = 0
           /\ NextThread.h = scrape.h
  <1>1. /\ scrape \in [thread : 0 .. NumThreads + 1, index : 0 .. CountsLen, h : Histograms]
        /\ scrape.thread + 1 \in 0 .. NumThreads + 1 /\ 0 \in 0 .. CountsLen
    BY Sizes, MeasurementAssumption DEF TypeOK, Threads
  <1> HIDE DEF Histograms
  <1> QED
    BY <1>1 DEF NextThread

\* So does a turn that adds a count, which it adds to the total too.
LEMMA HistAddLiveIsRight ==
    ASSUME TypeOK, scrape.thread \in Threads, NEW src \in Histograms, scrape.index # CountsLen
    PROVE  LET i == scrape.index
               n == src.counts[i]
               s == HistAddLive(src)
           IN  /\ i \in Indices /\ n \in Nat
               /\ s \in [thread : 0 .. NumThreads + 1, index : 0 .. CountsLen, h : Histograms]
               /\ s.thread = scrape.thread /\ s.index = i + 1
               /\ s.h.counts = [scrape.h.counts EXCEPT ![i] = @ + n]
               /\ s.h.total_count = scrape.h.total_count + n
  <1> DEFINE i == scrape.index
             n == src.counts[i]
             c == scrape.h.counts
             m == scrape.h.total_count
             d == [c EXCEPT ![i] = @ + n]
  <1>1. /\ scrape \in [thread : 0 .. NumThreads + 1, index : 0 .. CountsLen, h : Histograms]
        /\ i \in 0 .. CountsLen /\ i # CountsLen /\ CountsLen \in Nat
    BY Sizes DEF TypeOK
  <1>2. i \in Indices /\ i + 1 \in 0 .. CountsLen
    BY <1>1 DEF Indices
  <1>3. n \in Nat
    BY <1>2 DEF Histograms
  <1>4. c \in [Indices -> Nat] /\ m \in Nat /\ scrape.h = [counts |-> c, total_count |-> m]
    BY <1>1 DEF Histograms
  <1>5. scrape.thread \in 0 .. NumThreads + 1
        /\ scrape = [thread |-> scrape.thread, index |-> i, h |-> scrape.h]
    BY <1>1
  <1>6. HistAddLive(src) = [scrape EXCEPT !.index = i + 1, !.h.counts[i] = @ + n,
                                          !.h.total_count = @ + n]
    BY <1>1 DEF HistAddLive
  <1> HIDE DEF i, n, c, m
  <1>7. HistAddLive(src) = [thread |-> scrape.thread, index |-> i + 1,
                            h |-> [counts |-> d, total_count |-> m + n]]
    <2>1. scrape = [thread |-> scrape.thread, index |-> i, h |-> [counts |-> c, total_count |-> m]]
      BY <1>4, <1>5, Zenon
    <2> DEFINE r1 == [scrape EXCEPT !.index = i + 1]
               r2 == [r1 EXCEPT !.h.counts[i] = @ + n]
               r3 == [r2 EXCEPT !.h.total_count = @ + n]
    <2>2. HistAddLive(src) = r3
      <3>1. [scrape EXCEPT !.index = i + 1, !.h.counts[i] = @ + n, !.h.total_count = @ + n] = r3
        OBVIOUS
      <3> QED
        BY <1>6, <3>1
    <2>3. r1 = [thread |-> scrape.thread, index |-> i + 1,
                h |-> [counts |-> c, total_count |-> m]]
      BY <2>1
    <2> HIDE DEF r1
    <2>4. r2 = [thread |-> scrape.thread, index |-> i + 1,
                h |-> [counts |-> d, total_count |-> m]]
      BY <2>3
    <2> HIDE DEF r2, d
    <2>5. r3 = [thread |-> scrape.thread, index |-> i + 1,
                h |-> [counts |-> d, total_count |-> m + n]]
      BY <2>4
    <2> QED
      BY <2>2, <2>5
  <1>8. d \in [Indices -> Nat] /\ m + n \in Nat
    BY <1>2, <1>3, <1>4
  <1> HIDE DEF d
  <1>9. [counts |-> d, total_count |-> m + n] \in Histograms
    BY <1>8 DEF Histograms
  <1>10. LET s == HistAddLive(src) IN
         /\ s \in [thread : 0 .. NumThreads + 1, index : 0 .. CountsLen, h : Histograms]
         /\ s.thread = scrape.thread /\ s.index = i + 1
         /\ s.h.counts = d /\ s.h.total_count = m + n
    BY <1>2, <1>5, <1>7, <1>9
  <1> QED
    BY <1>2, <1>3, <1>10 DEF i, n, c, m, d

\* With TypeOK, that every thread has a place for its histograms: the invariant.
MeasureInv ==
    /\ TypeOK
    /\ latency \in [Threads -> Histograms \cup {NoHistogram}]
    /\ u_latency \in [Threads -> Histograms \cup {NoHistogram}]

\* Where a thread may be.
States == {"created", "looping", "resetting", "ended"}

\* A step of thread t after which it has two histograms.
LEMMA ThreadKeepsTypes ==
    ASSUME MeasureInv, NEW t \in Threads, NEW w \in States, w # "created",
           where' = [where EXCEPT ![t] = w],
           NEW l \in Histograms, latency' = [latency EXCEPT ![t] = l],
           NEW u \in Histograms, u_latency' = [u_latency EXCEPT ![t] = u],
           timers' \in [Threads -> SUBSET OneShots],
           recorded' \in [Threads -> [Responses -> Nat]],
           responses' \in 0 .. MaxResponses, scrape' = scrape
    PROVE  MeasureInv'
  <1> DEFINE H == Histograms
  <1>0. /\ where \in [Threads -> States]
        /\ latency \in [Threads -> H \cup {NoHistogram}]
        /\ u_latency \in [Threads -> H \cup {NoHistogram}]
        /\ \A x \in Threads : IF where[x] = "created" THEN latency[x] = NoHistogram
                                                      ELSE {latency[x], u_latency[x]} \subseteq H
    BY DEF MeasureInv, TypeOK, States
  <1> HIDE DEF H
  <1>1. /\ where' \in [Threads -> States]
        /\ latency' \in [Threads -> H \cup {NoHistogram}]
        /\ u_latency' \in [Threads -> H \cup {NoHistogram}]
    BY <1>0 DEF H
  <1>2. ASSUME NEW x \in Threads
        PROVE  IF where'[x] = "created" THEN latency'[x] = NoHistogram
                                        ELSE {latency'[x], u_latency'[x]} \subseteq H
    <2>1. CASE x = t
      BY <1>0, <2>1 DEF H
    <2>2. CASE x # t
      BY <1>0, <2>2
    <2> QED
      BY <2>1, <2>2
  <1> QED
    BY <1>1, <1>2 DEF MeasureInv, TypeOK, States, H

\* A step that leaves the threads alone, and the scrape a scrape.
LEMMA OthersKeepTypes ==
    ASSUME MeasureInv,
           UNCHANGED <<where, latency, u_latency, timers, recorded, responses>>,
           scrape' \in [thread : 0 .. NumThreads + 1, index : 0 .. CountsLen, h : Histograms]
    PROVE  MeasureInv'
  BY DEF MeasureInv, TypeOK

LEMMA MeasureInit == Init => MeasureInv
  <1> SUFFICES ASSUME Init PROVE MeasureInv
    OBVIOUS
  <1>1. 0 \in 0 .. NumThreads + 1 /\ 0 \in 0 .. CountsLen /\ 0 \in 0 .. MaxResponses
    BY MeasurementAssumption, Sizes
  <1>2. scrape \in [thread : 0 .. NumThreads + 1, index : 0 .. CountsLen, h : Histograms]
    BY <1>1, Sizes DEF Init, Idle
  <1>3. recorded \in [Threads -> [Responses -> Nat]]
    BY DEF Init, NoResponses
  <1> QED
    BY <1>1, <1>2, <1>3 DEF Init, MeasureInv, TypeOK

\* The turn of a scrape.
LEMMA ScrapeKeepsTypes ==
    ASSUME MeasureInv, ScrapeThread
    PROVE  MeasureInv'
  <1>1. TypeOK /\ scrape.thread \in Threads /\ latency \in [Threads -> Histograms \cup {NoHistogram}]
    BY DEF MeasureInv, ScrapeThread
  <1> DEFINE src == latency[scrape.thread]
             S == [thread : 0 .. NumThreads + 1, index : 0 .. CountsLen, h : Histograms]
  <1>2. src = NoHistogram \/ src \in Histograms
    BY <1>1
  <1>3. scrape' = IF src = NoHistogram THEN NextThread ELSE HistAddLive(src)
    BY DEF ScrapeThread
  <1>4. NextThread \in S
    BY <1>1, NextThreadIsRight
  <1>5. src \in Histograms => HistAddLive(src) \in S
    <2>1. CASE scrape.index = CountsLen
      BY <1>4, <2>1 DEF HistAddLive
    <2>2. CASE scrape.index # CountsLen
      BY <1>1, <2>2, HistAddLiveIsRight
    <2> QED
      BY <2>1, <2>2
  <1>6. scrape' \in S
    <2> HIDE DEF S, src
    <2> QED
      BY <1>2, <1>3, <1>4, <1>5
  <1> QED
    BY <1>6, OthersKeepTypes DEF ScrapeThread

LEMMA MeasureNext == MeasureInv /\ [Next]_vars => MeasureInv'
  <1> SUFFICES ASSUME MeasureInv, [Next]_vars PROVE MeasureInv'
    OBVIOUS
  <1>1. /\ timers \in [Threads -> SUBSET OneShots] /\ recorded \in [Threads -> [Responses -> Nat]]
        /\ responses \in 0 .. MaxResponses /\ MaxResponses \in Nat
        /\ where \in [Threads -> States]
        /\ latency \in [Threads -> Histograms \cup {NoHistogram}]
        /\ u_latency \in [Threads -> Histograms \cup {NoHistogram}]
        /\ \A t \in Threads : where[t] # "created" =>
              latency[t] \in Histograms /\ u_latency[t] \in Histograms
        /\ Empty \in Histograms
    BY MeasurementAssumption, Sizes DEF MeasureInv, TypeOK, States
  <1>2. ASSUME NEW t \in Threads
        PROVE  /\ where = [where EXCEPT ![t] = where[t]]
               /\ latency = [latency EXCEPT ![t] = latency[t]]
               /\ u_latency = [u_latency EXCEPT ![t] = u_latency[t]]
    BY <1>1
  <1>3. ASSUME NEW t \in Threads, StartThread(t) PROVE MeasureInv'
    BY <1>1, <1>3, ThreadKeepsTypes DEF StartThread, States
  <1>4. ASSUME NEW t \in Threads, NEW r \in Responses, Respond(t, r) PROVE MeasureInv'
    <2>1. latency[t] \in Histograms /\ u_latency[t] \in Histograms /\ where[t] = "looping"
      BY <1>1, <1>4 DEF Respond
    <2>2. /\ Record(latency[t], r.corrected, 1) \in Histograms
          /\ Record(u_latency[t], r.actual, 1) \in Histograms
      BY <2>1, RecordIsRight
    <2>3. recorded' \in [Threads -> [Responses -> Nat]]
      BY <1>1, <1>4 DEF Respond
    <2>4. responses' \in 0 .. MaxResponses
      BY <1>1, <1>4 DEF Respond
    <2>5. where' = [where EXCEPT ![t] = "looping"]
      BY <1>2, <1>4, <2>1 DEF Respond
    <2> QED
      BY <1>1, <1>4, <2>2, <2>3, <2>4, <2>5, ThreadKeepsTypes
         DEF Respond, ResponseComplete, States
  <1>5. ASSUME NEW t \in Threads, NEW timer, where[t] = "looping", BeginReset(t, timer)
        PROVE  MeasureInv'
    <2>1. [latency[t] EXCEPT !.total_count = 0] \in Histograms
      BY <1>1, <1>5 DEF Histograms
    <2>2. latency' = [latency EXCEPT ![t] = [latency[t] EXCEPT !.total_count = 0]]
      BY <1>5 DEF BeginReset
    <2>3. recorded' \in [Threads -> [Responses -> Nat]]
      BY <1>1, <1>5 DEF BeginReset, NoResponses
    <2>4. timers' \in [Threads -> SUBSET OneShots]
      BY <1>1, <1>5 DEF BeginReset
    <2>5. u_latency' = [u_latency EXCEPT ![t] = u_latency[t]] /\ u_latency[t] \in Histograms
      BY <1>1, <1>2, <1>5 DEF BeginReset
    <2> QED
      BY <1>1, <1>5, <2>1, <2>2, <2>3, <2>4, <2>5, ThreadKeepsTypes DEF BeginReset, States
  <1>6. ASSUME NEW t \in Threads, NEW i \in Indices, ClearCount(t, i) PROVE MeasureInv'
    <2>1. latency[t] \in Histograms /\ u_latency[t] \in Histograms /\ where[t] = "resetting"
      BY <1>1, <1>6 DEF ClearCount
    <2>2. [latency[t] EXCEPT !.counts = [latency[t].counts EXCEPT ![i] = 0]] \in Histograms
      BY <2>1 DEF Histograms
    <2>3. latency' = [latency EXCEPT ![t] =
                        [latency[t] EXCEPT !.counts = [latency[t].counts EXCEPT ![i] = 0]]]
      BY <1>6 DEF ClearCount
    <2>4. where' = [where EXCEPT ![t] = "resetting"] /\ u_latency' = [u_latency EXCEPT ![t] = u_latency[t]]
      BY <1>2, <1>6, <2>1 DEF ClearCount
    <2> QED
      BY <1>1, <1>6, <2>1, <2>2, <2>3, <2>4, ThreadKeepsTypes DEF ClearCount, States
  <1>7. ASSUME NEW t \in Threads, EndReset(t) PROVE MeasureInv'
    <2>1. latency[t] \in Histograms /\ latency' = [latency EXCEPT ![t] = latency[t]]
      BY <1>1, <1>2, <1>7 DEF EndReset
    <2> QED
      BY <1>1, <1>7, <2>1, ThreadKeepsTypes DEF EndReset, States
  <1>8. ASSUME NEW t \in Threads, EndThread(t) PROVE MeasureInv'
    <2>1. /\ latency[t] \in Histograms /\ latency' = [latency EXCEPT ![t] = latency[t]]
          /\ u_latency[t] \in Histograms /\ u_latency' = [u_latency EXCEPT ![t] = u_latency[t]]
      BY <1>1, <1>2, <1>8 DEF EndThread
    <2> QED
      BY <1>1, <1>8, <2>1, ThreadKeepsTypes DEF EndThread, States
  <1>9. CASE BeginScrape \/ EndScrape
    <2>1. 0 \in 0 .. NumThreads + 1 /\ 1 \in 0 .. NumThreads + 1 /\ 0 \in 0 .. CountsLen
      BY MeasurementAssumption, Sizes
    <2>2. Idle \in [thread : 0 .. NumThreads + 1, index : 0 .. CountsLen, h : Histograms]
      BY <1>1, <2>1 DEF Idle
    <2>3. [Idle EXCEPT !.thread = 1]
             \in [thread : 0 .. NumThreads + 1, index : 0 .. CountsLen, h : Histograms]
      BY <1>1, <2>1 DEF Idle
    <2> QED
      BY <1>9, <2>2, <2>3, OthersKeepTypes DEF BeginScrape, EndScrape
  <1>10. CASE Report \/ UNCHANGED vars
    <2>1. scrape' = scrape
      BY <1>10 DEF Report, vars
    <2>2. scrape \in [thread : 0 .. NumThreads + 1, index : 0 .. CountsLen, h : Histograms]
      BY DEF MeasureInv, TypeOK
    <2> QED
      BY <1>10, <2>1, <2>2, OthersKeepTypes DEF Report, vars
  <1> QED
    BY <1>3, <1>4, <1>5, <1>6, <1>7, <1>8, <1>9, <1>10, ScrapeKeepsTypes
       DEF Next, Calibrate, EndWarmup

\* Every histogram of a thread that has started, and the copy of a scrape, keeps its
\* shape, however resets, records and scrapes interleave.
THEOREM TypeCorrect == Spec => []TypeOK
  <1>1. MeasureInv => TypeOK
    BY DEF MeasureInv
  <1> QED
    BY <1>1, MeasureInit, MeasureNext, PTL DEF Spec

-------------------------------------------------------------------------------
(* The scrape *)

\* The scrape has added up count i of thread t.
Passed(t, i) == t < scrape.thread \/ (t = scrape.thread /\ i < scrape.index)

\* The counts when the scrape began are the sums of what was there, its copy those of what
\* it has taken: nothing yet of a count it has not passed, and of the others no less than
\* was there and no more than there is now.
Between(was, taken) ==
    \A i \in Indices :
      /\ before[i] = SumFunction(was[i])
      /\ scrape.h.counts[i] = SumFunction(taken[i])
      /\ \A t \in Threads :
           /\ was[i][t] <= Counts(t)[i] /\ taken[i][t] <= Counts(t)[i]
           /\ IF Passed(t, i) THEN was[i][t] <= taken[i][t] ELSE taken[i][t] = 0

\* For each count, a number for each thread.
ByThread == [Indices -> [Threads -> Nat]]

\* The invariant: as long as no reset has been seen, no thread is in one, and there are
\* such counts.
ScrapeInv ==
    before # Unknown =>
      /\ \A t \in Threads : where[t] # "resetting"
      /\ \E was, taken \in ByThread : Between(was, taken)

\* What a scrape reads of a thread, with a histogram or without.
LEMMA CountsAreNumbers ==
    ASSUME MeasureInv, NEW t \in Threads
    PROVE  Counts(t) \in [Indices -> Nat]
  <1>1. (IF latency[t] = NoHistogram THEN Empty ELSE latency[t]) \in Histograms
    BY Sizes DEF MeasureInv
  <1> QED
    BY <1>1 DEF Counts, Histograms

\* While a scrape waits the counts of the threads grow.
LEMMA GrowthKeepsScrape ==
    ASSUME MeasureInv, MeasureInv', ScrapeInv, before' = before, scrape' = scrape,
           \A t \in Threads : where'[t] = "resetting" => where[t] = "resetting",
           before # Unknown =>
             \A t \in Threads : \A i \in Indices : Counts(t)[i] <= Counts(t)'[i]
    PROVE  ScrapeInv'
  <1> SUFFICES ASSUME before # Unknown
               PROVE  /\ \A t \in Threads : where'[t] # "resetting"
                      /\ \E was, taken \in ByThread : Between(was, taken)'
    BY DEF ScrapeInv, Unknown, ByThread
  <1>1. PICK was \in ByThread, taken \in ByThread : Between(was, taken)
    BY DEF ScrapeInv
  <1>2. ASSUME NEW i \in Indices, NEW t \in Threads
        PROVE  /\ was[i][t] <= Counts(t)'[i] /\ taken[i][t] <= Counts(t)'[i]
               /\ IF Passed(t, i)' THEN was[i][t] <= taken[i][t] ELSE taken[i][t] = 0
    <2>1. Counts(t)[i] \in Nat /\ Counts(t)'[i] \in Nat
      <3>1. Counts(t)' \in [Indices -> Nat]
        <4>1. (IF latency'[t] = NoHistogram THEN Empty ELSE latency'[t]) \in Histograms
          BY Sizes DEF MeasureInv
        <4> QED
          BY <4>1 DEF Counts, Histograms
      <3> QED
        BY <3>1, CountsAreNumbers
    <2>2. was[i][t] \in Nat /\ taken[i][t] \in Nat
      BY DEF ByThread
    <2>3. /\ was[i][t] <= Counts(t)[i] /\ taken[i][t] <= Counts(t)[i]
          /\ IF Passed(t, i) THEN was[i][t] <= taken[i][t] ELSE taken[i][t] = 0
      BY <1>1 DEF Between
    <2>4. Passed(t, i)' <=> Passed(t, i)
      BY DEF Passed
    <2>5. Counts(t)[i] <= Counts(t)'[i]
      OBVIOUS
    <2> QED
      BY <2>1, <2>2, <2>3, <2>4, <2>5
  <1>3. Between(was, taken)'
    BY <1>1, <1>2 DEF Between
  <1> QED
    BY <1>3 DEF ScrapeInv

\* At its beginning a scrape has taken nothing.
LEMMA BeginKeepsScrape ==
    ASSUME MeasureInv, MeasureInv', BeginScrape
    PROVE  ScrapeInv'
  <1> SUFFICES ASSUME before' # Unknown
               PROVE  /\ \A t \in Threads : where'[t] # "resetting"
                      /\ \E was, taken \in ByThread : Between(was, taken)'
    BY DEF ScrapeInv, Unknown, ByThread, Indices, CountsLen
  <1>1. /\ \A t \in Threads : where[t] # "resetting"
        /\ before' = AllCounts /\ where' = where /\ latency' = latency
        /\ scrape' = [thread |-> 1, index |-> 0, h |-> Empty]
    BY DEF BeginScrape, Idle
  <1>2. PICK was \in ByThread, taken \in ByThread :
           /\ was   = [i \in Indices |-> [t \in Threads |-> Counts(t)[i]]]
           /\ taken = [i \in Indices |-> [t \in Threads |-> 0]]
    <2>1. /\ [i \in Indices |-> [t \in Threads |-> Counts(t)[i]]] \in ByThread
          /\ [i \in Indices |-> [t \in Threads |-> 0]] \in ByThread
      BY CountsAreNumbers DEF ByThread
    <2> QED
      BY <2>1
  <1>3. ASSUME NEW i \in Indices, NEW t \in Threads
        PROVE  /\ was[i][t] <= Counts(t)'[i] /\ taken[i][t] <= Counts(t)'[i]
               /\ IF Passed(t, i)' THEN was[i][t] <= taken[i][t] ELSE taken[i][t] = 0
    <2>1. Counts(t)' = Counts(t) /\ Counts(t)[i] \in Nat
      BY <1>1, CountsAreNumbers DEF Counts
    <2>2. ~Passed(t, i)'
      BY <1>1, Sizes DEF Passed, Threads
    <2>3. was[i][t] = Counts(t)[i] /\ taken[i][t] = 0
      BY <1>2
    <2> QED
      BY <2>1, <2>2, <2>3
  <1>4. ASSUME NEW i \in Indices
        PROVE  before'[i] = SumFunction(was[i]) /\ scrape'.h.counts[i] = SumFunction(taken[i])
    <2>1. before'[i] = SumFunction([t \in Threads |-> Counts(t)[i]])
      BY <1>1, Zenon DEF AllCounts
    <2>2. was[i] = [t \in Threads |-> Counts(t)[i]] /\ taken[i] = [t \in Threads |-> 0]
      BY <1>2
    <2>3. scrape'.h.counts[i] = 0
      BY <1>1 DEF Empty
    <2>4. SumFunction(taken[i]) = 0
      BY <2>2, Sizes, SumOfNothing
    <2> QED
      BY <2>1, <2>2, <2>3, <2>4
  <1>5. Between(was, taken)'
    BY <1>3, <1>4 DEF Between
  <1> QED
    BY <1>1, <1>2, <1>5

\* A turn of a scrape after which its copy is the same: the thread has nothing (more) to add.
LEMMA NextThreadKeepsScrape ==
    ASSUME MeasureInv, MeasureInv', ScrapeInv, scrape.thread \in Threads,
           before' = before, where' = where, latency' = latency, scrape' = NextThread,
           latency[scrape.thread] = NoHistogram \/ scrape.index = CountsLen
    PROVE  ScrapeInv'
  <1> SUFFICES ASSUME before # Unknown
               PROVE  /\ \A t \in Threads : where'[t] # "resetting"
                      /\ \E was, taken \in ByThread : Between(was, taken)'
    BY DEF ScrapeInv, Unknown, ByThread
  <1>1. PICK was \in ByThread, taken \in ByThread : Between(was, taken)
    BY DEF ScrapeInv
  <1>2. /\ scrape'.thread = scrape.thread + 1 /\ scrape'.index = 0 /\ scrape'.h = scrape.h
        /\ scrape.thread \in Nat /\ scrape.index \in Nat
        /\ \A t \in Threads : Counts(t)' = Counts(t)
    BY Sizes, NextThreadIsRight DEF MeasureInv, TypeOK, Counts
  <1>3. ASSUME NEW i \in Indices, NEW t \in Threads
        PROVE  /\ was[i][t] <= Counts(t)'[i] /\ taken[i][t] <= Counts(t)'[i]
               /\ IF Passed(t, i)' THEN was[i][t] <= taken[i][t] ELSE taken[i][t] = 0
    <2>1. /\ was[i][t] <= Counts(t)[i] /\ taken[i][t] <= Counts(t)[i]
          /\ IF Passed(t, i) THEN was[i][t] <= taken[i][t] ELSE taken[i][t] = 0
          /\ was[i][t] \in Nat /\ taken[i][t] \in Nat
      BY <1>1 DEF Between, ByThread
    <2>2. t \in Nat /\ i \in Nat /\ i < CountsLen
      BY Sizes DEF Indices
    <2>3. Passed(t, i)' <=> t <= scrape.thread
      BY <1>2, <2>2 DEF Passed
    <2>4. CASE t # scrape.thread \/ scrape.index = CountsLen
      <3>1. Passed(t, i) <=> t <= scrape.thread
        BY <1>2, <2>2, <2>4 DEF Passed
      <3> QED
        BY <1>2, <2>1, <2>3, <3>1
    <2>5. CASE t = scrape.thread /\ latency[t] = NoHistogram
      <3>1. Counts(t)[i] = 0
        BY <2>5 DEF Counts, Empty
      <3>2. was[i][t] = 0 /\ taken[i][t] = 0
        BY <2>1, <3>1
      <3> QED
        BY <1>2, <2>1, <3>2
    <2> QED
      BY <2>4, <2>5
  <1>4. Between(was, taken)'
    BY <1>1, <1>2, <1>3 DEF Between
  <1> QED
    BY <1>4 DEF ScrapeInv

\* A turn of a scrape that adds a count.
LEMMA AddingKeepsScrape ==
    ASSUME MeasureInv, MeasureInv', ScrapeInv, scrape.thread \in Threads,
           before' = before, where' = where, latency' = latency,
           latency[scrape.thread] # NoHistogram, scrape.index # CountsLen,
           scrape' = HistAddLive(latency[scrape.thread])
    PROVE  ScrapeInv'
  <1> SUFFICES ASSUME before # Unknown
               PROVE  /\ \A t \in Threads : where'[t] # "resetting"
                      /\ \E was, taken \in ByThread : Between(was, taken)'
    BY DEF ScrapeInv, Unknown, ByThread
  <1>1. PICK was \in ByThread, taken \in ByThread : Between(was, taken)
    BY DEF ScrapeInv
  <1> DEFINE x == scrape.thread
             j == scrape.index
             n == Counts(x)[j]
  <1>2. TypeOK /\ latency[x] \in Histograms /\ Counts(x) = latency[x].counts
    BY DEF MeasureInv, Counts
  <1>3. /\ j \in Indices /\ n \in Nat /\ scrape'.thread = x /\ scrape'.index = j + 1
        /\ scrape'.h.counts = [scrape.h.counts EXCEPT ![j] = @ + n]
        /\ scrape.h.counts \in [Indices -> Nat]
    <2>1. scrape.h.counts \in [Indices -> Nat]
      BY <1>2 DEF TypeOK, Histograms
    <2> QED
      BY <1>2, <2>1, HistAddLiveIsRight
  <1>4. /\ \A t \in Threads : Counts(t)' = Counts(t) /\ Counts(t) \in [Indices -> Nat]
        /\ Threads \subseteq Nat /\ Indices \subseteq Nat /\ IsFiniteSet(Threads)
    BY Sizes, CountsAreNumbers DEF Counts
  <1> HIDE DEF n
  <1>5. taken[j] \in [Threads -> Nat]
    BY <1>3 DEF ByThread
  <1> DEFINE more == [taken[j] EXCEPT ![x] = @ + n]
  <1>6. /\ more \in [Threads -> Nat]
        /\ \A t \in Threads : more[t] = IF t = x THEN taken[j][x] + n ELSE taken[j][t]
    BY <1>3, <1>5
  <1>7. SumFunction(more) = SumFunction(taken[j]) + n
    <2>1. x \in Threads /\ n \in Nat /\ IsFiniteSet(Threads)
      BY <1>3, <1>4
    <2>2. more[x] = taken[j][x] + n /\ \A t \in Threads \ {x} : more[t] = taken[j][t]
      BY <1>6, <2>1
    <2> HIDE DEF more, x, j
    <2> QED
      BY <1>5, <1>6, <2>1, <2>2, SumGrows
  <1> HIDE DEF more
  <1>8. PICK now \in ByThread : \A i \in Indices : now[i] = IF i = j THEN more ELSE taken[i]
    <2>1. [taken EXCEPT ![j] = more] \in ByThread
      BY <1>3, <1>6 DEF ByThread
    <2>2. \A i \in Indices : [taken EXCEPT ![j] = more][i] = IF i = j THEN more ELSE taken[i]
      BY DEF ByThread
    <2> QED
      BY <2>1, <2>2
  <1>9. ASSUME NEW i \in Indices
        PROVE  before[i] = SumFunction(was[i]) /\ scrape'.h.counts[i] = SumFunction(now[i])
    <2>1. before[i] = SumFunction(was[i]) /\ scrape.h.counts[i] = SumFunction(taken[i])
      BY <1>1 DEF Between
    <2>2. CASE i = j
      BY <1>3, <1>7, <1>8, <2>1, <2>2
    <2>3. CASE i # j
      BY <1>3, <1>8, <2>1, <2>3
    <2> QED
      BY <2>2, <2>3
  <1>10. ASSUME NEW i \in Indices, NEW t \in Threads
         PROVE  /\ was[i][t] <= Counts(t)'[i] /\ now[i][t] <= Counts(t)'[i]
                /\ IF Passed(t, i)' THEN was[i][t] <= now[i][t] ELSE now[i][t] = 0
    <2>1. /\ was[i][t] <= Counts(t)[i] /\ taken[i][t] <= Counts(t)[i]
          /\ IF Passed(t, i) THEN was[i][t] <= taken[i][t] ELSE taken[i][t] = 0
          /\ was[i][t] \in Nat /\ taken[i][t] \in Nat
      BY <1>1 DEF Between, ByThread
    <2>2. i \in Nat /\ t \in Nat /\ j \in Nat /\ x \in Nat /\ Counts(t)' = Counts(t)
      BY <1>3, <1>4
    <2>3. CASE i = j /\ t = x
      <3>1. ~Passed(t, i) /\ Passed(t, i)'
        BY <1>3, <2>2, <2>3 DEF Passed
      <3>2. now[i][t] = n /\ Counts(t)[i] = n
        BY <1>3, <1>6, <1>8, <2>1, <2>3, <3>1 DEF n
      <3> QED
        BY <1>3, <2>1, <2>2, <3>1, <3>2
    <2>4. CASE ~(i = j /\ t = x)
      <3>1. Passed(t, i)' <=> Passed(t, i)
        BY <1>3, <2>2, <2>4 DEF Passed
      <3>2. now[i][t] = taken[i][t]
        BY <1>6, <1>8, <2>4
      <3> QED
        BY <2>1, <2>2, <3>1, <3>2
    <2> QED
      BY <2>3, <2>4
  <1>11. Between(was, now)'
    BY <1>9, <1>10 DEF Between
  <1> QED
    BY <1>11 DEF ScrapeInv

LEMMA ScrapeNext == MeasureInv /\ MeasureInv' /\ ScrapeInv /\ [Next]_vars => ScrapeInv'
  <1> SUFFICES ASSUME MeasureInv, MeasureInv', ScrapeInv, [Next]_vars PROVE ScrapeInv'
    OBVIOUS
  <1>0. /\ where \in [Threads -> States]
        /\ latency \in [Threads -> Histograms \cup {NoHistogram}]
        /\ \A t \in Threads : where[t] = "created" => latency[t] = NoHistogram
        /\ \A t \in Threads : where[t] # "created" => latency[t] \in Histograms
    BY DEF MeasureInv, TypeOK, States
  <1>1. ASSUME NEW t \in Threads, NEW w \in States, w # "resetting",
               where' = [where EXCEPT ![t] = w], before' = before, scrape' = scrape,
               NEW l \in Histograms \cup {NoHistogram}, latency' = [latency EXCEPT ![t] = l],
               \A i \in Indices : Counts(t)[i] <= (IF l = NoHistogram THEN Empty ELSE l).counts[i]
        PROVE  ScrapeInv'
    <2>1. \A x \in Threads : where'[x] = "resetting" => where[x] = "resetting"
      BY <1>0, <1>1
    <2>2. ASSUME NEW x \in Threads, NEW i \in Indices PROVE Counts(x)[i] <= Counts(x)'[i]
      <3>1. CASE x = t
        <4>1. latency'[x] = l
          BY <1>0, <1>1, <3>1
        <4> QED
          BY <1>1, <3>1, <4>1 DEF Counts
      <3>2. CASE x # t
        <4>1. latency'[x] = latency[x]
          BY <1>0, <1>1, <3>2
        <4>2. Counts(x)[i] \in Nat /\ Counts(x)' = Counts(x)
          BY <4>1, CountsAreNumbers DEF Counts
        <4> QED
          BY <4>2
      <3> QED
        BY <3>1, <3>2
    <2> QED
      BY <1>1, <2>1, <2>2, GrowthKeepsScrape
  <1>2. ASSUME NEW t \in Threads, StartThread(t) PROVE ScrapeInv'
    <2>1. latency[t] = NoHistogram /\ Counts(t) = Empty.counts /\ Empty \in Histograms
      BY <1>0, <1>2, Sizes DEF StartThread, Counts
    <2>2. \A i \in Indices : Counts(t)[i] <= (IF Empty = NoHistogram THEN Empty ELSE Empty).counts[i]
      <3>1. \A i \in Indices : Counts(t)[i] \in Nat
        BY CountsAreNumbers
      <3> QED
        BY <2>1, <3>1
    <2> QED
      BY <1>1, <1>2, <2>1, <2>2 DEF StartThread, States
  <1>3. ASSUME NEW t \in Threads, NEW r \in Responses, Respond(t, r) PROVE ScrapeInv'
    <2> DEFINE l == Record(latency[t], r.corrected, 1)
    <2>1. /\ latency[t] \in Histograms /\ latency[t] # NoHistogram
          /\ where[t] = "looping" /\ where' = [where EXCEPT ![t] = "looping"]
      BY <1>0, <1>3, Sizes DEF Respond
    <2>2. l \in Histograms /\ l # NoHistogram
          /\ \A i \in Indices : latency[t].counts[i] <= l.counts[i]
      BY <2>1, RecordIsRight, Sizes
    <2>3. latency' = [latency EXCEPT ![t] = l] /\ before' = before /\ scrape' = scrape
      BY <1>3 DEF Respond, ResponseComplete
    <2> HIDE DEF l
    <2>4. \A i \in Indices : Counts(t)[i] <= (IF l = NoHistogram THEN Empty ELSE l).counts[i]
      BY <2>1, <2>2 DEF Counts
    <2> QED
      BY <1>1, <2>1, <2>2, <2>3, <2>4 DEF States
  <1>4. ASSUME NEW t \in Threads, Calibrate(t) \/ EndWarmup(t) PROVE ScrapeInv'
    <2>1. before' = Unknown'
      BY <1>4 DEF Calibrate, EndWarmup, BeginReset, Unknown, Indices, CountsLen
    <2> QED
      BY <2>1 DEF ScrapeInv
  <1>5. ASSUME NEW t \in Threads, EndReset(t) \/ \E i \in Indices : ClearCount(t, i)
        PROVE  ScrapeInv'
    <2>1. before = Unknown /\ before' = before
      BY <1>5 DEF ScrapeInv, ClearCount, EndReset
    <2> QED
      BY <2>1 DEF ScrapeInv, Unknown
  <1>6. ASSUME NEW t \in Threads, EndThread(t) PROVE ScrapeInv'
    <2>1. /\ latency[t] \in Histograms \cup {NoHistogram} /\ latency' = [latency EXCEPT ![t] = latency[t]]
          /\ \A i \in Indices : Counts(t)[i] <= (IF latency[t] = NoHistogram THEN Empty ELSE latency[t]).counts[i]
      <3>1. \A i \in Indices : Counts(t)[i] \in Nat
        BY CountsAreNumbers
      <3>2. Counts(t) = (IF latency[t] = NoHistogram THEN Empty ELSE latency[t]).counts
        BY DEF Counts
      <3> QED
        BY <1>0, <1>6, <3>1, <3>2 DEF EndThread
    <2> QED
      BY <1>1, <1>6, <2>1 DEF EndThread, States
  <1>7. CASE EndScrape
    BY <1>7 DEF ScrapeInv, EndScrape, Unknown
  <1>8. CASE ScrapeThread
    <2>1. /\ scrape.thread \in Threads /\ before' = before /\ where' = where /\ latency' = latency
          /\ scrape' = IF latency[scrape.thread] = NoHistogram THEN NextThread
                       ELSE HistAddLive(latency[scrape.thread])
      BY <1>8 DEF ScrapeThread
    <2>2. CASE latency[scrape.thread] = NoHistogram
      BY <2>1, <2>2, NextThreadKeepsScrape
    <2>3. CASE latency[scrape.thread] # NoHistogram /\ scrape.index = CountsLen
      <3>1. scrape' = NextThread
        BY <2>1, <2>3 DEF HistAddLive
      <3> QED
        BY <2>1, <2>3, <3>1, NextThreadKeepsScrape
    <2>4. CASE latency[scrape.thread] # NoHistogram /\ scrape.index # CountsLen
      BY <2>1, <2>4, AddingKeepsScrape
    <2> QED
      BY <2>2, <2>3, <2>4
  <1>9. CASE Report \/ UNCHANGED vars
    <2>1. UNCHANGED <<where, latency, scrape, before>>
      BY <1>9 DEF Report, vars
    <2>2. \A t \in Threads : \A i \in Indices : Counts(t)[i] <= Counts(t)'[i]
      <3>1. ASSUME NEW t \in Threads, NEW i \in Indices PROVE Counts(t)[i] <= Counts(t)'[i]
        <4>1. Counts(t)[i] \in Nat /\ Counts(t)' = Counts(t)
          BY <2>1, CountsAreNumbers DEF Counts
        <4> QED
          BY <4>1
      <3> QED
        BY <3>1
    <2> QED
      BY <2>1, <2>2, GrowthKeepsScrape
  <1>10. CASE BeginScrape
    BY <1>10, BeginKeepsScrape
  <1> QED
    BY <1>2, <1>3, <1>4, <1>5, <1>6, <1>7, <1>8, <1>9, <1>10 DEF Next

LEMMA ScrapeIsSound == MeasureInv /\ ScrapeInv => ScrapeIsBetween
  <1> SUFFICES ASSUME MeasureInv, ScrapeInv, scrape.thread = NumThreads + 1, before # Unknown,
                      NEW i \in Indices
               PROVE  before[i] <= scrape.h.counts[i] /\ scrape.h.counts[i] <= AllCounts[i]
    BY DEF ScrapeIsBetween
  <1>1. PICK was \in ByThread, taken \in ByThread : Between(was, taken)
    BY DEF ScrapeInv
  <1> DEFINE c == [t \in Threads |-> Counts(t)[i]]
  <1>2. /\ c \in [Threads -> Nat] /\ was[i] \in [Threads -> Nat] /\ taken[i] \in [Threads -> Nat]
        /\ IsFiniteSet(Threads)
    BY CountsAreNumbers, Sizes DEF ByThread
  <1>3. ASSUME NEW t \in Threads PROVE was[i][t] <= taken[i][t] /\ taken[i][t] <= c[t]
    <2>1. Passed(t, i)
      BY MeasurementAssumption DEF Passed, Threads
    <2> QED
      BY <1>1, <2>1 DEF Between
  <1>4. AllCounts[i] = SumFunction(c)
    BY Zenon DEF AllCounts
  <1>5. before[i] = SumFunction(was[i]) /\ scrape.h.counts[i] = SumFunction(taken[i])
    BY <1>1 DEF Between
  <1> HIDE DEF c
  <1>6. SumFunction(was[i]) <= SumFunction(taken[i])
    BY <1>2, <1>3, SumIsMonotone
  <1>7. SumFunction(taken[i]) <= SumFunction(c)
    BY <1>2, <1>3, SumIsMonotone
  <1> QED
    BY <1>4, <1>5, <1>6, <1>7

\* A finished scrape during which no thread was reset reports, for every count, no less
\* than the threads had when it began and no more than they have now: hist_add_live needs
\* no lock against response_complete.
THEOREM ScrapesLieBetween == Spec => []ScrapeIsBetween
  <1>1. Init => ScrapeInv
    BY DEF Init, ScrapeInv
  <1> QED
    BY <1>1, MeasureInit, MeasureNext, ScrapeNext, ScrapeIsSound, PTL DEF Spec

-------------------------------------------------------------------------------
(* The iterator *)

\* A function of Indices that is defined by its value before, from the value start: step
\* is given the index and that value.
Recurs(f, start, step) ==
    f = [k \in Indices |-> step[<<k, IF k = 0 THEN start ELSE f[k - 1]>>]]

\* There is such a function, and it has its values in the set the steps lead to.
LEMMA RecursionExists ==
    ASSUME NEW V, NEW start \in V, NEW step \in [Indices \X V -> V]
    PROVE  \E f \in [Indices -> V] : Recurs(f, start, step)
  <1> DEFINE Upto(n) == {k \in Indices : k <= n}
             v(f, k) == step[<<k, IF k = 0 THEN start ELSE f[k - 1]>>]
             D == {n \in Nat : \E f \in [Upto(n) -> V] : \A k \in Upto(n) : f[k] = v(f, k)}
  <1>0. Indices \subseteq Nat /\ CountsLen \in Nat \ {0} /\ \A k \in Indices : k # 0 => k - 1 \in Indices
    BY Sizes DEF Indices
  <1>1. 0 \in D
    <2> DEFINE f == [k \in Upto(0) |-> v(<<>>, k)]
    <2>1. \A k \in Upto(0) : k = 0 /\ k \in Indices
      BY <1>0
    <2>2. ASSUME NEW k \in Upto(0) PROVE f[k] = v(f, k) /\ f[k] \in V
      BY <2>1
    <2>3. f \in [Upto(0) -> V]
      BY <2>2
    <2> HIDE DEF f, v, Upto
    <2> QED
      BY <2>2, <2>3
  <1>2. ASSUME NEW n \in D PROVE n + 1 \in D
    <2>1. n \in Nat
      OBVIOUS
    <2>2. PICK f \in [Upto(n) -> V] : \A k \in Upto(n) : f[k] = v(f, k)
      BY <1>2
    <2> DEFINE g == [k \in Upto(n + 1) |-> v(f, k)]
    <2>3. ASSUME NEW k \in Upto(n + 1)
          PROVE  v(g, k) = v(f, k) /\ v(f, k) \in V
      <3>1. CASE k = 0
        BY <3>1
      <3>2. CASE k # 0
        <4>1. k - 1 \in Upto(n) /\ k - 1 \in Upto(n + 1)
          BY <1>0, <2>1, <3>2
        <4>2. g[k - 1] = f[k - 1] /\ f[k - 1] \in V
          <5>1. g[k - 1] = v(f, k - 1)
            BY <4>1
          <5> HIDE DEF g, v
          <5> QED
            BY <2>2, <4>1, <5>1
        <4> HIDE DEF g
        <4> QED
          BY <3>2, <4>2
      <3> QED
        BY <3>1, <3>2
    <2>4. g \in [Upto(n + 1) -> V] /\ \A k \in Upto(n + 1) : g[k] = v(g, k)
      <3> HIDE DEF v, Upto
      <3> QED
        BY <2>3
    <2> HIDE DEF g, v, Upto
    <2> QED
      BY <2>1, <2>4
  <1>3. D = Nat
    <2> HIDE DEF D
    <2>1. D \in SUBSET Nat
      BY DEF D
    <2> QED
      BY <1>1, <1>2, <2>1, AllNumbers
  <1>4. CountsLen \in D /\ Upto(CountsLen) = Indices
    <2>1. Upto(CountsLen) = Indices
      BY <1>0 DEF Indices
    <2> HIDE DEF D
    <2> QED
      BY <1>0, <1>3, <2>1
  <1>5. PICK f \in [Indices -> V] : \A k \in Indices : f[k] = v(f, k)
    <2> HIDE DEF Upto, v
    <2> QED
      BY <1>4
  <1>6. f = [k \in Indices |-> v(f, k)]
    <2> HIDE DEF v
    <2> QED
      BY <1>5
  <1> QED
    BY <1>6 DEF Recurs

\* Where the iterator may stand.
Places ==
    {p \in [bucket : Nat, sub : -1 .. SubBucketCount - 1] :
       p.bucket = 0 \/ p.sub >= SubBucketHalfCount}

\* A step of the iterator takes it to the next index.
LEMMA IncrementIsNext ==
    ASSUME NEW p \in Places
    PROVE  /\ IncrementBucket(p) \in Places
           /\ CountsIndex(p) \in Int /\ CountsIndex(IncrementBucket(p)) = CountsIndex(p) + 1
  <1> DEFINE H == SubBucketHalfCount
  <1>1. H \in Nat \ {0} /\ SubBucketCount = 2 * H
    BY Dimensions
  <1>2. p.bucket \in Nat /\ p.sub \in -1 .. 2 * H - 1 /\ p = [bucket |-> p.bucket, sub |-> p.sub]
    BY <1>1 DEF Places
  <1> HIDE DEF H
  <1>3. (p.bucket + 1) * H \in Int /\ (p.bucket + 2) * H = (p.bucket + 1) * H + H
    BY <1>1, <1>2
  <1>4. CASE p.sub + 1 >= 2 * H
    <2>1. IncrementBucket(p) = [bucket |-> p.bucket + 1, sub |-> H]
      BY <1>1, <1>4 DEF IncrementBucket, H
    <2>2. p.sub = 2 * H - 1 /\ H \in -1 .. 2 * H - 1 /\ p.bucket + 1 \in Nat
      BY <1>1, <1>2, <1>4
    <2>3. CountsIndex(p) = (p.bucket + 1) * H + p.sub - H
      BY DEF CountsIndex, H
    <2>4. CountsIndex(IncrementBucket(p)) = (p.bucket + 2) * H + H - H
      <3>1. p.bucket + 1 + 1 = p.bucket + 2
        BY <1>2
      <3> QED
        BY <2>1, <3>1 DEF CountsIndex, H
    <2>5. IncrementBucket(p) \in Places
      <3>1. [bucket |-> p.bucket + 1, sub |-> H] \in [bucket : Nat, sub : -1 .. SubBucketCount - 1]
        BY <1>1, <2>2
      <3>2. H >= SubBucketHalfCount
        BY <1>1 DEF H
      <3> QED
        BY <2>1, <3>1, <3>2 DEF Places
    <2> QED
      BY <1>1, <1>2, <1>3, <2>2, <2>3, <2>4, <2>5
  <1>5. CASE ~(p.sub + 1 >= 2 * H)
    <2>1. IncrementBucket(p) = [bucket |-> p.bucket, sub |-> p.sub + 1]
      BY <1>1, <1>2, <1>5 DEF IncrementBucket
    <2>2. p.sub + 1 \in -1 .. 2 * H - 1
      BY <1>1, <1>2, <1>5
    <2>3. CountsIndex(p) = (p.bucket + 1) * H + p.sub - H
      BY DEF CountsIndex, H
    <2>4. CountsIndex(IncrementBucket(p)) = (p.bucket + 1) * H + (p.sub + 1) - H
      BY <2>1 DEF CountsIndex, H
    <2>5. IncrementBucket(p) \in Places
      <3>1. [bucket |-> p.bucket, sub |-> p.sub + 1] \in [bucket : Nat, sub : -1 .. SubBucketCount - 1]
        BY <1>1, <1>2, <2>2
      <3>2. p.bucket = 0 \/ p.sub + 1 >= SubBucketHalfCount
        BY <1>1, <1>2 DEF H, Places
      <3> QED
        BY <2>1, <3>1, <3>2 DEF Places
    <2> QED
      BY <1>1, <1>2, <1>3, <2>3, <2>4, <2>5
  <1> QED
    BY <1>4, <1>5

\* Where the iterator stands after k + 1 calls is a place of index k.
LEMMA WalkStands == \A k \in Indices : Walk[k] \in Places /\ CountsIndex(Walk[k]) = k
  <1> DEFINE start == [bucket |-> 0, sub |-> -1]
             step == [x \in Indices \X Places |-> IncrementBucket(x[2])]
             Steps(f) == f = [k \in Indices |-> IncrementBucket(IF k = 0 THEN start ELSE f[k - 1])]
             at == CHOOSE f : Steps(f)
  <1>0. /\ Indices \subseteq Nat /\ \A k \in Indices : k # 0 => k - 1 \in Indices
        /\ SubBucketHalfCount \in Nat \ {0} /\ SubBucketCount = 2 * SubBucketHalfCount
    BY Sizes, Dimensions DEF Indices
  <1>1. start \in Places /\ CountsIndex(start) = -1
    BY <1>0 DEF Places, CountsIndex
  <1>2. step \in [Indices \X Places -> Places]
    BY IncrementIsNext
  <1> HIDE DEF start
  <1>3. \E f : Steps(f)
    <2> HIDE DEF step
    <2>1. PICK f \in [Indices -> Places] : Recurs(f, start, step)
      BY <1>1, <1>2, RecursionExists
    <2>2. ASSUME NEW k \in Indices
          PROVE  f[k] = IncrementBucket(IF k = 0 THEN start ELSE f[k - 1])
      <3> DEFINE p == IF k = 0 THEN start ELSE f[k - 1]
      <3>1. p \in Places
        BY <1>0, <1>1
      <3>2. f[k] = step[<<k, p>>]
        BY <2>1 DEF Recurs
      <3> HIDE DEF p
      <3>3. step[<<k, p>>] = IncrementBucket(p)
        BY <3>1 DEF step
      <3> QED
        BY <3>2, <3>3 DEF p
    <2>3. Steps(f)
      BY <2>2
    <2> QED
      BY <2>3
  <1>4. Steps(at)
    <2> HIDE DEF Steps
    <2> QED
      BY <1>3
  <1>5. Walk = [k \in Indices |-> at[k]]
    BY Zenon DEF Walk, start
  <1>6. \A k \in Indices : Walk[k] = IncrementBucket(IF k = 0 THEN start ELSE Walk[k - 1])
    <2>1. \A k \in Indices : Walk[k] = at[k]
      BY <1>5
    <2>2. \A k \in Indices : at[k] = IncrementBucket(IF k = 0 THEN start ELSE at[k - 1])
      BY <1>4
    <2> HIDE DEF at
    <2>3. ASSUME NEW k \in Indices
          PROVE  Walk[k] = IncrementBucket(IF k = 0 THEN start ELSE Walk[k - 1])
      <3>1. (IF k = 0 THEN start ELSE at[k - 1]) = IF k = 0 THEN start ELSE Walk[k - 1]
        BY <1>0, <2>1
      <3> QED
        BY <2>1, <2>2, <3>1
    <2> QED
      BY <2>3
  <1> DEFINE D == {n \in Nat : n \in Indices => Walk[n] \in Places /\ CountsIndex(Walk[n]) = n}
  <1>7. 0 \in D
    <2>1. ASSUME 0 \in Indices PROVE Walk[0] \in Places /\ CountsIndex(Walk[0]) = 0
      <3>1. Walk[0] = IncrementBucket(start)
        BY <1>6, <2>1
      <3>2. IncrementBucket(start) \in Places /\ CountsIndex(IncrementBucket(start)) = -1 + 1
        BY <1>1, IncrementIsNext
      <3> QED
        BY <3>1, <3>2
    <2> QED
      BY <2>1
  <1>8. ASSUME NEW n \in D PROVE n + 1 \in D
    <2>1. n \in Nat
      OBVIOUS
    <2>2. ASSUME n + 1 \in Indices
          PROVE  Walk[n + 1] \in Places /\ CountsIndex(Walk[n + 1]) = n + 1
      <3>1. n \in Indices /\ n + 1 # 0 /\ (n + 1) - 1 = n
        BY <2>1, <2>2, Sizes DEF Indices
      <3>2. Walk[n + 1] = IncrementBucket(Walk[n])
        BY <1>6, <2>2, <3>1
      <3>3. Walk[n] \in Places /\ CountsIndex(Walk[n]) = n
        BY <1>8, <3>1
      <3> QED
        BY <3>2, <3>3, IncrementIsNext
    <2> QED
      BY <2>1, <2>2
  <1>9. D = Nat
    <2> HIDE DEF D
    <2>1. D \in SUBSET Nat
      BY DEF D
    <2> QED
      BY <1>7, <1>8, <2>1, AllNumbers
  <1> QED
    BY <1>0, <1>9

\* The iterator visits each count once, in the order of the array: bucket and sub-bucket of
\* hdr_iter_next, increment_bucket, name at call k + 1 the index k of counts_index.
THEOREM WalkIsInOrder == \A k \in Indices : CountsIndex(Walk[k]) = k
  BY WalkStands

\* The running sums of the counts c.
Runs(sums, c) ==
    /\ sums \in [Indices -> Nat]
    /\ \A k \in Indices : sums[k] = c[k] + IF k = 0 THEN 0 ELSE sums[k - 1]

\* That is what the iterator counts to.
LEMMA CountsToRuns ==
    ASSUME NEW h \in Histograms
    PROVE  Runs(CountsTo(h), h.counts)
  <1> DEFINE c == h.counts
             step == [x \in Indices \X Nat |-> c[x[1]] + x[2]]
             Sums(f) == f = [k \in Indices |-> CountAt(h, k) + IF k = 0 THEN 0 ELSE f[k - 1]]
             to == CHOOSE f : Sums(f)
  <1>0. c \in [Indices -> Nat] /\ \A k \in Indices : k \in Nat /\ (k # 0 => k - 1 \in Indices)
    BY Sizes DEF Histograms, Indices
  <1>1. ASSUME NEW k \in Indices PROVE CountAt(h, k) = c[k]
    BY WalkIsInOrder DEF CountAt
  <1> HIDE DEF c
  <1>2. step \in [Indices \X Nat -> Nat]
    BY <1>0
  <1>3. PICK f \in [Indices -> Nat] : Recurs(f, 0, step)
    <2> HIDE DEF step
    <2> QED
      BY <1>2, RecursionExists
  <1>4. ASSUME NEW k \in Indices PROVE f[k] = c[k] + IF k = 0 THEN 0 ELSE f[k - 1]
    <2> DEFINE m == IF k = 0 THEN 0 ELSE f[k - 1]
    <2>1. m \in Nat
      BY <1>0
    <2>2. f[k] = step[<<k, m>>]
      <3> HIDE DEF step
      <3> QED
        BY <1>3 DEF Recurs
    <2> HIDE DEF m
    <2>3. step[<<k, m>>] = c[k] + m
      BY <2>1
    <2> QED
      BY <2>2, <2>3 DEF m
  <1>5. Sums(f)
    BY <1>1, <1>4
  <1>6. Sums(to)
    <2> HIDE DEF Sums
    <2> QED
      BY <1>5
  <1>7. CountsTo(h) = [k \in Indices |-> to[k]]
    BY Zenon DEF CountsTo
  <1>8. \A k \in Indices : to[k] = c[k] + IF k = 0 THEN 0 ELSE to[k - 1]
    BY <1>1, <1>6
  <1> HIDE DEF to
  <1> DEFINE D == {n \in Nat : n \in Indices => to[n] = f[n]}
  <1>9. 0 \in D
    BY <1>4, <1>8
  <1>10. ASSUME NEW n \in D PROVE n + 1 \in D
    <2>1. n \in Nat
      OBVIOUS
    <2>2. ASSUME n + 1 \in Indices PROVE to[n + 1] = f[n + 1]
      <3>1. n \in Indices /\ n + 1 # 0 /\ (n + 1) - 1 = n
        BY <2>1, <2>2, Sizes DEF Indices
      <3>2. to[n] = f[n]
        BY <1>10, <3>1
      <3> QED
        BY <1>4, <1>8, <2>2, <3>1, <3>2
    <2> QED
      BY <2>1, <2>2
  <1>11. D = Nat
    <2> HIDE DEF D
    <2>1. D \in SUBSET Nat
      BY DEF D
    <2> QED
      BY <1>9, <1>10, <2>1, AllNumbers
  <1>12. \A k \in Indices : CountsTo(h)[k] = f[k]
    BY <1>0, <1>7, <1>11
  <1>13. CountsTo(h) \in [Indices -> Nat]
    <2>1. \A k \in Indices : to[k] \in Nat
      BY <1>0, <1>11
    <2> QED
      BY <1>7, <2>1
  <1>14. ASSUME NEW k \in Indices
         PROVE  CountsTo(h)[k] = c[k] + IF k = 0 THEN 0 ELSE CountsTo(h)[k - 1]
    BY <1>0, <1>4, <1>12
  <1> QED
    BY <1>13, <1>14 DEF Runs, c

\* One count more by n takes the running sums on to a total more by n.
LEMMA TotalGrows ==
    ASSUME NEW c \in [Indices -> Nat], NEW d \in [Indices -> Nat], NEW r, NEW s,
           Runs(r, c), Runs(s, d), NEW i \in Indices, NEW n \in Nat,
           d[i] = c[i] + n, \A k \in Indices \ {i} : d[k] = c[k]
    PROVE  s[CountsLen - 1] = r[CountsLen - 1] + n
  <1> DEFINE D == {m \in Nat : m \in Indices => s[m] = r[m] + IF m >= i THEN n ELSE 0}
  <1>0. CountsLen \in Nat \ {0} /\ \A k \in Indices : k \in Nat /\ (k # 0 => k - 1 \in Indices)
    BY Sizes DEF Indices
  <1>1. /\ r \in [Indices -> Nat] /\ s \in [Indices -> Nat]
        /\ \A k \in Indices : r[k] = c[k] + IF k = 0 THEN 0 ELSE r[k - 1]
        /\ \A k \in Indices : s[k] = d[k] + IF k = 0 THEN 0 ELSE s[k - 1]
    BY DEF Runs
  <1>2. \A k \in Indices : d[k] = c[k] + IF k = i THEN n ELSE 0
    OBVIOUS
  <1>3. 0 \in D
    BY <1>0, <1>1, <1>2
  <1>4. ASSUME NEW m \in D PROVE m + 1 \in D
    <2>1. m \in Nat
      OBVIOUS
    <2>2. ASSUME m + 1 \in Indices PROVE s[m + 1] = r[m + 1] + IF m + 1 >= i THEN n ELSE 0
      <3>1. m \in Indices /\ m + 1 # 0 /\ (m + 1) - 1 = m
        BY <2>1, <2>2, Sizes DEF Indices
      <3>2. s[m] = r[m] + IF m >= i THEN n ELSE 0
        BY <1>4, <3>1
      <3>3. r[m + 1] = c[m + 1] + r[m] /\ s[m + 1] = d[m + 1] + s[m]
        BY <1>1, <2>2, <3>1
      <3>4. d[m + 1] = c[m + 1] + IF m + 1 = i THEN n ELSE 0
        BY <1>2, <2>2
      <3>5. r[m] \in Nat /\ c[m + 1] \in Nat /\ i \in Nat
        BY <1>0, <1>1, <2>2, <3>1
      <3> HIDE DEF D
      <3> QED
        BY <2>1, <3>2, <3>3, <3>4, <3>5
    <2> QED
      BY <2>1, <2>2
  <1>5. D = Nat
    <2> HIDE DEF D
    <2>1. D \in SUBSET Nat
      BY DEF D
    <2> QED
      BY <1>3, <1>4, <2>1, AllNumbers
  <1> DEFINE m == CountsLen - 1
  <1>6. m \in Indices /\ m >= i /\ m \in Nat
    BY <1>0 DEF Indices
  <1> HIDE DEF m
  <1>7. s[m] = r[m] + IF m >= i THEN n ELSE 0
    BY <1>5, <1>6
  <1> QED
    BY <1>6, <1>7 DEF m

\* Nothing counted runs to a total of nothing.
LEMMA TotalOfNothing ==
    ASSUME NEW r, Runs(r, Empty.counts)
    PROVE  r[CountsLen - 1] = 0
  <1> DEFINE D == {m \in Nat : m \in Indices => r[m] = 0}
  <1>0. CountsLen \in Nat \ {0} /\ \A k \in Indices : k \in Nat /\ (k # 0 => k - 1 \in Indices)
    BY Sizes DEF Indices
  <1>1. \A k \in Indices : r[k] = IF k = 0 THEN 0 ELSE r[k - 1]
    BY <1>0 DEF Runs, Empty
  <1>2. 0 \in D
    BY <1>1
  <1>3. ASSUME NEW m \in D PROVE m + 1 \in D
    <2>1. m \in Nat
      OBVIOUS
    <2>2. ASSUME m + 1 \in Indices PROVE r[m + 1] = 0
      <3>1. m \in Indices /\ m + 1 # 0 /\ (m + 1) - 1 = m
        BY <2>1, <2>2, Sizes DEF Indices
      <3> QED
        BY <1>1, <1>3, <2>2, <3>1
    <2> QED
      BY <2>1, <2>2
  <1>4. D = Nat
    <2> HIDE DEF D
    <2>1. D \in SUBSET Nat
      BY DEF D
    <2> QED
      BY <1>2, <1>3, <2>1, AllNumbers
  <1>5. CountsLen - 1 \in Indices /\ CountsLen - 1 \in Nat
    BY <1>0 DEF Indices
  <1> QED
    BY <1>4, <1>5

\* The total of the copy is what its counts run to: the invariant.
TotalFits(h) == CountsTo(h)[CountsLen - 1] = h.total_count

WalkInv == TotalFits(scrape.h)

LEMMA EmptyFits == TotalFits(Empty)
  <1>1. Runs(CountsTo(Empty), Empty.counts)
    BY Sizes, CountsToRuns
  <1>2. Empty.total_count = 0
    BY DEF Empty
  <1> QED
    BY <1>1, <1>2, TotalOfNothing DEF TotalFits

LEMMA WalkNext == MeasureInv /\ MeasureInv' /\ WalkInv /\ [Next]_vars => WalkInv'
  <1> SUFFICES ASSUME MeasureInv, MeasureInv', WalkInv, [Next]_vars PROVE TotalFits(scrape'.h)
    BY DEF WalkInv
  <1>1. ASSUME scrape'.h = scrape.h PROVE TotalFits(scrape'.h)
    BY <1>1 DEF WalkInv
  <1>2. ASSUME NEW t \in Threads,
               \/ StartThread(t) \/ (\E r \in Responses : Respond(t, r))
               \/ Calibrate(t) \/ EndWarmup(t)
               \/ (\E i \in Indices : ClearCount(t, i)) \/ EndReset(t) \/ EndThread(t)
        PROVE  TotalFits(scrape'.h)
    <2>1. scrape' = scrape
      BY <1>2 DEF StartThread, Respond, Calibrate, EndWarmup, BeginReset, ClearCount,
                  EndReset, EndThread
    <2> QED
      BY <1>1, <2>1
  <1>3. CASE Report \/ UNCHANGED vars
    <2>1. scrape' = scrape
      BY <1>3 DEF Report, vars
    <2> QED
      BY <1>1, <2>1
  <1>4. CASE BeginScrape \/ EndScrape
    <2>1. scrape'.h = Empty
      BY <1>4 DEF BeginScrape, EndScrape, Idle
    <2> QED
      BY <2>1, EmptyFits
  <1>5. CASE ScrapeThread
    <2> DEFINE src == latency[scrape.thread]
    <2>1. /\ scrape.thread \in Threads /\ TypeOK /\ (src = NoHistogram \/ src \in Histograms)
          /\ scrape' = IF src = NoHistogram THEN NextThread ELSE HistAddLive(src)
          /\ scrape.h \in Histograms /\ scrape'.h \in Histograms
      BY <1>5 DEF ScrapeThread, MeasureInv, TypeOK
    <2> HIDE DEF src
    <2>2. CASE src = NoHistogram \/ scrape.index = CountsLen
      <3>1. scrape' = NextThread
        BY <2>1, <2>2 DEF HistAddLive
      <3> QED
        BY <1>1, <2>1, <3>1, NextThreadIsRight
    <2>3. CASE src # NoHistogram /\ scrape.index # CountsLen
      <3> DEFINE i == scrape.index
                 n == src.counts[i]
                 c == scrape.h.counts
                 d == scrape'.h.counts
      <3>1. /\ i \in Indices /\ n \in Nat /\ d = [c EXCEPT ![i] = @ + n]
            /\ scrape'.h.total_count = scrape.h.total_count + n
        BY <2>1, <2>3, HistAddLiveIsRight
      <3>2. c \in [Indices -> Nat] /\ d \in [Indices -> Nat]
        BY <2>1 DEF Histograms
      <3>3. d[i] = c[i] + n /\ \A k \in Indices \ {i} : d[k] = c[k]
        BY <3>1, <3>2
      <3>4. Runs(CountsTo(scrape.h), c) /\ Runs(CountsTo(scrape'.h), d)
        BY <2>1, CountsToRuns
      <3>5. /\ n \in Nat /\ i \in Indices /\ Runs(CountsTo(scrape.h), c)
            /\ c \in [Indices -> Nat] /\ d \in [Indices -> Nat]
        BY <3>1, <3>2, <3>4
      <3> HIDE DEF i, n, c, d
      <3>6. CountsTo(scrape'.h)[CountsLen - 1] = CountsTo(scrape.h)[CountsLen - 1] + n
        BY <3>3, <3>4, <3>5, TotalGrows
      <3> QED
        BY <3>1, <3>6 DEF TotalFits, WalkInv, n
    <2> QED
      BY <2>2, <2>3
  <1> QED
    BY <1>2, <1>3, <1>4, <1>5 DEF Next

LEMMA WalkIsSound == MeasureInv /\ WalkInv => ScrapeCanBeWalked
  <1> SUFFICES ASSUME MeasureInv, WalkInv PROVE ScrapeCanBeWalked
    OBVIOUS
  <1>1. scrape.h.total_count \in Nat
    BY DEF MeasureInv, TypeOK, Histograms
  <1> QED
    BY <1>1 DEF WalkInv, TotalFits, ScrapeCanBeWalked, WalkEnds

\* The total of a scrape's copy is at every moment the sum of its counts, whatever the
\* threads record and reset meanwhile: hdr_iter_next, which stops by that total, does not
\* run off the array of it.
THEOREM ScrapesCanBeWalked == Spec => []ScrapeCanBeWalked
  <1>1. Init => WalkInv
    BY EmptyFits DEF Init, Idle, WalkInv
  <1> QED
    BY <1>1, MeasureInit, MeasureNext, WalkNext, WalkIsSound, PTL DEF Spec

\* The place of a count.
Stands(p) == p \in Places /\ p.sub >= 0

\* The values of a sub-bucket of bucket b.
Width(b) == Power[b + UnitMagnitude]

\* A sub-bucket holds some value, and twice as many in the next bucket.
LEMMA WidthIsPositive == \A b \in Nat : Width(b) \in Nat \ {0} /\ Width(b + 1) = 2 * Width(b)
  <1> SUFFICES ASSUME NEW b \in Nat PROVE Width(b) \in Nat \ {0} /\ Width(b + 1) = 2 * Width(b)
    OBVIOUS
  <1>1. b + UnitMagnitude \in Nat /\ (b + 1) + UnitMagnitude = (b + UnitMagnitude) + 1
    BY HistogramAssumption
  <1> QED
    BY <1>1, PowerLaws DEF Width

\* A place further up in the buckets has a larger index.
LEMMA BucketsAreApart ==
    ASSUME NEW p, Stands(p), NEW q, Stands(q), p.bucket < q.bucket
    PROVE  CountsIndex(p) < CountsIndex(q)
  <1> DEFINE H == SubBucketHalfCount
             a == p.bucket
             b == q.bucket
  <1>1. /\ H \in Nat \ {0} /\ a \in Nat /\ b \in Nat /\ a < b /\ p.sub \in 0 .. 2 * H - 1
        /\ q.sub \in H .. 2 * H - 1
    BY Dimensions DEF Stands, Places
  <1>2. CountsIndex(p) = (a + 1) * H + p.sub - H /\ CountsIndex(q) = (b + 1) * H + q.sub - H
    BY DEF CountsIndex
  <1> HIDE DEF H, a, b
  <1>3. PICK d \in Nat : b = a + 1 + d
    <2>1. b - a - 1 \in Nat /\ b = a + 1 + (b - a - 1)
      BY <1>1
    <2> QED
      BY <2>1
  <1>4. (b + 1) * H = (a + 1) * H + H + d * H /\ d * H \in Nat /\ (a + 1) * H \in Nat
    <2>1. b + 1 = (a + 1) + (1 + d) /\ a + 1 \in Nat
      BY <1>1, <1>3
    <2>2. ((a + 1) + (1 + d)) * H = (a + 1) * H + H + d * H
      BY <1>1, <1>3
    <2> QED
      BY <1>1, <1>3, <2>1, <2>2
  <1> QED
    BY <1>1, <1>2, <1>4

\* No two places have the same index.
LEMMA PlacesAreApart ==
    ASSUME NEW p, Stands(p), NEW q, Stands(q), CountsIndex(p) = CountsIndex(q)
    PROVE  p = q
  <1>1. /\ p.bucket \in Nat /\ q.bucket \in Nat /\ p.sub \in Int /\ q.sub \in Int
        /\ p = [bucket |-> p.bucket, sub |-> p.sub] /\ q = [bucket |-> q.bucket, sub |-> q.sub]
    BY DEF Stands, Places
  <1>2. SubBucketHalfCount \in Nat
    BY Dimensions
  <1>3. CountsIndex(p) \in Int /\ CountsIndex(q) \in Int
    BY <1>1, <1>2 DEF CountsIndex
  <1>4. p.bucket = q.bucket
    BY <1>1, <1>3, BucketsAreApart
  <1>5. (p.bucket + 1) * SubBucketHalfCount \in Nat
    BY <1>1, <1>2
  <1>6. p.sub = q.sub
    BY <1>1, <1>2, <1>4, <1>5 DEF CountsIndex
  <1> QED
    BY <1>1, <1>4, <1>6

\* The iterator begins at the first sub-bucket and goes on as increment_bucket does.
LEMMA WalkGoesOn ==
    /\ \A k \in Indices : Stands(Walk[k])
    /\ Walk[0] = [bucket |-> 0, sub |-> 0]
    /\ \A k \in Indices : k + 1 \in Indices => Walk[k + 1] = IncrementBucket(Walk[k])
  <1> DEFINE H == SubBucketHalfCount
  <1>0. H \in Nat \ {0} /\ SubBucketCount = 2 * H
    BY Dimensions
  <1>1. ASSUME NEW p \in Places, CountsIndex(p) >= 0 PROVE Stands(p)
    <2>1. p.bucket \in Nat /\ p.sub \in Int /\ (p.bucket = 0 \/ p.sub >= H)
      BY <1>0 DEF Places
    <2>2. CASE p.bucket = 0
      <3>1. CountsIndex(p) = (0 + 1) * H + p.sub - H
        BY <2>2 DEF CountsIndex
      <3>2. (0 + 1) * H = H
        BY <1>0
      <3> HIDE DEF H
      <3>3. p.sub >= 0
        BY <1>0, <1>1, <2>1, <3>1, <3>2
      <3> QED
        BY <3>3 DEF Stands
    <2>3. CASE p.bucket # 0
      BY <1>0, <2>1, <2>3 DEF Stands
    <2> QED
      BY <2>2, <2>3
  <1>2. \A k \in Indices : Stands(Walk[k]) /\ CountsIndex(Walk[k]) = k /\ k \in Nat
    BY <1>1, WalkStands, Sizes
  <1>3. Walk[0] = [bucket |-> 0, sub |-> 0]
    <2> DEFINE p == [bucket |-> 0, sub |-> 0]
    <2>1. Stands(p)
      <3>1. p \in [bucket : Nat, sub : -1 .. SubBucketCount - 1]
        BY <1>0
      <3> QED
        BY <3>1 DEF Stands, Places
    <2>2. CountsIndex(p) = 0
      BY <1>0 DEF CountsIndex
    <2>3. 0 \in Indices
      BY Sizes DEF Indices
    <2> HIDE DEF p
    <2>4. Walk[0] = p
      BY <1>2, <2>1, <2>2, <2>3, PlacesAreApart
    <2> QED
      BY <2>4 DEF p
  <1>4. ASSUME NEW k \in Indices, k + 1 \in Indices PROVE Walk[k + 1] = IncrementBucket(Walk[k])
    <2>1. Walk[k] \in Places /\ CountsIndex(Walk[k]) = k /\ k \in Nat
      BY <1>2 DEF Stands
    <2>2. IncrementBucket(Walk[k]) \in Places /\ CountsIndex(IncrementBucket(Walk[k])) = k + 1
      BY <2>1, IncrementIsNext
    <2>3. Stands(IncrementBucket(Walk[k]))
      BY <1>1, <2>1, <2>2
    <2> QED
      BY <1>2, <1>4, <2>2, <2>3, PlacesAreApart
  <1> QED
    BY <1>2, <1>3, <1>4

\* Division by a positive number, from the quotient and to it.
LEMMA Quotient ==
    ASSUME NEW v \in Nat, NEW w \in Nat \ {0}
    PROVE  /\ v \div w \in Nat /\ (v \div w) * w <= v /\ v < (v \div w + 1) * w
           /\ \A s \in Nat : s * w <= v /\ v < (s + 1) * w => v \div w = s
  <1> DEFINE q == v \div w
  <1>1. q \in Nat /\ q * w <= v /\ v < q * w + w
    OBVIOUS
  <1> HIDE DEF q
  <1>2. (q + 1) * w = q * w + w
    BY <1>1
  <1>3. ASSUME NEW s \in Nat, s * w <= v, v < (s + 1) * w PROVE q = s
    <2>1. ASSUME NEW a \in Nat, NEW b \in Nat, a < b PROVE (a + 1) * w <= b * w
      <3>1. PICK d \in Nat : b = a + 1 + d
        <4>1. b - a - 1 \in Nat /\ b = a + 1 + (b - a - 1)
          BY <2>1
        <4> QED
          BY <4>1
      <3>2. (a + 1 + d) * w = (a + 1) * w + d * w /\ d * w \in Nat /\ (a + 1) * w \in Nat
        OBVIOUS
      <3> QED
        BY <3>1, <3>2
    <2>2. ~(q < s)
      <3>1. q < s => (q + 1) * w <= s * w
        BY <1>1, <2>1
      <3>2. (q + 1) * w \in Nat /\ s * w \in Nat
        BY <1>1
      <3> QED
        BY <1>1, <1>2, <1>3, <3>1, <3>2
    <2>3. ~(s < q)
      <3>1. s < q => (s + 1) * w <= q * w
        BY <1>1, <2>1
      <3>2. (s + 1) * w \in Nat /\ q * w \in Nat
        BY <1>1
      <3> QED
        BY <1>1, <1>3, <3>1, <3>2
    <2> QED
      BY <1>1, <2>2, <2>3
  <1> QED
    BY <1>1, <1>2, <1>3 DEF q

\* A number has one length in bits.
IsLength(n, m) == Power[n - 1] <= m /\ m < Power[n]

\* A number lies between two powers of two in one way only.
LEMMA LengthIsUnique ==
    ASSUME NEW m \in Nat, NEW a \in Nat \ {0}, NEW b \in Nat \ {0}, IsLength(a, m), IsLength(b, m)
    PROVE  a = b
  <1>1. /\ a - 1 \in Nat /\ b - 1 \in Nat
        /\ Power[a] \in Nat /\ Power[b] \in Nat /\ Power[a - 1] \in Nat /\ Power[b - 1] \in Nat
    BY PowerLaws
  <1>2. ~(a < b)
    <2>1. a < b => Power[a] <= Power[b - 1]
      BY <1>1, PowerGrows
    <2> QED
      BY <1>1, <2>1 DEF IsLength
  <1>3. ~(b < a)
    <2>1. b < a => Power[b] <= Power[a - 1]
      BY <1>1, PowerGrows
    <2> QED
      BY <1>1, <2>1 DEF IsLength
  <1> QED
    BY <1>2, <1>3

\* And it does lie between two of them.
LEMMA LengthExists ==
    ASSUME NEW m \in Nat \ {0}
    PROVE  \E n \in 1 .. m + 1 : IsLength(n, m)
  <1> DEFINE S == {n \in Nat : Power[n] > m}
  <1>1. m \in S
    BY PowerGrows, PowerLaws
  <1>2. Min(S) \in S /\ \A x \in S : Min(S) <= x
    <2>1. S \in SUBSET Nat
      OBVIOUS
    <2> HIDE DEF S
    <2> QED
      BY <1>1, <2>1, LeastOf
  <1> DEFINE n == Min(S)
  <1>3. n \in Nat /\ Power[n] > m /\ n <= m
    BY <1>1, <1>2
  <1>4. n # 0
    BY <1>3, PowerLaws
  <1>5. n - 1 \in Nat /\ n - 1 \notin S
    BY <1>2, <1>3, <1>4
  <1>6. Power[n - 1] <= m /\ Power[n] \in Nat
    BY <1>3, <1>5, PowerLaws
  <1> HIDE DEF n
  <1>7. IsLength(n, m) /\ n \in 1 .. m + 1
    BY <1>3, <1>4, <1>6 DEF IsLength
  <1> QED
    BY <1>7

\* What BitLength takes the length of.
Masked(v) == IF v > SubBucketMask THEN v ELSE SubBucketMask

\* So BitLength is what its definition asks for.
LEMMA BitLengthIsRight ==
    ASSUME NEW v \in Nat
    PROVE  /\ Masked(v) \in Nat \ {0} /\ Masked(v) >= v /\ Masked(v) >= SubBucketMask
           /\ BitLength(v) \in Nat \ {0} /\ IsLength(BitLength(v), Masked(v))
           /\ \A n \in Nat \ {0} : IsLength(n, Masked(v)) => BitLength(v) = n
  <1> DEFINE m == Masked(v)
  <1>1. m \in Nat \ {0} /\ m >= v /\ m >= SubBucketMask
    BY Dimensions DEF Masked
  <1>2. BitLength(v) = CHOOSE n \in 1 .. m + 1 : IsLength(n, m)
    BY DEF BitLength, IsLength, Masked
  <1> HIDE DEF m
  <1>3. BitLength(v) \in 1 .. m + 1 /\ IsLength(BitLength(v), m)
    BY <1>1, <1>2, LengthExists
  <1>4. BitLength(v) \in Nat \ {0}
    BY <1>1, <1>3
  <1>5. ASSUME NEW n \in Nat \ {0}, IsLength(n, m) PROVE BitLength(v) = n
    BY <1>1, <1>3, <1>4, <1>5, LengthIsUnique
  <1> QED
    BY <1>1, <1>3, <1>4, <1>5 DEF m

\* The widths as products, and where the mask lies among the powers.
LEMMA WidthsAreRight ==
    ASSUME NEW b \in Nat
    PROVE  LET n == b + UnitMagnitude + SubBucketMagnitude
           IN  /\ n - 1 \in Nat /\ n \in Nat \ {0}
               /\ Power[n] = SubBucketCount * Width(b)
               /\ Power[n - 1] = SubBucketHalfCount * Width(b)
               /\ SubBucketMask < Power[n]
               /\ b = 0 => Power[n - 1] <= SubBucketMask
               /\ b # 0 => SubBucketMask < Power[n - 1]
  <1> DEFINE n == b + UnitMagnitude + SubBucketMagnitude
             M == SubBucketMagnitude
             U == UnitMagnitude
             H == SubBucketHalfCount
  <1>1. /\ M \in Nat \ {0} /\ U \in Nat /\ M - 1 \in Nat /\ n \in Nat \ {0} /\ n - 1 \in Nat
        /\ b + U \in Nat
    BY HistogramAssumption
  <1>2. /\ H \in Nat \ {0} /\ SubBucketCount = 2 * H /\ H = Power[M - 1] /\ 2 * H = Power[M]
        /\ SubBucketMask = (2 * H - 1) * Power[U] /\ Power[U] \in Nat \ {0}
    BY Dimensions DEF SubBucketMask
  <1>3. Power[n] = 2 * H * Width(b) /\ Power[n - 1] = H * Width(b)
    <2> DEFINE w == Width(b)
    <2>1. n = M + (b + U) /\ n - 1 = (M - 1) + (b + U)
      BY <1>1
    <2>2. Power[M + (b + U)] = Power[M] * Power[b + U]
      BY <1>1, PowerAdds
    <2>3. Power[(M - 1) + (b + U)] = Power[M - 1] * Power[b + U]
      BY <1>1, PowerAdds
    <2> HIDE DEF n
    <2> QED
      BY <1>2, <2>1, <2>2, <2>3 DEF Width
  <1> DEFINE u == Power[U]
  <1>4. H * u <= SubBucketMask /\ SubBucketMask < 2 * H * u
    <2>1. (2 * H - 1) * u = 2 * H * u - u /\ 2 * H * u = H * u + H * u /\ H * u \in Nat
      BY <1>2
    <2>2. PICK d \in Nat : H = d + 1
      <3>1. H - 1 \in Nat /\ H = (H - 1) + 1
        BY <1>2
      <3> QED
        BY <3>1
    <2>3. (d + 1) * u = d * u + u /\ d * u \in Nat
      BY <1>2
    <2>4. H * u = d * u + u
      BY <2>2, <2>3
    <2> HIDE DEF H, u
    <2> QED
      BY <1>2, <2>1, <2>3, <2>4 DEF u
  <1>5. 2 * H * u = Power[M + U]
    BY <1>1, <1>2, PowerAdds
  <1>6. Power[M + U] <= Power[n] /\ (b # 0 => Power[M + U] <= Power[n - 1])
    <2>1. M + U \in Nat /\ M + U <= n /\ (b # 0 => M + U <= n - 1)
      BY <1>1
    <2> HIDE DEF n
    <2> QED
      BY <1>1, <2>1, PowerGrows
  <1>7. b = 0 => Power[n - 1] = H * u
    <2>1. b = 0 => Width(b) = u
      BY <1>1 DEF Width
    <2> QED
      BY <1>3, <2>1
  <1>8. /\ Power[n] \in Nat /\ Power[n - 1] \in Nat /\ Power[M + U] \in Nat /\ SubBucketMask \in Nat
        /\ H * u \in Nat
    <2>1. M + U \in Nat
      BY <1>1
    <2> HIDE DEF n
    <2> QED
      BY <1>1, <1>2, <2>1, PowerLaws, Dimensions
  <1> HIDE DEF n, M, U, H, u
  <1>9. SubBucketMask < Power[n] /\ (b # 0 => SubBucketMask < Power[n - 1])
    BY <1>4, <1>5, <1>6, <1>8
  <1>10. b = 0 => Power[n - 1] <= SubBucketMask
    BY <1>4, <1>7
  <1> QED
    BY <1>1, <1>2, <1>3, <1>9, <1>10 DEF n, H

\* The place of a value: the one in whose range the value lies.
LEMMA PlaceIs ==
    ASSUME NEW v \in Nat, NEW p, Stands(p),
           p.sub * Width(p.bucket) <= v, v < (p.sub + 1) * Width(p.bucket)
    PROVE  PlaceOf(v) = p
  <1> DEFINE b == p.bucket
             s == p.sub
             n == b + UnitMagnitude + SubBucketMagnitude
             H == SubBucketHalfCount
             w == Width(b)
             m == Masked(v)
  <1>1. /\ b \in Nat /\ s \in Nat /\ s + 1 <= 2 * H /\ (b = 0 \/ s >= H) /\ H \in Nat \ {0}
        /\ SubBucketCount = 2 * H /\ p = [bucket |-> b, sub |-> s]
    BY Dimensions DEF Stands, Places
  <1>2. w \in Nat \ {0}
    BY <1>1, WidthIsPositive
  <1>3. /\ n - 1 \in Nat /\ n \in Nat \ {0} /\ Power[n] = 2 * H * w /\ Power[n - 1] = H * w
        /\ SubBucketMask < Power[n] /\ (b = 0 => Power[n - 1] <= SubBucketMask)
    BY <1>1, WidthsAreRight
  <1>4. m \in Nat /\ m >= v /\ m >= SubBucketMask /\ (m = v \/ m = SubBucketMask)
    BY BitLengthIsRight DEF Masked
  <1>5. SubBucketMask \in Nat /\ UnitMagnitude \in Nat /\ SubBucketMagnitude \in Nat
    BY Dimensions, HistogramAssumption
  <1>6. s * w <= v /\ v < (s + 1) * w
    OBVIOUS
  <1> HIDE DEF m, w, n, H, b, s
  <1>7. m < Power[n]
    <2>1. PICK d \in Nat : 2 * H = s + 1 + d
      <3>1. 2 * H - (s + 1) \in Nat /\ 2 * H = s + 1 + (2 * H - (s + 1))
        BY <1>1
      <3> QED
        BY <3>1
    <2>2. (s + 1 + d) * w = (s + 1) * w + d * w /\ d * w \in Nat /\ (s + 1) * w \in Nat
      BY <1>1, <1>2, <2>1
    <2>3. v < 2 * H * w
      BY <1>6, <2>1, <2>2
    <2> QED
      BY <1>3, <1>4, <2>3
  <1>8. Power[n - 1] <= m
    <2>1. CASE b = 0
      BY <1>3, <1>4, <1>5, <2>1, PowerLaws
    <2>2. CASE s >= H
      <3>1. PICK d \in Nat : s = H + d
        <4>1. s - H \in Nat /\ s = H + (s - H)
          BY <1>1, <2>2
        <4> QED
          BY <4>1
      <3>2. (H + d) * w = H * w + d * w /\ d * w \in Nat /\ H * w \in Nat
        BY <1>1, <1>2, <3>1
      <3>3. H * w <= v
        BY <1>6, <3>1, <3>2
      <3> QED
        BY <1>3, <1>4, <3>2, <3>3
    <2> QED
      BY <1>1, <2>1, <2>2
  <1>9. BitLength(v) = n
    BY <1>3, <1>7, <1>8, BitLengthIsRight DEF IsLength, m
  <1>10. BucketIndex(v) = b
    BY <1>1, <1>5, <1>9 DEF BucketIndex, n
  <1>11. SubBucketIndex(v, b) = s
    BY <1>1, <1>2, <1>6, Quotient DEF SubBucketIndex, Width, w
  <1> QED
    BY <1>1, <1>10, <1>11 DEF PlaceOf

\* A value that has a count has a place, with an index.
LEMMA CountedStands ==
    ASSUME NEW v \in Nat, InRange(v)
    PROVE  /\ Stands(PlaceOf(v)) /\ CountsIndex(PlaceOf(v)) \in Indices
           /\ PlaceOf(v).sub * Width(PlaceOf(v).bucket) <= v
           /\ v < (PlaceOf(v).sub + 1) * Width(PlaceOf(v).bucket)
  <1> DEFINE b == BucketIndex(v)
             s == SubBucketIndex(v, b)
             n == BitLength(v)
             H == SubBucketHalfCount
  <1>1. PlaceOf(v) = [bucket |-> b, sub |-> s]
    BY DEF PlaceOf
  <1>2. /\ b < BucketCount /\ s < 2 * H /\ (b = 0 \/ s >= H) /\ H \in Nat \ {0}
        /\ SubBucketCount = 2 * H /\ BucketCount \in Nat
    BY <1>1, Dimensions DEF InRange, Counted
  <1>3. n \in Nat \ {0} /\ IsLength(n, Masked(v)) /\ Masked(v) \in Nat /\ Masked(v) >= SubBucketMask
    BY BitLengthIsRight
  <1>4. b = n - UnitMagnitude - SubBucketMagnitude
    BY DEF BucketIndex
  <1> HIDE DEF n, b
  <1>5. b \in Nat
    <2> DEFINE k == UnitMagnitude + SubBucketMagnitude
    <2>1. k \in Nat \ {0} /\ k - 1 \in Nat /\ Power[k - 1] <= SubBucketMask
      <3>1. 0 + UnitMagnitude + SubBucketMagnitude = k
        BY HistogramAssumption
      <3> QED
        BY <3>1, WidthsAreRight
    <2>2. SubBucketMask \in Nat /\ Power[n] \in Nat /\ Power[k - 1] \in Nat
      BY <1>3, <2>1, PowerLaws, Dimensions
    <2>3. n <= k - 1 => Power[n] <= Power[k - 1]
      BY <1>3, <2>1, PowerGrows
    <2>4. ~(n <= k - 1)
      BY <1>3, <2>1, <2>2, <2>3 DEF IsLength
    <2> QED
      BY <1>3, <1>4, <2>4, HistogramAssumption
  <1>6. Width(b) \in Nat \ {0}
    BY <1>5, WidthIsPositive
  <1>7. s \in Nat /\ s * Width(b) <= v /\ v < (s + 1) * Width(b)
    BY <1>6, Quotient DEF SubBucketIndex, Width
  <1> HIDE DEF s
  <1>8. Stands(PlaceOf(v))
    <2>1. [bucket |-> b, sub |-> s] \in [bucket : Nat, sub : -1 .. SubBucketCount - 1]
      BY <1>2, <1>5, <1>7
    <2> QED
      BY <1>1, <1>2, <1>7, <2>1 DEF Stands, Places
  <1>9. CountsIndex(PlaceOf(v)) \in Indices
    <2>1. CountsIndex(PlaceOf(v)) = (b + 1) * H + s - H
      BY <1>1 DEF CountsIndex
    <2>2. (b + 1) * H = b * H + H /\ b * H \in Nat
      BY <1>2, <1>5
    <2>3. PICK d \in Nat : BucketCount = b + 1 + d
      <3>1. BucketCount - (b + 1) \in Nat /\ BucketCount = b + 1 + (BucketCount - (b + 1))
        BY <1>2, <1>5
      <3> QED
        BY <3>1
    <2>4. CountsLen = b * H + 2 * H + d * H /\ d * H \in Nat
      <3>1. (b + 1 + d + 1) * H = b * H + 2 * H + d * H
        BY <1>2, <1>5
      <3> QED
        BY <1>2, <2>3, <3>1 DEF CountsLen
    <2> HIDE DEF H
    <2>5. CountsIndex(PlaceOf(v)) = b * H + s
      BY <1>2, <1>5, <1>7, <2>1, <2>2
    <2>6. b * H + s \in 0 .. CountsLen - 1
      BY <1>2, <1>5, <1>7, <2>2, <2>4
    <2> QED
      BY <2>5, <2>6 DEF Indices
  <1> QED
    BY <1>1, <1>7, <1>8, <1>9

\* The last value of the k-th stop.
Upper(k) == From(k) + Width(Walk[k].bucket) - 1

\* The ranges of the stops follow one another without a gap.
LEMMA RangesFollow ==
    /\ \A k \in Indices : From(k) \in Nat /\ Upper(k) \in Nat /\ From(k) <= Upper(k)
    /\ From(0) = 0
    /\ \A k \in Indices : k + 1 \in Indices => From(k + 1) = Upper(k) + 1
  <1> DEFINE H == SubBucketHalfCount
  <1>1. H \in Nat \ {0} /\ SubBucketCount = 2 * H
    BY Dimensions
  <1>2. ASSUME NEW k \in Indices
        PROVE  /\ Walk[k].bucket \in Nat /\ Walk[k].sub \in 0 .. 2 * H - 1
               /\ From(k) = Walk[k].sub * Width(Walk[k].bucket)
               /\ Width(Walk[k].bucket) \in Nat \ {0}
               /\ Width(Walk[k].bucket + 1) = 2 * Width(Walk[k].bucket)
    <2>1. Stands(Walk[k])
      BY WalkGoesOn
    <2>2. Walk[k].bucket \in Nat /\ Walk[k].sub \in 0 .. 2 * H - 1
      BY <1>1, <2>1 DEF Stands, Places
    <2>3. From(k) = Walk[k].sub * Width(Walk[k].bucket)
      BY DEF From, ValueFromIndex, Width
    <2> QED
      BY <2>2, <2>3, WidthIsPositive
  <1>3. ASSUME NEW k \in Indices PROVE From(k) \in Nat /\ Upper(k) \in Nat /\ From(k) <= Upper(k)
    <2> DEFINE s == Walk[k].sub
               w == Width(Walk[k].bucket)
    <2>1. s \in Nat /\ w \in Nat \ {0} /\ From(k) = s * w
      BY <1>1, <1>2
    <2>2. Upper(k) = From(k) + w - 1
      BY DEF Upper
    <2> HIDE DEF s, w
    <2>3. s * w \in Nat
      BY <2>1
    <2> QED
      BY <2>1, <2>2, <2>3
  <1>4. From(0) = 0
    <2>1. 0 \in Indices /\ Walk[0].sub = 0
      BY WalkGoesOn, Sizes DEF Indices
    <2> QED
      BY <1>2, <2>1
  <1>5. ASSUME NEW k \in Indices, k + 1 \in Indices PROVE From(k + 1) = Upper(k) + 1
    <2> DEFINE b == Walk[k].bucket
               s == Walk[k].sub
               w == Width(b)
    <2>1. /\ b \in Nat /\ s \in 0 .. 2 * H - 1 /\ w \in Nat \ {0} /\ Width(b + 1) = 2 * w
          /\ From(k) = s * w
      BY <1>2
    <2>2. Upper(k) + 1 = s * w + w
      <3>1. Upper(k) = From(k) + w - 1
        BY DEF Upper
      <3> HIDE DEF s, w
      <3>2. s * w \in Nat
        BY <1>1, <2>1
      <3> QED
        BY <2>1, <3>1, <3>2
    <2>3. Walk[k + 1] = IncrementBucket(Walk[k])
      BY <1>5, WalkGoesOn
    <2>4. From(k + 1) = Walk[k + 1].sub * Width(Walk[k + 1].bucket)
      BY <1>2, <1>5
    <2>5. Walk[k] = [bucket |-> b, sub |-> s]
      BY WalkGoesOn DEF Stands, Places
    <2> HIDE DEF b, s
    <2>6. CASE s + 1 >= SubBucketCount
      <3>1. Walk[k + 1] = [bucket |-> b + 1, sub |-> H]
        BY <2>3, <2>5, <2>6 DEF IncrementBucket
      <3>2. From(k + 1) = H * (2 * w)
        BY <2>1, <2>4, <3>1
      <3>3. s = 2 * H - 1
        BY <1>1, <2>1, <2>6
      <3> HIDE DEF H, w
      <3>4. (2 * H - 1) * w + w = H * (2 * w)
        BY <1>1, <2>1
      <3> QED
        BY <2>2, <3>2, <3>3, <3>4
    <2>7. CASE ~(s + 1 >= SubBucketCount)
      <3>1. Walk[k + 1] = [bucket |-> b, sub |-> s + 1]
        BY <2>3, <2>5, <2>7 DEF IncrementBucket
      <3>2. From(k + 1) = (s + 1) * w
        BY <2>4, <3>1
      <3> HIDE DEF w
      <3>3. (s + 1) * w = s * w + w
        BY <1>1, <2>1
      <3> QED
        BY <2>2, <3>2, <3>3
    <2> QED
      BY <2>6, <2>7
  <1> QED
    BY <1>3, <1>4, <1>5

\* All values of a range have the place that the iterator stands at, and its bounds.
LEMMA RangeIsRight ==
    ASSUME NEW k \in Indices, NEW v \in From(k) .. Upper(k)
    PROVE  /\ v \in Nat /\ PlaceOf(v) = Walk[k] /\ InRange(v) /\ CountsIndex(PlaceOf(v)) = k
           /\ LowestEquivalent(v) = From(k) /\ HighestEquivalent(v) = Upper(k)
           /\ SizeOfRange(v) = Width(Walk[k].bucket)
  <1> DEFINE p == Walk[k]
             b == p.bucket
             s == p.sub
             w == Width(b)
             H == SubBucketHalfCount
  <1>1. Stands(p) /\ CountsIndex(p) = k
    BY WalkGoesOn, WalkStands
  <1>2. H \in Nat \ {0} /\ SubBucketCount = 2 * H /\ BucketCount \in Nat \ {0}
    BY Dimensions
  <1>3. b \in Nat /\ s \in 0 .. 2 * H - 1 /\ (b = 0 \/ s >= H)
    BY <1>1, <1>2 DEF Stands, Places
  <1>4. w \in Nat \ {0}
    BY <1>3, WidthIsPositive
  <1>5. From(k) = s * w
    BY DEF From, ValueFromIndex, Width
  <1>6. Upper(k) = From(k) + w - 1
    BY DEF Upper
  <1>7. v \in Nat /\ s * w <= v /\ v < (s + 1) * w
    <2> HIDE DEF s, w
    <2>1. s * w \in Nat /\ (s + 1) * w = s * w + w
      BY <1>3, <1>4
    <2>2. v \in Int /\ From(k) <= v /\ v <= Upper(k)
      BY <1>4, <1>5, <1>6, <2>1
    <2> QED
      BY <1>4, <1>5, <1>6, <2>1, <2>2
  <1>8. PlaceOf(v) = p
    <2> HIDE DEF p
    <2> QED
      BY <1>1, <1>7, PlaceIs
  <1>9. InRange(v)
    <2>1. b < BucketCount
      <3>1. CASE b = 0
        BY <1>2, <3>1
      <3>2. CASE b >= BucketCount
        <4>1. PICK d \in Nat : b = BucketCount + d
          <5>1. b - BucketCount \in Nat /\ b = BucketCount + (b - BucketCount)
            BY <1>2, <1>3, <3>2
          <5> QED
            BY <5>1
        <4>2. (BucketCount + d + 1) * H = (BucketCount + 1) * H + d * H /\ d * H \in Nat
          BY <1>2
        <4>3. CountsIndex(p) = (b + 1) * H + s - H
          BY DEF CountsIndex
        <4>4. CountsLen = (BucketCount + 1) * H /\ CountsLen \in Nat
          BY Sizes DEF CountsLen
        <4>5. s >= H
          BY <1>2, <1>3, <3>2
        <4>6. k < CountsLen
          BY Sizes DEF Indices
        <4> HIDE DEF H, p, b, s
        <4> QED
          BY <1>1, <1>2, <1>3, <4>1, <4>2, <4>3, <4>4, <4>5, <4>6
      <3> QED
        BY <1>2, <1>3, <3>1, <3>2
    <2>2. p.sub < SubBucketCount /\ (p.bucket = 0 \/ p.sub >= SubBucketHalfCount)
      BY <1>2, <1>3
    <2> QED
      BY <1>7, <1>8, <2>1, <2>2 DEF InRange, Counted
  <1>10. LowestEquivalent(v) = From(k)
    BY <1>8 DEF LowestEquivalent, From
  <1>11. SizeOfRange(v) = w
    <2>1. ~(p.sub >= SubBucketCount)
      BY <1>2, <1>3
    <2>2. SizeOfRange(v) = Power[UnitMagnitude + p.bucket]
      BY <1>8, <2>1 DEF SizeOfRange
    <2>3. UnitMagnitude + p.bucket = p.bucket + UnitMagnitude
      BY <1>3, HistogramAssumption
    <2> QED
      BY <2>2, <2>3 DEF Width
  <1>12. HighestEquivalent(v) = Upper(k)
    BY <1>6, <1>10, <1>11 DEF HighestEquivalent
  <1> QED
    BY <1>1, <1>7, <1>8, <1>9, <1>10, <1>11, <1>12

\* The values of the k-th stop end where they share their count.
LEMMA ValuesAreRanges == \A k \in Indices : Values[k] = From(k) .. Upper(k)
  <1> SUFFICES ASSUME NEW k \in Indices PROVE Values[k] = From(k) .. Upper(k)
    OBVIOUS
  <1>1. From(k) \in Nat /\ Upper(k) \in Nat /\ From(k) \in From(k) .. Upper(k)
    BY RangesFollow
  <1>2. CASE k = CountsLen - 1
    BY <1>1, <1>2, RangeIsRight DEF Values
  <1>3. CASE k # CountsLen - 1
    <2>1. k + 1 \in Indices
      BY <1>3, Sizes DEF Indices
    <2>2. From(k + 1) - 1 = Upper(k)
      BY <1>1, <2>1, RangesFollow
    <2> QED
      BY <1>3, <2>2 DEF Values
  <1> QED
    BY <1>2, <1>3

\* A value that has a count lies in the range of that count and of no other.
LEMMA CountedOnce ==
    ASSUME NEW v \in Nat, InRange(v), NEW k \in Indices
    PROVE  v \in Values[k] <=> CountsIndex(PlaceOf(v)) = k
  <1>1. v \in Values[k] => CountsIndex(PlaceOf(v)) = k
    BY ValuesAreRanges, RangeIsRight
  <1>2. ASSUME CountsIndex(PlaceOf(v)) = k PROVE v \in Values[k]
    <2> DEFINE p == PlaceOf(v)
    <2>1. Stands(p) /\ p.sub * Width(p.bucket) <= v /\ v < (p.sub + 1) * Width(p.bucket)
      BY CountedStands
    <2>2. Stands(Walk[k]) /\ CountsIndex(Walk[k]) = k
      BY WalkGoesOn, WalkStands
    <2>3. Walk[k] = p
      <3> HIDE DEF p
      <3> QED
        BY <1>2, <2>1, <2>2, PlacesAreApart DEF p
    <2> DEFINE w == Width(p.bucket)
               s == p.sub
    <2>4. w \in Nat \ {0} /\ s \in Nat
      BY <2>1, WidthIsPositive, Dimensions DEF Stands, Places
    <2>5. From(k) = s * w /\ Upper(k) = From(k) + w - 1
      BY <2>3 DEF From, ValueFromIndex, Width, Upper
    <2> HIDE DEF w, s, p
    <2>6. (s + 1) * w = s * w + w /\ s * w \in Nat
      BY <2>4
    <2>7. s * w <= v /\ v < (s + 1) * w
      BY <2>1 DEF w, s
    <2>8. v \in From(k) .. Upper(k)
      BY <2>4, <2>5, <2>6, <2>7
    <2> QED
      BY <2>8, ValuesAreRanges
  <1> QED
    BY <1>1, <1>2

\* The ranges of the stops lie in order, and hold all values up to the last.
LEMMA RangesOrdered ==
    /\ \A k \in Indices : \A j \in Indices : j < k => Upper(j) < From(k)
    /\ \A k \in Indices : \A v \in 0 .. Upper(k) :
          \E j \in Indices : j <= k /\ v \in From(j) .. Upper(j)
  <1>0. /\ \A k \in Indices : /\ k \in Nat /\ From(k) \in Nat /\ Upper(k) \in Nat
                              /\ From(k) <= Upper(k)
        /\ From(0) = 0
        /\ \A k \in Nat : k + 1 \in Indices => k \in Indices /\ From(k + 1) = Upper(k) + 1
    <2>1. \A k \in Nat : k + 1 \in Indices => k \in Indices
      BY Sizes DEF Indices
    <2> QED
      BY <2>1, Sizes, RangesFollow
  <1> DEFINE A(k) == \A j \in Indices : j < k => Upper(j) < From(k)
             B(k) == \A v \in 0 .. Upper(k) : \E j \in Indices : j <= k /\ v \in From(j) .. Upper(j)
             D == {k \in Nat : k \in Indices => A(k) /\ B(k)}
  <1>1. 0 \in D
    BY <1>0
  <1>2. ASSUME NEW k \in D PROVE k + 1 \in D
    <2>1. k \in Nat
      OBVIOUS
    <2>2. ASSUME k + 1 \in Indices PROVE A(k + 1) /\ B(k + 1)
      <3>1. k \in Indices /\ From(k + 1) = Upper(k) + 1 /\ A(k) /\ B(k)
        BY <1>0, <2>1, <2>2
      <3>2. ASSUME NEW j \in Indices, j < k + 1 PROVE Upper(j) < From(k + 1)
        <4>1. j = k \/ j < k
          BY <1>0, <2>1, <3>2
        <4>2. CASE j = k
          BY <1>0, <3>1, <4>2
        <4>3. CASE j < k
          <5>1. Upper(j) < From(k)
            BY <3>1, <4>3
          <5> QED
            BY <1>0, <2>2, <3>1, <5>1
        <4> QED
          BY <4>1, <4>2, <4>3
      <3>3. ASSUME NEW v \in 0 .. Upper(k + 1)
            PROVE  \E j \in Indices : j <= k + 1 /\ v \in From(j) .. Upper(j)
        <4>1. v \in Nat /\ v <= Upper(k + 1) /\ Upper(k) \in Nat
          BY <1>0, <2>2, <3>1
        <4>2. CASE v <= Upper(k)
          <5>1. PICK j \in Indices : j <= k /\ v \in From(j) .. Upper(j)
            BY <3>1, <4>1, <4>2
          <5>2. j <= k + 1
            BY <1>0, <2>1, <5>1
          <5> QED
            BY <5>1, <5>2
        <4>3. CASE ~(v <= Upper(k))
          <5>1. v \in From(k + 1) .. Upper(k + 1)
            BY <1>0, <2>2, <3>1, <4>1, <4>3
          <5>2. k + 1 <= k + 1
            BY <2>1
          <5> QED
            BY <2>2, <5>1, <5>2
        <4> QED
          BY <4>2, <4>3
      <3> QED
        BY <3>2, <3>3
    <2> HIDE DEF A, B
    <2> QED
      BY <2>1, <2>2
  <1>3. D = Nat
    <2> HIDE DEF D
    <2>1. D \in SUBSET Nat
      BY DEF D
    <2> QED
      BY <1>1, <1>2, <2>1, AllNumbers
  <1>4. ASSUME NEW k \in Indices PROVE A(k) /\ B(k)
    <2>1. k \in D
      BY <1>0, <1>3
    <2> HIDE DEF A, B
    <2> QED
      BY <2>1
  <1> QED
    BY <1>4

\* The last value there is a count for.
LastValue == Upper(CountsLen - 1)

\* A value has a count if and only if it is at most that.
LEMMA CountedUpTo ==
    /\ LastValue \in Nat
    /\ \A v \in Nat : InRange(v) <=> v <= LastValue
  <1>0. CountsLen - 1 \in Indices /\ \A k \in Indices : k \in Nat /\ k <= CountsLen - 1
    BY Sizes DEF Indices
  <1>1. LastValue \in Nat
    BY <1>0, RangesFollow DEF LastValue
  <1>2. ASSUME NEW v \in Nat, InRange(v) PROVE v <= LastValue
    <2>1. PICK k \in Indices : v \in From(k) .. Upper(k)
      BY <1>2, CountedStands, CountedOnce, ValuesAreRanges
    <2>2. From(k) \in Nat /\ Upper(k) \in Nat /\ v <= Upper(k)
      BY <2>1, RangesFollow
    <2>3. CASE k = CountsLen - 1
      BY <2>2, <2>3 DEF LastValue
    <2>4. CASE k # CountsLen - 1
      <3>1. Upper(k) < From(CountsLen - 1)
        BY <1>0, <2>4, RangesOrdered
      <3>2. From(CountsLen - 1) \in Nat /\ From(CountsLen - 1) <= LastValue
        BY <1>0, RangesFollow DEF LastValue
      <3> QED
        BY <1>1, <2>2, <3>1, <3>2
    <2> QED
      BY <2>3, <2>4
  <1>3. ASSUME NEW v \in Nat, v <= LastValue PROVE InRange(v)
    <2>1. v \in 0 .. Upper(CountsLen - 1)
      BY <1>1, <1>3 DEF LastValue
    <2>2. PICK j \in Indices : v \in From(j) .. Upper(j)
      BY <1>0, <2>1, RangesOrdered
    <2> QED
      BY <2>2, RangeIsRight
  <1> QED
    BY <1>1, <1>2, <1>3

-------------------------------------------------------------------------------
(* Counting responses *)

\* The latencies that are recorded, as functions.
CorrectedOf == [r \in Responses |-> r.corrected]
ActualOf    == [r \in Responses |-> r.actual]

Latencies == [Responses -> 0 .. LastValue]

\* Each of the two latencies of a response has a count.
LEMMA LatenciesAreCounted ==
    CorrectedOf \in Latencies /\ ActualOf \in Latencies /\ IsFiniteSet(Responses)
  <1>1. ASSUME NEW r \in Responses PROVE r.corrected \in 0 .. LastValue /\ r.actual \in 0 .. LastValue
    <2>1. /\ r.corrected \in Nat /\ r.actual \in Nat /\ r.actual <= r.corrected
          /\ InRange(r.corrected)
      BY MeasurementAssumption
    <2> QED
      BY <2>1, CountedUpTo
  <1>2. CorrectedOf \in Latencies /\ ActualOf \in Latencies
    BY <1>1 DEF CorrectedOf, ActualOf, Latencies
  <1>3. IsFiniteSet(Responses)
    <2> DEFINE S == (0 .. LastValue) \X (0 .. LastValue)
               f == [r \in Responses |-> <<r.corrected, r.actual>>]
    <2>1. IsFiniteSet(S)
      <3>1. IsFiniteSet(0 .. LastValue)
        BY CountedUpTo, FS_Interval
      <3> QED
        BY <3>1, FS_Product
    <2>2. f \in [Responses -> S]
      BY <1>1
    <2>3. ASSUME NEW q \in Responses, NEW r \in Responses, f[q] = f[r] PROVE q = r
      <3>1. q.corrected = r.corrected /\ q.actual = r.actual
        BY <2>3
      <3>2. q \in [corrected : Nat, actual : Nat] /\ r \in [corrected : Nat, actual : Nat]
        BY MeasurementAssumption
      <3> QED
        BY <3>1, <3>2
    <2> HIDE DEF f, S
    <2>4. f \in Injection(Responses, S)
      BY <2>2, <2>3 DEF Injection, IsInjective
    <2> QED
      BY <2>1, <2>4, FS_Injection
  <1> QED
    BY <1>2, <1>3

\* The responses of a bag with a latency in S, one by one.
Marks(bag, f, S) == {x \in Responses \X (Nat \ {0}) : x[2] <= bag[x[1]] /\ f[x[1]] \in S}

Bags == [Responses -> 0 .. MaxResponses]

\* Those are what HowMany counts.
LEMMA HowManyCounts ==
    ASSUME NEW bag \in Bags, NEW S
    PROVE  /\ HowMany(bag, Corrected, S) = Cardinality(Marks(bag, CorrectedOf, S))
           /\ HowMany(bag, Actual, S) = Cardinality(Marks(bag, ActualOf, S))
  <1> DEFINE P == Responses \X (1 .. MaxResponses)
  <1>1. MaxResponses \in Nat
    BY MeasurementAssumption
  <1>2. Marks(bag, CorrectedOf, S) = {x \in P : x[2] <= bag[x[1]] /\ x[1].corrected \in S}
    BY <1>1 DEF Marks, Bags, CorrectedOf
  <1>3. Marks(bag, ActualOf, S) = {x \in P : x[2] <= bag[x[1]] /\ x[1].actual \in S}
    BY <1>1 DEF Marks, Bags, ActualOf
  <1> QED
    BY <1>2, <1>3 DEF HowMany, Corrected, Actual

\* There are finitely many.
LEMMA MarksAreFinite ==
    ASSUME NEW bag \in Bags, NEW f, NEW S
    PROVE  IsFiniteSet(Marks(bag, f, S)) /\ Cardinality(Marks(bag, f, S)) \in Nat
  <1> DEFINE P == Responses \X (1 .. MaxResponses)
  <1>1. MaxResponses \in Nat
    BY MeasurementAssumption
  <1>2. IsFiniteSet(P)
    <2>1. IsFiniteSet(1 .. MaxResponses)
      BY <1>1, FS_Interval
    <2> QED
      BY <2>1, LatenciesAreCounted, FS_Product
  <1>3. Marks(bag, f, S) \in SUBSET P
    BY <1>1 DEF Marks, Bags
  <1> QED
    BY <1>2, <1>3, FS_Subset, FS_CardinalityType

\* The empty bag has none.
LEMMA NoMarks ==
    ASSUME NEW f, NEW S
    PROVE  Cardinality(Marks(NoResponses, f, S)) = 0
  <1>1. Marks(NoResponses, f, S) = {}
    BY DEF Marks, NoResponses
  <1> QED
    BY <1>1, FS_EmptySet

\* One response more is one mark more, if its latency is in the set.
LEMMA MarkAdded ==
    ASSUME NEW bag \in Bags, NEW r \in Responses, NEW next \in Bags,
           next[r] = bag[r] + 1, \A q \in Responses \ {r} : next[q] = bag[q],
           NEW f, NEW S
    PROVE  Cardinality(Marks(next, f, S)) =
             Cardinality(Marks(bag, f, S)) + IF f[r] \in S THEN 1 ELSE 0
  <1> DEFINE x == <<r, bag[r] + 1>>
  <1>1. bag[r] \in Nat /\ IsFiniteSet(Marks(bag, f, S)) /\ Cardinality(Marks(bag, f, S)) \in Nat
    BY MarksAreFinite DEF Bags
  <1>2. x \notin Marks(bag, f, S)
    BY <1>1 DEF Marks
  <1>3. CASE f[r] \in S
    <2>1. ASSUME NEW y \in Responses \X (Nat \ {0})
          PROVE  y[2] <= next[y[1]] <=> y[2] <= bag[y[1]] \/ y = x
      <3>1. CASE y[1] = r
        <4>1. y = <<r, y[2]>> /\ y[2] \in Nat
          BY <3>1
        <4> QED
          BY <1>1, <3>1, <4>1
      <3>2. CASE y[1] # r
        <4>1. next[y[1]] = bag[y[1]] /\ y # x
          BY <3>2
        <4> QED
          BY <4>1
      <3> QED
        BY <3>1, <3>2
    <2>2. x \in Responses \X (Nat \ {0}) /\ x[1] = r
      BY <1>1
    <2> HIDE DEF x
    <2>3. Marks(next, f, S) = Marks(bag, f, S) \cup {x}
      BY <1>3, <2>1, <2>2 DEF Marks
    <2>4. Cardinality(Marks(bag, f, S) \cup {x}) = Cardinality(Marks(bag, f, S)) + 1
      BY <1>1, <1>2, FS_AddElement
    <2> QED
      BY <1>3, <2>3, <2>4
  <1>4. CASE f[r] \notin S
    <2>1. Marks(next, f, S) = Marks(bag, f, S)
      <3>1. ASSUME NEW y \in Responses \X (Nat \ {0}), f[y[1]] \in S
            PROVE  y[2] <= next[y[1]] <=> y[2] <= bag[y[1]]
        BY <1>4, <3>1
      <3> QED
        BY <3>1 DEF Marks
    <2> QED
      BY <1>1, <1>4, <2>1
  <1> QED
    BY <1>3, <1>4

\* The marks of two bags together.
LEMMA MarksAddUp ==
    ASSUME NEW a \in [Responses -> Nat], NEW b \in [Responses -> Nat], NEW f, NEW S,
           IsFiniteSet(Marks(a, f, S)), IsFiniteSet(Marks(b, f, S))
    PROVE  LET c == [r \in Responses |-> a[r] + b[r]]
           IN  /\ IsFiniteSet(Marks(c, f, S))
               /\ Cardinality(Marks(c, f, S)) =
                    Cardinality(Marks(a, f, S)) + Cardinality(Marks(b, f, S))
  <1> DEFINE c == [r \in Responses |-> a[r] + b[r]]
             A == Marks(a, f, S)
             B == Marks(b, f, S)
             C == Marks(c, f, S)
             Rise == {x \in Responses \X (Nat \ {0}) :
                        a[x[1]] < x[2] /\ x[2] <= c[x[1]] /\ f[x[1]] \in S}
             g == [x \in B |-> <<x[1], a[x[1]] + x[2]>>]
  <1>1. ASSUME NEW r \in Responses PROVE a[r] \in Nat /\ b[r] \in Nat /\ c[r] = a[r] + b[r]
    OBVIOUS
  <1> HIDE DEF c
  <1>2. C = A \cup Rise
    <2>1. ASSUME NEW x \in Responses \X (Nat \ {0})
          PROVE  x[2] <= c[x[1]] <=> x[2] <= a[x[1]] \/ (a[x[1]] < x[2] /\ x[2] <= c[x[1]])
      BY <1>1
    <2> QED
      BY <2>1 DEF Marks
  <1>3. A \cap Rise = {}
    <2>1. ASSUME NEW x \in Responses \X (Nat \ {0}) PROVE ~(x[2] <= a[x[1]] /\ a[x[1]] < x[2])
      BY <1>1
    <2> QED
      BY <2>1 DEF Marks
  <1>4. g \in Bijection(B, Rise)
    <2>1. ASSUME NEW x \in B PROVE g[x] \in Rise /\ g[x] = <<x[1], a[x[1]] + x[2]>>
      <3>1. /\ x \in Responses \X (Nat \ {0}) /\ x[1] \in Responses /\ x[2] \in Nat \ {0}
            /\ x[2] <= b[x[1]] /\ f[x[1]] \in S
        BY DEF Marks
      <3>2. g[x] = <<x[1], a[x[1]] + x[2]>>
        OBVIOUS
      <3> HIDE DEF g
      <3> QED
        BY <1>1, <3>1, <3>2
    <2>2. ASSUME NEW x \in B, NEW y \in B, g[x] = g[y] PROVE x = y
      <3>1. /\ x = <<x[1], x[2]>> /\ y = <<y[1], y[2]>> /\ x[1] \in Responses /\ x[2] \in Nat
            /\ y[2] \in Nat
        BY DEF Marks
      <3>2. x[1] = y[1] /\ a[x[1]] + x[2] = a[y[1]] + y[2]
        BY <2>1, <2>2
      <3>3. a[x[1]] \in Nat
        BY <3>1
      <3>4. x[2] = y[2]
        BY <3>1, <3>2, <3>3
      <3> QED
        BY <3>1, <3>2, <3>4, Zenon
    <2>3. ASSUME NEW y \in Rise PROVE \E x \in B : g[x] = y
      <3> DEFINE x == <<y[1], y[2] - a[y[1]]>>
      <3>1. /\ y \in Responses \X (Nat \ {0}) /\ y = <<y[1], y[2]>> /\ y[1] \in Responses
            /\ y[2] \in Nat /\ a[y[1]] < y[2] /\ y[2] <= c[y[1]] /\ f[y[1]] \in S
        OBVIOUS
      <3>2. y[2] - a[y[1]] \in Nat \ {0} /\ y[2] - a[y[1]] <= b[y[1]]
        BY <1>1, <3>1
      <3>3. x \in B
        BY <3>1, <3>2 DEF Marks
      <3>4. a[y[1]] + (y[2] - a[y[1]]) = y[2]
        BY <1>1, <3>1
      <3>5. g[x] = <<y[1], a[y[1]] + (y[2] - a[y[1]])>>
        BY <2>1, <3>3
      <3> QED
        BY <3>1, <3>3, <3>4, <3>5
    <2>4. g \in [B -> Rise]
      BY <2>1
    <2> HIDE DEF g, B, Rise
    <2> QED
      BY <2>2, <2>3, <2>4 DEF Bijection, Injection, Surjection, IsInjective
  <1>5. IsFiniteSet(Rise) /\ Cardinality(Rise) = Cardinality(B)
    <2>1. ExistsBijection(B, Rise)
      <3> HIDE DEF g, B, Rise
      <3> QED
        BY <1>4 DEF ExistsBijection
    <2> HIDE DEF Rise
    <2> QED
      BY <2>1, FS_Bijection
  <1>6. IsFiniteSet(C) /\ Cardinality(C) = Cardinality(A) + Cardinality(B)
    <2> HIDE DEF A, B, C, Rise
    <2>1. IsFiniteSet(A \cup Rise) /\ Cardinality(A \cup Rise) =
             Cardinality(A) + Cardinality(Rise) - Cardinality({})
      BY <1>3, <1>5, FS_Union DEF A
    <2>2. Cardinality({}) = 0 /\ Cardinality(A) \in Nat /\ Cardinality(Rise) \in Nat
      BY <1>5, FS_EmptySet, FS_CardinalityType DEF A
    <2> QED
      BY <1>2, <1>5, <2>1, <2>2
  <1> QED
    BY <1>6 DEF c

\* The marks in two sets of latencies that have none in common.
LEMMA MarksOfBoth ==
    ASSUME NEW bag \in Bags, NEW f, NEW S, NEW T, S \cap T = {}
    PROVE  Cardinality(Marks(bag, f, S \cup T)) =
             Cardinality(Marks(bag, f, S)) + Cardinality(Marks(bag, f, T))
  <1> DEFINE A == Marks(bag, f, S)
             B == Marks(bag, f, T)
  <1>1. IsFiniteSet(A) /\ IsFiniteSet(B) /\ Cardinality(A) \in Nat /\ Cardinality(B) \in Nat
    BY MarksAreFinite
  <1>2. A \cap B = {} /\ Marks(bag, f, S \cup T) = A \cup B
    BY DEF Marks
  <1> HIDE DEF A, B
  <1>3. Cardinality(A \cup B) = Cardinality(A) + Cardinality(B) - Cardinality({})
    BY <1>1, <1>2, FS_Union
  <1>4. Cardinality(A \cup B) = Cardinality(A) + Cardinality(B)
    <2>1. Cardinality({}) = 0
      BY FS_EmptySet
    <2> QED
      BY <1>1, <1>3, <2>1
  <1> QED
    BY <1>2, <1>4 DEF A, B

-------------------------------------------------------------------------------
(* What a histogram holds *)

\* h counts the responses of bag, each under its latency.
CountsOf(h, bag, f) ==
    /\ h \in Histograms
    /\ \A k \in Indices : h.counts[k] = Cardinality(Marks(bag, f, Values[k]))

Holds(h, bag, f) ==
    /\ CountsOf(h, bag, f)
    /\ h.total_count = Cardinality(Marks(bag, f, Nat))

\* That is what RecordedOnce says of it.
LEMMA HoldsAgrees ==
    ASSUME NEW h, NEW bag \in Bags
    PROVE  /\ Holds(h, bag, CorrectedOf) => Agrees(h, bag, Corrected)
           /\ Holds(h, bag, ActualOf) => Agrees(h, bag, Actual)
  <1>1. \A k \in Indices : CountAt(h, k) = h.counts[k]
    BY WalkIsInOrder DEF CountAt
  <1>2. ASSUME Holds(h, bag, CorrectedOf) PROVE Agrees(h, bag, Corrected)
    BY <1>1, <1>2, HowManyCounts DEF Holds, CountsOf, Agrees
  <1>3. ASSUME Holds(h, bag, ActualOf) PROVE Agrees(h, bag, Actual)
    BY <1>1, <1>3, HowManyCounts DEF Holds, CountsOf, Agrees
  <1> QED
    BY <1>2, <1>3

\* An empty histogram holds nothing.
LEMMA EmptyHolds == ASSUME NEW f PROVE Holds(Empty, NoResponses, f)
  BY NoMarks, Sizes DEF Holds, CountsOf, Empty

\* hdr_record_value of a latency counts the response.
LEMMA RecordHolds ==
    ASSUME NEW bag \in Bags, NEW f \in Latencies, NEW h, Holds(h, bag, f),
           NEW r \in Responses, NEW next \in Bags,
           next[r] = bag[r] + 1, \A q \in Responses \ {r} : next[q] = bag[q]
    PROVE  Holds(Record(h, f[r], 1), next, f)
  <1> DEFINE v == f[r]
             i == CountsIndex(PlaceOf(v))
             g == Record(h, v, 1)
  <1>1. v \in Nat /\ InRange(v)
    BY CountedUpTo DEF Latencies
  <1>2. i \in Indices /\ \A k \in Indices : v \in Values[k] <=> i = k
    BY <1>1, CountedStands, CountedOnce
  <1>3. h \in Histograms /\ h.counts \in [Indices -> Nat] /\ h.total_count \in Nat
    BY DEF Holds, CountsOf, Histograms
  <1>4. g = [counts |-> [h.counts EXCEPT ![i] = @ + 1], total_count |-> h.total_count + 1]
    BY <1>2 DEF Record
  <1>5. g \in Histograms
    BY <1>3, RecordIsRight
  <1> HIDE DEF g, i
  <1>6. ASSUME NEW k \in Indices PROVE g.counts[k] = Cardinality(Marks(next, f, Values[k]))
    <2>1. g.counts[k] = h.counts[k] + IF i = k THEN 1 ELSE 0
      BY <1>2, <1>3, <1>4
    <2>2. h.counts[k] = Cardinality(Marks(bag, f, Values[k]))
      BY DEF Holds, CountsOf
    <2>3. Cardinality(Marks(next, f, Values[k])) =
             Cardinality(Marks(bag, f, Values[k])) + IF v \in Values[k] THEN 1 ELSE 0
      BY MarkAdded
    <2> QED
      BY <1>2, <2>1, <2>2, <2>3
  <1>7. g.total_count = Cardinality(Marks(next, f, Nat))
    <2>1. Cardinality(Marks(next, f, Nat)) =
             Cardinality(Marks(bag, f, Nat)) + IF v \in Nat THEN 1 ELSE 0
      BY MarkAdded
    <2> QED
      BY <1>1, <1>4, <2>1 DEF Holds, CountsOf
  <1> QED
    BY <1>5, <1>6, <1>7 DEF Holds, CountsOf, g

\* The iterator has counted, at each stop, the responses up to the end of its range.
LEMMA RunsCount ==
    ASSUME NEW bag \in Bags, NEW f, NEW h, CountsOf(h, bag, f)
    PROVE  \A k \in Indices : CountsTo(h)[k] = Cardinality(Marks(bag, f, 0 .. Upper(k)))
  <1> DEFINE to == CountsTo(h)
             N(S) == Cardinality(Marks(bag, f, S))
             D == {k \in Nat : k \in Indices => to[k] = N(0 .. Upper(k))}
  <1>1. /\ to \in [Indices -> Nat]
        /\ \A k \in Indices : to[k] = h.counts[k] + IF k = 0 THEN 0 ELSE to[k - 1]
        /\ \A k \in Indices : h.counts[k] = N(From(k) .. Upper(k))
    <2>1. Runs(to, h.counts)
      BY CountsToRuns DEF CountsOf
    <2>2. \A k \in Indices : h.counts[k] = N(From(k) .. Upper(k))
      BY ValuesAreRanges DEF CountsOf
    <2> QED
      BY <2>1, <2>2 DEF Runs
  <1>2. \A S : N(S) \in Nat
    BY MarksAreFinite
  <1>3. 0 \in Indices /\ From(0) = 0
    BY Sizes, RangesFollow DEF Indices
  <1> HIDE DEF to
  <1>4. 0 \in D
    BY <1>1, <1>2, <1>3
  <1>5. ASSUME NEW k \in D PROVE k + 1 \in D
    <2>1. k \in Nat
      OBVIOUS
    <2>2. ASSUME k + 1 \in Indices PROVE to[k + 1] = N(0 .. Upper(k + 1))
      <3>1. k \in Indices /\ k + 1 # 0 /\ (k + 1) - 1 = k
        BY <2>1, <2>2, Sizes DEF Indices
      <3>2. /\ From(k + 1) = Upper(k) + 1 /\ Upper(k) \in Nat /\ Upper(k + 1) \in Nat
            /\ From(k + 1) <= Upper(k + 1)
        BY <2>2, <3>1, RangesFollow
      <3> DEFINE S == 0 .. Upper(k)
                 T == From(k + 1) .. Upper(k + 1)
      <3>3. 0 .. Upper(k + 1) = S \cup T
        BY <3>2
      <3>4. S \cap T = {}
        BY <3>2
      <3> HIDE DEF S, T
      <3>5. N(0 .. Upper(k + 1)) = N(S) + N(T)
        <4>1. N(S \cup T) = N(S) + N(T)
          BY <3>4, MarksOfBoth
        <4> HIDE DEF N
        <4> QED
          BY <3>3, <4>1
      <3>6. to[k] = N(S)
        BY <1>5, <3>1 DEF S
      <3>7. to[k + 1] = N(T) + to[k]
        BY <1>1, <2>2, <3>1 DEF T
      <3>8. N(S) \in Nat /\ N(T) \in Nat
        BY <1>2
      <3> HIDE DEF N
      <3> QED
        BY <3>5, <3>6, <3>7, <3>8
    <2> HIDE DEF N
    <2> QED
      BY <2>1, <2>2
  <1>6. D = Nat
    <2> HIDE DEF D
    <2>1. D \in SUBSET Nat
      BY DEF D
    <2> QED
      BY <1>4, <1>5, <2>1, AllNumbers
  <1>7. \A k \in Indices : to[k] = N(0 .. Upper(k))
    <2> HIDE DEF N
    <2> QED
      BY <1>6, Sizes
  <1> QED
    BY <1>7 DEF to

\* In the end it has counted the total; a histogram of that kind holds the responses
\* when it counts them.
LEMMA HoldsFits ==
    ASSUME NEW bag \in Bags, NEW f \in Latencies, NEW h, CountsOf(h, bag, f)
    PROVE  Holds(h, bag, f) <=> TotalFits(h)
  <1>1. CountsLen - 1 \in Indices
    BY Sizes DEF Indices
  <1>2. CountsTo(h)[CountsLen - 1] = Cardinality(Marks(bag, f, 0 .. LastValue))
    BY <1>1, RunsCount DEF LastValue
  <1>3. Marks(bag, f, 0 .. LastValue) = Marks(bag, f, Nat)
    BY CountedUpTo DEF Marks, Latencies
  <1> QED
    BY <1>2, <1>3 DEF Holds, TotalFits

-------------------------------------------------------------------------------
(* Adding up histograms *)

\* hdr_record_values changes one count, and the total by as much.
LEMMA RecordAt ==
    ASSUME NEW h \in Histograms, NEW k \in Indices, NEW n \in Nat
    PROVE  LET g == Record(h, From(k), n)
           IN  /\ g \in Histograms
               /\ \A i \in Indices : g.counts[i] = h.counts[i] + IF i = k THEN n ELSE 0
               /\ g.total_count = h.total_count + n
               /\ TotalFits(h) => TotalFits(g)
  <1> DEFINE g == Record(h, From(k), n)
             c == h.counts
             d == g.counts
  <1>1. From(k) \in From(k) .. Upper(k)
    BY RangesFollow
  <1>2. CountsIndex(PlaceOf(From(k))) = k
    BY <1>1, RangeIsRight
  <1>3. g = [counts |-> [h.counts EXCEPT ![k] = @ + n], total_count |-> h.total_count + n]
    BY <1>2 DEF Record
  <1>4. g \in Histograms
    BY RecordIsRight
  <1>5. c \in [Indices -> Nat] /\ d \in [Indices -> Nat] /\ h.total_count \in Nat
    BY <1>4 DEF Histograms
  <1> HIDE DEF g
  <1>6. \A i \in Indices : d[i] = c[i] + IF i = k THEN n ELSE 0
    BY <1>3, <1>5
  <1>7. ASSUME TotalFits(h) PROVE TotalFits(g)
    <2>1. Runs(CountsTo(h), c) /\ Runs(CountsTo(g), d)
      BY <1>4, CountsToRuns
    <2>2. d[k] = c[k] + n /\ \A i \in Indices \ {k} : d[i] = c[i]
      BY <1>5, <1>6
    <2> HIDE DEF c, d
    <2>3. CountsTo(g)[CountsLen - 1] = CountsTo(h)[CountsLen - 1] + n
      BY <1>5, <2>1, <2>2, TotalGrows
    <2> QED
      BY <1>3, <1>7, <2>3 DEF TotalFits
  <1> QED
    BY <1>3, <1>4, <1>6, <1>7 DEF g

\* The iterator finds every count that is not 0.
LEMMA AllAreFound ==
    ASSUME NEW h \in Histograms, TotalFits(h)
    PROVE  Recorded(h) = {k \in Indices : h.counts[k] # 0}
  <1> DEFINE to == CountsTo(h)
             last == CountsLen - 1
             D == {m \in Nat : m \in Indices => \A k \in Indices : k <= m => to[k] <= to[m]}
  <1>1. /\ to \in [Indices -> Nat] /\ h.counts \in [Indices -> Nat]
        /\ \A k \in Indices : to[k] = h.counts[k] + IF k = 0 THEN 0 ELSE to[k - 1]
    BY CountsToRuns DEF Runs, Histograms
  <1>2. /\ last \in Indices
        /\ \A k \in Indices : k \in Nat /\ k <= last /\ (k # 0 => k - 1 \in Indices)
    BY Sizes DEF Indices
  <1>3. to[last] = h.total_count
    BY DEF TotalFits
  <1>4. \A k \in Indices : CountAt(h, k) = h.counts[k]
    BY WalkIsInOrder DEF CountAt
  <1> HIDE DEF to, last
  <1>5. D = Nat
    <2>1. 0 \in D
      BY <1>1, <1>2
    <2>2. ASSUME NEW m \in D PROVE m + 1 \in D
      <3>1. m \in Nat
        OBVIOUS
      <3>2. ASSUME m + 1 \in Indices, NEW k \in Indices, k <= m + 1 PROVE to[k] <= to[m + 1]
        <4>1. m \in Indices /\ m + 1 # 0 /\ (m + 1) - 1 = m
          BY <3>1, <3>2, Sizes DEF Indices
        <4>2. to[m + 1] = h.counts[m + 1] + to[m] /\ to[m] \in Nat /\ h.counts[m + 1] \in Nat
          BY <1>1, <3>2, <4>1
        <4>3. k = m + 1 \/ k <= m
          BY <1>2, <3>1, <3>2
        <4>4. k <= m => to[k] <= to[m] /\ to[k] \in Nat
          BY <1>1, <2>2, <4>1
        <4> QED
          BY <4>2, <4>3, <4>4
      <3> QED
        BY <3>1, <3>2
    <2> HIDE DEF D
    <2>3. D \in SUBSET Nat
      BY DEF D
    <2> QED
      BY <2>1, <2>2, <2>3, AllNumbers
  <1>6. \A k \in Indices : to[k] <= to[last]
    BY <1>2, <1>5
  <1>7. ASSUME NEW k \in Indices, h.counts[k] # 0
        PROVE  (IF k = 0 THEN 0 ELSE to[k - 1]) < h.total_count
    <2> DEFINE before_k == IF k = 0 THEN 0 ELSE to[k - 1]
    <2>1. before_k \in Nat /\ to[k] = h.counts[k] + before_k /\ to[k] \in Nat /\ h.counts[k] \in Nat
      BY <1>1, <1>2
    <2>2. to[k] <= h.total_count /\ to[last] \in Nat
      BY <1>1, <1>2, <1>3, <1>6
    <2> HIDE DEF before_k
    <2>3. before_k < h.total_count
      BY <1>3, <1>7, <2>1, <2>2
    <2> QED
      BY <2>3 DEF before_k
  <1>8. Visited(h) = {k \in Indices : (IF k = 0 THEN 0 ELSE to[k - 1]) < h.total_count}
    BY DEF Visited, to
  <1> QED
    BY <1>4, <1>7, <1>8 DEF Recorded

\* hdr_add adds the counts one by one.
LEMMA AddIsRight ==
    ASSUME NEW h \in Histograms, TotalFits(h), NEW from \in Histograms, TotalFits(from)
    PROVE  /\ Add(h, from) \in Histograms /\ TotalFits(Add(h, from))
           /\ \A k \in Indices : Add(h, from).counts[k] = h.counts[k] + from.counts[k]
  <1> DEFINE R == {k \in Indices : from.counts[k] # 0}
             step == [x \in R \X Histograms |-> Record(x[2], From(x[1]), from.counts[x[1]])]
             Law(g) == g = [s \in SUBSET R |->
                              IF s = {} THEN h
                              ELSE Record(g[Rest(s)], From(First(s)), CountAt(from, First(s)))]
             g == CHOOSE g : Law(g)
  <1>1. IsFiniteSet(R) /\ R \subseteq Indices
    <2>1. IsFiniteSet(Indices)
      BY Sizes, FS_Interval DEF Indices
    <2> QED
      BY <2>1, FS_Subset
  <1>2. from.counts \in [Indices -> Nat] /\ \A k \in Indices : CountAt(from, k) = from.counts[k]
    BY WalkIsInOrder DEF CountAt, Histograms
  <1>3. \A x \in R, y \in Histograms : Record(y, From(x), from.counts[x]) \in Histograms
    BY <1>1, <1>2, RecordAt
  <1>4. step \in [R \X Histograms -> Histograms]
    BY <1>3
  <1>5. \A x \in R, y \in Histograms : step[<<x, y>>] = Record(y, From(x), from.counts[x])
    OBVIOUS
  <1>6. Add(h, from) = g[R]
    <2>1. Recorded(from) = R
      BY AllAreFound
    <2>2. g = CHOOSE f : f = [s \in SUBSET R |-> IF s = {} THEN h
                 ELSE Record(f[s \ {CHOOSE x \in s : TRUE}], ValueFromIndex(Walk[CHOOSE x \in s : TRUE]),
                             CountAt(from, CHOOSE x \in s : TRUE))]
      BY Zenon DEF First, Rest, From
    <2> HIDE DEF R, g
    <2> QED
      BY <2>1, <2>2, Zenon DEF Add, FoldSet, MapThenFoldSet
  <1> HIDE DEF R, step
  <1>7. Law(g)
    <2>1. PICK f \in [SUBSET R -> Histograms] : Folds(f, h, step, R)
      BY <1>1, <1>4, FoldsExist
    <2>2. ASSUME NEW s \in SUBSET R
          PROVE  f[s] = IF s = {} THEN h
                        ELSE Record(f[Rest(s)], From(First(s)), CountAt(from, First(s)))
      <3>1. f[s] = IF s = {} THEN h ELSE step[<<First(s), f[Rest(s)]>>]
        BY <2>1 DEF Folds
      <3>2. ASSUME s # {}
            PROVE  step[<<First(s), f[Rest(s)]>>] =
                     Record(f[Rest(s)], From(First(s)), CountAt(from, First(s)))
        <4>1. First(s) \in R /\ f[Rest(s)] \in Histograms
          BY <3>2 DEF First, Rest
        <4>2. CountAt(from, First(s)) = from.counts[First(s)]
          BY <1>1, <1>2, <4>1
        <4> QED
          BY <1>5, <4>1, <4>2
      <3> QED
        BY <3>1, <3>2
    <2>3. Law(f)
      <3>1. f = [s \in SUBSET R |-> f[s]]
        OBVIOUS
      <3> QED
        BY <2>2, <3>1
    <2> HIDE DEF Law
    <2> QED
      BY <2>3
  <1> HIDE DEF g
  <1> DEFINE P == {s \in SUBSET R :
                     /\ g[s] \in Histograms /\ TotalFits(g[s])
                     /\ \A k \in Indices :
                          g[s].counts[k] = h.counts[k] + IF k \in s THEN from.counts[k] ELSE 0}
  <1>8. P = SUBSET R
    <2>1. {} \in P
      <3>1. g[{}] = h
        BY <1>7
      <3>2. \A k \in Indices : h.counts[k] \in Nat
        BY DEF Histograms
      <3> QED
        BY <3>1, <3>2
    <2>2. ASSUME NEW s \in SUBSET R, s # {}, Rest(s) \in P PROVE s \in P
      <3> DEFINE x == First(s)
                 y == g[Rest(s)]
      <3>1. x \in s /\ x \in Indices /\ x \notin Rest(s) /\ \A k : k \in s <=> k \in Rest(s) \/ k = x
        BY <1>1, <2>2 DEF First, Rest
      <3>2. /\ y \in Histograms /\ TotalFits(y)
            /\ \A k \in Indices :
                 y.counts[k] = h.counts[k] + IF k \in Rest(s) THEN from.counts[k] ELSE 0
        BY <2>2
      <3>3. g[s] = Record(y, From(x), from.counts[x])
        BY <1>2, <1>7, <2>2, <3>1
      <3> HIDE DEF x, y
      <3> DEFINE n == from.counts[x]
      <3>4. n \in Nat
        BY <1>2, <3>1
      <3> HIDE DEF n
      <3>5. /\ g[s] \in Histograms /\ TotalFits(g[s])
            /\ \A k \in Indices : g[s].counts[k] = y.counts[k] + IF k = x THEN n ELSE 0
        <4>1. /\ Record(y, From(x), n) \in Histograms
              /\ \A i \in Indices : Record(y, From(x), n).counts[i] = y.counts[i] + IF i = x THEN n ELSE 0
              /\ TotalFits(Record(y, From(x), n))
          BY <3>1, <3>2, <3>4, RecordAt
        <4>2. g[s] = Record(y, From(x), n)
          BY <3>3 DEF n
        <4> QED
          BY <4>1, <4>2
      <3>6. ASSUME NEW k \in Indices
            PROVE  g[s].counts[k] = h.counts[k] + IF k \in s THEN from.counts[k] ELSE 0
        <4>1. h.counts[k] \in Nat /\ from.counts[k] \in Nat
          BY DEF Histograms
        <4>2. /\ y.counts[k] = h.counts[k] + IF k \in Rest(s) THEN from.counts[k] ELSE 0
              /\ g[s].counts[k] = y.counts[k] + IF k = x THEN from.counts[x] ELSE 0
          BY <3>2, <3>5 DEF n
        <4>3. CASE k = x
          BY <3>1, <4>1, <4>2, <4>3
        <4>4. CASE k # x
          BY <3>1, <4>1, <4>2, <4>4
        <4> QED
          BY <4>3, <4>4
      <3> QED
        BY <3>5, <3>6
    <2> HIDE DEF P
    <2>3. P \in SUBSET SUBSET R
      BY DEF P
    <2> QED
      BY <1>1, <2>1, <2>2, <2>3, AllSubsets
  <1>9. /\ g[R] \in Histograms /\ TotalFits(g[R])
        /\ \A k \in Indices : g[R].counts[k] = h.counts[k] + IF k \in R THEN from.counts[k] ELSE 0
    BY <1>8
  <1>10. ASSUME NEW k \in Indices PROVE g[R].counts[k] = h.counts[k] + from.counts[k]
    <2>1. h.counts[k] \in Nat /\ from.counts[k] \in Nat /\ (k \notin R => from.counts[k] = 0)
      BY DEF Histograms, R
    <2> QED
      BY <1>9, <2>1
  <1> QED
    BY <1>6, <1>9, <1>10

\* main's sums: histograms the iterator gets through, whose counts are those of all threads.
LEMMA MergedIsRight ==
    ASSUME NEW h \in [Threads -> Histograms], \A t \in Threads : TotalFits(h[t])
    PROVE  /\ Merged(h) \in Histograms /\ TotalFits(Merged(h))
           /\ \A k \in Indices : Merged(h).counts[k] = SumFunction([t \in Threads |-> h[t].counts[k]])
  <1> DEFINE V == {x \in Histograms : TotalFits(x)}
             step == [x \in Threads \X V |-> Add(x[2], h[x[1]])]
             Law(g) == g = [s \in SUBSET Threads |->
                              IF s = {} THEN Empty ELSE Add(g[Rest(s)], h[First(s)])]
             g == CHOOSE g : Law(g)
  <1>1. IsFiniteSet(Threads) /\ Empty \in V
    BY Sizes, EmptyFits
  <1>2. \A x \in Threads, y \in V : Add(y, h[x]) \in V
    BY AddIsRight
  <1>3. \A y \in V : y \in Histograms /\ TotalFits(y)
    OBVIOUS
  <1> HIDE DEF V
  <1>4. step \in [Threads \X V -> V] /\ \A x \in Threads, y \in V : step[<<x, y>>] = Add(y, h[x])
    BY <1>2
  <1>5. Merged(h) = g[Threads]
    <2>1. g = CHOOSE f : f = [s \in SUBSET Threads |-> IF s = {} THEN Empty
                 ELSE Add(f[s \ {CHOOSE x \in s : TRUE}], h[CHOOSE x \in s : TRUE])]
      BY Zenon DEF First, Rest
    <2> HIDE DEF g
    <2> QED
      BY <2>1, Zenon DEF Merged, FoldSet, MapThenFoldSet
  <1> HIDE DEF step
  <1>6. PICK f \in [SUBSET Threads -> V] : Law(f)
    <2>1. PICK f \in [SUBSET Threads -> V] : Folds(f, Empty, step, Threads)
      BY <1>1, <1>4, FoldsExist
    <2>2. ASSUME NEW s \in SUBSET Threads
          PROVE  f[s] = IF s = {} THEN Empty ELSE Add(f[Rest(s)], h[First(s)])
      <3>1. f[s] = IF s = {} THEN Empty ELSE step[<<First(s), f[Rest(s)]>>]
        BY <2>1 DEF Folds
      <3>2. s # {} => First(s) \in Threads /\ f[Rest(s)] \in V
        BY DEF First, Rest
      <3> QED
        BY <1>4, <3>1, <3>2
    <2>3. f = [s \in SUBSET Threads |-> f[s]]
      OBVIOUS
    <2> QED
      BY <2>2, <2>3
  <1>7. Law(g)
    <2> HIDE DEF Law
    <2> QED
      BY <1>6
  <1> HIDE DEF g
  <1> DEFINE InV == {s \in SUBSET Threads : g[s] \in V}
  <1>8. \A s \in SUBSET Threads : s # {} => First(s) \in Threads /\ Rest(s) \in SUBSET Threads
    BY DEF First, Rest
  <1>9. InV = SUBSET Threads
    <2>1. {} \in InV
      BY <1>1, <1>7
    <2>2. ASSUME NEW s \in SUBSET Threads, s # {}, Rest(s) \in InV PROVE s \in InV
      <3>1. g[s] = Add(g[Rest(s)], h[First(s)])
        BY <1>7, <2>2
      <3> QED
        BY <1>2, <1>8, <2>2, <3>1
    <2> HIDE DEF InV
    <2>3. InV \in SUBSET SUBSET Threads
      BY DEF InV
    <2> QED
      BY <1>1, <2>1, <2>2, <2>3, AllSubsets
  <1>10. \A s \in SUBSET Threads : g[s] \in Histograms /\ TotalFits(g[s])
    BY <1>3, <1>9
  <1>11. ASSUME NEW k \in Indices
         PROVE  g[Threads].counts[k] = SumFunction([t \in Threads |-> h[t].counts[k]])
    <2> DEFINE c == [t \in Threads |-> h[t].counts[k]]
    <2>1. c \in [Threads -> Nat] /\ \A t \in Threads : c[t] = h[t].counts[k]
      BY DEF Histograms
    <2> HIDE DEF c
    <2>2. PICK a : Adds(a, c, Threads) /\ SumFunction(c) = a[Threads]
      BY <1>1, <2>1, SumUnfolds
    <2> DEFINE Q == {s \in SUBSET Threads : g[s].counts[k] = a[s]}
    <2>3. {} \in Q
      <3>1. g[{}] = Empty /\ a[{}] = 0
        BY <1>7, <2>2 DEF Adds
      <3> QED
        BY <3>1 DEF Empty
    <2>4. ASSUME NEW s \in SUBSET Threads, s # {}, Rest(s) \in Q PROVE s \in Q
      <3>1. g[s] = Add(g[Rest(s)], h[First(s)]) /\ a[s] = c[First(s)] + a[Rest(s)]
        BY <1>7, <2>2, <2>4 DEF Adds
      <3>2. First(s) \in Threads /\ Rest(s) \in SUBSET Threads /\ g[Rest(s)].counts[k] = a[Rest(s)]
        BY <1>8, <2>4
      <3> DEFINE y == g[Rest(s)]
                 z == h[First(s)]
      <3>3. y \in Histograms /\ TotalFits(y) /\ z \in Histograms /\ TotalFits(z)
        BY <1>10, <3>2
      <3>4. Add(y, z).counts[k] = y.counts[k] + z.counts[k]
        BY <3>3, AddIsRight
      <3>5. y.counts[k] \in Nat /\ z.counts[k] \in Nat /\ z.counts[k] = c[First(s)]
        BY <2>1, <3>2, <3>3 DEF Histograms
      <3>6. g[s].counts[k] = a[s]
        BY <3>1, <3>2, <3>4, <3>5
      <3> QED
        BY <3>6
    <2>5. Q = SUBSET Threads
      <3> HIDE DEF Q
      <3>1. Q \in SUBSET SUBSET Threads
        BY DEF Q
      <3> QED
        BY <1>1, <2>3, <2>4, <3>1, AllSubsets
    <2>6. g[Threads].counts[k] = a[Threads]
      BY <2>5
    <2> QED
      BY <2>2, <2>6 DEF c
  <1> QED
    BY <1>5, <1>10, <1>11

\* The responses of all threads together.
LEMMA MarksOfAll ==
    ASSUME NEW rec \in [Threads -> Bags], NEW f, NEW S,
           NEW all, all = [r \in Responses |-> SumFunction([t \in Threads |-> rec[t][r]])]
    PROVE  /\ all \in [Responses -> Nat]
           /\ Cardinality(Marks(all, f, S)) =
                SumFunction([t \in Threads |-> Cardinality(Marks(rec[t], f, S))])
  <1> DEFINE col(r) == [t \in Threads |-> rec[t][r]]
             num == [t \in Threads |-> Cardinality(Marks(rec[t], f, S))]
             sums == [r \in Responses |->
                        CHOOSE g : Adds(g, col(r), Threads) /\ SumFunction(col(r)) = g[Threads]]
             part(s) == [r \in Responses |-> sums[r][s]]
             M(b) == Marks(b, f, S)
  <1>1. IsFiniteSet(Threads)
    BY Sizes
  <1>2. \A t \in Threads : /\ rec[t] \in Bags /\ rec[t] \in [Responses -> Nat]
                           /\ IsFiniteSet(M(rec[t])) /\ Cardinality(M(rec[t])) \in Nat
    <2>1. \A t \in Threads : rec[t] \in Bags
      OBVIOUS
    <2>2. \A b \in Bags : b \in [Responses -> Nat]
      BY MeasurementAssumption DEF Bags
    <2> QED
      BY <2>1, <2>2, MarksAreFinite
  <1>3. ASSUME NEW r \in Responses
        PROVE  Adds(sums[r], col(r), Threads) /\ SumFunction(col(r)) = sums[r][Threads]
    <2>1. col(r) \in [Threads -> Nat]
      BY <1>2
    <2> DEFINE Is(g) == Adds(g, col(r), Threads) /\ SumFunction(col(r)) = g[Threads]
    <2>2. \E g : Is(g)
      <3> HIDE DEF col
      <3> QED
        BY <1>1, <2>1, SumUnfolds
    <2>3. sums[r] = CHOOSE g : Is(g)
      OBVIOUS
    <2> HIDE DEF sums, Is
    <2>4. Is(sums[r])
      BY <2>2, <2>3
    <2> QED
      BY <2>4 DEF Is
  <1> HIDE DEF sums
  <1>4. ASSUME NEW r \in Responses
        PROVE  /\ sums[r][{}] = 0
               /\ \A s \in SUBSET Threads :
                    s # {} => sums[r][s] = rec[First(s)][r] + sums[r][Rest(s)]
    <2>1. sums[r] = [s \in SUBSET Threads |->
                       IF s = {} THEN 0 ELSE col(r)[First(s)] + sums[r][Rest(s)]]
      BY <1>3 DEF Adds
    <2>2. \A s \in SUBSET Threads : s # {} => col(r)[First(s)] = rec[First(s)][r]
      BY DEF First
    <2> HIDE DEF col
    <2> QED
      BY <2>1, <2>2
  <1>5. num \in [Threads -> Nat] /\ \A t \in Threads : num[t] = Cardinality(M(rec[t]))
    BY <1>2
  <1> HIDE DEF num
  <1>6. PICK n : Adds(n, num, Threads) /\ SumFunction(num) = n[Threads]
    BY <1>1, <1>5, SumUnfolds
  <1> DEFINE Q == {s \in SUBSET Threads : /\ part(s) \in [Responses -> Nat]
                                          /\ IsFiniteSet(M(part(s)))
                                          /\ Cardinality(M(part(s))) = n[s]}
  <1>7. {} \in Q
    <2>1. part({}) = NoResponses
      BY <1>4 DEF NoResponses
    <2>2. M(NoResponses) = {} /\ NoResponses \in [Responses -> Nat]
      BY DEF Marks, NoResponses
    <2>3. n[{}] = 0
      BY <1>6 DEF Adds
    <2> QED
      BY <2>1, <2>2, <2>3, FS_EmptySet
  <1>8. ASSUME NEW s \in SUBSET Threads, s # {}, Rest(s) \in Q PROVE s \in Q
    <2> DEFINE a == rec[First(s)]
               b == part(Rest(s))
               c == [r \in Responses |-> a[r] + b[r]]
    <2>1. First(s) \in Threads /\ Rest(s) \in SUBSET Threads
      BY <1>8 DEF First, Rest
    <2>2. /\ b \in [Responses -> Nat] /\ IsFiniteSet(M(b)) /\ Cardinality(M(b)) = n[Rest(s)]
      BY <1>8
    <2>3. a \in [Responses -> Nat] /\ IsFiniteSet(M(a)) /\ num[First(s)] = Cardinality(M(a))
      BY <1>2, <1>5, <2>1
    <2>4. part(s) = c
      <3>1. \A r \in Responses : sums[r][s] = a[r] + sums[r][Rest(s)]
        BY <1>4, <1>8
      <3>2. \A r \in Responses : b[r] = sums[r][Rest(s)]
        OBVIOUS
      <3> HIDE DEF a, b
      <3> QED
        BY <3>1, <3>2
    <2>5. n[s] = num[First(s)] + n[Rest(s)]
      BY <1>6, <1>8 DEF Adds
    <2> HIDE DEF a, b
    <2>6. IsFiniteSet(M(c)) /\ Cardinality(M(c)) = Cardinality(M(a)) + Cardinality(M(b))
      BY <2>2, <2>3, MarksAddUp
    <2>7. c \in [Responses -> Nat]
      BY <2>2, <2>3
    <2> HIDE DEF c, part, M
    <2> QED
      BY <2>2, <2>3, <2>4, <2>5, <2>6, <2>7
  <1>9. Q = SUBSET Threads
    <2> HIDE DEF Q
    <2>1. Q \in SUBSET SUBSET Threads
      BY DEF Q
    <2> QED
      BY <1>1, <1>7, <1>8, <2>1, AllSubsets
  <1>10. /\ part(Threads) \in [Responses -> Nat]
         /\ Cardinality(M(part(Threads))) = n[Threads]
    <2>1. Threads \in Q
      BY <1>9
    <2> HIDE DEF part, M
    <2> QED
      BY <2>1
  <1>11. all = part(Threads)
    <2>1. all = [r \in Responses |-> SumFunction(col(r))]
      OBVIOUS
    <2> HIDE DEF col
    <2> QED
      BY <1>3, <2>1
  <1>12. num = [t \in Threads |-> Cardinality(Marks(rec[t], f, S))]
    BY DEF num
  <1> HIDE DEF part
  <1> QED
    BY <1>6, <1>10, <1>11, <1>12

\* main's sums hold what the histograms of all threads hold.
LEMMA MergedHolds ==
    ASSUME NEW rec \in [Threads -> Bags], NEW f \in Latencies,
           NEW all \in Bags, all = [r \in Responses |-> SumFunction([t \in Threads |-> rec[t][r]])],
           NEW h \in [Threads -> Histograms], \A t \in Threads : Holds(h[t], rec[t], f)
    PROVE  Holds(Merged(h), all, f)
  <1>1. \A t \in Threads : rec[t] \in Bags /\ CountsOf(h[t], rec[t], f) /\ TotalFits(h[t])
    BY HoldsFits DEF Holds
  <1>2. /\ Merged(h) \in Histograms /\ TotalFits(Merged(h))
        /\ \A k \in Indices : Merged(h).counts[k] = SumFunction([t \in Threads |-> h[t].counts[k]])
    BY <1>1, MergedIsRight
  <1>3. ASSUME NEW k \in Indices
        PROVE  Merged(h).counts[k] = Cardinality(Marks(all, f, Values[k]))
    <2>1. [t \in Threads |-> h[t].counts[k]]
             = [t \in Threads |-> Cardinality(Marks(rec[t], f, Values[k]))]
      BY <1>1 DEF CountsOf
    <2>2. Cardinality(Marks(all, f, Values[k]))
             = SumFunction([t \in Threads |-> Cardinality(Marks(rec[t], f, Values[k]))])
      BY MarksOfAll
    <2> QED
      BY <1>2, <2>1, <2>2
  <1>4. CountsOf(Merged(h), all, f)
    BY <1>2, <1>3 DEF CountsOf
  <1> QED
    BY <1>2, <1>4, HoldsFits

-------------------------------------------------------------------------------
(* What was recorded *)

\* No more is in the bags than was recorded.
Within ==
    \A r \in Responses :
      /\ Reported[r] <= responses
      /\ \A t \in Threads : recorded[t][r] <= responses

\* The invariant: the histograms of a thread that is not resetting them hold what it
\* recorded since the last reset, and main's sums what all recorded.
OwnRecords(t) ==
    /\ where[t] \in {"created", "resetting"} => recorded[t] = NoResponses
    /\ where[t] \in {"looping", "ended"} =>
         Holds(latency[t], recorded[t], CorrectedOf) /\ Holds(u_latency[t], recorded[t], ActualOf)

RecordInv ==
    /\ Within
    /\ \A t \in Threads : OwnRecords(t)
    /\ report # NoHistogram =>
         /\ \A t \in Threads : where[t] = "ended"
         /\ Holds(report, Reported, CorrectedOf) /\ Holds(u_report, Reported, ActualOf)

\* So the bags are bounded.
LEMMA BagsAreBounded ==
    ASSUME MeasureInv, Within
    PROVE  recorded \in [Threads -> Bags] /\ Reported \in Bags /\ NoResponses \in Bags
  <1>1. /\ recorded \in [Threads -> [Responses -> Nat]] /\ responses \in Nat
        /\ responses <= MaxResponses /\ MaxResponses \in Nat /\ IsFiniteSet(Threads)
    BY MeasurementAssumption, Sizes DEF MeasureInv, TypeOK
  <1>2. ASSUME NEW r \in Responses PROVE Reported[r] \in 0 .. MaxResponses
    <2>1. [t \in Threads |-> recorded[t][r]] \in [Threads -> Nat]
      BY <1>1
    <2>2. SumFunction([t \in Threads |-> recorded[t][r]]) \in Nat
      BY <1>1, <2>1, SumIsMonotone
    <2>3. Reported[r] \in Nat
      BY <2>2 DEF Reported
    <2> QED
      BY <1>1, <2>3 DEF Within
  <1>3. Reported \in Bags
    BY <1>2 DEF Bags, Reported
  <1>4. recorded \in [Threads -> Bags]
    BY <1>1 DEF Bags, Within
  <1>5. NoResponses \in Bags
    BY <1>1 DEF Bags, NoResponses
  <1> QED
    BY <1>3, <1>4, <1>5

LEMMA WithinInit == Init => Within
  <1> SUFFICES ASSUME Init, NEW r \in Responses
               PROVE  /\ Reported[r] <= responses
                      /\ \A t \in Threads : recorded[t][r] <= responses
    BY DEF Within
  <1>1. \A t \in Threads : recorded[t][r] = 0
    BY DEF Init, NoResponses
  <1>2. [t \in Threads |-> recorded[t][r]] = [t \in Threads |-> 0]
    BY <1>1
  <1>3. Reported[r] = 0
    BY <1>2, Sizes, SumOfNothing DEF Reported
  <1> QED
    BY <1>1, <1>3 DEF Init

\* How often all threads have recorded r.
InAll(rec, r) == SumFunction([t \in Threads |-> rec[t][r]])

\* The sum follows when the number of one thread changes.
LEMMA SumFollows ==
    ASSUME NEW f \in [Threads -> Nat], NEW g \in [Threads -> Nat]
    PROVE  /\ SumFunction(f) \in Nat /\ SumFunction(g) \in Nat
           /\ (\A t \in Threads : g[t] <= f[t]) => SumFunction(g) <= SumFunction(f)
           /\ \A t \in Threads, n \in Nat :
                g[t] = f[t] + n /\ (\A u \in Threads \ {t} : g[u] = f[u])
                  => SumFunction(g) = SumFunction(f) + n
  <1>1. IsFiniteSet(Threads)
    BY Sizes
  <1>2. SumFunction(f) \in Nat /\ SumFunction(g) \in Nat
    <2>1. \A t \in Threads : f[t] <= f[t] /\ g[t] <= g[t]
      OBVIOUS
    <2> QED
      BY <1>1, <2>1, SumIsMonotone
  <1>3. ASSUME \A t \in Threads : g[t] <= f[t] PROVE SumFunction(g) <= SumFunction(f)
    BY <1>1, <1>3, SumIsMonotone
  <1>4. ASSUME NEW t \in Threads, NEW n \in Nat,
               g[t] = f[t] + n, \A u \in Threads \ {t} : g[u] = f[u]
        PROVE  SumFunction(g) = SumFunction(f) + n
    BY <1>1, <1>4, SumGrows
  <1> QED
    BY <1>2, <1>3, <1>4

\* And so does the bag of all threads.
LEMMA InAllFollows ==
    ASSUME NEW a \in [Threads -> [Responses -> Nat]], NEW b \in [Threads -> [Responses -> Nat]],
           NEW r \in Responses
    PROVE  /\ InAll(a, r) \in Nat /\ InAll(b, r) \in Nat
           /\ (\A t \in Threads : b[t][r] <= a[t][r]) => InAll(b, r) <= InAll(a, r)
           /\ \A t \in Threads, n \in Nat :
                b[t][r] = a[t][r] + n /\ (\A u \in Threads \ {t} : b[u][r] = a[u][r])
                  => InAll(b, r) = InAll(a, r) + n
  <1> DEFINE f == [t \in Threads |-> a[t][r]]
             g == [t \in Threads |-> b[t][r]]
  <1>1. /\ f \in [Threads -> Nat] /\ g \in [Threads -> Nat]
        /\ \A t \in Threads : f[t] = a[t][r] /\ g[t] = b[t][r]
    OBVIOUS
  <1>2. InAll(a, r) = SumFunction(f) /\ InAll(b, r) = SumFunction(g)
    BY DEF InAll
  <1> HIDE DEF f, g
  <1>3. /\ SumFunction(f) \in Nat /\ SumFunction(g) \in Nat
        /\ (\A t \in Threads : g[t] <= f[t]) => SumFunction(g) <= SumFunction(f)
        /\ \A t \in Threads, n \in Nat :
             g[t] = f[t] + n /\ (\A u \in Threads \ {t} : g[u] = f[u])
               => SumFunction(g) = SumFunction(f) + n
    BY <1>1, SumFollows
  <1> QED
    BY <1>1, <1>2, <1>3

LEMMA WithinNext == MeasureInv /\ MeasureInv' /\ Within /\ [Next]_vars => Within'
  <1> SUFFICES ASSUME MeasureInv, MeasureInv', Within, [Next]_vars PROVE Within'
    OBVIOUS
  <1>1. /\ recorded \in [Threads -> [Responses -> Nat]] /\ responses \in Nat
        /\ recorded' \in [Threads -> [Responses -> Nat]] /\ responses' \in Nat
        /\ IsFiniteSet(Threads)
    BY MeasurementAssumption, Sizes DEF MeasureInv, TypeOK
  <1>2. \A r \in Responses : Reported[r] = InAll(recorded, r) /\ Reported'[r] = InAll(recorded', r)
    BY DEF Reported, InAll
  <1>3. ASSUME UNCHANGED <<recorded, responses>> PROVE Within'
    BY <1>3 DEF Within, Reported
  <1>4. ASSUME NEW t \in Threads, NEW timer, BeginReset(t, timer) PROVE Within'
    <2> SUFFICES ASSUME NEW r \in Responses
                 PROVE  /\ Reported'[r] <= responses'
                        /\ \A u \in Threads : recorded'[u][r] <= responses'
      BY DEF Within
    <2>1. responses' = responses /\ recorded' = [recorded EXCEPT ![t] = NoResponses]
      BY <1>4 DEF BeginReset
    <2>2. \A u \in Threads : recorded'[u][r] <= recorded[u][r] /\ recorded[u][r] \in Nat
      BY <1>1, <2>1 DEF NoResponses
    <2>3. /\ InAll(recorded, r) \in Nat /\ InAll(recorded', r) \in Nat
          /\ InAll(recorded', r) <= InAll(recorded, r)
      BY <1>1, <2>2, InAllFollows
    <2> QED
      BY <1>1, <1>2, <2>1, <2>2, <2>3 DEF Within
  <1>5. ASSUME NEW t \in Threads, NEW q \in Responses, Respond(t, q) PROVE Within'
    <2> SUFFICES ASSUME NEW r \in Responses
                 PROVE  /\ Reported'[r] <= responses'
                        /\ \A u \in Threads : recorded'[u][r] <= responses'
      BY DEF Within
    <2> DEFINE n == IF r = q THEN 1 ELSE 0
    <2>1. responses' = responses + 1 /\ recorded' = [recorded EXCEPT ![t][q] = @ + 1]
      BY <1>5 DEF Respond
    <2>2. /\ n \in Nat /\ n <= 1
          /\ recorded'[t][r] = recorded[t][r] + n
          /\ \A u \in Threads \ {t} : recorded'[u][r] = recorded[u][r]
      <3>1. \A u \in Threads : recorded[u] \in [Responses -> Nat]
        BY <1>1
      <3>2. recorded'[t] = [recorded[t] EXCEPT ![q] = @ + 1]
        BY <1>1, <2>1
      <3>3. recorded'[t][r] = IF r = q THEN recorded[t][r] + 1 ELSE recorded[t][r]
        BY <3>1, <3>2
      <3>4. \A u \in Threads \ {t} : recorded'[u] = recorded[u]
        BY <1>1, <2>1
      <3> QED
        BY <3>1, <3>3, <3>4
    <2> HIDE DEF n
    <2>3. InAll(recorded, r) \in Nat /\ InAll(recorded', r) = InAll(recorded, r) + n
      BY <1>1, <2>2, InAllFollows, ZenonT(60)
    <2>4. \A u \in Threads : recorded[u][r] <= responses /\ recorded[u][r] \in Nat
      BY <1>1 DEF Within
    <2> QED
      BY <1>1, <1>2, <2>1, <2>2, <2>3, <2>4 DEF Within
  <1> QED
    BY <1>3, <1>4, <1>5
       DEF Next, vars, StartThread, Calibrate, EndWarmup, ClearCount, EndReset, EndThread,
           BeginScrape, ScrapeThread, EndScrape, Report

\* A step of thread t that has not ended.
LEMMA ThreadKeepsRecords ==
    ASSUME RecordInv, Within', NEW t \in Threads, where[t] # "ended",
           UNCHANGED <<report, u_report>>, OwnRecords(t)',
           \A x \in Threads \ {t} :
             /\ where'[x] = where[x] /\ recorded'[x] = recorded[x]
             /\ latency'[x] = latency[x] /\ u_latency'[x] = u_latency[x]
    PROVE  RecordInv'
  <1>1. ASSUME NEW x \in Threads, x # t PROVE OwnRecords(x)'
    <2>1. OwnRecords(x)
      BY DEF RecordInv
    <2> QED
      BY <1>1, <2>1 DEF OwnRecords
  <1>2. report' = NoHistogram
    BY DEF RecordInv
  <1> QED
    BY <1>1, <1>2 DEF RecordInv

LEMMA RecordInit == Init => RecordInv
  <1> SUFFICES ASSUME Init PROVE RecordInv
    OBVIOUS
  <1>1. \A t \in Threads : where[t] = "created" /\ recorded[t] = NoResponses
    BY DEF Init
  <1>2. report = NoHistogram
    BY DEF Init
  <1> QED
    BY <1>1, <1>2, WithinInit DEF RecordInv, OwnRecords

\* hdr_record_value in both histograms.
LEMMA RespondKeepsRecords ==
    ASSUME MeasureInv, RecordInv, Within', MeasureInv', NEW t \in Threads, NEW r \in Responses,
           Respond(t, r)
    PROVE  RecordInv'
  <1>1. /\ where \in [Threads -> States] /\ where[t] = "looping"
        /\ recorded \in [Threads -> Bags] /\ recorded' \in [Threads -> Bags]
    <2>1. recorded \in [Threads -> Bags]
      BY BagsAreBounded DEF RecordInv
    <2>2. recorded' \in [Threads -> [Responses -> Nat]] /\ responses' \in 0 .. MaxResponses
      BY DEF MeasureInv, TypeOK
    <2>3. \A u \in Threads, q \in Responses : recorded'[u][q] \in 0 .. MaxResponses
      BY <2>2, MeasurementAssumption DEF Within
    <2>4. recorded' \in [Threads -> Bags]
      BY <2>2, <2>3 DEF Bags
    <2> QED
      BY <2>1, <2>4 DEF MeasureInv, TypeOK, States, Respond
  <1> DEFINE b == recorded[t]
             c == recorded'[t]
             l == Record(latency[t], CorrectedOf[r], 1)
             u == Record(u_latency[t], ActualOf[r], 1)
  <1>2. b \in Bags /\ c \in Bags /\ c = [b EXCEPT ![r] = @ + 1] /\ recorded' = [recorded EXCEPT ![t] = c]
    BY <1>1 DEF Respond
  <1>3. c[r] = b[r] + 1 /\ \A q \in Responses \ {r} : c[q] = b[q]
    <2> HIDE DEF b, c
    <2> QED
      BY <1>2 DEF Bags
  <1>4. Holds(latency[t], b, CorrectedOf) /\ Holds(u_latency[t], b, ActualOf)
    BY <1>1 DEF RecordInv, OwnRecords
  <1>5. Holds(l, c, CorrectedOf) /\ Holds(u, c, ActualOf)
    <2> HIDE DEF b, c
    <2> QED
      BY <1>2, <1>3, <1>4, LatenciesAreCounted, RecordHolds
  <1>6. CorrectedOf[r] = r.corrected /\ ActualOf[r] = r.actual
    BY DEF CorrectedOf, ActualOf
  <1>7. /\ where' = where /\ recorded' = [recorded EXCEPT ![t][r] = @ + 1]
        /\ latency' = [latency EXCEPT ![t] = l] /\ u_latency' = [u_latency EXCEPT ![t] = u]
        /\ UNCHANGED <<report, u_report>>
    BY <1>6 DEF Respond, ResponseComplete
  <1> HIDE DEF l, u
  <1>8. latency'[t] = l /\ u_latency'[t] = u
    BY <1>7 DEF MeasureInv
  <1>9. OwnRecords(t)'
    BY <1>1, <1>5, <1>7, <1>8 DEF OwnRecords
  <1>10. \A x \in Threads \ {t} :
           /\ where'[x] = where[x] /\ recorded'[x] = recorded[x]
           /\ latency'[x] = latency[x] /\ u_latency'[x] = u_latency[x]
    BY <1>1, <1>7 DEF MeasureInv
  <1> QED
    BY <1>1, <1>7, <1>9, <1>10, ThreadKeepsRecords

\* main adds up when all threads have ended.
LEMMA ReportKeepsRecords ==
    ASSUME MeasureInv, RecordInv, Report
    PROVE  RecordInv'
  <1>1. /\ \A t \in Threads : where[t] = "ended"
        /\ UNCHANGED <<where, latency, u_latency, recorded, responses>>
        /\ report' = Merged(latency) /\ u_report' = Merged(u_latency)
    BY DEF Report
  <1>2. latency \in [Threads -> Histograms] /\ u_latency \in [Threads -> Histograms]
    <2>1. \A t \in Threads : latency[t] \in Histograms /\ u_latency[t] \in Histograms
      BY <1>1 DEF MeasureInv, TypeOK
    <2>2. /\ latency \in [Threads -> Histograms \cup {NoHistogram}]
          /\ u_latency \in [Threads -> Histograms \cup {NoHistogram}]
      BY DEF MeasureInv
    <2> QED
      BY <2>1, <2>2
  <1>3. recorded \in [Threads -> Bags] /\ Reported \in Bags
    BY BagsAreBounded DEF RecordInv
  <1>4. \A t \in Threads : /\ Holds(latency[t], recorded[t], CorrectedOf)
                           /\ Holds(u_latency[t], recorded[t], ActualOf)
    BY <1>1 DEF RecordInv, OwnRecords
  <1>5. Reported = [r \in Responses |-> SumFunction([t \in Threads |-> recorded[t][r]])]
    BY DEF Reported
  <1>6. Holds(Merged(latency), Reported, CorrectedOf)
    BY <1>2, <1>3, <1>4, <1>5, LatenciesAreCounted, MergedHolds
  <1>7. Holds(Merged(u_latency), Reported, ActualOf)
    BY <1>2, <1>3, <1>4, <1>5, LatenciesAreCounted, MergedHolds
  <1>8. Reported' = Reported /\ (Within' <=> Within)
    BY <1>1 DEF Reported, Within
  <1>9. /\ Holds(report', Reported', CorrectedOf) /\ Holds(u_report', Reported', ActualOf)
    BY <1>1, <1>6, <1>7, <1>8
  <1> QED
    BY <1>1, <1>8, <1>9 DEF RecordInv, OwnRecords

LEMMA RecordNext ==
    MeasureInv /\ MeasureInv' /\ RecordInv /\ [Next]_vars => RecordInv'
  <1> SUFFICES ASSUME MeasureInv, MeasureInv', RecordInv, [Next]_vars PROVE RecordInv'
    OBVIOUS
  <1>1. Within'
    BY WithinNext DEF RecordInv
  <1>2. /\ where \in [Threads -> States] /\ recorded \in [Threads -> [Responses -> Nat]]
        /\ latency \in [Threads -> Histograms \cup {NoHistogram}]
        /\ u_latency \in [Threads -> Histograms \cup {NoHistogram}]
    BY DEF MeasureInv, TypeOK, States
  <1>3. Holds(Empty, NoResponses, CorrectedOf) /\ Holds(Empty, NoResponses, ActualOf)
    BY EmptyHolds
  <1>4. \A t \in Threads : OwnRecords(t)
    BY DEF RecordInv
  <1>5. ASSUME NEW t \in Threads, StartThread(t) PROVE RecordInv'
    <2>1. OwnRecords(t)'
      BY <1>2, <1>3, <1>4, <1>5 DEF StartThread, OwnRecords
    <2> QED
      BY <1>1, <1>2, <1>5, <2>1, ThreadKeepsRecords DEF StartThread
  <1>6. ASSUME NEW t \in Threads, NEW r \in Responses, Respond(t, r) PROVE RecordInv'
    BY <1>1, <1>6, RespondKeepsRecords
  <1>7. ASSUME NEW t \in Threads, NEW timer, where[t] = "looping", BeginReset(t, timer)
        PROVE  RecordInv'
    <2>1. OwnRecords(t)'
      BY <1>2, <1>7 DEF BeginReset, OwnRecords
    <2>2. \A x \in Threads \ {t} :
            /\ where'[x] = where[x] /\ recorded'[x] = recorded[x]
            /\ latency'[x] = latency[x] /\ u_latency'[x] = u_latency[x]
      BY <1>2, <1>7 DEF BeginReset
    <2> QED
      BY <1>1, <1>7, <2>1, <2>2, ThreadKeepsRecords DEF BeginReset
  <1>8. ASSUME NEW t \in Threads, NEW i \in Indices, ClearCount(t, i) PROVE RecordInv'
    <2>1. OwnRecords(t)'
      BY <1>2, <1>4, <1>8 DEF ClearCount, OwnRecords
    <2> QED
      BY <1>1, <1>2, <1>8, <2>1, ThreadKeepsRecords DEF ClearCount
  <1>9. ASSUME NEW t \in Threads, EndReset(t) PROVE RecordInv'
    <2>1. OwnRecords(t)'
      BY <1>2, <1>3, <1>4, <1>9 DEF EndReset, OwnRecords
    <2> QED
      BY <1>1, <1>2, <1>9, <2>1, ThreadKeepsRecords DEF EndReset
  <1>10. ASSUME NEW t \in Threads, EndThread(t) PROVE RecordInv'
    <2>1. OwnRecords(t)'
      BY <1>2, <1>4, <1>10 DEF EndThread, OwnRecords
    <2> QED
      BY <1>1, <1>2, <1>10, <2>1, ThreadKeepsRecords DEF EndThread
  <1>11. ASSUME UNCHANGED <<where, latency, u_latency, recorded, responses, report, u_report>>
         PROVE  RecordInv'
    <2>1. Reported' = Reported
      BY <1>11 DEF Reported
    <2> QED
      BY <1>1, <1>11, <2>1 DEF RecordInv, OwnRecords
  <1> QED
    BY <1>5, <1>6, <1>7, <1>8, <1>9, <1>10, <1>11, ReportKeepsRecords
       DEF Next, vars, Calibrate, EndWarmup, BeginScrape, ScrapeThread, EndScrape

LEMMA RecordIsSound == MeasureInv /\ RecordInv => RecordedOnce
  <1> SUFFICES ASSUME MeasureInv, RecordInv PROVE RecordedOnce
    OBVIOUS
  <1>1. recorded \in [Threads -> Bags] /\ Reported \in Bags
    BY BagsAreBounded DEF RecordInv
  <1>2. ASSUME NEW t \in Threads, where[t] \in {"looping", "ended"}
        PROVE  /\ Agrees(latency[t], recorded[t], Corrected)
               /\ Agrees(u_latency[t], recorded[t], Actual)
    <2>1. recorded[t] \in Bags
      BY <1>1
    <2>2. Holds(latency[t], recorded[t], CorrectedOf) /\ Holds(u_latency[t], recorded[t], ActualOf)
      BY <1>2 DEF RecordInv, OwnRecords
    <2> QED
      BY <2>1, <2>2, HoldsAgrees
  <1>3. ASSUME report # NoHistogram
        PROVE  /\ Agrees(report, Reported, Corrected)
               /\ Agrees(u_report, Reported, Actual)
    <2>1. Holds(report, Reported, CorrectedOf) /\ Holds(u_report, Reported, ActualOf)
      BY <1>3 DEF RecordInv
    <2> QED
      BY <1>1, <2>1, HoldsAgrees
  <1> QED
    BY <1>2, <1>3 DEF RecordedOnce

\* Each response is counted once, in the range its latency is in, in the histograms of
\* its thread and in main's sums, whatever the sizes of the histogram, the resets and the
\* scrapes (hdr_record_value, hdr_reset and hdr_add, as hdr_iter_next finds the counts).
THEOREM EachIsCountedOnce == Spec => []RecordedOnce
  <1> QED
    BY MeasureInit, MeasureNext, RecordInit, RecordNext, RecordIsSound, PTL DEF Spec

-------------------------------------------------------------------------------
(* What the report says *)

\* The counts up to a value that ends a range, and below one that begins a range.
LEMMA UpToRange ==
    ASSUME NEW bag \in Bags, NEW f, NEW h, CountsOf(h, bag, f), NEW k \in Indices
    PROVE  LET to == CountsTo(h)
           IN  /\ Cardinality(Marks(bag, f, 0 .. Upper(k))) = to[k]
               /\ Cardinality(Marks(bag, f, Below(From(k)))) = IF k = 0 THEN 0 ELSE to[k - 1]
  <1> DEFINE to == CountsTo(h)
  <1>1. \A i \in Indices : to[i] = Cardinality(Marks(bag, f, 0 .. Upper(i)))
    BY RunsCount
  <1> HIDE DEF to
  <1>2. CASE k = 0
    <2>1. From(0) = 0
      BY RangesFollow
    <2>2. Below(From(k)) = {}
      BY <1>2, <2>1 DEF Below
    <2>3. Marks(bag, f, {}) = {}
      BY DEF Marks
    <2> QED
      BY <1>1, <1>2, <2>2, <2>3, FS_EmptySet DEF to
  <1>3. CASE k # 0
    <2>1. k - 1 \in Indices /\ (k - 1) + 1 = k
      BY <1>3, Sizes DEF Indices
    <2>2. From(k) = Upper(k - 1) + 1 /\ Upper(k - 1) \in Nat
      BY <2>1, RangesFollow
    <2>3. Below(From(k)) = 0 .. Upper(k - 1)
      BY <2>2 DEF Below
    <2> QED
      BY <1>1, <1>3, <2>1, <2>3 DEF to
  <1> QED
    BY <1>2, <1>3

\* A rank is reached at a stop that no earlier one reaches.
LEMMA RankIsReached ==
    ASSUME NEW h \in Histograms, TotalFits(h), NEW rank \in 1 .. h.total_count
    PROVE  \E k \in Indices :
             /\ ValueAtRank(h, rank) = Upper(k)
             /\ rank <= CountsTo(h)[k]
             /\ (IF k = 0 THEN 0 ELSE CountsTo(h)[k - 1]) < rank
  <1> DEFINE to == CountsTo(h)
             upTo(k) == IF k = 0 THEN 0 ELSE to[k - 1]
             S == {k \in Indices : to[k] >= rank}
             reached == {k \in Visited(h) : to[k] >= rank}
             last == CountsLen - 1
             m == Min(S)
  <1>1. to \in [Indices -> Nat] /\ h.total_count \in Nat /\ to[last] = h.total_count
    BY CountsToRuns DEF Runs, TotalFits, Histograms
  <1>2. last \in Indices /\ Indices \subseteq Nat /\ \A k \in Indices : k # 0 => k - 1 \in Indices
    BY Sizes DEF Indices
  <1>3. Visited(h) = {k \in Indices : upTo(k) < h.total_count}
    BY DEF Visited
  <1> HIDE DEF to, last
  <1>4. m \in S /\ \A x \in S : m <= x
    <2>1. last \in S
      BY <1>1, <1>2
    <2>2. S \in SUBSET Nat
      BY <1>2
    <2> HIDE DEF S
    <2> QED
      BY <2>1, <2>2, LeastOf
  <1>5. m \in Indices /\ to[m] >= rank
    <2> HIDE DEF m
    <2> QED
      BY <1>4
  <1>6. upTo(m) < rank
    <2> HIDE DEF m
    <2>1. CASE m = 0
      BY <2>1
    <2>2. CASE m # 0
      <3>1. m - 1 \in Indices /\ m \in Nat
        BY <1>2, <1>5, <2>2
      <3>2. m - 1 \notin S
        BY <1>4, <3>1
      <3> QED
        BY <1>1, <2>2, <3>1, <3>2
    <2> QED
      BY <2>1, <2>2
  <1>7. m \in reached /\ reached \subseteq S
    <2> HIDE DEF m
    <2>1. upTo(m) \in Nat
      BY <1>1, <1>2, <1>5
    <2> HIDE DEF upTo
    <2>2. upTo(m) < h.total_count
      BY <1>1, <1>6, <2>1
    <2> QED
      BY <1>3, <1>5, <2>2
  <1>8. Min(reached) = m
    <2> HIDE DEF reached, S, m
    <2>1. reached \in SUBSET Nat /\ reached # {}
      BY <1>2, <1>7 DEF S
    <2>2. Min(reached) \in reached /\ \A x \in reached : Min(reached) <= x
      BY <2>1, LeastOf
    <2>3. m <= Min(reached) /\ Min(reached) <= m /\ m \in Nat /\ Min(reached) \in Nat
      BY <1>4, <1>7, <2>1, <2>2
    <2> QED
      BY <2>3
  <1>9. ValueAtRank(h, rank) = Upper(m)
    <2>1. ValueAtRank(h, rank) = IF reached = {} THEN 0
                                 ELSE HighestEquivalent(ValueFromIndex(Walk[Min(reached)]))
      BY DEF ValueAtRank, to
    <2> HIDE DEF reached, m
    <2>2. ValueAtRank(h, rank) = HighestEquivalent(From(m))
      BY <1>7, <1>8, <2>1 DEF From
    <2>3. From(m) \in From(m) .. Upper(m)
      BY <1>5, RangesFollow
    <2> QED
      BY <1>5, <2>2, <2>3, RangeIsRight
  <1> HIDE DEF m
  <1> QED
    BY <1>5, <1>6, <1>9 DEF to

\* A range is one unit, or as narrow as the precision asks.
LEMMA RangesAreNarrow ==
    ASSUME NEW k \in Indices
    PROVE  \/ Upper(k) - From(k) < Power[UnitMagnitude]
           \/ (Upper(k) - From(k)) * SubBucketHalfCount <= From(k)
  <1> DEFINE s == Walk[k].sub
             b == Walk[k].bucket
             w == Width(b)
             H == SubBucketHalfCount
  <1>1. Stands(Walk[k])
    BY WalkGoesOn
  <1>2. b \in Nat /\ s \in Nat /\ H \in Nat \ {0} /\ (b = 0 \/ s >= H)
    BY <1>1, Dimensions DEF Stands, Places
  <1>3. w \in Nat \ {0}
    BY <1>2, WidthIsPositive
  <1>4. From(k) = s * w /\ Upper(k) = From(k) + w - 1
    BY DEF From, ValueFromIndex, Width, Upper
  <1>5. b = 0 => w = Power[UnitMagnitude]
    BY HistogramAssumption DEF Width
  <1> HIDE DEF s, b, w, H
  <1>6. s * w \in Nat /\ Upper(k) - From(k) = w - 1
    BY <1>2, <1>3, <1>4
  <1>7. CASE b = 0
    BY <1>3, <1>5, <1>6, <1>7
  <1>8. CASE s >= H
    <2>1. PICK d \in Nat : s = H + d
      <3>1. s - H \in Nat /\ s = H + (s - H)
        BY <1>2, <1>8
      <3> QED
        BY <3>1
    <2>2. s * w = H * w + d * w /\ H * w \in Nat /\ d * w \in Nat
      BY <1>2, <1>3, <2>1
    <2>3. (w - 1) * H = H * w - H
      BY <1>2, <1>3
    <2> QED
      BY <1>2, <1>4, <1>6, <2>2, <2>3 DEF H
  <1> QED
    BY <1>2, <1>7, <1>8

\* The rank of a percentile.
LEMMA RankIsRight ==
    ASSUME NEW h, NEW n \in Nat \ {0}, h.total_count = n, NEW p \in 0 .. 100
    PROVE  LET rank == CountAtPercentile(h, p)
           IN  /\ rank \in 1 .. n
               /\ 200 * rank >= 2 * p * n - 100
               /\ rank = 1 \/ 200 * rank <= 2 * p * n + 100
  <1> DEFINE m == p * n
             q == (2 * m + 100) \div 200
             S == {1, q}
             rank == CountAtPercentile(h, p)
  <1>1. m \in Nat /\ m <= 100 * n /\ 2 * p * n = 2 * m
    <2>1. PICK d \in Nat : p + d = 100
      <3>1. 100 - p \in Nat /\ p + (100 - p) = 100
        OBVIOUS
      <3> QED
        BY <3>1
    <2>2. (p + d) * n = p * n + d * n /\ p * n \in Nat /\ d * n \in Nat
      BY <2>1
    <2>3. 2 * p * n = 2 * (p * n)
      OBVIOUS
    <2> QED
      BY <2>1, <2>2, <2>3
  <1>2. rank = Max(S)
    BY <1>1 DEF CountAtPercentile
  <1> HIDE DEF m
  <1>3. q \in Nat /\ 200 * q <= 2 * m + 100 /\ 2 * m + 100 < 200 * q + 200 /\ q <= n
    BY <1>1
  <1> HIDE DEF q, rank
  <1>4. Max(S) \in S /\ \A x \in S : x <= Max(S)
    <2>1. S \in SUBSET Nat /\ S # {} /\ \A x \in S : x <= q + 1
      BY <1>3
    <2>2. q + 1 \in Nat
      BY <1>3
    <2> HIDE DEF S
    <2> QED
      BY <2>1, <2>2, GreatestOf
  <1>5. (rank = 1 \/ rank = q) /\ 1 <= rank /\ q <= rank
    BY <1>2, <1>4
  <1>6. /\ rank \in 1 .. n /\ 200 * rank >= 2 * m - 100
        /\ rank = 1 \/ 200 * rank <= 2 * m + 100
    BY <1>1, <1>3, <1>5
  <1> QED
    BY <1>1, <1>6 DEF rank

LEMMA PercentilesAreSound == MeasureInv /\ RecordInv => PercentilesRight
  <1> SUFFICES ASSUME MeasureInv, RecordInv, report.total_count > 0, NEW p \in Percentiles
               PROVE  LET n    == report.total_count
                          v    == ValueAtPercentile(report, p)
                          low  == LowestEquivalent(v)
                          upTo == HowMany(Reported, Corrected, 0 .. v)
                          less == HowMany(Reported, Corrected, Below(low))
                      IN  /\ 200 * upTo >= 2 * p * n - 100
                          /\ less = 0 \/ 200 * less < 2 * p * n + 100
                          /\ upTo > less
                          /\ \/ v - low < Power[UnitMagnitude]
                             \/ (v - low) * SubBucketHalfCount <= low
    BY DEF PercentilesRight
  <1> DEFINE n == report.total_count
             v == ValueAtPercentile(report, p)
             rank == CountAtPercentile(report, p)
             to == CountsTo(report)
             N(S) == Cardinality(Marks(Reported, CorrectedOf, S))
  <1>1. report # NoHistogram
    BY DEF NoHistogram
  <1>2. Holds(report, Reported, CorrectedOf) /\ Reported \in Bags
    BY <1>1, BagsAreBounded DEF RecordInv
  <1>3. /\ report \in Histograms /\ TotalFits(report) /\ CountsOf(report, Reported, CorrectedOf)
    BY <1>2, HoldsFits, LatenciesAreCounted DEF Holds, CountsOf
  <1>4. n \in Nat \ {0} /\ p \in 0 .. 100
    BY <1>3, MeasurementAssumption DEF Histograms
  <1>5. /\ rank \in 1 .. n /\ 200 * rank >= 2 * p * n - 100
        /\ rank = 1 \/ 200 * rank <= 2 * p * n + 100
    BY <1>4, RankIsRight, ZenonT(60)
  <1>6. PICK k \in Indices : /\ ValueAtRank(report, rank) = Upper(k)
                             /\ rank <= to[k]
                             /\ (IF k = 0 THEN 0 ELSE to[k - 1]) < rank
    <2> HIDE DEF rank
    <2> QED
      BY <1>3, <1>5, RankIsReached
  <1>7. v = Upper(k)
    BY <1>6 DEF ValueAtPercentile
  <1>8. Upper(k) \in From(k) .. Upper(k) /\ From(k) \in Nat /\ Upper(k) \in Nat
    BY RangesFollow
  <1>9. LowestEquivalent(v) = From(k)
    BY <1>7, <1>8, RangeIsRight
  <1>10. /\ HowMany(Reported, Corrected, 0 .. v) = to[k]
         /\ HowMany(Reported, Corrected, Below(From(k))) = IF k = 0 THEN 0 ELSE to[k - 1]
    <2>1. N(0 .. Upper(k)) = to[k] /\ N(Below(From(k))) = IF k = 0 THEN 0 ELSE to[k - 1]
      BY <1>2, <1>3, UpToRange
    <2>2. \A S : HowMany(Reported, Corrected, S) = N(S)
      BY <1>2, HowManyCounts
    <2> HIDE DEF v, to, N
    <2> QED
      BY <1>7, <2>1, <2>2
  <1>11. to[k] \in Nat /\ (IF k = 0 THEN 0 ELSE to[k - 1]) \in Nat /\ 2 * p * n \in Nat
    <2>1. to \in [Indices -> Nat]
      BY <1>3, CountsToRuns DEF Runs
    <2>3. k # 0 => k - 1 \in Indices
      BY Sizes DEF Indices
    <2> HIDE DEF to
    <2>2. 2 * p * n \in Nat
      BY <1>4
    <2> QED
      BY <2>1, <2>2, <2>3
  <1>12. v - LowestEquivalent(v) < Power[UnitMagnitude]
           \/ (v - LowestEquivalent(v)) * SubBucketHalfCount <= LowestEquivalent(v)
    BY <1>7, <1>9, RangesAreNarrow
  <1> DEFINE x == to[k]
             y == IF k = 0 THEN 0 ELSE to[k - 1]
             c == 2 * p * n
  <1>13. /\ 200 * x >= c - 100 /\ (y = 0 \/ 200 * y < c + 100) /\ x > y
    <2>1. /\ x \in Nat /\ y \in Nat /\ c \in Nat /\ rank \in Nat /\ 1 <= rank
          /\ rank <= x /\ y < rank /\ 200 * rank >= c - 100
          /\ rank = 1 \/ 200 * rank <= c + 100
      BY <1>5, <1>6, <1>11
    <2> HIDE DEF x, y, c, rank
    <2> QED
      BY <2>1
  <1>14. /\ HowMany(Reported, Corrected, 0 .. v) = x
         /\ HowMany(Reported, Corrected, Below(LowestEquivalent(v))) = y
    BY <1>9, <1>10
  <1> HIDE DEF x, y, rank, to
  <1> QED
    BY <1>12, <1>13, <1>14

\* A percentile of the report is right for every percentile, every size of the
\* histogram and all that was recorded (hdr_value_at_percentile over what hdr_add made).
THEOREM PercentilesAreRight == Spec => []PercentilesRight
  <1> QED
    BY MeasureInit, MeasureNext, RecordInit, RecordNext, PercentilesAreSound, PTL DEF Spec

-------------------------------------------------------------------------------
(* Sums in another order *)

\* A sum may begin with any element.
LEMMA AnyMayBeFirst ==
    ASSUME NEW T, IsFiniteSet(T), NEW f \in [T -> Nat], NEW g, Adds(g, f, T)
    PROVE  \A s \in SUBSET T : g[s] \in Nat /\ \A x \in s : g[s] = f[x] + g[s \ {x}]
  <1> DEFINE Ok(s) == g[s] \in Nat /\ \A x \in s : g[s] = f[x] + g[s \ {x}]
             D == {n \in Nat : \A s \in SUBSET T : Cardinality(s) <= n => Ok(s)}
  <1>1. g[{}] = 0 /\ \A s \in SUBSET T : s # {} => g[s] = f[First(s)] + g[Rest(s)]
    BY DEF Adds
  <1>2. \A s \in SUBSET T : /\ Cardinality(s) \in Nat /\ IsFiniteSet(s)
                            /\ Cardinality(s) = 0 <=> s = {}
    BY FS_Subset, FS_CardinalityType, FS_EmptySet
  <1>3. ASSUME NEW s \in SUBSET T, NEW x \in s
        PROVE  s \ {x} \in SUBSET T /\ Cardinality(s \ {x}) = Cardinality(s) - 1
    BY <1>2, FS_RemoveElement
  <1>4. 0 \in D
    <2>1. ASSUME NEW s \in SUBSET T, Cardinality(s) <= 0 PROVE Ok(s)
      <3>1. s = {}
        BY <1>2, <2>1
      <3> QED
        BY <1>1, <3>1
    <2> QED
      BY <2>1
  <1>5. ASSUME NEW n \in D PROVE n + 1 \in D
    <2>1. n \in Nat /\ \A s \in SUBSET T : Cardinality(s) <= n => Ok(s)
      OBVIOUS
    <2>2. ASSUME NEW s \in SUBSET T, Cardinality(s) <= n + 1, s # {} PROVE Ok(s)
      <3> DEFINE y == First(s)
      <3>1. y \in s /\ Rest(s) = s \ {y}
        BY <2>2, FirstIsOne DEF Rest
      <3>2. ASSUME NEW x \in s PROVE s \ {x} \in SUBSET T /\ Ok(s \ {x})
        <4>1. Cardinality(s \ {x}) <= n /\ s \ {x} \in SUBSET T
          <5>1. Cardinality(s \ {x}) = Cardinality(s) - 1 /\ s \ {x} \in SUBSET T
            BY <1>3
          <5>2. Cardinality(s) \in Nat
            BY <1>2
          <5> QED
            BY <2>1, <2>2, <5>1, <5>2
        <4> HIDE DEF Ok
        <4> QED
          BY <2>1, <4>1
      <3>3. g[s] = f[y] + g[s \ {y}]
        BY <1>1, <2>2, <3>1
      <3> HIDE DEF y
      <3>4. f[y] \in Nat /\ g[s \ {y}] \in Nat
        BY <3>1, <3>2
      <3>5. ASSUME NEW x \in s, x # y PROVE g[s] = f[x] + g[s \ {x}]
        <4>1. x \in s \ {y} /\ y \in s \ {x}
          BY <3>1, <3>5
        <4> DEFINE z == (s \ {y}) \ {x}
        <4>2. z = (s \ {x}) \ {y}
          OBVIOUS
        <4>3. g[s \ {y}] = f[x] + g[z]
          BY <3>1, <3>2, <4>1
        <4>4. g[s \ {x}] = f[y] + g[z]
          BY <3>2, <4>1, <4>2
        <4>5. g[z] \in Nat /\ f[x] \in Nat
          <5>1. s \ {y} \in SUBSET T /\ x \in s \ {y} /\ Cardinality(s \ {y}) <= n
            <6>1. Cardinality(s \ {y}) = Cardinality(s) - 1 /\ s \ {y} \in SUBSET T
              BY <1>3, <3>1
            <6>2. Cardinality(s) \in Nat
              BY <1>2
            <6> QED
              BY <2>1, <2>2, <4>1, <6>1, <6>2
          <5>2. Cardinality(z) <= n /\ z \in SUBSET T
            <6>1. Cardinality(z) = Cardinality(s \ {y}) - 1 /\ z \in SUBSET T
              BY <1>3, <5>1
            <6>2. Cardinality(s \ {y}) \in Nat
              BY <1>2, <5>1
            <6> QED
              BY <2>1, <5>1, <6>1, <6>2
          <5>3. Ok(z)
            <6> HIDE DEF Ok, z
            <6> QED
              BY <2>1, <5>2
          <5> HIDE DEF z
          <5> QED
            BY <5>3
        <4> HIDE DEF z
        <4> QED
          BY <3>3, <3>4, <4>3, <4>4, <4>5
      <3>6. g[s] \in Nat
        BY <3>3, <3>4
      <3>7. \A x \in s : g[s] = f[x] + g[s \ {x}]
        BY <3>3, <3>5, Zenon
      <3> QED
        BY <3>6, <3>7
    <2>3. Ok({})
      BY <1>1
    <2> HIDE DEF Ok
    <2> QED
      BY <2>1, <2>2, <2>3
  <1>6. D = Nat
    <2> HIDE DEF D
    <2>1. D \in SUBSET Nat
      BY DEF D
    <2> QED
      BY <1>4, <1>5, <2>1, AllNumbers
  <1>7. ASSUME NEW s \in SUBSET T PROVE Ok(s)
    <2>1. Cardinality(s) \in D
      BY <1>2, <1>6
    <2>2. Cardinality(s) \in Nat
      BY <1>2
    <2> HIDE DEF Ok
    <2> QED
      BY <2>1, <2>2
  <1> QED
    BY <1>7

\* What is 0 may be left out of a sum.
LEMMA SumOfTheOthers ==
    ASSUME NEW T, IsFiniteSet(T), NEW f \in [T -> Nat], NEW R \in SUBSET T,
           \A t \in T \ R : f[t] = 0
    PROVE  SumFunctionOnSet(f, R) = SumFunction(f)
  <1>1. PICK a : Adds(a, f, T) /\ SumFunction(f) = a[T]
    BY SumUnfolds
  <1>2. \A s \in SUBSET T : a[s] \in Nat /\ \A x \in s : a[s] = f[x] + a[s \ {x}]
    BY <1>1, AnyMayBeFirst, SMTT(60)
  <1>3. a[{}] = 0 /\ \A s \in SUBSET T : s # {} => a[s] = f[First(s)] + a[Rest(s)]
    BY <1>1 DEF Adds
  <1> DEFINE b == CHOOSE b : Adds(b, f, R)
             c == [s \in SUBSET R |-> a[s]]
  <1>4. Adds(c, f, R)
    <2>1. ASSUME NEW s \in SUBSET R PROVE c[s] = IF s = {} THEN 0 ELSE f[First(s)] + c[Rest(s)]
      BY <1>3 DEF Rest
    <2>2. c = [s \in SUBSET R |-> IF s = {} THEN 0 ELSE f[First(s)] + c[Rest(s)]]
      BY <2>1
    <2> HIDE DEF c
    <2> QED
      BY <2>2 DEF Adds
  <1>5. Adds(b, f, R)
    <2> HIDE DEF c
    <2> QED
      BY <1>4
  <1>6. SumFunctionOnSet(f, R) = b[R]
    <2>1. b = CHOOSE h : h = [s \in SUBSET R |-> IF s = {} THEN 0
                               ELSE f[CHOOSE x \in s : TRUE] + h[s \ {CHOOSE x \in s : TRUE}]]
      BY Zenon DEF Adds, First, Rest
    <2> HIDE DEF b
    <2> QED
      BY <2>1, Zenon DEF SumFunctionOnSet, FoldFunctionOnSet, MapThenFoldSet
  <1> HIDE DEF b
  <1>7. IsFiniteSet(R) /\ IsFiniteSet(T \ R)
    BY FS_Subset
  <1>8. b[R] = a[R]
    <2> DEFINE P == {s \in SUBSET R : b[s] = a[s]}
    <2>1. b[{}] = 0 /\ \A s \in SUBSET R : s # {} => b[s] = f[First(s)] + b[Rest(s)]
      BY <1>5 DEF Adds
    <2>2. {} \in P
      BY <1>3, <2>1
    <2>3. ASSUME NEW s \in SUBSET R, s # {}, Rest(s) \in P PROVE s \in P
      BY <1>3, <2>1, <2>3
    <2>4. P = SUBSET R
      <3> HIDE DEF P
      <3>1. P \in SUBSET SUBSET R
        BY DEF P
      <3> QED
        BY <1>7, <2>2, <2>3, <3>1, AllSubsets
    <2> QED
      BY <2>4
  <1>9. a[T] = a[R]
    <2> DEFINE Z == T \ R
               P == {s \in SUBSET Z : a[R \cup s] = a[R]}
    <2>1. {} \in P
      OBVIOUS
    <2>2. ASSUME NEW s \in SUBSET Z, s # {}, Rest(s) \in P PROVE s \in P
      <3>1. First(s) \in s /\ First(s) \in T /\ First(s) \notin R /\ f[First(s)] = 0
        BY <2>2, FirstIsOne
      <3>2. (R \cup s) \ {First(s)} = R \cup Rest(s) /\ R \cup s \in SUBSET T /\ First(s) \in R \cup s
        BY <3>1 DEF Rest
      <3>3. a[R \cup s] = f[First(s)] + a[R \cup Rest(s)]
        BY <1>2, <3>2
      <3>4. a[R \cup Rest(s)] = a[R] /\ a[R] \in Nat
        BY <1>2, <2>2
      <3>5. a[R \cup s] = a[R]
        BY <3>1, <3>3, <3>4
      <3> QED
        BY <3>5
    <2>3. P = SUBSET Z
      <3> HIDE DEF P, Z
      <3>1. P \in SUBSET SUBSET Z
        BY DEF P
      <3>2. IsFiniteSet(Z)
        BY <1>7 DEF Z
      <3> QED
        BY <2>1, <2>2, <3>1, <3>2, AllSubsets
    <2>4. Z \in P
      BY <2>3
    <2>5. R \cup Z = T
      OBVIOUS
    <2> QED
      BY <2>4, <2>5
  <1> QED
    BY <1>1, <1>6, <1>8, <1>9

\* A bound for each element is one for the sums.
LEMMA SumsAreBounded ==
    ASSUME NEW T, IsFiniteSet(T), NEW c \in Nat,
           NEW p \in [T -> Nat], NEW q \in [T -> Nat], NEW e \in [T -> Nat],
           \A t \in T : c * p[t] <= c * q[t] + e[t]
    PROVE  /\ SumFunction(p) \in Nat /\ SumFunction(q) \in Nat /\ SumFunction(e) \in Nat
           /\ c * SumFunction(p) <= c * SumFunction(q) + SumFunction(e)
  <1>1. PICK a : Adds(a, p, T) /\ SumFunction(p) = a[T]
    BY SumUnfolds
  <1>2. PICK b : Adds(b, q, T) /\ SumFunction(q) = b[T]
    BY SumUnfolds
  <1>3. PICK d : Adds(d, e, T) /\ SumFunction(e) = d[T]
    BY SumUnfolds
  <1> DEFINE Ok(s) == /\ a[s] \in Nat /\ b[s] \in Nat /\ d[s] \in Nat
                      /\ c * a[s] <= c * b[s] + d[s]
             P == {s \in SUBSET T : Ok(s)}
  <1>4. {} \in P
    <2>1. a[{}] = 0 /\ b[{}] = 0 /\ d[{}] = 0
      BY <1>1, <1>2, <1>3 DEF Adds
    <2> QED
      BY <2>1
  <1>5. ASSUME NEW s \in SUBSET T, s # {}, Rest(s) \in P PROVE s \in P
    <2> DEFINE x == First(s)
               r == Rest(s)
    <2>1. a[s] = p[x] + a[r] /\ b[s] = q[x] + b[r] /\ d[s] = e[x] + d[r]
      BY <1>1, <1>2, <1>3, <1>5 DEF Adds
    <2>2. Ok(r) /\ x \in T
      BY <1>5, FirstIsOne
    <2> HIDE DEF x, r
    <2>3. p[x] \in Nat /\ q[x] \in Nat /\ e[x] \in Nat /\ c * p[x] <= c * q[x] + e[x]
      BY <2>2
    <2>4. /\ c * (p[x] + a[r]) = c * p[x] + c * a[r] /\ c * p[x] \in Nat /\ c * a[r] \in Nat
          /\ c * (q[x] + b[r]) = c * q[x] + c * b[r] /\ c * q[x] \in Nat /\ c * b[r] \in Nat
      BY <2>2, <2>3
    <2>5. c * a[s] <= c * b[s] + d[s]
      BY <2>1, <2>2, <2>3, <2>4
    <2>6. Ok(s)
      BY <2>1, <2>2, <2>3, <2>5
    <2> QED
      BY <2>6
  <1>6. P = SUBSET T
    <2> HIDE DEF P
    <2>1. P \in SUBSET SUBSET T
      BY DEF P
    <2> QED
      BY <1>4, <1>5, <2>1, AllSubsets
  <1>7. Ok(T)
    BY <1>6
  <1> QED
    BY <1>1, <1>2, <1>3, <1>7

-------------------------------------------------------------------------------
(* The mean *)

\* One response, n times.
LEMMA MarksOfOne ==
    ASSUME NEW r \in Responses, NEW n \in Nat, NEW f, NEW S
    PROVE  LET one == [q \in Responses |-> IF q = r THEN n ELSE 0]
           IN  /\ IsFiniteSet(Marks(one, f, S))
               /\ Cardinality(Marks(one, f, S)) = IF f[r] \in S THEN n ELSE 0
  <1> DEFINE one == [q \in Responses |-> IF q = r THEN n ELSE 0]
             M == Marks(one, f, S)
  <1>1. one[r] = n /\ \A q \in Responses \ {r} : one[q] = 0
    OBVIOUS
  <1> HIDE DEF one
  <1>2. CASE f[r] \notin S
    <2>1. ASSUME NEW x \in M PROVE FALSE
      <3>1. x \in Responses \X (Nat \ {0}) /\ x[2] <= one[x[1]] /\ f[x[1]] \in S
        BY DEF Marks
      <3>2. x[1] \in Responses \ {r} /\ x[2] \in Nat \ {0}
        BY <1>2, <3>1
      <3>3. one[x[1]] = 0
        BY <1>1, <3>2
      <3> QED
        BY <3>1, <3>2, <3>3
    <2>2. M = {}
      BY <2>1
    <2> QED
      BY <1>2, <2>2, FS_EmptySet DEF one
  <1>3. CASE f[r] \in S
    <2> DEFINE g == [i \in 1 .. n |-> <<r, i>>]
    <2>1. ASSUME NEW x \in M PROVE x[2] \in 1 .. n /\ x = <<r, x[2]>>
      <3>1. x \in Responses \X (Nat \ {0}) /\ x[2] <= one[x[1]] /\ x = <<x[1], x[2]>>
        BY DEF Marks
      <3>2. x[1] \in Responses /\ x[2] \in Nat \ {0}
        BY <3>1
      <3>3. x[1] = r
        BY <1>1, <3>1, <3>2
      <3> QED
        BY <1>1, <3>1, <3>2, <3>3
    <2>2. ASSUME NEW i \in 1 .. n PROVE <<r, i>> \in M
      BY <1>1, <1>3 DEF Marks
    <2>3. g \in [1 .. n -> M] /\ \A i \in 1 .. n : g[i] = <<r, i>>
      BY <2>2
    <2> HIDE DEF g, M
    <2>4. \A i, j \in 1 .. n : g[i] = g[j] => i = j
      BY <2>3
    <2>5. \A x \in M : \E i \in 1 .. n : g[i] = x
      BY <2>1, <2>3
    <2>6. g \in Bijection(1 .. n, M)
      BY <2>3, <2>4, <2>5 DEF Bijection, Injection, Surjection, IsInjective
    <2>7. IsFiniteSet(1 .. n) /\ Cardinality(1 .. n) = n
      BY FS_Interval
    <2>8. ExistsBijection(1 .. n, M)
      BY <2>6 DEF ExistsBijection
    <2>9. IsFiniteSet(M) /\ Cardinality(M) = n
      BY <2>7, <2>8, FS_Bijection
    <2> QED
      BY <1>3, <2>9 DEF M, one
  <1> QED
    BY <1>2, <1>3

\* One count larger by n is a sum larger by n.
LEMMA OneCountGrows ==
    ASSUME NEW f, f \in [Indices -> Nat], NEW g, g \in [Indices -> Nat], NEW j, j \in Indices,
           NEW n, n \in Nat, g[j] = f[j] + n, \A k \in Indices \ {j} : g[k] = f[k]
    PROVE  SumFunction(f) \in Nat /\ SumFunction(g) = SumFunction(f) + n
  <1>1. IsFiniteSet(Indices)
    BY Sizes, FS_Interval DEF Indices
  <1> QED
    BY <1>1, SumGrows

\* A sum over the counts is one over the responses.
LEMMA SumByCount ==
    ASSUME NEW bag \in Bags, NEW f, NEW m \in [Indices -> Nat], NEW at \in [Responses -> Indices],
           \A r \in Responses, k \in Indices : f[r] \in Values[k] <=> at[r] = k
    PROVE  SumFunction([k \in Indices |-> Cardinality(Marks(bag, f, Values[k])) * m[k]])
             = SumFunction([r \in Responses |-> bag[r] * m[at[r]]])
  <1> DEFINE part(s) == [r \in Responses |-> IF r \in s THEN bag[r] ELSE 0]
             M(b, k) == Marks(b, f, Values[k])
             F(s) == [k \in Indices |-> Cardinality(M(part(s), k)) * m[k]]
             w == [r \in Responses |-> bag[r] * m[at[r]]]
  <1>1. IsFiniteSet(Responses) /\ IsFiniteSet(Indices)
    BY LatenciesAreCounted, Sizes, FS_Interval DEF Indices
  <1>2. bag \in [Responses -> Nat] /\ MaxResponses \in Nat
    BY MeasurementAssumption DEF Bags
  <1>3. \A s \in SUBSET Responses : part(s) \in Bags /\ part(s) \in [Responses -> Nat]
    BY <1>2 DEF Bags
  <1>4. \A s \in SUBSET Responses, k \in Indices :
          IsFiniteSet(M(part(s), k)) /\ Cardinality(M(part(s), k)) \in Nat
    <2> HIDE DEF part
    <2> QED
      BY <1>3, MarksAreFinite
  <1>5. \A s \in SUBSET Responses :
          /\ F(s) \in [Indices -> Nat]
          /\ \A k \in Indices : F(s)[k] = Cardinality(M(part(s), k)) * m[k]
    <2> HIDE DEF part, M
    <2> QED
      BY <1>4
  <1>6. w \in [Responses -> Nat] /\ \A r \in Responses : w[r] = bag[r] * m[at[r]]
    BY <1>2
  <1> HIDE DEF w
  <1>7. PICK a : Adds(a, w, Responses) /\ SumFunction(w) = a[Responses]
    BY <1>1, <1>6, SumUnfolds
  <1> DEFINE P == {s \in SUBSET Responses : SumFunction(F(s)) = a[s]}
  <1>8. {} \in P
    <2>1. part({}) = NoResponses
      BY DEF NoResponses
    <2>2. \A k \in Indices : Cardinality(M(NoResponses, k)) = 0
      BY NoMarks
    <2>3. F({}) = [k \in Indices |-> 0]
      BY <2>1, <2>2
    <2>4. a[{}] = 0
      BY <1>7 DEF Adds
    <2> QED
      BY <1>1, <2>3, <2>4, SumOfNothing
  <1>9. ASSUME NEW s \in SUBSET Responses, s # {}, Rest(s) \in P PROVE s \in P
    <2> DEFINE x == First(s)
               n == bag[x]
               one == [q \in Responses |-> IF q = x THEN n ELSE 0]
               old == part(Rest(s))
    <2>1. x \in Responses /\ x \in s /\ x \notin Rest(s) /\ Rest(s) = s \ {x} /\ Rest(s) \in SUBSET Responses
      BY <1>9, FirstIsOne DEF Rest
    <2>2. n \in Nat /\ at[x] \in Indices /\ m[at[x]] \in Nat
      BY <1>2, <2>1
    <2>3. part(s) = [r \in Responses |-> old[r] + one[r]]
      <3>1. ASSUME NEW r \in Responses
            PROVE  (IF r \in s THEN bag[r] ELSE 0) = old[r] + one[r]
        <4>1. old[r] = (IF r \in Rest(s) THEN bag[r] ELSE 0) /\ one[r] = (IF r = x THEN n ELSE 0)
          OBVIOUS
        <4>2. bag[r] \in Nat
          BY <1>2
        <4> HIDE DEF old, one
        <4>3. CASE r = x
          BY <2>1, <4>1, <4>2, <4>3
        <4>4. CASE r # x
          BY <2>1, <4>1, <4>2, <4>4
        <4> QED
          BY <4>3, <4>4
      <3> HIDE DEF old, one
      <3> QED
        BY <3>1
    <2>4. one \in [Responses -> Nat] /\ old \in [Responses -> Nat]
      BY <1>3, <2>1, <2>2
    <2>5. \A k \in Indices : /\ IsFiniteSet(M(one, k))
                             /\ Cardinality(M(one, k)) = IF at[x] = k THEN n ELSE 0
      <3>1. ASSUME NEW k \in Indices
            PROVE  /\ IsFiniteSet(M(one, k))
                   /\ Cardinality(M(one, k)) = IF f[x] \in Values[k] THEN n ELSE 0
        <4> HIDE DEF x, n
        <4> QED
          BY <2>1, <2>2, MarksOfOne
      <3> HIDE DEF x, one, M
      <3> QED
        BY <2>1, <3>1
    <2>6. \A k \in Indices : IsFiniteSet(M(old, k)) /\ Cardinality(M(old, k)) \in Nat
      <3> HIDE DEF part, M
      <3> QED
        BY <1>4, <2>1
    <2> HIDE DEF x, n, one, old, part
    <2>7. \A k \in Indices :
            Cardinality(M(part(s), k)) = Cardinality(M(old, k)) + IF at[x] = k THEN n ELSE 0
      <3>1. ASSUME NEW k \in Indices
            PROVE  Cardinality(M([r \in Responses |-> old[r] + one[r]], k))
                     = Cardinality(M(old, k)) + Cardinality(M(one, k))
        BY <2>4, <2>5, <2>6, MarksAddUp
      <3> HIDE DEF M
      <3> QED
        BY <2>3, <2>5, <3>1
    <2> DEFINE F0 == F(Rest(s))
               F1 == F(s)
               z == n * m[at[x]]
    <2>8. /\ F0 \in [Indices -> Nat] /\ F1 \in [Indices -> Nat]
          /\ \A k \in Indices : /\ F0[k] = Cardinality(M(old, k)) * m[k]
                                /\ F1[k] = Cardinality(M(part(s), k)) * m[k]
      <3> HIDE DEF F, M
      <3> QED
        BY <1>5, <2>1 DEF old
    <2> HIDE DEF F, M, F0, F1
    <2>9. F1[at[x]] = F0[at[x]] + z
      <3> DEFINE c == Cardinality(M(old, at[x]))
                 y == m[at[x]]
      <3>1. F0[at[x]] = c * y /\ F1[at[x]] = (c + n) * y /\ c \in Nat
        BY <2>2, <2>6, <2>7, <2>8
      <3>2. n \in Nat /\ y \in Nat /\ z = n * y
        BY <2>2
      <3> HIDE DEF c, y, z
      <3>3. (c + n) * y = c * y + n * y
        BY <3>1, <3>2
      <3> QED
        BY <3>1, <3>2, <3>3
    <2>10. \A k \in Indices \ {at[x]} : F1[k] = F0[k]
      <3>1. ASSUME NEW k \in Indices \ {at[x]} PROVE Cardinality(M(part(s), k)) = Cardinality(M(old, k))
        BY <2>6, <2>7
      <3> QED
        BY <2>8, <3>1
    <2>11. z \in Nat
      BY <2>2
    <2>12. w[x] = z
      BY <1>6, <2>1 DEF n
    <2> HIDE DEF z
    <2>13. SumFunction(F0) \in Nat /\ SumFunction(F1) = SumFunction(F0) + z
      <3> DEFINE j == at[x]
      <3>1. j \in Indices
        BY <2>2
      <3>2. F1[j] = F0[j] + z
        BY <2>9
      <3>3. \A k \in Indices \ {j} : F1[k] = F0[k]
        BY <2>10
      <3>4. F0 \in [Indices -> Nat]
        BY <2>8
      <3>5. F1 \in [Indices -> Nat]
        BY <2>8
      <3> HIDE DEF j
      <3> QED
        BY <2>11, <3>1, <3>2, <3>3, <3>4, <3>5, OneCountGrows
    <2>14. a[s] = z + a[Rest(s)] /\ SumFunction(F0) = a[Rest(s)]
      <3>1. a[s] = w[x] + a[Rest(s)]
        BY <1>7, <1>9 DEF Adds, x
      <3>2. SumFunction(F0) = a[Rest(s)]
        BY <1>9 DEF F0
      <3> QED
        BY <2>12, <3>1, <3>2
    <2>15. SumFunction(F1) = a[s]
      BY <2>11, <2>13, <2>14
    <2> QED
      BY <2>15 DEF F1
  <1>10. P = SUBSET Responses
    <2> HIDE DEF P
    <2>1. P \in SUBSET SUBSET Responses
      BY DEF P
    <2> QED
      BY <1>1, <1>8, <1>9, <2>1, AllSubsets
  <1>11. SumFunction(F(Responses)) = a[Responses]
    <2>1. Responses \in P
      BY <1>10
    <2> HIDE DEF F
    <2> QED
      BY <2>1
  <1>12. part(Responses) = bag
    BY <1>2
  <1>13. F(Responses) = [k \in Indices |-> Cardinality(M(bag, k)) * m[k]]
    BY <1>12
  <1> QED
    BY <1>7, <1>11, <1>13 DEF w

-------------------------------------------------------------------------------
(* The extremes and the mean of the report *)

\* The count of a response.
At == [r \in Responses |-> CountsIndex(PlaceOf(r.corrected))]

\* The stop at which a response is found is the one in whose range its latency lies.
LEMMA AtIsRight ==
    /\ At \in [Responses -> Indices]
    /\ \A r \in Responses, k \in Indices : CorrectedOf[r] \in Values[k] <=> At[r] = k
    /\ \A r \in Responses : r.corrected \in Nat /\ r.corrected \in From(At[r]) .. Upper(At[r])
  <1>1. ASSUME NEW r \in Responses
        PROVE  /\ r.corrected \in Nat /\ CountsIndex(PlaceOf(r.corrected)) \in Indices
               /\ \A k \in Indices : r.corrected \in Values[k] <=> CountsIndex(PlaceOf(r.corrected)) = k
    <2>1. r.corrected \in Nat /\ InRange(r.corrected)
      BY MeasurementAssumption
    <2> QED
      BY <2>1, CountedStands, CountedOnce
  <1>2. At \in [Responses -> Indices]
    BY <1>1 DEF At
  <1>3. \A r \in Responses, k \in Indices : CorrectedOf[r] \in Values[k] <=> At[r] = k
    BY <1>1 DEF At, CorrectedOf
  <1>4. ASSUME NEW r \in Responses PROVE r.corrected \in From(At[r]) .. Upper(At[r])
    <2>1. At[r] \in Indices /\ r.corrected \in Values[At[r]]
      BY <1>2, <1>3 DEF CorrectedOf
    <2> QED
      BY <2>1, ValuesAreRanges
  <1> QED
    BY <1>1, <1>2, <1>3, <1>4

\* The counts the iterator finds are those of the responses.
LEMMA FoundAreSeen ==
    ASSUME NEW bag \in Bags, NEW h, Holds(h, bag, CorrectedOf)
    PROVE  Recorded(h) = {At[r] : r \in {q \in Responses : bag[q] > 0}}
  <1>1. h \in Histograms /\ TotalFits(h)
    BY HoldsFits, LatenciesAreCounted DEF Holds, CountsOf
  <1>2. Recorded(h) = {k \in Indices : h.counts[k] # 0}
    BY <1>1, AllAreFound
  <1>3. ASSUME NEW k \in Indices
        PROVE  h.counts[k] # 0 <=> \E r \in Responses : bag[r] > 0 /\ At[r] = k
    <2> DEFINE M == Marks(bag, CorrectedOf, Values[k])
    <2>1. h.counts[k] = Cardinality(M) /\ IsFiniteSet(M)
      BY MarksAreFinite DEF Holds, CountsOf
    <2>2. M = {} <=> ~ \E r \in Responses : bag[r] > 0 /\ At[r] = k
      <3>1. ASSUME NEW x \in M PROVE \E r \in Responses : bag[r] > 0 /\ At[r] = k
        <4>1. /\ x \in Responses \X (Nat \ {0}) /\ x[2] <= bag[x[1]]
              /\ CorrectedOf[x[1]] \in Values[k]
          BY DEF Marks
        <4>2. x[1] \in Responses /\ x[2] \in Nat \ {0} /\ bag[x[1]] \in Nat
          BY <4>1, MeasurementAssumption DEF Bags
        <4>3. bag[x[1]] > 0 /\ At[x[1]] = k
          BY <4>1, <4>2, AtIsRight
        <4> QED
          BY <4>2, <4>3
      <3>2. ASSUME NEW r \in Responses, bag[r] > 0, At[r] = k PROVE <<r, 1>> \in M
        <4>1. CorrectedOf[r] \in Values[k] /\ bag[r] \in Nat
          BY <3>2, AtIsRight, MeasurementAssumption DEF Bags
        <4> QED
          BY <3>2, <4>1 DEF Marks
      <3> HIDE DEF M
      <3> QED
        BY <3>1, <3>2
    <2> HIDE DEF M
    <2> QED
      BY <2>1, <2>2, FS_EmptySet
  <1> QED
    BY <1>2, <1>3, AtIsRight

\* hdr_min and hdr_max.
LEMMA EndsAreRight ==
    ASSUME NEW bag \in Bags, NEW h, Holds(h, bag, CorrectedOf), h.total_count > 0
    PROVE  LET seen == {r.corrected : r \in {q \in Responses : bag[q] > 0}}
           IN  /\ HdrMin(h) = LowestEquivalent(Min(seen))
               /\ HdrMax(h) = LowestEquivalent(Max(seen))
  <1> DEFINE B == {q \in Responses : bag[q] > 0}
             seen == {r.corrected : r \in B}
             found == {At[r] : r \in B}
  <1>1. Recorded(h) = found
    BY FoundAreSeen
  <1>2. B # {}
    <2>1. Cardinality(Marks(bag, CorrectedOf, Nat)) # 0
      BY DEF Holds
    <2>2. Marks(bag, CorrectedOf, Nat) # {}
      BY <2>1, FS_EmptySet
    <2>3. PICK x \in Marks(bag, CorrectedOf, Nat) : TRUE
      BY <2>2
    <2>4. x \in Responses \X (Nat \ {0}) /\ x[2] <= bag[x[1]]
      BY <2>3 DEF Marks
    <2>5. x[1] \in Responses /\ x[2] \in Nat \ {0} /\ bag[x[1]] \in Nat
      BY <2>4, MeasurementAssumption DEF Bags
    <2>6. bag[x[1]] > 0
      BY <2>4, <2>5
    <2> QED
      BY <2>5, <2>6
  <1>3. \A r \in B : /\ At[r] \in Indices /\ At[r] \in found /\ r.corrected \in seen
                     /\ r.corrected \in Nat /\ r.corrected <= LastValue
                     /\ r.corrected \in From(At[r]) .. Upper(At[r])
    <2>1. \A r \in Responses : r.corrected <= LastValue
      BY MeasurementAssumption, CountedUpTo
    <2> QED
      BY <2>1, AtIsRight
  <1>4. /\ \A v \in seen : \E r \in B : v = r.corrected
        /\ \A k \in found : \E r \in B : k = At[r]
    OBVIOUS
  <1> HIDE DEF B, seen, found
  <1>5. /\ seen \in SUBSET Nat /\ seen # {} /\ \A v \in seen : v <= LastValue
        /\ found \in SUBSET Nat /\ found # {} /\ \A k \in found : k \in Indices /\ k <= CountsLen - 1
    <2>1. \A k \in Indices : k \in Nat /\ k <= CountsLen - 1
      BY Sizes DEF Indices
    <2> QED
      BY <1>2, <1>3, <1>4, <2>1
  <1>6. /\ Min(seen) \in seen /\ \A v \in seen : Min(seen) <= v
        /\ Min(found) \in found /\ \A k \in found : Min(found) <= k
    BY <1>5, LeastOf
  <1>7. /\ Max(seen) \in seen /\ \A v \in seen : v <= Max(seen)
        /\ Max(found) \in found /\ \A k \in found : k <= Max(found)
    <2>1. LastValue \in Nat /\ CountsLen - 1 \in Nat
      BY CountedUpTo, Sizes
    <2>2. Max(seen) \in seen /\ \A v \in seen : v <= Max(seen)
      BY <1>5, <2>1, GreatestOf
    <2>3. Max(found) \in found /\ \A k \in found : k <= Max(found)
      <3> DEFINE n == CountsLen - 1
      <3>1. n \in Nat /\ \A k \in found : k <= n
        BY <1>5, <2>1
      <3> HIDE DEF n
      <3> QED
        BY <1>5, <3>1, GreatestOf
    <2> QED
      BY <2>2, <2>3
  <1>8. \A k \in Indices : /\ LowestEquivalent(Upper(k)) = From(k) /\ HighestEquivalent(From(k)) = Upper(k)
                           /\ \A v \in From(k) .. Upper(k) : LowestEquivalent(v) = From(k)
    <2>1. \A k \in Indices : From(k) \in From(k) .. Upper(k) /\ Upper(k) \in From(k) .. Upper(k)
      BY RangesFollow
    <2> QED
      BY <2>1, RangeIsRight
  <1>9. \A k \in Indices : \A j \in Indices : j < k => Upper(j) < From(k)
    BY RangesOrdered
  <1>10. \A k \in Indices : k \in Nat /\ From(k) \in Nat /\ Upper(k) \in Nat
    BY RangesFollow, Sizes
  <1>11. LowestEquivalent(Min(seen)) = From(Min(found))
    <2>1. PICK r \in B : Min(seen) = r.corrected
      BY <1>4, <1>6
    <2>2. PICK q \in B : Min(found) = At[q]
      BY <1>4, <1>6
    <2>3. r.corrected <= q.corrected /\ At[q] <= At[r]
      BY <1>3, <1>6, <2>1, <2>2
    <2>4. ~(At[q] < At[r])
      <3>1. ASSUME At[q] < At[r] PROVE FALSE
        <4>1. Upper(At[q]) < From(At[r])
          BY <1>3, <1>9, <3>1
        <4>2. q.corrected <= Upper(At[q]) /\ From(At[r]) <= r.corrected
          BY <1>3, <1>10
        <4> QED
          BY <1>3, <1>10, <2>3, <4>1, <4>2
      <3> QED
        BY <3>1
    <2>5. At[q] = At[r]
      BY <1>3, <1>10, <2>3, <2>4
    <2> QED
      BY <1>3, <1>8, <2>1, <2>2, <2>5
  <1>12. LowestEquivalent(Max(seen)) = From(Max(found))
    <2>1. PICK r \in B : Max(seen) = r.corrected
      BY <1>4, <1>7
    <2>2. PICK q \in B : Max(found) = At[q]
      BY <1>4, <1>7
    <2>3. q.corrected <= r.corrected /\ At[r] <= At[q]
      BY <1>3, <1>7, <2>1, <2>2
    <2>4. ~(At[r] < At[q])
      <3>1. ASSUME At[r] < At[q] PROVE FALSE
        <4>1. Upper(At[r]) < From(At[q])
          BY <1>3, <1>9, <3>1
        <4>2. r.corrected <= Upper(At[r]) /\ From(At[q]) <= q.corrected
          BY <1>3, <1>10
        <4> QED
          BY <1>3, <1>10, <2>3, <4>1, <4>2
      <3> QED
        BY <3>1
    <2>5. At[q] = At[r]
      BY <1>3, <1>10, <2>3, <2>4
    <2> QED
      BY <1>3, <1>8, <2>1, <2>2, <2>5
  <1>13. HdrMin(h) = From(Min(found))
    BY <1>1, <1>5 DEF HdrMin, From
  <1>14. HdrMax(h) = From(Max(found))
    <2>1. HdrMax(h) = LowestEquivalent(HighestEquivalent(From(Max(found))))
      BY <1>1, <1>5 DEF HdrMax, From
    <2> QED
      BY <1>5, <1>7, <1>8, <2>1
  <1> QED
    BY <1>11, <1>12, <1>13, <1>14 DEF seen, B

\* What a unit adds to the error of a mean.
Half == SubBucketCount * (Power[UnitMagnitude] \div 2)

\* The median of a range is near each of its values.
LEMMA MedianIsNear ==
    ASSUME NEW k \in Indices, NEW v \in From(k) .. Upper(k)
    PROVE  LET m == MedianEquivalent(From(k))
               c == SubBucketCount
           IN  /\ m \in Nat /\ v \in Nat /\ c \in Nat /\ Half \in Nat
               /\ c * m <= c * v + (v + Half)
               /\ c * v <= c * m + (v + Half)
  <1> DEFINE s == Walk[k].sub
             b == Walk[k].bucket
             w == Width(b)
             x == w \div 2
             H == SubBucketHalfCount
             c == SubBucketCount
             m == MedianEquivalent(From(k))
  <1>1. Stands(Walk[k])
    BY WalkGoesOn
  <1>2. b \in Nat /\ s \in Nat /\ H \in Nat \ {0} /\ (b = 0 \/ s >= H) /\ c = 2 * H
    BY <1>1, Dimensions DEF Stands, Places
  <1>3. w \in Nat \ {0}
    BY <1>2, WidthIsPositive
  <1>4. From(k) = s * w /\ Upper(k) = From(k) + w - 1
    BY DEF From, ValueFromIndex, Width, Upper
  <1>5. From(k) \in Nat /\ v \in Nat /\ From(k) <= v /\ v <= Upper(k)
    BY RangesFollow
  <1>6. m = From(k) + x
    <2>1. From(k) \in From(k) .. Upper(k)
      BY RangesFollow
    <2> QED
      BY <2>1, RangeIsRight DEF MedianEquivalent
  <1>7. b = 0 => Half = c * x
    BY HistogramAssumption DEF Width, Half
  <1>8. Half \in Nat
    <2>1. Power[UnitMagnitude] \in Nat
      BY HistogramAssumption, PowerLaws
    <2>2. Power[UnitMagnitude] \div 2 \in Nat
      BY <2>1
    <2> QED
      BY <1>2, <2>2 DEF Half
  <1> HIDE DEF s, b, w, H, c, m, Half
  <1>9. x \in Nat /\ 2 * x <= w /\ w <= 2 * x + 1
    BY <1>3
  <1> HIDE DEF x
  <1>10. c \in Nat /\ m \in Nat /\ m <= v + x /\ v <= m + x
    BY <1>2, <1>3, <1>4, <1>5, <1>6, <1>9
  <1>11. c * x <= v + Half
    <2>1. CASE b = 0
      BY <1>5, <1>7, <1>8, <1>9, <1>10, <2>1
    <2>2. CASE s >= H
      <3>1. PICK d \in Nat : s = H + d
        <4>1. s - H \in Nat /\ s = H + (s - H)
          BY <1>2, <2>2
        <4> QED
          BY <4>1
      <3>2. PICK e \in Nat : w = 2 * x + e
        <4>1. w - 2 * x \in Nat /\ w = 2 * x + (w - 2 * x)
          BY <1>3, <1>9
        <4> QED
          BY <4>1
      <3>3. s * w = H * w + d * w /\ H * w \in Nat /\ d * w \in Nat
        BY <1>2, <1>3, <3>1
      <3>4. H * w = (2 * H) * x + H * e /\ H * e \in Nat /\ (2 * H) * x \in Nat
        BY <1>2, <1>9, <3>2
      <3> QED
        BY <1>2, <1>4, <1>5, <1>8, <3>3, <3>4
    <2> QED
      BY <1>2, <2>1, <2>2
  <1>12. \A i, j \in Nat : i <= j + x => c * i <= c * j + c * x
    <2> SUFFICES ASSUME NEW i \in Nat, NEW j \in Nat, i <= j + x PROVE c * i <= c * j + c * x
      OBVIOUS
    <2>1. PICK d \in Nat : j + x = i + d
      <3>1. (j + x) - i \in Nat /\ j + x = i + ((j + x) - i)
        BY <1>9
      <3> QED
        BY <3>1
    <2>2. c * (j + x) = c * j + c * x /\ c * j \in Nat /\ c * x \in Nat
      BY <1>9, <1>10
    <2>3. c * (i + d) = c * i + c * d /\ c * i \in Nat /\ c * d \in Nat
      BY <1>10, <2>1
    <2> QED
      BY <2>1, <2>2, <2>3
  <1>13. c * m <= c * v + c * x /\ c * v <= c * m + c * x
    BY <1>5, <1>10, <1>12
  <1>14. c * m \in Nat /\ c * v \in Nat /\ c * x \in Nat
    BY <1>5, <1>9, <1>10
  <1>15. c * m <= c * v + (v + Half) /\ c * v <= c * m + (v + Half)
    BY <1>5, <1>8, <1>11, <1>13, <1>14
  <1> QED
    BY <1>5, <1>8, <1>10, <1>15 DEF c, m

\* The sum of the medians, as hdr_mean takes it, is one over the responses.
LEMMA MeanByResponse ==
    ASSUME NEW bag \in Bags, NEW h, Holds(h, bag, CorrectedOf)
    PROVE  MeanTotal(h) =
             SumFunction([r \in Responses |-> bag[r] * MedianEquivalent(From(At[r]))])
  <1> DEFINE m == [k \in Indices |-> MedianEquivalent(From(k))]
             part == [k \in Indices |-> CountAt(h, k) * MedianEquivalent(ValueFromIndex(Walk[k]))]
             byCount == [k \in Indices |-> Cardinality(Marks(bag, CorrectedOf, Values[k])) * m[k]]
  <1>1. h \in Histograms /\ TotalFits(h)
    BY HoldsFits, LatenciesAreCounted DEF Holds, CountsOf
  <1>2. ASSUME NEW k \in Indices PROVE MedianEquivalent(From(k)) \in Nat
    <2>1. From(k) \in From(k) .. Upper(k)
      BY RangesFollow
    <2> QED
      BY <2>1, MedianIsNear
  <1>3. m \in [Indices -> Nat] /\ \A k \in Indices : m[k] = MedianEquivalent(From(k))
    BY <1>2
  <1>4. \A k \in Indices : /\ CountAt(h, k) = h.counts[k]
                           /\ h.counts[k] = Cardinality(Marks(bag, CorrectedOf, Values[k]))
                           /\ h.counts[k] \in Nat
    BY <1>1, WalkIsInOrder DEF CountAt, Holds, CountsOf, Histograms
  <1>5. part = byCount
    BY <1>3, <1>4 DEF From
  <1>6. /\ part \in [Indices -> Nat]
        /\ \A k \in Indices : part[k] = h.counts[k] * m[k]
    BY <1>3, <1>4 DEF From
  <1>7. Recorded(h) = {k \in Indices : h.counts[k] # 0}
    BY <1>1, AllAreFound
  <1>8. MeanTotal(h) = SumFunctionOnSet(part, Recorded(h))
    BY DEF MeanTotal
  <1> HIDE DEF part, byCount, m
  <1>9. \A k \in Indices \ Recorded(h) : part[k] = 0
    BY <1>3, <1>6, <1>7
  <1>10. SumFunctionOnSet(part, Recorded(h)) = SumFunction(part)
    <2>1. IsFiniteSet(Indices) /\ Recorded(h) \in SUBSET Indices
      BY <1>7, Sizes, FS_Interval DEF Indices
    <2> QED
      BY <1>6, <1>9, <2>1, SumOfTheOthers
  <1>11. SumFunction(byCount) = SumFunction([r \in Responses |-> bag[r] * m[At[r]]])
    <2>1. SumFunction([k \in Indices |-> Cardinality(Marks(bag, CorrectedOf, Values[k])) * m[k]])
             = SumFunction([r \in Responses |-> bag[r] * m[At[r]]])
      BY <1>3, AtIsRight, SumByCount
    <2> QED
      BY <2>1 DEF byCount
  <1>12. [r \in Responses |-> bag[r] * m[At[r]]]
           = [r \in Responses |-> bag[r] * MedianEquivalent(From(At[r]))]
    BY <1>3, AtIsRight
  <1> QED
    BY <1>5, <1>8, <1>10, <1>11, <1>12

\* hdr_mean, times the total.
LEMMA MeanIsNear ==
    ASSUME NEW bag \in Bags, NEW h, Holds(h, bag, CorrectedOf)
    PROVE  LET sum == SumFunction([r \in Responses |-> bag[r] * r.corrected])
               err == SumFunction([r \in Responses |-> bag[r] * (r.corrected + Half)])
           IN  SubBucketCount * (MeanTotal(h) - sum) \in -err .. err
  <1> DEFINE med(r) == MedianEquivalent(From(At[r]))
             p == [r \in Responses |-> bag[r] * med(r)]
             q == [r \in Responses |-> bag[r] * r.corrected]
             e == [r \in Responses |-> bag[r] * (r.corrected + Half)]
             c == SubBucketCount
  <1>1. IsFiniteSet(Responses)
    BY LatenciesAreCounted
  <1>2. ASSUME NEW r \in Responses
        PROVE  /\ med(r) \in Nat /\ r.corrected \in Nat /\ c \in Nat /\ Half \in Nat /\ bag[r] \in Nat
               /\ c * med(r) <= c * r.corrected + (r.corrected + Half)
               /\ c * r.corrected <= c * med(r) + (r.corrected + Half)
    <2>1. At[r] \in Indices /\ r.corrected \in From(At[r]) .. Upper(At[r])
      BY AtIsRight
    <2>2. bag[r] \in Nat
      BY MeasurementAssumption DEF Bags
    <2> QED
      BY <2>1, <2>2, MedianIsNear
  <1>3. c \in Nat
    BY Dimensions
  <1> HIDE DEF med, Half, c
  <1>4. /\ p \in [Responses -> Nat] /\ q \in [Responses -> Nat] /\ e \in [Responses -> Nat]
        /\ \A r \in Responses : /\ p[r] = bag[r] * med(r) /\ q[r] = bag[r] * r.corrected
                                /\ e[r] = bag[r] * (r.corrected + Half)
    BY <1>2
  <1> HIDE DEF p, q, e
  <1>5. ASSUME NEW r \in Responses
        PROVE  c * p[r] <= c * q[r] + e[r] /\ c * q[r] <= c * p[r] + e[r]
    <2> DEFINE n == bag[r]
               x == med(r)
               v == r.corrected
               y == v + Half
    <2>1. /\ n \in Nat /\ x \in Nat /\ v \in Nat /\ y \in Nat
          /\ c * x <= c * v + y /\ c * v <= c * x + y
          /\ p[r] = n * x /\ q[r] = n * v /\ e[r] = n * y
      BY <1>2, <1>4
    <2> HIDE DEF n, x, v, y
    <2>2. c * x \in Nat /\ c * v \in Nat
      BY <1>3, <2>1
    <2>3. n * (c * x) <= n * (c * v + y) /\ n * (c * v) <= n * (c * x + y)
      <3>1. \A i, j \in Nat : i <= j => n * i <= n * j
        <4> SUFFICES ASSUME NEW i \in Nat, NEW j \in Nat, i <= j PROVE n * i <= n * j
          OBVIOUS
        <4>1. PICK d \in Nat : j = i + d
          <5>1. j - i \in Nat /\ j = i + (j - i)
            OBVIOUS
          <5> QED
            BY <5>1
        <4>2. n * (i + d) = n * i + n * d /\ n * i \in Nat /\ n * d \in Nat
          BY <2>1
        <4> QED
          BY <4>1, <4>2
      <3>2. c * v + y \in Nat /\ c * x + y \in Nat
        BY <2>1, <2>2
      <3> QED
        BY <2>1, <2>2, <3>1, <3>2
    <2>4. /\ n * (c * v + y) = n * (c * v) + n * y /\ n * (c * x + y) = n * (c * x) + n * y
      BY <2>1, <2>2
    <2>5. n * (c * x) = c * (n * x) /\ n * (c * v) = c * (n * v)
      BY <1>3, <2>1
    <2> QED
      BY <2>1, <2>3, <2>4, <2>5
  <1>6. /\ SumFunction(p) \in Nat /\ SumFunction(q) \in Nat /\ SumFunction(e) \in Nat
        /\ c * SumFunction(p) <= c * SumFunction(q) + SumFunction(e)
    BY <1>1, <1>3, <1>4, <1>5, SumsAreBounded
  <1>7. c * SumFunction(q) <= c * SumFunction(p) + SumFunction(e)
    BY <1>1, <1>3, <1>4, <1>5, SumsAreBounded
  <1>8. c * (SumFunction(p) - SumFunction(q)) \in -SumFunction(e) .. SumFunction(e)
    <2> DEFINE i == SumFunction(p)
               j == SumFunction(q)
               k == SumFunction(e)
    <2>1. i \in Nat /\ j \in Nat /\ k \in Nat /\ c * i <= c * j + k /\ c * j <= c * i + k
      BY <1>6, <1>7
    <2> HIDE DEF i, j, k
    <2>2. c * (i - j) = c * i - c * j /\ c * i \in Nat /\ c * j \in Nat
      BY <1>3, <2>1
    <2>3. c * (i - j) \in -k .. k
      BY <2>1, <2>2
    <2> QED
      BY <2>3 DEF i, j, k
  <1>9. MeanTotal(h) = SumFunction(p)
    BY MeanByResponse DEF p, med
  <1> QED
    BY <1>8, <1>9 DEF q, e, c

LEMMA ExtremesAreSound == MeasureInv /\ RecordInv => ExtremesRight
  <1> SUFFICES ASSUME MeasureInv, RecordInv, report.total_count > 0 PROVE ExtremesRight
    BY DEF ExtremesRight
  <1>1. report # NoHistogram
    BY DEF NoHistogram
  <1>2. Holds(report, Reported, CorrectedOf) /\ Reported \in Bags
    BY <1>1, BagsAreBounded DEF RecordInv
  <1>3. LET seen == {r.corrected : r \in {q \in Responses : Reported[q] > 0}}
        IN  /\ HdrMin(report) = LowestEquivalent(Min(seen))
            /\ HdrMax(report) = LowestEquivalent(Max(seen))
    BY <1>2, EndsAreRight
  <1>4. LET sum == SumFunction([r \in Responses |-> Reported[r] * r.corrected])
            err == SumFunction([r \in Responses |-> Reported[r] * (r.corrected + Half)])
        IN  SubBucketCount * (MeanTotal(report) - sum) \in -err .. err
    BY <1>2, MeanIsNear
  <1> QED
    BY <1>3, <1>4 DEF ExtremesRight, Half

\* The smallest, the largest and the mean latency of the report are right to the precision
\* of the histogram (hdr_min, hdr_max and hdr_mean, over what hdr_add made).
THEOREM ExtremesAreRight == Spec => []ExtremesRight
  <1> QED
    BY MeasureInit, MeasureNext, RecordInit, RecordNext, ExtremesAreSound, PTL DEF Spec

-------------------------------------------------------------------------------
(* Corrected and uncorrected *)

\* A response is found by its uncorrected latency no later than by its corrected one.
LEMMA RanksDominate ==
    ASSUME NEW bag \in Bags, NEW h, Holds(h, bag, CorrectedOf),
           NEW u, Holds(u, bag, ActualOf), NEW rank \in 1 .. h.total_count
    PROVE  ValueAtRank(u, rank) <= ValueAtRank(h, rank)
  <1> DEFINE C(k) == Marks(bag, CorrectedOf, 0 .. Upper(k))
             A(k) == Marks(bag, ActualOf, 0 .. Upper(k))
  <1>1. /\ h \in Histograms /\ u \in Histograms /\ TotalFits(h) /\ TotalFits(u)
        /\ CountsOf(h, bag, CorrectedOf) /\ CountsOf(u, bag, ActualOf)
        /\ u.total_count = h.total_count
    <2>1. CountsOf(h, bag, CorrectedOf) /\ CountsOf(u, bag, ActualOf)
      BY DEF Holds
    <2>2. Marks(bag, CorrectedOf, Nat) = Marks(bag, ActualOf, Nat)
      BY LatenciesAreCounted, CountedUpTo DEF Marks, Latencies
    <2>3. u.total_count = h.total_count
      BY <2>2 DEF Holds
    <2> QED
      BY <2>1, <2>3, HoldsFits, LatenciesAreCounted DEF CountsOf
  <1>2. PICK k \in Indices : ValueAtRank(h, rank) = Upper(k) /\ rank <= CountsTo(h)[k]
    BY <1>1, RankIsReached
  <1>3. PICK j \in Indices : /\ ValueAtRank(u, rank) = Upper(j)
                             /\ (IF j = 0 THEN 0 ELSE CountsTo(u)[j - 1]) < rank
    BY <1>1, RankIsReached
  <1>4. /\ CountsTo(h)[k] = Cardinality(C(k)) /\ Cardinality(C(k)) \in Nat
        /\ \A i \in Indices : CountsTo(u)[i] = Cardinality(A(i))
    BY <1>1, RunsCount, MarksAreFinite
  <1>5. /\ \A i \in Indices : i \in Nat /\ From(i) \in Nat /\ Upper(i) \in Nat
                              /\ From(i) <= Upper(i)
        /\ \A i \in Indices : \A l \in Indices : l < i => Upper(l) < From(i)
        /\ \A i \in Indices : i # 0 => i - 1 \in Indices
    BY RangesFollow, RangesOrdered, Sizes DEF Indices
  <1>6. ASSUME k < j PROVE FALSE
    <2>1. j # 0 /\ j - 1 \in Indices /\ k <= j - 1
      BY <1>5, <1>6
    <2>2. Upper(k) <= Upper(j - 1)
      <3>1. CASE k = j - 1
        BY <1>5, <3>1
      <3>2. CASE k < j - 1
        <4>1. Upper(k) < From(j - 1) /\ From(j - 1) <= Upper(j - 1)
          BY <1>5, <2>1, <3>2
        <4> QED
          BY <1>5, <2>1, <4>1
      <3> QED
        BY <1>5, <2>1, <3>1, <3>2
    <2>3. C(k) \subseteq A(j - 1)
      <3>1. ASSUME NEW r \in Responses, CorrectedOf[r] \in 0 .. Upper(k)
            PROVE  ActualOf[r] \in 0 .. Upper(j - 1)
        <4>1. r.actual \in Nat /\ r.actual <= r.corrected /\ r.corrected \in Nat
          BY MeasurementAssumption
        <4>2. r.corrected <= Upper(k)
          BY <3>1 DEF CorrectedOf
        <4>3. Upper(k) \in Nat /\ Upper(j - 1) \in Nat
          BY <1>5, <2>1
        <4>4. r.actual \in 0 .. Upper(j - 1)
          BY <2>2, <4>1, <4>2, <4>3
        <4> QED
          BY <4>4 DEF ActualOf
      <3> QED
        BY <3>1 DEF Marks
    <2>4. Cardinality(C(k)) <= Cardinality(A(j - 1)) /\ Cardinality(A(j - 1)) \in Nat
      <3>1. IsFiniteSet(A(j - 1)) /\ Cardinality(A(j - 1)) \in Nat
        BY MarksAreFinite
      <3> HIDE DEF A, C
      <3> QED
        BY <2>3, <3>1, FS_Subset
    <2>5. CountsTo(u)[j - 1] = Cardinality(A(j - 1))
      BY <1>4, <2>1
    <2>6. rank <= CountsTo(h)[k] /\ CountsTo(u)[j - 1] < rank /\ rank \in Nat
      BY <1>2, <1>3, <2>1
    <2> HIDE DEF A, C
    <2> QED
      BY <1>4, <2>4, <2>5, <2>6
  <1>7. j = k \/ j < k
    BY <1>5, <1>6
  <1>8. Upper(j) <= Upper(k)
    <2>1. CASE j = k
      BY <1>5, <2>1
    <2>2. CASE j < k
      <3>1. Upper(j) < From(k) /\ From(k) <= Upper(k)
        BY <1>5, <2>2
      <3> QED
        BY <1>5, <3>1
    <2> QED
      BY <1>7, <2>1, <2>2
  <1> QED
    BY <1>2, <1>3, <1>8

LEMMA CorrectedIsSound == MeasureInv /\ RecordInv => CorrectedDominates
  <1> SUFFICES ASSUME MeasureInv, RecordInv, report # NoHistogram
               PROVE  /\ report.total_count = u_report.total_count
                      /\ \A p \in Percentiles :
                           ValueAtPercentile(report, p) >= ValueAtPercentile(u_report, p)
    BY DEF CorrectedDominates
  <1>1. /\ Holds(report, Reported, CorrectedOf) /\ Holds(u_report, Reported, ActualOf)
        /\ Reported \in Bags
    BY BagsAreBounded DEF RecordInv
  <1>2. report.total_count \in Nat /\ report \in Histograms /\ u_report \in Histograms
    BY <1>1 DEF Holds, CountsOf, Histograms
  <1>3. report.total_count = u_report.total_count
    <2>1. Marks(Reported, CorrectedOf, Nat) = Marks(Reported, ActualOf, Nat)
      BY LatenciesAreCounted, CountedUpTo DEF Marks, Latencies
    <2> QED
      BY <1>1, <2>1 DEF Holds
  <1>4. ASSUME NEW p \in Percentiles
        PROVE  ValueAtPercentile(report, p) >= ValueAtPercentile(u_report, p)
    <2> DEFINE rank == CountAtPercentile(report, p)
    <2>1. CountAtPercentile(u_report, p) = rank
      BY <1>3 DEF CountAtPercentile
    <2>2. CASE report.total_count # 0
      <3>1. rank \in 1 .. report.total_count
        BY <1>2, <2>2, RankIsRight, MeasurementAssumption
      <3> HIDE DEF rank
      <3>2. ValueAtRank(u_report, rank) <= ValueAtRank(report, rank)
        BY <1>1, <3>1, RanksDominate
      <3>3. \E k \in Indices : ValueAtRank(report, rank) = Upper(k)
        BY <1>1, <1>2, <3>1, HoldsFits, LatenciesAreCounted, RankIsReached DEF Holds
      <3>4. \E k \in Indices : ValueAtRank(u_report, rank) = Upper(k)
        BY <1>1, <1>2, <1>3, <3>1, HoldsFits, LatenciesAreCounted, RankIsReached DEF Holds
      <3>5. ValueAtRank(report, rank) \in Nat /\ ValueAtRank(u_report, rank) \in Nat
        BY <3>3, <3>4, RangesFollow
      <3> QED
        BY <2>1, <3>2, <3>5 DEF ValueAtPercentile, rank
    <2>3. CASE report.total_count = 0
      <3>1. ASSUME NEW h \in Histograms, h.total_count = 0, NEW n
            PROVE  ValueAtRank(h, n) = 0
        <4> DEFINE to == CountsTo(h)
        <4>1. to \in [Indices -> Nat]
          BY CountsToRuns DEF Runs
        <4>2. \A k \in Indices : k # 0 => k - 1 \in Indices
          BY Sizes DEF Indices
        <4>3. Visited(h) = {k \in Indices : (IF k = 0 THEN 0 ELSE to[k - 1]) < 0}
          BY <3>1 DEF Visited
        <4> HIDE DEF to
        <4>4. Visited(h) = {}
          BY <4>1, <4>2, <4>3
        <4> QED
          BY <4>4 DEF ValueAtRank
      <3>2. ValueAtPercentile(report, p) = 0 /\ ValueAtPercentile(u_report, p) = 0
        BY <1>2, <1>3, <2>3, <3>1 DEF ValueAtPercentile
      <3> QED
        BY <3>2
    <2> QED
      BY <2>2, <2>3
  <1> QED
    BY <1>3, <1>4

\* At no percentile does the report show a corrected latency below the uncorrected one, since
\* both histograms hold the same responses (response_complete, calibrate, end_warmup).
THEOREM CorrectedIsNotBelow == Spec => []CorrectedDominates
  <1> QED
    BY MeasureInit, MeasureNext, RecordInit, RecordNext, CorrectedIsSound, PTL DEF Spec
===============================================================================
