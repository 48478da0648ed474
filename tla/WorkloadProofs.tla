--------------------------- MODULE WorkloadProofs ---------------------------
(***************************************************************************)
(* Validation of a definition: the climbs of the ownership check end, and  *)
(* together they accept exactly the definitions whose components form a    *)
(* tree, for any number of components.  And the status side: what a        *)
(* definition must extract so that no status is missed.                    *)
(***************************************************************************)
EXTENDS Workload, FiniteSetTheorems, NaturalsInduction, WellFoundedInduction, TLAPS

-----------------------------------------------------------------------------
(* Orbits: what one reaches by following a function *)

\* Every nonempty set of naturals has a least element.
LEMMA LeastNat ==
  ASSUME NEW T \in SUBSET Nat, T # {}
  PROVE  \E n \in T : \A m \in T : n <= m
<1> DEFINE R == OpToRel(<, Nat)
<1>1. IsWellFoundedOn(R, Nat)
  BY NatLessThanWellFounded, Zenon
<1>2. PICK n \in T : \A m \in T : ~(<<m, n>> \in R)
  <2> HIDE DEF R
  <2> QED
    BY <1>1, WFMin, Zenon
<1>3. \A m \in T : ~(m < n)
  BY <1>2 DEF OpToRel
<1> QED
  BY <1>3

\* A set of naturals that holds 0 and every successor of a member is Nat.
LEMMA AllNat ==
  ASSUME NEW T \in SUBSET Nat, 0 \in T, \A n \in T : n + 1 \in T
  PROVE  T = Nat
<1> DEFINE Missing == Nat \ T
<1>1. SUFFICES ASSUME Missing # {} PROVE FALSE
  BY DEF Missing
<1>2. PICK n \in Missing : \A m \in Missing : n <= m
  <2>1. \A U \in SUBSET Nat : U # {} => \E n \in U : \A m \in U : n <= m
    BY LeastNat, Zenon
  <2>2. Missing \in SUBSET Nat
    OBVIOUS
  <2> HIDE DEF Missing
  <2> QED
    BY <1>1, <2>1, <2>2
<1>3. n \in Nat /\ n # 0 /\ n - 1 \in Nat /\ n - 1 \notin Missing
  BY <1>2
<1>4. n - 1 \in T /\ (n - 1) + 1 = n
  BY <1>3
<1> QED
  BY <1>2, <1>4

\* f is the orbit of c under F, as far as bound.
Follows(S, F, c, D, f) ==
  /\ f \in [D -> S]
  /\ \A i \in D : i = 0 => f[i] = c
  /\ \A i \in D : i # 0 => f[i] = F[f[i - 1]]

\* Orbits that start alike agree as far as both go.
LEMMA OrbitUnique ==
  ASSUME NEW S, NEW F, NEW c, NEW f, NEW g, NEW m \in Nat, NEW n \in Nat, n <= m,
         Follows(S, F, c, 0..m, f), Follows(S, F, c, 0..n, g)
  PROVE  \A i \in 0..n : f[i] = g[i]
<1> DEFINE T == {i \in Nat : i \in 0..n => f[i] = g[i]}
<1>1. 0 \in T
  BY DEF Follows
<1>2. ASSUME NEW i \in T PROVE i + 1 \in T
  <2>1. SUFFICES ASSUME i + 1 \in 0..n PROVE f[i + 1] = g[i + 1]
    BY <1>2
  <2>2. i \in 0..n /\ (i + 1) - 1 = i /\ i + 1 # 0 /\ i + 1 \in 0..m
    BY <1>2, <2>1
  <2>3. f[i] = g[i]
    BY <1>2, <2>2
  <2> QED
    BY <2>1, <2>2, <2>3 DEF Follows
<1>3. T = Nat
  <2> HIDE DEF T
  <2>1. T \in SUBSET Nat
    BY DEF T
  <2> QED
    BY <1>1, <1>2, <2>1, AllNat
<1> QED
  BY <1>3

\* The orbit of c goes on for ever.
LEMMA OrbitExists ==
  ASSUME NEW S, NEW F \in [S -> S], NEW c \in S
  PROVE  \E f : Follows(S, F, c, Nat, f)
<1> DEFINE T == {n \in Nat : \E f : Follows(S, F, c, 0..n, f)}
<1>1. 0 \in T
  <2> DEFINE f == [i \in 0..0 |-> c]
  <2>1. Follows(S, F, c, 0..0, f)
    BY DEF Follows
  <2> QED
    BY <2>1
<1>2. ASSUME NEW n \in T PROVE n + 1 \in T
  <2>1. n \in Nat
    BY <1>2
  <2>2. PICK f : Follows(S, F, c, 0..n, f)
    BY <1>2
  <2> DEFINE g == [i \in 0..(n + 1) |-> IF i = n + 1 THEN F[f[n]] ELSE f[i]]
  <2>3. \A i \in 0..(n + 1) : i # n + 1 => i \in 0..n
    BY <2>1
  <2>4. n \in 0..n /\ f \in [0..n -> S]
    BY <2>1, <2>2 DEF Follows
  <2>5. g \in [0..(n + 1) -> S]
    BY <2>3, <2>4
  <2>6. ASSUME NEW i \in 0..(n + 1) PROVE (i = 0 => g[i] = c) /\ (i # 0 => g[i] = F[g[i - 1]])
    <3>1. CASE i = n + 1
      <4>1. i # 0 /\ i - 1 = n /\ n \in 0..(n + 1) /\ n # n + 1
        BY <2>1, <3>1
      <4> QED
        BY <3>1, <4>1
    <3>2. CASE i # n + 1
      <4>1. i \in 0..n /\ (i # 0 => i - 1 \in 0..(n + 1) /\ i - 1 # n + 1)
        BY <2>1, <2>3, <3>2
      <4>2. g[i] = f[i] /\ (i # 0 => g[i - 1] = f[i - 1])
        BY <3>2, <4>1
      <4> QED
        BY <2>2, <4>1, <4>2 DEF Follows
    <3> QED
      BY <3>1, <3>2
  <2>7. Follows(S, F, c, 0..(n + 1), g)
    <3> HIDE DEF g
    <3> QED
      BY <2>5, <2>6 DEF Follows
  <2> QED
    BY <2>1, <2>7
<1>3. T = Nat
  <2> HIDE DEF T
  <2>1. T \in SUBSET Nat
    BY DEF T
  <2> QED
    BY <1>1, <1>2, <2>1, AllNat
<1> DEFINE pick(n) == CHOOSE f : Follows(S, F, c, 0..n, f)
           h == [n \in Nat |-> pick(n)[n]]
<1>4. ASSUME NEW n \in Nat PROVE Follows(S, F, c, 0..n, pick(n))
  BY <1>3, Zenon
<1>5. h \in [Nat -> S]
  <2> HIDE DEF pick
  <2>1. ASSUME NEW n \in Nat PROVE pick(n)[n] \in S
    BY <1>4 DEF Follows
  <2> QED
    BY <2>1
<1>6. h[0] = c
  <2> HIDE DEF pick
  <2>1. 0 \in 0..0
    OBVIOUS
  <2> QED
    BY <1>4, <2>1 DEF Follows
<1>7. ASSUME NEW n \in Nat, n # 0 PROVE h[n] = F[h[n - 1]]
  <2> HIDE DEF pick
  <2>1. n - 1 \in Nat /\ 0..(n - 1) \subseteq 0..n /\ n \in 0..n /\ n - 1 \in 0..(n - 1)
    BY <1>7
  <2>2. pick(n)[n - 1] = pick(n - 1)[n - 1]
    <3>1. Follows(S, F, c, 0..n, pick(n)) /\ Follows(S, F, c, 0..(n - 1), pick(n - 1))
      BY <1>4, <2>1
    <3>2. n - 1 <= n
      OBVIOUS
    <3>3. \A i \in 0..(n - 1) : pick(n)[i] = pick(n - 1)[i]
      <4> HIDE <1>4
      <4> QED
        BY <2>1, <3>1, <3>2, OrbitUnique
    <3> QED
      BY <2>1, <3>3
  <2>3. pick(n)[n] = F[pick(n)[n - 1]]
    BY <1>4, <1>7, <2>1 DEF Follows
  <2> QED
    BY <2>1, <2>2, <2>3
<1> QED
  <2> HIDE DEF h
  <2>1. Follows(S, F, c, Nat, h)
    BY <1>5, <1>6, <1>7 DEF Follows
  <2> QED
    BY <2>1

Orbit(S, F, c) == CHOOSE f : Follows(S, F, c, Nat, f)

IsOrbit(S, F, c, f) ==
  /\ f \in [Nat -> S]
  /\ f[0] = c
  /\ \A i \in Nat : f[i] \in S /\ f[i + 1] = F[f[i]]

\* What the orbit is.
LEMMA OrbitFacts ==
  ASSUME NEW S, NEW F \in [S -> S], NEW c \in S
  PROVE  IsOrbit(S, F, c, Orbit(S, F, c))
<1>1. Follows(S, F, c, Nat, Orbit(S, F, c))
  BY OrbitExists, Zenon DEF Orbit
<1>2. \A i \in Nat : i + 1 \in Nat /\ i + 1 # 0 /\ (i + 1) - 1 = i
  OBVIOUS
<1> QED
  BY <1>1, <1>2 DEF Follows, IsOrbit

\* The orbit of a point on an orbit is the rest of it.
LEMMA OrbitShift ==
  ASSUME NEW S, NEW F \in [S -> S], NEW c \in S, NEW p \in Nat
  PROVE  \A i \in Nat : Orbit(S, F, Orbit(S, F, c)[p])[i] = Orbit(S, F, c)[p + i]
<1> DEFINE f == Orbit(S, F, c)
           g == Orbit(S, F, f[p])
           T == {i \in Nat : g[i] = f[p + i]}
<1>0. \A d \in S : IsOrbit(S, F, d, Orbit(S, F, d))
  BY OrbitFacts
<1>1. f[p] \in S /\ \A i \in Nat : f[i + 1] = F[f[i]]
  BY <1>0 DEF IsOrbit
<1>2. g[0] = f[p] /\ \A i \in Nat : g[i + 1] = F[g[i]]
  <2> HIDE DEF f
  <2> QED
    BY <1>0, <1>1 DEF IsOrbit
<1> HIDE DEF f, g
<1>3. 0 \in T
  BY <1>2
<1>4. ASSUME NEW i \in T PROVE i + 1 \in T
  <2>1. i \in Nat /\ i + 1 \in Nat /\ p + i \in Nat /\ p + (i + 1) = (p + i) + 1 /\ g[i] = f[p + i]
    BY <1>4
  <2> QED
    BY <1>1, <1>2, <2>1
<1>5. T = Nat
  <2>1. T \in SUBSET Nat
    OBVIOUS
  <2> HIDE DEF T
  <2> QED
    BY <1>3, <1>4, <2>1, AllNat
<1> QED
  BY <1>5 DEF f, g

\* An orbit that reaches a fixed point stays there.
LEMMA OrbitStays ==
  ASSUME NEW S, NEW F \in [S -> S], NEW c \in S, NEW root, F[root] = root,
         NEW m \in Nat, Orbit(S, F, c)[m] = root
  PROVE  \A i \in Nat : m <= i => Orbit(S, F, c)[i] = root
<1> DEFINE f == Orbit(S, F, c)
           T == {i \in Nat : f[m + i] = root}
<1>1. \A i \in Nat : f[i + 1] = F[f[i]]
  <2>1. IsOrbit(S, F, c, f)
    BY OrbitFacts
  <2> QED
    BY <2>1 DEF IsOrbit
<1>2. f[m] = root
  OBVIOUS
<1> HIDE DEF f
<1>3. 0 \in T
  BY <1>2
<1>4. ASSUME NEW i \in T PROVE i + 1 \in T
  <2>1. i \in Nat /\ i + 1 \in Nat /\ m + i \in Nat /\ m + (i + 1) = (m + i) + 1 /\ f[m + i] = root
    BY <1>4
  <2> QED
    BY <1>1, <2>1
<1>5. T = Nat
  <2>1. T \in SUBSET Nat
    OBVIOUS
  <2> HIDE DEF T
  <2> QED
    BY <1>3, <1>4, <2>1, AllNat
<1>6. ASSUME NEW i \in Nat, m <= i PROVE f[i] = root
  <2>1. i - m \in Nat /\ m + (i - m) = i
    BY <1>6
  <2>2. f[m + (i - m)] = root
    BY <1>5, <2>1
  <2> QED
    BY <2>1, <2>2
<1> QED
  BY <1>6 DEF f

\* One that returns to where it started, elsewhere, never gets there.
LEMMA OrbitNoReturn ==
  ASSUME NEW S, NEW F \in [S -> S], NEW c \in S, NEW root, F[root] = root, c # root,
         NEW p \in Nat, p # 0, Orbit(S, F, c)[p] = c
  PROVE  \A m \in Nat : Orbit(S, F, c)[m] # root
<1> DEFINE f == Orbit(S, F, c)
           T == {m \in Nat : f[m] = root}
<1>1. SUFFICES ASSUME T # {} PROVE FALSE
  OBVIOUS
<1>2. PICK n \in T : \A m \in T : n <= m
  <2>1. T \in SUBSET Nat
    OBVIOUS
  <2> HIDE DEF T
  <2> QED
    BY <1>1, <2>1, LeastNat, Zenon
<1>3. n \in Nat /\ f[n] = root /\ f[p] = c
  BY <1>2
<1>4. \A i \in Nat : f[i] = f[p + i]
  BY OrbitShift
<1>5. n < p
  <2>1. SUFFICES ASSUME p <= n PROVE FALSE
    BY <1>3
  <2>2. n - p \in Nat /\ p + (n - p) = n /\ n - p < n
    BY <1>3, <2>1
  <2>3. n - p \in T
    BY <1>3, <1>4, <2>2
  <2> HIDE DEF T
  <2> QED
    BY <1>2, <1>3, <2>2, <2>3
<1>6. f[p] = root
  BY <1>3, <1>5, OrbitStays
<1> QED
  BY <1>3, <1>6

\* One that gets there gets there without a repetition: as many steps as there
\* are other points are enough.
LEMMA OrbitShort ==
  ASSUME NEW S, NEW F \in [S -> S], NEW c \in S, NEW root, F[root] = root,
         IsFiniteSet(S), NEW L \in Nat, Cardinality(S) <= L + 1,
         NEW m \in Nat, Orbit(S, F, c)[m] = root
  PROVE  Orbit(S, F, c)[L] = root
<1> DEFINE f == Orbit(S, F, c)
           T == {i \in Nat : f[i] = root}
<1>1. PICK n \in T : \A i \in T : n <= i
  <2>1. T \in SUBSET Nat /\ T # {}
    OBVIOUS
  <2> HIDE DEF T
  <2> QED
    BY <2>1, LeastNat, Zenon
<1>2. n \in Nat /\ f[n] = root /\ f \in [Nat -> S]
  BY <1>1, OrbitFacts DEF IsOrbit
<1>3. n <= L
  <2>1. SUFFICES ASSUME L < n PROVE FALSE
    BY <1>2
  <2> DEFINE h == [i \in 0..n |-> f[i]]
  <2>2. h \in [0..n -> S]
    BY <1>2
  <2>3. IsFiniteSet(0..n) /\ Cardinality(0..n) = n + 1
    <3>1. 0 \in Int /\ n \in Int /\ ~(0 > n) /\ n - 0 + 1 = n + 1
      BY <1>2
    <3> QED
      BY <3>1, FS_Interval
  <2>4. Cardinality(S) \in Nat
    BY FS_CardinalityType
  <2>5. Cardinality(S) < Cardinality(0..n)
    BY <1>2, <2>1, <2>3, <2>4
  <2>6. \E x, y \in 0..n : x # y /\ h[x] = h[y]
    <3>1. ASSUME NEW A, IsFiniteSet(A), Cardinality(S) < Cardinality(A), NEW e \in [A -> S]
          PROVE  \E x, y \in A : x # y /\ e[x] = e[y]
      BY <3>1, FS_PigeonHole
    <3> HIDE DEF h
    <3> QED
      BY <2>2, <2>3, <2>5, <3>1
  <2>7. PICK i \in 0..n, j \in 0..n : i < j /\ f[i] = f[j]
    <3>1. PICK x \in 0..n, y \in 0..n : x # y /\ f[x] = f[y]
      BY <2>6
    <3> QED
      BY <3>1
  <2>8. i \in Nat /\ j \in Nat /\ i < n /\ j - i \in Nat /\ j - i # 0 /\ n - i \in Nat
          /\ i + (j - i) = j /\ i + (n - i) = n
    BY <1>2, <2>7
  <2>9. f[i] # root /\ f[i] \in S
    <3>1. i \notin T
      <4> HIDE DEF T
      <4> QED
        BY <1>1, <1>2, <2>8
    <3> QED
      BY <1>2, <2>8, <3>1
  <2>10. \A d \in Nat : Orbit(S, F, f[i])[d] = f[i + d]
    BY <2>8, OrbitShift
  <2>11. Orbit(S, F, f[i])[j - i] = f[i] /\ Orbit(S, F, f[i])[n - i] = root
    BY <1>2, <2>7, <2>8, <2>10
  <2> HIDE DEF f
  <2> QED
    BY <2>8, <2>9, <2>11, OrbitNoReturn
<1> QED
  BY <1>2, <1>3, OrbitStays

-----------------------------------------------------------------------------
(* A climb to the root that gives up at what it has seen *)

Climbing(S, F, root, f) ==
  f = [at \in S \X SUBSET S |->
         IF at[1] \in at[2] THEN "cycle"
         ELSE IF at[1] = root THEN "root" ELSE f[<<F[at[1]], at[2] \cup {at[1]}>>]]

Reaches(S, F, root, c) == \E m \in Nat : Orbit(S, F, c)[m] = root
ReachesAvoiding(S, F, root, c, v) ==
  \E m \in Nat : Orbit(S, F, c)[m] = root /\ \A j \in 0..m : Orbit(S, F, c)[j] \notin v
ClimbEnd(S, F, root, c, v) == IF ReachesAvoiding(S, F, root, c, v) THEN "root" ELSE "cycle"

EndsAsItGoes(S, F, root, c, v) ==
  ClimbEnd(S, F, root, c, v) =
    IF c \in v THEN "cycle"
    ELSE IF c = root THEN "root" ELSE ClimbEnd(S, F, root, F[c], v \cup {c})

\* Where a climb ends, one step at a time.
LEMMA ClimbStep ==
  ASSUME NEW S, NEW F \in [S -> S], NEW root \in S, F[root] = root,
         NEW c \in S, NEW v \in SUBSET S
  PROVE  EndsAsItGoes(S, F, root, c, v)
<1> DEFINE f == Orbit(S, F, c)
           g == Orbit(S, F, F[c])
<1>1. f[0] = c /\ f[1] = F[c] /\ \A i \in Nat : f[i] \in S
  <2>1. IsOrbit(S, F, c, f)
    BY OrbitFacts
  <2> HIDE DEF f
  <2>2. 0 \in Nat /\ 0 + 1 = 1
    OBVIOUS
  <2> QED
    BY <2>1, <2>2 DEF IsOrbit
<1>2. \A i \in Nat : g[i] = f[1 + i]
  <2>1. \A i \in Nat : Orbit(S, F, Orbit(S, F, c)[1])[i] = Orbit(S, F, c)[1 + i]
    BY OrbitShift
  <2> QED
    BY <1>1, <2>1
<1>3. CASE c \in v
  <2>1. ~ReachesAvoiding(S, F, root, c, v)
    <3>1. \A m \in Nat : 0 \in 0..m
      OBVIOUS
    <3> QED
      BY <1>1, <1>3, <3>1 DEF ReachesAvoiding
  <2> QED
    BY <1>3, <2>1 DEF ClimbEnd, EndsAsItGoes
<1>4. CASE c \notin v /\ c = root
  <2>1. ReachesAvoiding(S, F, root, c, v)
    <3>1. 0 \in Nat /\ \A j \in 0..0 : j = 0
      OBVIOUS
    <3> QED
      BY <1>1, <1>4, <3>1 DEF ReachesAvoiding
  <2> QED
    BY <1>4, <2>1 DEF ClimbEnd, EndsAsItGoes
<1>5. CASE c \notin v /\ c # root
  <2>1. ASSUME ReachesAvoiding(S, F, root, c, v)
        PROVE  ReachesAvoiding(S, F, root, F[c], v \cup {c})
    <3>1. PICK m \in Nat : f[m] = root /\ \A j \in 0..m : f[j] \notin v
      BY <2>1 DEF ReachesAvoiding
    <3>2. m # 0
      BY <1>1, <1>5, <3>1
    <3>3. m - 1 \in Nat /\ 1 + (m - 1) = m
      BY <3>2
    <3>4. g[m - 1] = root
      BY <1>2, <3>1, <3>3
    <3>5. ASSUME NEW j \in 0..(m - 1) PROVE g[j] \notin v \cup {c}
      <4>1. j \in Nat /\ 1 + j \in 0..m /\ 1 + j \in Nat /\ 1 + j # 0
        BY <3>3
      <4>2. g[j] = f[1 + j] /\ f[1 + j] \notin v
        BY <1>2, <3>1, <4>1
      <4>3. f[1 + j] # c
        BY <1>5, <3>1, <4>1, OrbitNoReturn
      <4> QED
        BY <4>2, <4>3
    <3> HIDE DEF g
    <3>6. \E i \in Nat : g[i] = root /\ \A j \in 0..i : g[j] \notin v \cup {c}
      BY <3>3, <3>4, <3>5
    <3> QED
      BY <3>6 DEF ReachesAvoiding, g
  <2>2. ASSUME ReachesAvoiding(S, F, root, F[c], v \cup {c})
        PROVE  ReachesAvoiding(S, F, root, c, v)
    <3>1. PICK m \in Nat : g[m] = root /\ \A j \in 0..m : g[j] \notin v \cup {c}
      BY <2>2 DEF ReachesAvoiding
    <3>2. m + 1 \in Nat /\ 1 + m = m + 1
      OBVIOUS
    <3>3. f[m + 1] = root
      BY <1>2, <3>1, <3>2
    <3>4. ASSUME NEW j \in 0..(m + 1) PROVE f[j] \notin v
      <4>1. CASE j = 0
        BY <1>1, <1>5, <4>1
      <4>2. CASE j # 0
        <5>1. j - 1 \in 0..m /\ j - 1 \in Nat /\ 1 + (j - 1) = j
          BY <4>2
        <5> QED
          BY <1>2, <3>1, <5>1
      <4> QED
        BY <4>1, <4>2
    <3> HIDE DEF f
    <3>5. \E i \in Nat : f[i] = root /\ \A j \in 0..i : f[j] \notin v
      BY <3>2, <3>3, <3>4
    <3> QED
      BY <3>5 DEF ReachesAvoiding, f
  <2> QED
    BY <1>5, <2>1, <2>2 DEF ClimbEnd, EndsAsItGoes
<1> QED
  BY <1>3, <1>4, <1>5 DEF EndsAsItGoes

\* A function with these values exists.
LEMMA ClimbExists ==
  ASSUME NEW S, NEW F \in [S -> S], NEW root \in S, F[root] = root
  PROVE  \E f : Climbing(S, F, root, f)
<1> DEFINE g == [at \in S \X SUBSET S |-> ClimbEnd(S, F, root, at[1], at[2])]
<1>0. \A c \in S, v \in SUBSET S : EndsAsItGoes(S, F, root, c, v)
  BY ClimbStep
<1>1. ASSUME NEW at \in S \X SUBSET S
      PROVE  g[at] = IF at[1] \in at[2] THEN "cycle"
                     ELSE IF at[1] = root THEN "root" ELSE g[<<F[at[1]], at[2] \cup {at[1]}>>]
  <2>1. at[1] \in S /\ at[2] \in SUBSET S /\ F[at[1]] \in S /\ at[2] \cup {at[1]} \in SUBSET S
    OBVIOUS
  <2>2. g[at] = ClimbEnd(S, F, root, at[1], at[2])
    OBVIOUS
  <2>3. <<F[at[1]], at[2] \cup {at[1]}>> \in S \X SUBSET S
    BY <2>1
  <2>4. g[<<F[at[1]], at[2] \cup {at[1]}>>] = ClimbEnd(S, F, root, F[at[1]], at[2] \cup {at[1]})
    BY <2>3
  <2> HIDE DEF g
  <2> QED
    BY <1>0, <2>1, <2>2, <2>4 DEF EndsAsItGoes
<1>2. Climbing(S, F, root, g)
  BY <1>1 DEF Climbing
<1> QED
  BY <1>2

\* And no other does, whatever has been seen, for the names not yet seen run out.
LEMMA ClimbValue ==
  ASSUME NEW S, NEW F \in [S -> S], NEW root \in S, F[root] = root, IsFiniteSet(S),
         NEW f, Climbing(S, F, root, f), NEW name \in S, NEW seen \in SUBSET S
  PROVE  f[<<name, seen>>] = ClimbEnd(S, F, root, name, seen)
<1> DEFINE Differ(c, v) == f[<<c, v>>] # ClimbEnd(S, F, root, c, v)
           Left(v) == Cardinality(S \ v)
           T == {Left(v) : v \in {w \in SUBSET S : \E c \in S : Differ(c, w)}}
<1>0. \A c \in S, v \in SUBSET S : EndsAsItGoes(S, F, root, c, v)
  BY ClimbStep
<1>1. ASSUME NEW v \in SUBSET S PROVE IsFiniteSet(S \ v) /\ Left(v) \in Nat
  <2>1. S \ v \in SUBSET S
    OBVIOUS
  <2> QED
    BY <2>1, FS_Subset, FS_CardinalityType
<1>2. SUFFICES ASSUME T # {} PROVE FALSE
  OBVIOUS
<1>3. PICK n \in T : \A m \in T : n <= m
  <2>1. T \in SUBSET Nat
    BY <1>1
  <2> HIDE DEF T
  <2> QED
    BY <1>2, <2>1, LeastNat, Zenon
<1>4. PICK v \in SUBSET S, c \in S : Left(v) = n /\ Differ(c, v)
  BY <1>3
<1>5. f[<<c, v>>] = IF c \in v THEN "cycle"
                    ELSE IF c = root THEN "root" ELSE f[<<F[c], v \cup {c}>>]
  <2>1. <<c, v>> \in S \X SUBSET S /\ <<c, v>>[1] = c /\ <<c, v>>[2] = v
    OBVIOUS
  <2> QED
    BY <2>1 DEF Climbing
<1>6. c \notin v /\ c # root /\ Differ(F[c], v \cup {c})
  BY <1>0, <1>4, <1>5 DEF EndsAsItGoes
<1>7. v \cup {c} \in SUBSET S /\ F[c] \in S /\ Left(v \cup {c}) = Left(v) - 1
  <2>1. S \ (v \cup {c}) = (S \ v) \ {c} /\ c \in S \ v
    BY <1>6
  <2>2. Cardinality((S \ v) \ {c}) = Cardinality(S \ v) - 1
    BY <1>1, <2>1, FS_RemoveElement
  <2> QED
    BY <2>1, <2>2
<1>8. Left(v \cup {c}) \in T
  BY <1>6, <1>7
<1>9. Left(v) \in Nat /\ Left(v) = n /\ n <= Left(v \cup {c})
  <2> HIDE DEF T, Differ, Left
  <2> QED
    BY <1>1, <1>3, <1>4, <1>8
<1> HIDE DEF T, Differ, Left
<1> QED
  BY <1>7, <1>9

-----------------------------------------------------------------------------
(* Components and their owners *)

OwnersExist(k) == \A i \in DOMAIN k.children : k.children[i].owner \in NamesOf(k)

\* A definition in which owners can be followed.
Followable(k) == IsDefinition(k) /\ OwnersExist(k) /\ k.root.owner = Null

\* The owner of a component, the root for the root.
Up(k) == [n \in NamesOf(k) |-> IF n = k.root.name THEN n ELSE Named(k, n).owner]

\* The names of the components, and how many there can be.
LEMMA Names ==
  ASSUME NEW k, IsDefinition(k)
  PROVE  /\ Len(k.children) \in Nat /\ DOMAIN k.children = 1..Len(k.children)
         /\ NamesOf(k) = {k.root.name} \cup {k.children[i].name : i \in DOMAIN k.children}
         /\ IsFiniteSet(NamesOf(k)) /\ Cardinality(NamesOf(k)) <= Len(k.children) + 1
<1> DEFINE C == {k.children[i] : i \in DOMAIN k.children}
           L == Len(k.children)
           A == AllComponents(k)
<1>1. k.children \in Seq(C) /\ L \in Nat /\ DOMAIN k.children = 1..L
  BY DEF IsDefinition
<1>2. A = <<k.root>> \o k.children /\ <<k.root>> \in Seq({k.root}) /\ Len(<<k.root>>) = 1
  BY DEF AllComponents
<1>3. DOMAIN A = 1..(L + 1) /\ A[1] = k.root /\ \A i \in 1..L : A[i + 1] = k.children[i]
  <2> HIDE DEF L, C
  <2> QED
    BY <1>1, <1>2 DEF L
<1>4. NamesOf(k) = {A[i].name : i \in 1..(L + 1)}
  BY <1>3 DEF NamesOf
<1>5. NamesOf(k) = {k.root.name} \cup {k.children[i].name : i \in DOMAIN k.children}
  <2> HIDE DEF A, L
  <2>1. \A i \in 1..(L + 1) : i = 1 \/ (i - 1 \in 1..L /\ A[i] = k.children[i - 1])
    <3>1. ASSUME NEW i \in 1..(L + 1), i # 1 PROVE i - 1 \in 1..L /\ (i - 1) + 1 = i
      BY <1>1, <3>1
    <3> QED
      BY <1>3, <3>1
  <2>2. 1 \in 1..(L + 1) /\ \A i \in 1..L : i + 1 \in 1..(L + 1)
    BY <1>1
  <2> DEFINE R == {k.root.name} \cup {k.children[i].name : i \in 1..L}
  <2>3. ASSUME NEW i \in 1..(L + 1) PROVE A[i].name \in R
    BY <1>3, <2>1
  <2>4. ASSUME NEW i \in 1..L PROVE k.children[i].name \in NamesOf(k)
    <3>1. A[i + 1].name \in NamesOf(k)
      BY <1>4, <2>2
    <3> QED
      BY <1>3, <3>1
  <2>5. k.root.name \in NamesOf(k)
    BY <1>3, <1>4, <2>2
  <2> QED
    BY <1>1, <1>4, <2>3, <2>4, <2>5
<1>6. IsFiniteSet(NamesOf(k)) /\ Cardinality(NamesOf(k)) <= L + 1
  <2> DEFINE f == [i \in 1..(L + 1) |-> A[i].name]
  <2>1. IsFiniteSet(1..(L + 1)) /\ Cardinality(1..(L + 1)) = L + 1
    <3>1. 1 \in Int /\ L + 1 \in Int /\ ~(1 > L + 1) /\ (L + 1) - 1 + 1 = L + 1
      BY <1>1
    <3> QED
      BY <3>1, FS_Interval
  <2>2. f \in Surjection(1..(L + 1), NamesOf(k))
    <3> HIDE DEF A, L
    <3> QED
      BY <1>4 DEF Surjection
  <2> HIDE DEF f, L
  <2> QED
    BY <2>1, <2>2, FS_Surjection
<1> QED
  BY <1>1, <1>5, <1>6

\* A name that is not the root's is that of the child it names.
LEMMA NamedIsChild ==
  ASSUME NEW k, IsDefinition(k), NEW n \in NamesOf(k), n # k.root.name
  PROVE  \E i \in DOMAIN k.children : Named(k, n) = k.children[i] /\ k.children[i].name = n
<1> DEFINE L == Len(k.children)
           Bearers == {i \in 1..L : k.children[i].name = n}
           T == {L - i : i \in Bearers}
<1>1. L \in Nat /\ DOMAIN k.children = 1..L /\ Bearers # {}
  BY Names
<1>2. PICK m \in T : \A x \in T : m <= x
  <2>1. \A i \in 1..L : L - i \in Nat
    BY <1>1
  <2>2. T \in SUBSET Nat /\ T # {}
    <3> HIDE DEF L
    <3> QED
      BY <1>1, <2>1
  <2> HIDE DEF T
  <2> QED
    BY <2>2, LeastNat, Zenon
<1>3. PICK i \in Bearers : m = L - i
  BY <1>2
<1>4. \A j \in 1..L : k.children[j].name = n => j <= i
  <2>1. ASSUME NEW j \in Bearers PROVE j <= i
    <3>1. L - j \in T
      OBVIOUS
    <3>2. L - i <= L - j
      <4> HIDE DEF T
      <4> QED
        BY <1>2, <1>3, <3>1
    <3> QED
      BY <1>1, <3>2
  <2> QED
    BY <2>1
<1> DEFINE j == CHOOSE j \in DOMAIN k.children :
                  /\ k.children[j].name = n
                  /\ \A x \in DOMAIN k.children : k.children[x].name = n => x <= j
<1>5. j \in DOMAIN k.children /\ k.children[j].name = n
  <2>1. \E y \in DOMAIN k.children :
          /\ k.children[y].name = n
          /\ \A x \in DOMAIN k.children : k.children[x].name = n => x <= y
    BY <1>1, <1>3, <1>4
  <2> QED
    BY <2>1
<1>6. Named(k, n) = k.children[j]
  BY DEF Named
<1> QED
  BY <1>5, <1>6

\* Owners can be followed from every name, and only the root has none.
LEMMA UpFacts ==
  ASSUME NEW k, Followable(k)
  PROVE  /\ Up(k) \in [NamesOf(k) -> NamesOf(k)]
         /\ k.root.name \in NamesOf(k) /\ Up(k)[k.root.name] = k.root.name
         /\ \A n \in NamesOf(k) :
              IF n = k.root.name THEN Named(k, n).owner = Null
              ELSE Named(k, n).owner # Null /\ Named(k, n).owner = Up(k)[n]
<1>1. k.root.name \in NamesOf(k)
  BY Names DEF Followable
<1>2. Named(k, k.root.name).owner = Null
  BY DEF Named, Followable
<1>3. ASSUME NEW n \in NamesOf(k), n # k.root.name
      PROVE  Named(k, n).owner \in NamesOf(k) /\ Named(k, n).owner # Null
  <2>1. PICK i \in DOMAIN k.children : Named(k, n) = k.children[i]
    BY <1>3, NamedIsChild DEF Followable
  <2> QED
    BY <2>1 DEF Followable, OwnersExist, IsDefinition
<1> QED
  BY <1>1, <1>2, <1>3 DEF Up

-----------------------------------------------------------------------------
(* Folds over the children *)

\* The largest of the first indices, and what precedes it.
LEMMA MaxFacts ==
  ASSUME NEW L \in Nat
  PROVE  /\ \A s \in SUBSET (1..L) : s # {} => Max(s) \in s /\ s \ {Max(s)} \in SUBSET (1..L)
         /\ \A i \in 1..L : Max(1..i) = i /\ (1..i) \ {i} = 1..(i - 1) /\ 1..i # {}
<1>1. ASSUME NEW s \in SUBSET (1..L), s # {} PROVE Max(s) \in s
  <2> DEFINE T == {L - i : i \in s}
  <2>1. \A i \in s : i \in Nat /\ L - i \in Nat
    OBVIOUS
  <2>2. PICK m \in T : \A x \in T : m <= x
    <3>1. T \in SUBSET Nat /\ T # {}
      BY <1>1, <2>1
    <3> HIDE DEF T
    <3> QED
      BY <3>1, LeastNat, Zenon
  <2>3. PICK i \in s : m = L - i
    BY <2>2
  <2>4. ASSUME NEW j \in s PROVE i >= j
    <3>1. L - j \in T
      OBVIOUS
    <3>2. L - i <= L - j
      <4> HIDE DEF T
      <4> QED
        BY <2>2, <2>3, <3>1
    <3> QED
      BY <2>1, <3>2
  <2>5. \E x \in s : \A y \in s : x >= y
    BY <2>4
  <2> QED
    BY <2>5 DEF Max
<1>2. ASSUME NEW i \in 1..L PROVE Max(1..i) = i /\ (1..i) \ {i} = 1..(i - 1) /\ 1..i # {}
  <2>1. i \in 1..i /\ \A y \in 1..i : i >= y
    OBVIOUS
  <2>2. \A x \in 1..i : (\A y \in 1..i : x >= y) => x = i
    OBVIOUS
  <2>3. Max(1..i) = i
    BY <2>1, <2>2 DEF Max
  <2> QED
    BY <2>1, <2>3
<1> QED
  BY <1>1, <1>2

\* f is the fold of the climb from c, one step for each child.
ClimbFold(k, c, f) ==
  f = [s \in SUBSET DOMAIN k.children |->
         IF s = {} THEN c
         ELSE IF f[s \ {Max(s)}] = k.root.name THEN k.root.name
              ELSE Named(k, f[s \ {Max(s)}]).owner]

\* Climbing as often as there are children follows the orbit so far.
LEMMA ClimbFoldValue ==
  ASSUME NEW k, Followable(k), NEW c \in NamesOf(k)
  PROVE  (CHOOSE f : ClimbFold(k, c, f))[DOMAIN k.children]
           = Orbit(NamesOf(k), Up(k), c)[Len(k.children)]
<1> DEFINE N == NamesOf(k)
           L == Len(k.children)
           orbit == Orbit(N, Up(k), c)
           next(n) == IF n = k.root.name THEN k.root.name ELSE Named(k, n).owner
<1>1. L \in Nat /\ DOMAIN k.children = 1..L
  BY Names DEF Followable
<1>2. orbit[0] = c /\ \A i \in Nat : orbit[i] \in N /\ orbit[i + 1] = next(orbit[i])
  <2>1. IsOrbit(N, Up(k), c, orbit)
    <3>1. Up(k) \in [N -> N]
      BY UpFacts
    <3> QED
      BY <3>1, OrbitFacts
  <2>2. \A n \in N : Up(k)[n] = next(n)
    BY UpFacts
  <2> HIDE DEF orbit, next
  <2> QED
    BY <2>1, <2>2 DEF IsOrbit
<1> HIDE DEF orbit, next, L
<1>3. \E f : ClimbFold(k, c, f)
  <2> DEFINE g == [s \in SUBSET (1..L) |-> orbit[Cardinality(s)]]
  <2>1. ASSUME NEW s \in SUBSET (1..L)
        PROVE  g[s] = IF s = {} THEN c ELSE next(g[s \ {Max(s)}])
    <3>1. IsFiniteSet(1..L)
      BY <1>1, FS_Interval
    <3>2. IsFiniteSet(s) /\ Cardinality(s) \in Nat
      BY <3>1, FS_Subset, FS_CardinalityType
    <3>3. CASE s = {}
      BY <1>2, <3>3, FS_EmptySet
    <3>4. CASE s # {}
      <4>1. Max(s) \in s /\ s \ {Max(s)} \in SUBSET (1..L)
        BY <1>1, <3>4, MaxFacts
      <4>2. IsFiniteSet(s \ {Max(s)}) /\ Cardinality(s \ {Max(s)}) = Cardinality(s) - 1
        BY <3>2, <4>1, FS_RemoveElement
      <4>3. Cardinality(s) - 1 \in Nat /\ (Cardinality(s) - 1) + 1 = Cardinality(s)
        BY <3>2, <4>2, FS_CardinalityType
      <4>4. g[s \ {Max(s)}] = orbit[Cardinality(s) - 1] /\ g[s] = orbit[Cardinality(s)]
        BY <4>1, <4>2
      <4> HIDE DEF g
      <4> QED
        BY <1>2, <3>4, <4>3, <4>4
    <3> QED
      BY <3>3, <3>4
  <2>2. g = [s \in SUBSET (1..L) |-> IF s = {} THEN c ELSE next(g[s \ {Max(s)}])]
    <3>1. g = [s \in SUBSET (1..L) |-> g[s]]
      OBVIOUS
    <3> HIDE DEF g
    <3> QED
      BY <2>1, <3>1
  <2>3. ClimbFold(k, c, g)
    <3> HIDE DEF g
    <3> QED
      BY <1>1, <2>2 DEF ClimbFold, next
  <2> QED
    BY <2>3
<1> DEFINE f == CHOOSE f : ClimbFold(k, c, f)
<1>4. ClimbFold(k, c, f)
  BY <1>3
<1> HIDE DEF f
<1>5. \A s \in SUBSET (1..L) : f[s] = IF s = {} THEN c ELSE next(f[s \ {Max(s)}])
  BY <1>1, <1>4 DEF ClimbFold, next
<1> DEFINE T == {i \in Nat : i <= L => f[1..i] = orbit[i]}
<1>6. 0 \in T
  <2>1. 1..0 = {} /\ {} \in SUBSET (1..L)
    OBVIOUS
  <2> QED
    BY <1>2, <1>5, <2>1
<1>7. ASSUME NEW i \in T PROVE i + 1 \in T
  <2>1. SUFFICES ASSUME i + 1 <= L PROVE f[1..(i + 1)] = orbit[i + 1]
    BY <1>7
  <2>2. i \in Nat /\ f[1..i] = orbit[i] /\ i + 1 \in 1..L /\ (i + 1) - 1 = i
    BY <1>1, <1>7, <2>1
  <2>3. Max(1..(i + 1)) = i + 1 /\ (1..(i + 1)) \ {i + 1} = 1..i /\ 1..(i + 1) # {}
    BY <1>1, <2>2, MaxFacts
  <2>4. 1..(i + 1) \in SUBSET (1..L)
    BY <1>1, <2>2
  <2>5. f[1..(i + 1)] = next(f[1..i])
    BY <1>5, <2>3, <2>4
  <2> QED
    BY <1>2, <2>2, <2>5
<1>8. T = Nat
  <2>1. T \in SUBSET Nat
    OBVIOUS
  <2> HIDE DEF T
  <2> QED
    BY <1>6, <1>7, <2>1, AllNat
<1>9. f[1..L] = orbit[L]
  BY <1>1, <1>8
<1> QED
  BY <1>1, <1>9 DEF f, orbit, L

Sound(k, i) == CheckPathToRoot(k, k.children[i].name, {}) # "cycle"

\* One child's turn in the check for cycles.
CheckChild(k, seen, child) ==
  LET end == CheckPathToRoot(k, child.name, seen.validated)
  IN  IF ~seen.ok THEN seen
      ELSE [ok |-> end # "cycle",
            validated |-> seen.validated \cup (IF end = "validated" THEN {child.name} ELSE {})]

CycleFold(k, f) ==
  f = [s \in SUBSET DOMAIN k.children |->
         IF s = {} THEN [ok |-> TRUE, validated |-> {}]
         ELSE CheckChild(k, f[s \ {Max(s)}], k.children[Max(s)])]

\* Nothing is ever remembered, and every climb is judged by itself.
LEMMA CycleFoldValue ==
  ASSUME NEW k, Followable(k),
         \A i \in DOMAIN k.children : CheckPathToRoot(k, k.children[i].name, {}) \in {"root", "cycle"}
  PROVE  (CHOOSE f : CycleFold(k, f))[DOMAIN k.children]
           = [ok |-> \A i \in DOMAIN k.children : Sound(k, i), validated |-> {}]
<1> DEFINE L == Len(k.children)
           verdict(s) == [ok |-> \A i \in s : Sound(k, i), validated |-> {}]
<1>1. L \in Nat /\ DOMAIN k.children = 1..L
  BY Names DEF Followable
<1>2. ASSUME NEW s \in SUBSET (1..L), NEW i \in 1..L, NEW t \in SUBSET (1..L), t = s \cup {i}
      PROVE  CheckChild(k, verdict(s), k.children[i]) = verdict(t)
  <2> DEFINE end == CheckPathToRoot(k, k.children[i].name, {})
  <2>1. end \in {"root", "cycle"} /\ (Sound(k, i) <=> end # "cycle")
    BY <1>1 DEF Sound
  <2> HIDE DEF end
  <2>2. (\A j \in t : Sound(k, j)) <=> (\A j \in s : Sound(k, j)) /\ Sound(k, i)
    BY <1>2
  <2>3. CASE ~\A j \in s : Sound(k, j)
    <3>1. CheckChild(k, verdict(s), k.children[i]) = verdict(s)
      BY <2>3 DEF CheckChild
    <3>2. verdict(s) = [ok |-> FALSE, validated |-> {}] /\ verdict(t) = [ok |-> FALSE, validated |-> {}]
      BY <2>2, <2>3
    <3> QED
      BY <3>1, <3>2
  <2>4. CASE \A j \in s : Sound(k, j)
    <3>1. verdict(s) = [ok |-> TRUE, validated |-> {}]
      BY <2>4
    <3>2. verdict(t) = [ok |-> end # "cycle", validated |-> {}]
      BY <2>1, <2>2, <2>4
    <3>3. CheckChild(k, verdict(s), k.children[i]) = [ok |-> end # "cycle", validated |-> {}]
      <4>1. CheckChild(k, [ok |-> TRUE, validated |-> {}], k.children[i])
              = [ok |-> end # "cycle", validated |-> {} \cup (IF end = "validated" THEN {k.children[i].name} ELSE {})]
        BY DEF CheckChild, end
      <4> HIDE DEF verdict
      <4> QED
        BY <2>1, <3>1, <4>1
    <3> QED
      BY <3>2, <3>3
  <2> QED
    BY <2>3, <2>4
<1>3. verdict({}) = [ok |-> TRUE, validated |-> {}]
  OBVIOUS
<1> HIDE DEF verdict, L
<1>4. \E f : CycleFold(k, f)
  <2> DEFINE g == [s \in SUBSET (1..L) |-> verdict(s)]
  <2>1. ASSUME NEW s \in SUBSET (1..L)
        PROVE  g[s] = IF s = {} THEN [ok |-> TRUE, validated |-> {}]
                      ELSE CheckChild(k, g[s \ {Max(s)}], k.children[Max(s)])
    <3>1. CASE s = {}
      BY <1>3, <3>1
    <3>2. CASE s # {}
      <4>1. Max(s) \in s /\ s \ {Max(s)} \in SUBSET (1..L)
        BY <1>1, <3>2, MaxFacts
      <4>2. s = (s \ {Max(s)}) \cup {Max(s)} /\ Max(s) \in 1..L
        BY <4>1
      <4>3. CheckChild(k, verdict(s \ {Max(s)}), k.children[Max(s)]) = verdict(s)
        BY <1>2, <4>1, <4>2
      <4>4. g[s \ {Max(s)}] = verdict(s \ {Max(s)}) /\ g[s] = verdict(s)
        BY <4>1
      <4> QED
        BY <3>2, <4>3, <4>4
    <3> QED
      BY <3>1, <3>2
  <2>2. g = [s \in SUBSET (1..L) |->
               IF s = {} THEN [ok |-> TRUE, validated |-> {}]
               ELSE CheckChild(k, g[s \ {Max(s)}], k.children[Max(s)])]
    <3>1. g = [s \in SUBSET (1..L) |-> g[s]]
      OBVIOUS
    <3> HIDE DEF g
    <3> QED
      BY <2>1, <3>1
  <2>3. CycleFold(k, g)
    <3> HIDE DEF g
    <3> QED
      BY <1>1, <2>2 DEF CycleFold
  <2> QED
    BY <2>3
<1> DEFINE f == CHOOSE f : CycleFold(k, f)
<1>5. CycleFold(k, f)
  BY <1>4
<1> HIDE DEF f
<1>6. \A s \in SUBSET (1..L) :
        f[s] = IF s = {} THEN [ok |-> TRUE, validated |-> {}]
               ELSE CheckChild(k, f[s \ {Max(s)}], k.children[Max(s)])
  BY <1>1, <1>5 DEF CycleFold
<1> DEFINE T == {i \in Nat : i <= L => f[1..i] = verdict(1..i)}
<1>7. 0 \in T
  <2>1. 1..0 = {} /\ {} \in SUBSET (1..L)
    OBVIOUS
  <2> QED
    BY <1>3, <1>6, <2>1
<1>8. ASSUME NEW i \in T PROVE i + 1 \in T
  <2>1. SUFFICES ASSUME i + 1 <= L PROVE f[1..(i + 1)] = verdict(1..(i + 1))
    BY <1>8
  <2>2. i \in Nat /\ f[1..i] = verdict(1..i) /\ i + 1 \in 1..L /\ (i + 1) - 1 = i
    BY <1>1, <1>8, <2>1
  <2>3. Max(1..(i + 1)) = i + 1 /\ (1..(i + 1)) \ {i + 1} = 1..i /\ 1..(i + 1) # {}
    BY <1>1, <2>2, MaxFacts
  <2>4. 1..(i + 1) \in SUBSET (1..L) /\ 1..i \in SUBSET (1..L) /\ 1..(i + 1) = 1..i \cup {i + 1}
    BY <1>1, <2>2
  <2>5. f[1..(i + 1)] = CheckChild(k, f[1..i], k.children[i + 1])
    BY <1>6, <2>3, <2>4
  <2>6. CheckChild(k, verdict(1..i), k.children[i + 1]) = verdict(1..(i + 1))
    BY <1>2, <2>2, <2>4
  <2> QED
    BY <2>2, <2>5, <2>6
<1>9. T = Nat
  <2>1. T \in SUBSET Nat
    OBVIOUS
  <2> HIDE DEF T
  <2> QED
    BY <1>7, <1>8, <2>1, AllNat
<1>10. f[1..L] = verdict(1..L)
  BY <1>1, <1>9
<1> QED
  BY <1>1, <1>10 DEF f, verdict

-----------------------------------------------------------------------------
(* Validation *)

ReachesRoot(k, n) == Reaches(NamesOf(k), Up(k), k.root.name, n)

\* A climb that nothing is remembered for ends at the root or at a cycle.
LEMMA CheckedPath ==
  ASSUME NEW k, Followable(k), NEW n \in NamesOf(k)
  PROVE  CheckPathToRoot(k, n, {}) = IF ReachesRoot(k, n) THEN "root" ELSE "cycle"
<1> DEFINE N == NamesOf(k)
           root == k.root.name
           Climbs(f) ==
             f = [at \in N \X SUBSET N |->
                    IF at[1] \in at[2] THEN "cycle"
                    ELSE IF Named(k, at[1]).owner = Null THEN "root"
                    ELSE IF Named(k, at[1]).owner \in {} THEN "validated"
                    ELSE f[<<Named(k, at[1]).owner, at[2] \cup {at[1]}>>]]
<1>1. CheckPathToRoot(k, n, {}) = (CHOOSE f : Climbs(f))[<<n, {}>>]
  BY DEF CheckPathToRoot
<1>2. ASSUME NEW f PROVE Climbs(f) <=> Climbing(N, Up(k), root, f)
  <2> DEFINE one(at) ==
               IF at[1] \in at[2] THEN "cycle"
               ELSE IF Named(k, at[1]).owner = Null THEN "root"
               ELSE IF Named(k, at[1]).owner \in {} THEN "validated"
               ELSE f[<<Named(k, at[1]).owner, at[2] \cup {at[1]}>>]
             two(at) ==
               IF at[1] \in at[2] THEN "cycle"
               ELSE IF at[1] = root THEN "root" ELSE f[<<Up(k)[at[1]], at[2] \cup {at[1]}>>]
  <2>1. ASSUME NEW at \in N \X SUBSET N PROVE one(at) = two(at)
    <3>1. at[1] \in N
      OBVIOUS
    <3>2. IF at[1] = root THEN Named(k, at[1]).owner = Null
          ELSE Named(k, at[1]).owner # Null /\ Named(k, at[1]).owner = Up(k)[at[1]]
      BY <3>1, UpFacts
    <3> QED
      BY <3>2
  <2>2. [at \in N \X SUBSET N |-> one(at)] = [at \in N \X SUBSET N |-> two(at)]
    <3> HIDE DEF one, two
    <3> QED
      BY <2>1
  <2> QED
    BY <2>2, Zenon DEF Climbing
<1>3. Up(k) \in [N -> N] /\ root \in N /\ Up(k)[root] = root /\ IsFiniteSet(N)
  BY UpFacts, Names DEF Followable
<1> DEFINE f == CHOOSE f : Climbs(f)
<1> HIDE DEF N, root, Climbs
<1>4. Climbing(N, Up(k), root, f)
  <2>1. \E g : Climbing(N, Up(k), root, g)
    BY <1>3, ClimbExists
  <2>2. \E g : Climbs(g)
    BY <1>2, <2>1
  <2>3. Climbs(f)
    BY <2>2
  <2> QED
    BY <1>2, <2>3
<1>5. n \in N /\ {} \in SUBSET N
  BY DEF N
<1> HIDE DEF f
<1>6. f[<<n, {}>>] = ClimbEnd(N, Up(k), root, n, {})
  BY <1>3, <1>4, <1>5, ClimbValue
<1>7. ReachesAvoiding(N, Up(k), root, n, {}) <=> Reaches(N, Up(k), root, n)
  BY DEF ReachesAvoiding, Reaches
<1> QED
  BY <1>1, <1>6, <1>7 DEF ClimbEnd, ReachesRoot, f, N, root

\* The check for cycles accepts a definition when every component reaches the root.
LEMMA NoCyclesReach ==
  ASSUME NEW k, Followable(k)
  PROVE  NoOwnershipCycles(k) <=> \A n \in NamesOf(k) : ReachesRoot(k, n)
<1>1. NoOwnershipCycles(k) = (CHOOSE f : CycleFold(k, f))[DOMAIN k.children].ok
  BY DEF NoOwnershipCycles, CycleFold, CheckChild, FoldLeft, MapThenFoldSet, Max
<1>2. /\ NamesOf(k) = {k.root.name} \cup {k.children[i].name : i \in DOMAIN k.children}
      /\ k.root.name \in NamesOf(k)
  BY Names, UpFacts DEF Followable
<1>3. \A i \in DOMAIN k.children :
        /\ CheckPathToRoot(k, k.children[i].name, {}) \in {"root", "cycle"}
        /\ Sound(k, i) <=> ReachesRoot(k, k.children[i].name)
  BY <1>2, CheckedPath DEF Sound
<1>4. (CHOOSE f : CycleFold(k, f))[DOMAIN k.children]
        = [ok |-> \A i \in DOMAIN k.children : Sound(k, i), validated |-> {}]
  BY <1>3, CycleFoldValue
<1>5. NoOwnershipCycles(k) <=> \A i \in DOMAIN k.children : Sound(k, i)
  BY <1>1, <1>4
<1>6. ReachesRoot(k, k.root.name)
  <2>1. IsOrbit(NamesOf(k), Up(k), k.root.name, Orbit(NamesOf(k), Up(k), k.root.name))
    BY UpFacts, OrbitFacts
  <2>2. 0 \in Nat
    OBVIOUS
  <2> QED
    BY <2>1, <2>2 DEF IsOrbit, ReachesRoot, Reaches
<1> QED
  BY <1>2, <1>3, <1>5, <1>6

\* Climbing as often as there are children is enough to tell.
LEMMA TreeReaches ==
  ASSUME NEW k, Followable(k)
  PROVE  IsTree(k) <=> \A n \in NamesOf(k) : ReachesRoot(k, n)
<1> DEFINE N == NamesOf(k)
           L == Len(k.children)
           root == k.root.name
<1>1. IsTree(k) <=> \A n \in N : (CHOOSE f : ClimbFold(k, n, f))[DOMAIN k.children] = root
  BY DEF IsTree, Followable, OwnersExist, ClimbFold, FoldLeft, MapThenFoldSet, Max
<1>2. ASSUME NEW n \in N
      PROVE  (CHOOSE f : ClimbFold(k, n, f))[DOMAIN k.children] = Orbit(N, Up(k), n)[L]
  BY ClimbFoldValue
<1>3. Up(k) \in [N -> N] /\ root \in N /\ Up(k)[root] = root
  BY UpFacts
<1>4. L \in Nat /\ IsFiniteSet(N) /\ Cardinality(N) <= L + 1
  BY Names DEF Followable
<1> HIDE DEF N, L, root
<1>5. ASSUME NEW n \in N
      PROVE  Orbit(N, Up(k), n)[L] = root <=> Reaches(N, Up(k), root, n)
  <2>1. ASSUME NEW m \in Nat, Orbit(N, Up(k), n)[m] = root PROVE Orbit(N, Up(k), n)[L] = root
    BY <1>3, <1>4, <2>1, OrbitShort
  <2> QED
    BY <1>4, <2>1 DEF Reaches
<1> QED
  BY <1>1, <1>2, <1>5 DEF ReachesRoot, N, root

\* Validation accepts a definition when its components are valid, each by itself,
\* and form a tree under the root: for every definition, with any number of
\* components, whatever owners they name.
THEOREM ValidationAcceptsTrees ==
  ASSUME NEW k, IsDefinition(k)
  PROVE  Validate(k) <=> OtherwiseValid(k) /\ IsTree(k)
<1>1. Validate(k) => OtherwiseValid(k) /\ OwnersExist(k) /\ NoOwnershipCycles(k)
  BY DEF Validate, ValidStructure, ValidChild, OtherwiseValid, OwnersExist
<1>2. OtherwiseValid(k) /\ OwnersExist(k) /\ NoOwnershipCycles(k) => Validate(k)
  BY DEF Validate, ValidStructure, ValidChild, OtherwiseValid, OwnersExist
<1>3. IsTree(k) => OwnersExist(k)
  BY DEF IsTree, OwnersExist
<1>4. ASSUME OtherwiseValid(k), OwnersExist(k) PROVE NoOwnershipCycles(k) <=> IsTree(k)
  <2>1. Followable(k)
    BY <1>4 DEF Followable, OtherwiseValid, ValidRoot
  <2> QED
    BY <2>1, NoCyclesReach, TreeReaches
<1> QED
  BY <1>1, <1>2, <1>3, <1>4

\* Every document is followed with a definition that WorkloadAssumption speaks of.
Followed == doc # Null => karta \in Documented

\* Of the definitions whose spec side is followed, validation accepts exactly
\* those whose components form a tree.
THEOREM WorkloadAcceptedIsTree == Spec => []AcceptedIsTree
<1>1. Init => Followed
  BY DEF Init, Followed
<1>2. Followed /\ [Next]_vars => Followed'
  BY DEF Followed, Next, vars, Report, Suspend, Resume, Edit, UpdateSome, Update
<1>3. Followed => AcceptedIsTree
  <2>1. SUFFICES ASSUME karta \in Documented PROVE Validate(karta) <=> IsTree(karta)
    BY DEF Followed, AcceptedIsTree
  <2>2. IsDefinition(karta) /\ OtherwiseValid(karta)
    BY <2>1, WorkloadAssumption DEF WorkloadAssumption
  <2> QED
    BY <2>2, ValidationAcceptsTrees
<1> QED
  BY <1>1, <1>2, <1>3, PTL DEF Spec

-----------------------------------------------------------------------------
(* The status side *)

\* A definition extracts all that its matchers look at.
ExtractsWhatItMatches(def) ==
  /\ "Undefined" \notin DOMAIN def.mappings
  /\ \A m \in Matchers(def) :
       /\ m.phase # Null => def.phase
       /\ m.conds # {} => def.conditions
       /\ \A want \in m.conds : want.reason # Null => def.reason

\* What is observed keeps its shape, and every condition that is waited for is in it.
ObservationOK ==
  obs # Null =>
    /\ karta \in Observed
    /\ obs = [phase |-> obs.phase, conds |-> obs.conds, facts |-> obs.facts]
    /\ DOMAIN obs.conds = ConditionTypes(karta.status)

\* On an observation of this shape a matcher holds exactly when it does on the raw
\* object.
LEMMA MatchIsRaw ==
  ASSUME obs # Null, ObservationOK, ExtractsWhatItMatches(karta.status),
         NEW m \in Matchers(karta.status)
  PROVE  Match(karta.status, obs, m) <=> HoldsRaw(m)
<1> DEFINE def == karta.status
           conds == ExtractConditions(def, obs)
<1>1. m.phase # Null => ExtractPhase(def, obs) = obs.phase
  BY DEF ExtractsWhatItMatches, ExtractPhase
<1>2. ASSUME NEW want \in m.conds
      PROVE  (/\ want.type \in DOMAIN conds
              /\ want.status = Null \/ want.status = conds[want.type].status
              /\ want.reason = Null \/ want.reason = conds[want.type].reason)
             <=> (/\ obs.conds[want.type] # Null
                  /\ want.status \in {Null, obs.conds[want.type].status}
                  /\ want.reason \in {Null, obs.conds[want.type].reason})
  <2>1. def.conditions /\ (want.reason # Null => def.reason)
    BY DEF ExtractsWhatItMatches
  <2>2. want.type \in DOMAIN obs.conds
    <3>1. want.type \in {c.type : c \in m.conds}
      OBVIOUS
    <3>2. {c.type : c \in m.conds} \in {{c.type : c \in x.conds} : x \in Matchers(def)}
      OBVIOUS
    <3>3. want.type \in ConditionTypes(def)
      BY <3>1, <3>2, Zenon DEF ConditionTypes
    <3> QED
      BY <3>3 DEF ObservationOK
  <2>3. conds = [type \in {t \in DOMAIN obs.conds : obs.conds[t] # Null} |->
                   [status |-> obs.conds[type].status,
                    reason |-> IF def.reason THEN obs.conds[type].reason ELSE Null]]
    BY <2>1 DEF ExtractConditions
  <2>4. want.type \in DOMAIN conds <=> obs.conds[want.type] # Null
    BY <2>2, <2>3
  <2>5. CASE obs.conds[want.type] # Null
    <3>1. /\ conds[want.type].status = obs.conds[want.type].status
          /\ def.reason => conds[want.type].reason = obs.conds[want.type].reason
      BY <2>2, <2>3, <2>5
    <3> HIDE DEF conds
    <3> QED
      BY <2>1, <2>4, <2>5, <3>1
  <2>6. CASE obs.conds[want.type] = Null
    <3> HIDE DEF conds
    <3> QED
      BY <2>4, <2>6
  <2> QED
    BY <2>5, <2>6
<1> QED
  <2> HIDE DEF conds
  <2>1. Match(def, obs, m)
          <=> /\ m.phase # Null => ExtractPhase(def, obs) = m.phase
              /\ \A want \in m.conds :
                   /\ want.type \in DOMAIN conds
                   /\ want.status = Null \/ want.status = conds[want.type].status
                   /\ want.reason = Null \/ want.reason = conds[want.type].reason
              /\ m.expr # Null => Holds(m.expr, obs)
    BY Zenon DEF Match, conds
  <2> QED
    BY <1>1, <1>2, <2>1 DEF HoldsRaw

\* No status is missed or made up on the way from the object to the matchers, for
\* every definition that extracts what its matchers look at, whatever the
\* controller writes and however often users suspend and resume.
THEOREM WorkloadReportedAsObserved ==
  ASSUME \A k \in Observed : ExtractsWhatItMatches(k.status)
  PROVE  Spec => []ReportedAsObserved
<1>1. Init => ObservationOK
  BY DEF Init, ObservationOK, FreshObservation
<1>2. ObservationOK /\ [Next]_vars => ObservationOK'
  <2> SUFFICES ASSUME ObservationOK, [Next]_vars PROVE ObservationOK'
    OBVIOUS
  <2>1. CASE UNCHANGED vars
    BY <2>1 DEF vars, ObservationOK
  <2>2. ASSUME obs # Null, NEW p, obs' = [obs EXCEPT !.phase = p], karta' = karta PROVE ObservationOK'
    BY <2>2 DEF ObservationOK
  <2>3. ASSUME obs # Null, NEW t, NEW c, obs' = [obs EXCEPT !.conds[t] = c], karta' = karta
        PROVE ObservationOK'
    BY <2>3 DEF ObservationOK
  <2>4. ASSUME obs # Null, NEW facts, obs' = [obs EXCEPT !.facts = facts], karta' = karta
        PROVE ObservationOK'
    BY <2>4 DEF ObservationOK
  <2>5. CASE Report
    <3>1. CASE \E p \in PhasesOf(karta.status) : karta.status.phase /\ obs' = [obs EXCEPT !.phase = p]
      BY <2>2, <2>5, <3>1 DEF Report
    <3>2. CASE \E t \in DOMAIN obs.conds, c \in ConditionValues(karta.status) :
                 obs' = [obs EXCEPT !.conds[t] = c]
      BY <2>3, <2>5, <3>2 DEF Report
    <3>3. CASE \E f \in DOMAIN obs.facts : \E v \in ToSet(FactValues[f]) :
                 obs' = [obs EXCEPT !.facts[f] = v]
      <4>1. PICK f, v : obs' = [obs EXCEPT !.facts[f] = v]
        BY <3>3
      <4>2. obs' = [obs EXCEPT !.facts = [obs.facts EXCEPT ![f] = v]]
        BY <4>1
      <4> QED
        BY <2>4, <2>5, <4>2 DEF Report
    <3> QED
      BY <2>5, <3>1, <3>2, <3>3 DEF Report
  <2>6. CASE Suspend
    BY <2>4, <2>6 DEF Suspend
  <2>7. CASE Resume
    BY <2>4, <2>7 DEF Resume
  <2>8. CASE Edit \/ UpdateSome
    BY <2>8 DEF Edit, UpdateSome, Update, ObservationOK
  <2> QED
    BY <2>1, <2>5, <2>6, <2>7, <2>8 DEF Next
<1>3. ObservationOK => ReportedAsObserved
  <2>1. SUFFICES ASSUME ObservationOK, obs # Null
        PROVE  Statuses \ {"Undefined"}
                 = {s \in DOMAIN karta.status.mappings : \E m \in karta.status.mappings[s] : HoldsRaw(m)}
    BY DEF ReportedAsObserved
  <2>2. ExtractsWhatItMatches(karta.status)
    BY <2>1 DEF ObservationOK
  <2> DEFINE matched ==
               {s \in DOMAIN karta.status.mappings :
                  \E m \in karta.status.mappings[s] : Match(karta.status, obs, m)}
  <2>3. \A s \in DOMAIN karta.status.mappings : \A m \in karta.status.mappings[s] :
          Match(karta.status, obs, m) <=> HoldsRaw(m)
    BY <2>1, <2>2, MatchIsRaw DEF Matchers
  <2>4. Statuses = IF matched = {} THEN {"Undefined"} ELSE matched
    BY Zenon DEF Statuses, MatchedStatuses
  <2>5. "Undefined" \notin DOMAIN karta.status.mappings
    BY <2>2 DEF ExtractsWhatItMatches
  <2>6. matched = {s \in DOMAIN karta.status.mappings :
                     \E m \in karta.status.mappings[s] : HoldsRaw(m)}
    BY <2>3
  <2> QED
    BY <2>4, <2>5, <2>6
<1> QED
  BY <1>1, <1>2, <1>3, PTL DEF Spec
=============================================================================
