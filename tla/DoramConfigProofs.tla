------------------------- MODULE DoramConfigProofs -------------------------
(***************************************************************************)
(* What the sizes of a valid configuration satisfy, and where a rebuild    *)
(* goes: the facts about DoramConfig that the proofs about the schedule    *)
(* and about the hierarchy rest on.                                        *)
(***************************************************************************)
EXTENDS DoramConfig, WellFoundedInduction, TLAPS

---------------------------------------------------------------------------
(* A nonempty set of naturals has a least element: the form in which the   *)
(* proofs below do induction over the levels.                              *)
LEMMA LeastNatural ==
  ASSUME NEW T, T \subseteq Nat, T # {}
  PROVE  \E m \in T : \A n \in T : m <= n
<1>1. IsWellFoundedOn(OpToRel(<, Nat), Nat)
  BY NatLessThanWellFounded
<1>2. PICK m \in T : \A n \in T : ~ (<<n, m>> \in OpToRel(<, Nat))
  BY <1>1, WFMin, Zenon
<1>3. \A n \in T : ~ (n < m)
  BY <1>2 DEF OpToRel
<1>4. QED
  BY <1>3

(* What the sizes of a valid configuration satisfy.  After this lemma the  *)
(* powers they are made of are no longer needed.                           *)
LEMMA ConfigFacts ==
  ASSUME NEW c \in Configs
  PROVE  /\ c.numLevels \in Nat \ {0}
         /\ c.stashSize \in Nat
         /\ SpeedCacheSize(c) \in Nat \ {0}
         /\ c.stashSize < SpeedCacheSize(c)
         /\ AmpFactor(c) \in Nat \ {0}
         /\ Bottom(c) \in Levels(c)
         /\ 0 \in Levels(c)
         /\ \A l \in Levels(c) : NumDummies(c, l) \in Nat \ {0}
         /\ NumDummies(c, 0) = SpeedCacheSize(c) - c.stashSize
         /\ \A l \in Levels(c) :
              NumDummies(c, l + 1) = AmpFactor(c) * NumDummies(c, l)
<1>1. /\ c.numLevels \in Nat \ {0}
      /\ c.stashSize \in Nat
      /\ c.stashSize < SpeedCacheSize(c)
  BY ConfigsValid DEF Valid, ConfigFields
<1>2. SpeedCacheSize(c) \in Nat \ {0} /\ AmpFactor(c) \in Nat \ {0}
  BY PowerLaws
<1>3. FillTime(c) \in Nat \ {0}
  BY <1>1, <1>2 DEF FillTime
<1>4. Bottom(c) \in Levels(c) /\ 0 \in Levels(c)
  BY <1>1 DEF Bottom, Levels
<1>5. NumDummies(c, 0) = SpeedCacheSize(c) - c.stashSize
  <2>1. AmpFactor(c) ^ 0 = 1
    BY PowerLaws
  <2>2. QED
    BY <2>1, <1>1, <1>2 DEF NumDummies, FillTime
<1>6. ASSUME NEW l \in Levels(c)
      PROVE  /\ NumDummies(c, l) \in Nat \ {0}
             /\ NumDummies(c, l + 1) = AmpFactor(c) * NumDummies(c, l)
  <2> DEFINE p == AmpFactor(c) ^ l
  <2>1. p \in Nat \ {0} /\ AmpFactor(c) ^ (l + 1) = AmpFactor(c) * p
    BY PowerLaws
  <2>2. NumDummies(c, l) = p * FillTime(c)
    BY DEF NumDummies
  <2>3. NumDummies(c, l + 1) = (AmpFactor(c) * p) * FillTime(c)
    BY <2>1 DEF NumDummies
  <2> HIDE DEF p
  <2>4. QED
    BY <2>1, <2>2, <2>3, <1>2, <1>3
<1>7. QED
  BY <1>1, <1>2, <1>4, <1>5, <1>6

(* What holds of level 0, and of the next level when it holds of one above *)
(* the bottom, holds of every level.                                       *)
LEMMA LevelInduction ==
  ASSUME NEW c \in Configs, NEW S, 0 \in S,
         \A l \in Levels(c) \ {Bottom(c)} : l \in S => l + 1 \in S
  PROVE  Levels(c) \subseteq S
<1> DEFINE Bad == {l \in Levels(c) : l \notin S}
<1>1. c.numLevels \in Nat \ {0} /\ Levels(c) = 0 .. c.numLevels - 1
      /\ Bottom(c) = c.numLevels - 1
  BY ConfigFacts DEF Levels, Bottom
<1>2. Bad \subseteq Nat
  BY <1>1
<1>3. ASSUME NEW m \in Bad, \A n \in Bad : m <= n
      PROVE  FALSE
  <2>1. m \in Levels(c) /\ m # 0
    OBVIOUS
  <2>2. m - 1 \in Levels(c) \ {Bottom(c)} /\ ~ (m <= m - 1) /\ (m - 1) + 1 = m
    BY <1>1, <2>1
  <2>3. m - 1 \in S
    BY <1>3, <2>2
  <2>4. QED
    BY <2>2, <2>3
<1>4. Bad = {}
  <2> HIDE DEF Bad
  <2>1. QED
    BY <1>2, <1>3, LeastNatural
<1>5. QED
  BY <1>4

(* rebuild_target's loop ends at the first level whose counter can still   *)
(* grow, or at the bottom.                                                 *)
LEMMA TargetFacts ==
  ASSUME NEW c \in Configs, NEW b \in [Levels(c) -> Nat]
  PROVE  LET t == RebuildTo(c, b)
         IN  /\ t \in Levels(c)
             /\ t = Bottom(c) \/ b[t] < AmpFactor(c) - 1
             /\ \A l \in 0 .. t - 1 : b[l] >= AmpFactor(c) - 1
<1> DEFINE Stops(t) == t = Bottom(c) \/ b[t] < AmpFactor(c) - 1
           T == {t \in Levels(c) : Stops(t)}
<1>1. T \subseteq Nat /\ Bottom(c) \in T
  BY ConfigFacts DEF Levels, Bottom
<1>2. PICK m \in T : \A n \in T : m <= n
  <2> HIDE DEF T
  <2>1. QED
    BY <1>1, LeastNatural
<1>3. \A l \in 0 .. m - 1 : b[l] >= AmpFactor(c) - 1
  <2> TAKE l \in 0 .. m - 1
  <2>1. l \in Levels(c) /\ l \notin T
    BY <1>2, <1>1, ConfigFacts DEF Levels
  <2>2. b[l] \in Nat /\ AmpFactor(c) \in Nat
    BY <2>1, ConfigFacts
  <2>3. QED
    BY <2>1, <2>2
<1>4. \E t \in Levels(c) :
        /\ t = Bottom(c) \/ b[t] < AmpFactor(c) - 1
        /\ \A l \in 0 .. t - 1 : b[l] >= AmpFactor(c) - 1
  BY <1>2, <1>3
<1>5. QED
  BY <1>4 DEF RebuildTo

---------------------------------------------------------------------------
(* Exponents add up, as far as the tables' lengths need it.                *)
LEMMA PowerSum ==
  ASSUME NEW c \in Configs, NEW m \in Nat, NEW n \in Nat,
         m + n <= c.logAddressSpaceSize + 2
  PROVE  2 ^ (m + n) = 2 ^ m * 2 ^ n
<1> DEFINE P(k) == 2 ^ k
           N == c.logAddressSpaceSize
           Bad == {k \in 0 .. n : P(m + k) # P(m) * P(k)}
<1>1. N \in Nat
  BY ConfigsValid DEF Valid, ConfigFields
<1>2. P(0) = 1 /\ \A k \in 0 .. N + 1 : P(k) \in Nat /\ P(k + 1) = 2 * P(k)
  BY PowersOfTwo
<1>3. \A k \in 0 .. N + 2 : P(k) \in Nat
  <2> TAKE k \in 0 .. N + 2
  <2>1. CASE k \in 0 .. N + 1
    BY <2>1, <1>2
  <2>2. CASE k = (N + 1) + 1
    <3>1. N + 1 \in 0 .. N + 1
      BY <1>1
    <3> HIDE DEF P
    <3>2. QED
      BY <2>2, <3>1, <1>2
  <2>3. QED
    BY <1>1, <2>1, <2>2
<1>4. ASSUME NEW k \in Bad, \A j \in Bad : k <= j
      PROVE  FALSE
  <2> HIDE DEF P
  <2>1. k \in 0 .. n /\ P(m + k) # P(m) * P(k)
    OBVIOUS
  <2>2. CASE k = 0
    <3>1. P(m) \in Nat /\ m + 0 = m
      BY <1>3, <1>1
    <3>2. QED
      BY <2>1, <2>2, <3>1, <1>2
  <2>3. CASE k # 0
    <3> DEFINE j == k - 1
    <3>1. j \in 0 .. n /\ j \notin Bad /\ j + 1 = k
      <4>1. k \in 1 .. n
        BY <2>1, <2>3
      <4> HIDE DEF Bad
      <4>2. QED
        BY <4>1, <1>4
    <3>2. P(m + j) = P(m) * P(j)
      BY <3>1
    <3>3. j \in 0 .. N + 1 /\ m + j \in 0 .. N + 1 /\ m \in 0 .. N + 2
      BY <3>1, <1>1
    <3>4. P(m + j) \in Nat /\ P(m + j + 1) = 2 * P(m + j)
      BY <3>3, <1>2
    <3>5. P(j) \in Nat /\ P(j + 1) = 2 * P(j) /\ P(m) \in Nat
      BY <3>3, <1>2, <1>3
    <3>6. m + j + 1 = m + k
      BY <3>1
    <3> HIDE DEF j
    <3>7. P(m + k) = P(m) * P(k)
      BY <3>1, <3>2, <3>4, <3>5, <3>6
    <3>8. QED
      BY <3>7, <2>1
  <2>4. QED
    BY <2>2, <2>3
<1>5. Bad = {}
  <2>1. Bad \subseteq Nat
    OBVIOUS
  <2> HIDE DEF Bad
  <2>2. QED
    BY <2>1, <1>4, LeastNatural
<1>6. n \in 0 .. n
  OBVIOUS
<1>7. n \notin Bad
  <2> HIDE DEF Bad
  <2>1. QED
    BY <1>5
<1>8. QED
  BY <1>6, <1>7

(* The logarithm of n is below any K with n < 2^K.                         *)
LEMMA Ilog2Facts ==
  ASSUME NEW c \in Configs, NEW n \in Nat \ {0}, NEW K \in Nat \ {0},
         K <= c.logAddressSpaceSize + 2, n < 2 ^ K
  PROVE  Ilog2(n) \in 0 .. K - 1 /\ n < 2 ^ (Ilog2(n) + 1)
<1> DEFINE P(k) == 2 ^ k
           T == {e \in 0 .. K - 1 : n < P(e + 1)}
           Is(e) == n < P(e + 1) /\ \A d \in 0 .. e - 1 : P(d + 1) <= n
<1>1. c.logAddressSpaceSize \in Nat /\ c.logAddressSpaceSize < 32
  BY ConfigsValid DEF Valid, ConfigFields
<1>2. \A k \in 0 .. K - 1 : P(k + 1) \in Nat
  <2> TAKE k \in 0 .. K - 1
  <2>1. P(k) \in Nat /\ P(k + 1) = 2 * P(k)
    BY <1>1, PowersOfTwo
  <2> HIDE DEF P
  <2>2. QED
    BY <2>1
<1>3. K - 1 \in T
  BY DEF T
<1>4. PICK m \in T : \A e \in T : m <= e
  <2>1. T \subseteq Nat
    OBVIOUS
  <2> HIDE DEF T
  <2>2. QED
    BY <2>1, <1>3, LeastNatural
<1>5. m \in 0 .. 63 /\ m \in 0 .. K - 1 /\ Is(m)
  <2> HIDE DEF P
  <2>1. m \in 0 .. 63 /\ m \in 0 .. K - 1 /\ n < P(m + 1)
    BY <1>1, <1>4
  <2>2. ASSUME NEW d \in 0 .. m - 1
        PROVE  P(d + 1) <= n
    <3>1. d \in 0 .. K - 1 /\ d \notin T
      BY <2>1, <1>4
    <3>2. QED
      BY <3>1, <1>2
  <2>3. QED
    BY <2>1, <2>2
<1>6. Ilog2(n) = CHOOSE e \in 0 .. 63 : Is(e)
  BY DEF Ilog2
<1>7. Ilog2(n) \in 0 .. 63 /\ Is(Ilog2(n))
  <2> HIDE DEF Is
  <2>1. QED
    BY <1>5, <1>6
<1>8. Ilog2(n) <= m
  <2> HIDE DEF P
  <2>1. SUFFICES ASSUME m < Ilog2(n)
                 PROVE  FALSE
    BY <1>5, <1>7
  <2>2. m \in 0 .. Ilog2(n) - 1
    BY <1>5, <1>7, <2>1
  <2>3. P(m + 1) <= n /\ n < P(m + 1) /\ P(m + 1) \in Nat
    BY <2>2, <1>2, <1>5, <1>7
  <2>4. QED
    BY <2>3
<1>9. QED
  BY <1>5, <1>7, <1>8

(* The slots of the speed cache and the levels multiply: 2 to the exponent *)
(* of a level's columns is what the level holds at counter one.            *)
LEMMA LevelSize ==
  ASSUME NEW c \in Configs
  PROVE  \A l \in Levels(c) :
           /\ l * c.logAmpFactor + c.logSpeedCacheSize
                \in 0 .. c.logAddressSpaceSize
           /\ 2 ^ (l * c.logAmpFactor + c.logSpeedCacheSize)
                = AmpFactor(c) ^ l * SpeedCacheSize(c)
<1> DEFINE P(k) == 2 ^ k
           A(l) == AmpFactor(c) ^ l
           a == c.logAmpFactor
           s == c.logSpeedCacheSize
           N == c.logAddressSpaceSize
           E(l) == l * a + s
           Bad == {l \in Levels(c) : P(E(l)) # A(l) * SpeedCacheSize(c)}
<1>1. /\ c.numLevels \in Nat \ {0} /\ a \in Nat /\ s \in Nat /\ N \in Nat
      /\ N = s + (c.numLevels - 1) * a
  BY ConfigsValid DEF Valid, ConfigFields
<1>2. ASSUME NEW l \in Levels(c)
      PROVE  l \in Nat /\ E(l) \in 0 .. N
  <2> HIDE DEF a, s, N
  <2>1. l \in Nat /\ l <= c.numLevels - 1
    BY <1>1 DEF Levels
  <2>2. l * a \in Nat /\ (c.numLevels - 1) * a \in Nat
    BY <2>1, <1>1
  <2>3. l * a <= (c.numLevels - 1) * a
    BY <2>1, <1>1
  <2>4. QED
    BY <2>1, <2>2, <2>3, <1>1
<1>3. /\ P(s) = SpeedCacheSize(c) /\ P(a) = AmpFactor(c)
      /\ SpeedCacheSize(c) \in Nat /\ AmpFactor(c) \in Nat
      /\ A(0) = 1
      /\ \A l \in Levels(c) : A(l) \in Nat /\ A(l + 1) = AmpFactor(c) * A(l)
  <2>1. P(s) = SpeedCacheSize(c) /\ P(a) = AmpFactor(c)
    BY DEF SpeedCacheSize, AmpFactor
  <2>2. QED
    BY <2>1, PowerLaws
<1>4. ASSUME NEW l \in Bad, \A k \in Bad : l <= k
      PROVE  FALSE
  <2>1. l \in Levels(c) /\ l \in Nat
    BY <1>2
  <2>2. CASE l = 0
    <3>1. E(l) = s
      BY <2>2, <1>1
    <3> HIDE DEF P, A, E
    <3>2. QED
      BY <2>2, <3>1, <1>3
  <2>3. CASE l # 0
    <3> DEFINE k == l - 1
    <3>1. k \in Levels(c) /\ k + 1 = l /\ k \in Nat
      BY <2>1, <2>3, <1>1 DEF Levels
    <3>2. P(E(k)) = A(k) * SpeedCacheSize(c)
      <4>1. k \notin Bad
        <5> HIDE DEF Bad
        <5>1. QED
          BY <3>1, <2>1, <1>4
      <4>2. QED
        BY <4>1, <3>1
    <3>3. E(l) = E(k) + a
      <4> HIDE DEF a, s, N
      <4>1. l * a = (k + 1) * a /\ (k + 1) * a = k * a + a /\ k * a \in Nat
        BY <3>1, <1>1
      <4>2. QED
        BY <4>1, <1>1
    <3>4. P(E(l)) = P(E(k)) * P(a)
      <4>1. E(l) <= N /\ E(k) \in Nat
        BY <1>2, <3>1, <2>1
      <4> HIDE DEF P, E, a, N
      <4>2. E(k) + a <= N + 2
        BY <4>1, <3>3, <1>1
      <4>3. QED
        BY <4>1, <4>2, <3>3, <1>1, PowerSum DEF P, a, N
    <3>5. A(l) = AmpFactor(c) * A(k) /\ A(k) \in Nat
      BY <3>1, <1>3
    <3> HIDE DEF P, A, E, k
    <3>6. P(E(l)) = A(l) * SpeedCacheSize(c)
      BY <3>2, <3>4, <3>5, <1>3
    <3>7. QED
      BY <3>6
  <2>4. QED
    BY <2>2, <2>3
<1>5. Bad = {}
  <2>1. Bad \subseteq Nat
    BY <1>2
  <2> HIDE DEF Bad
  <2>2. QED
    BY <2>1, <1>4, LeastNatural
<1>6. QED
  BY <1>2, <1>5

(* What a level collapses into the next one fits the address space.        *)
LEMMA LevelFits ==
  ASSUME NEW c \in Configs, NEW l \in Levels(c), NEW b \in Nat
  PROVE  /\ NumElementsAt(c, l, b) \in Nat
         /\ l # Bottom(c) /\ b <= AmpFactor(c) =>
              NumElementsAt(c, l, b) <= BottomNumElements(c)
<1> DEFINE P(k) == 2 ^ k
           a == c.logAmpFactor
           s == c.logSpeedCacheSize
           N == c.logAddressSpaceSize
           base == l * a + s
           r == N - (base + a)
<1>1. /\ c.numLevels \in Nat \ {0} /\ a \in Nat /\ s \in Nat /\ N \in Nat
      /\ N = s + (c.numLevels - 1) * a
      /\ l \in Nat /\ l <= c.numLevels - 1
      /\ l = Bottom(c) <=> l = c.numLevels - 1
  BY ConfigsValid DEF Valid, ConfigFields, Levels, Bottom
<1>2. base \in 0 .. N
  BY LevelSize
<1>3. P(base) \in Nat /\ P(N) \in Nat \ {0}
  <2>1. \A n \in 0 .. N + 1 : P(n) \in Nat
    BY PowersOfTwo
  <2>2. P(N) = AmpFactor(c) ^ Bottom(c) * SpeedCacheSize(c)
    <3>1. Bottom(c) * a + s = N
      BY <1>1 DEF Bottom
    <3>2. QED
      BY <3>1, ConfigFacts, LevelSize
  <2>3. AmpFactor(c) ^ Bottom(c) \in Nat \ {0} /\ SpeedCacheSize(c) \in Nat \ {0}
    BY ConfigFacts, PowerLaws
  <2> DEFINE p == AmpFactor(c) ^ Bottom(c)
  <2>4. base \in 0 .. N + 1 /\ N \in 0 .. N + 1
    <3> HIDE DEF N, base
    <3>1. QED
      BY <1>1, <1>2
  <2>5. P(N) # 0
    <3> HIDE DEF P, p
    <3>1. QED
      BY <2>2, <2>3 DEF p
  <2> HIDE DEF P, base, N
  <2>6. QED
    BY <2>1, <2>4, <2>5
<1>4. BottomNumElements(c) = P(N) /\ AmpFactor(c) = P(a)
  BY DEF BottomNumElements, AmpFactor
<1>5. NumElementsAt(c, l, b) = IF l = Bottom(c) THEN P(N) ELSE b * P(base)
  BY DEF NumElementsAt, BottomNumElements
<1>6. ASSUME l # Bottom(c), b <= AmpFactor(c)
      PROVE  b * P(base) <= P(N)
  <2>1. base + a <= N
    <3> HIDE DEF a, N
    <3>1. SUFFICES l * a + s + a <= N
      BY DEF base
    <3>2. l + 1 <= c.numLevels - 1
      <4>1. l # c.numLevels - 1 /\ l <= c.numLevels - 1
        BY <1>1, <1>6
      <4>2. l \in Int /\ c.numLevels \in Int
        BY <1>1
      <4>3. QED
        BY <4>1, <4>2
    <3>3. (l + 1) * a <= (c.numLevels - 1) * a /\ (l + 1) * a = l * a + a
      BY <1>1, <3>2
    <3>4. l * a \in Nat /\ (c.numLevels - 1) * a \in Nat
      BY <1>1
    <3>5. QED
      BY <1>1, <3>3, <3>4
  <2>2. r \in Nat /\ r \in 0 .. N + 1 /\ a \in 0 .. N + 1 /\ base + a \in Nat
        /\ (base + a) + r = N /\ N <= N + 2 /\ base + a <= N + 2
    <3> HIDE DEF a, N, base
    <3>1. QED
      BY <1>1, <1>2, <2>1
  <2>3. P(base + a) = P(base) * P(a)
    <3> HIDE DEF base, r
    <3>1. QED
      BY <1>1, <1>2, <2>2, PowerSum
  <2>4. P(N) = P(base + a) * P(r)
    <3> DEFINE m == base + a
    <3>1. m \in Nat /\ m + r = N /\ m + r <= c.logAddressSpaceSize + 2 /\ r \in Nat
      BY <2>2
    <3> HIDE DEF m, r
    <3>2. P(m + r) = P(m) * P(r)
      BY <3>1, PowerSum
    <3>3. QED
      BY <3>1, <3>2 DEF m
  <2>5. P(r) \in Nat /\ P(a) \in Nat
    BY <2>2, PowersOfTwo
  <2> HIDE DEF P, r, base, a, N
  <2>6. P(base) * P(a) \in Nat
    BY <1>3, <2>5
  <2>7. P(r) >= 1
    <3>1. CASE P(r) = 0
      BY <1>3, <2>3, <2>4, <2>6, <3>1
    <3>2. QED
      BY <2>5, <3>1
  <2>8. P(base) * P(a) <= P(base) * P(a) * P(r)
    BY <2>5, <2>6, <2>7
  <2>9. b * P(base) <= P(a) * P(base) /\ P(a) * P(base) = P(base) * P(a)
    BY <1>3, <1>4, <1>6, <2>5
  <2>10. b * P(base) \in Nat
    BY <1>3
  <2>11. QED
    BY <1>3, <2>3, <2>4, <2>6, <2>8, <2>9, <2>10
<1>7. b * P(base) \in Nat
  <2> HIDE DEF P
  <2>1. QED
    BY <1>3
<1> HIDE DEF P, base, N
<1>8. QED
  BY <1>3, <1>4, <1>5, <1>6, <1>7

(* A level's cuckoo table is more than twice as long as the level has      *)
(* entries and dummies, whichever load factor sizes its columns.           *)
LEMMA ColumnsSuffice ==
  ASSUME NEW c \in Configs, NEW l \in Levels(c), NEW bounds \in ChtBounds,
         NEW b \in Nat \ {0}, l = Bottom(c) \/ b < AmpFactor(c)
  PROVE  /\ c.stashSize <= NumElementsAt(c, l, b)
         /\ NumElementsAt(c, l, b) + NumDummies(c, l)
              <= ChtFullTableLength(c, bounds, l, b)
<1> DEFINE w == IF l = Bottom(c) THEN 1 ELSE b
           n == ColumnLoad(bounds, w)
           a == c.logAmpFactor
           base == l * a + c.logSpeedCacheSize
           x == 2 ^ base
           N == c.logAddressSpaceSize
           K == IF l = Bottom(c) THEN 2 ELSE a + 1
           y == 2 ^ (Ilog2(n) + 1)
<1>1. /\ c.numLevels \in Nat \ {0} /\ a \in Nat /\ N \in Nat
      /\ c.logSpeedCacheSize \in Nat /\ c.stashSize \in Nat
      /\ N = c.logSpeedCacheSize + (c.numLevels - 1) * a
      /\ l \in Nat /\ l <= c.numLevels - 1
      /\ l = Bottom(c) <=> l = c.numLevels - 1
  BY ConfigsValid DEF Valid, ConfigFields, Levels, Bottom
<1>2. base \in 0 .. N /\ x = AmpFactor(c) ^ l * SpeedCacheSize(c)
  BY LevelSize
<1>3. l = Bottom(c) => base = N
  BY <1>1
<1>4. l # Bottom(c) => base + a <= N
  <2> HIDE DEF a, N
  <2>1. SUFFICES ASSUME l # Bottom(c)
                 PROVE  l * a + c.logSpeedCacheSize + a <= N
    BY DEF base
  <2>2. l + 1 <= c.numLevels - 1
    BY <1>1, <2>1
  <2>3. (l + 1) * a <= (c.numLevels - 1) * a /\ (l + 1) * a = l * a + a
    BY <1>1, <2>2
  <2>4. l * a \in Nat /\ (c.numLevels - 1) * a \in Nat
    BY <1>1
  <2>5. QED
    BY <1>1, <2>3, <2>4
<1>5. /\ w \in Nat \ {0} /\ n \in Nat \ {0} /\ w <= n /\ n <= 2 * w
  <2> HIDE DEF w
  <2>1. w \in Nat \ {0}
    BY DEF w
  <2>2. QED
    BY <2>1 DEF ColumnLoad
<1>6. K \in Nat \ {0} /\ K <= N + 2 /\ base + K <= N + 2 /\ n < 2 ^ K
  <2>1. K \in Nat \ {0} /\ K <= N + 2 /\ base + K <= N + 2
    <3> HIDE DEF a, N, base
    <3>1. QED
      BY <1>1, <1>2, <1>3, <1>4
  <2>2. CASE l = Bottom(c)
    <3>1. 2 ^ 0 = 1 /\ 2 ^ (0 + 1) = 2 * 2 ^ 0 /\ 2 ^ (1 + 1) = 2 * 2 ^ 1
      BY <1>1, PowersOfTwo
    <3>2. 2 ^ 2 = 4
      BY <3>1
    <3>3. n <= 2
      BY <2>2, <1>5
    <3>4. QED
      BY <2>1, <2>2, <3>2, <3>3, <1>5
  <2>3. CASE l # Bottom(c)
    <3>1. a \in 0 .. N + 1
      <4> HIDE DEF a, N, base
      <4>1. QED
        BY <1>1, <1>2, <1>4, <2>3
    <3>2. 2 ^ (a + 1) = 2 * AmpFactor(c) /\ AmpFactor(c) \in Nat
      BY <3>1, PowersOfTwo, PowerLaws DEF AmpFactor
    <3>3. n <= 2 * b /\ b < AmpFactor(c)
      BY <2>3, <1>5
    <3> HIDE DEF n, a
    <3>4. n < 2 * AmpFactor(c)
      BY <3>2, <3>3, <1>5
    <3>5. QED
      BY <2>1, <2>3, <3>2, <3>4
  <2>4. QED
    BY <2>2, <2>3
<1>7. Ilog2(n) \in 0 .. K - 1 /\ n < y
  <2> HIDE DEF n, K
  <2>1. QED
    BY <1>5, <1>6, Ilog2Facts
<1>8. x \in Nat \ {0} /\ y \in Nat
  <2>1. x \in Nat \ {0}
    <3> DEFINE p == AmpFactor(c) ^ l
    <3>1. p \in Nat \ {0} /\ SpeedCacheSize(c) \in Nat \ {0}
      BY PowerLaws
    <3> HIDE DEF p, x
    <3>2. QED
      BY <3>1, <1>2 DEF p
  <2>2. Ilog2(n) \in 0 .. N + 1
    <3> HIDE DEF n, K, N
    <3>1. QED
      BY <1>1, <1>6, <1>7
  <2>3. 2 ^ Ilog2(n) \in Nat /\ y = 2 * 2 ^ Ilog2(n)
    BY <2>2, PowersOfTwo
  <2>4. QED
    BY <2>1, <2>3
<1>9. ChtFullTableLength(c, bounds, l, b) = 2 * (x * y)
  <2>1. /\ base \in Nat /\ Ilog2(n) + 1 \in Nat
        /\ base + (Ilog2(n) + 1) <= N + 2
    <3> HIDE DEF n, K, N, base
    <3>1. QED
      BY <1>1, <1>2, <1>6, <1>7
  <2>2. 2 ^ (base + (Ilog2(n) + 1)) = x * y
    BY <2>1, PowerSum
  <2>3. LogSingleColLen(c, bounds, l, b) = base + (Ilog2(n) + 1)
    <3>1. LogSingleColLen(c, bounds, l, b) = base + Ilog2(n) + 1
      BY DEF LogSingleColLen
    <3> HIDE DEF n, base
    <3>2. QED
      BY <3>1, <2>1, <1>7
  <2>4. QED
    BY <2>2, <2>3 DEF ChtFullTableLength
<1>10. NumElementsAt(c, l, b) = w * x
  <2>1. CASE l = Bottom(c)
    BY <2>1, <1>3, <1>8 DEF NumElementsAt, BottomNumElements
  <2>2. CASE l # Bottom(c)
    BY <2>2 DEF NumElementsAt
  <2>3. QED
    BY <2>1, <2>2
<1>11. /\ NumDummies(c, l) \in Nat /\ NumDummies(c, l) <= x
       /\ c.stashSize <= x
  <2> DEFINE p == AmpFactor(c) ^ l
  <2>1. p \in Nat \ {0}
    BY PowerLaws
  <2>2. /\ SpeedCacheSize(c) \in Nat \ {0} /\ c.stashSize \in Nat
        /\ c.stashSize < SpeedCacheSize(c)
    BY ConfigFacts
  <2>3. FillTime(c) \in Nat /\ FillTime(c) <= SpeedCacheSize(c)
    BY <2>2 DEF FillTime
  <2>4. NumDummies(c, l) = p * FillTime(c) /\ x = p * SpeedCacheSize(c)
    BY <1>2 DEF NumDummies
  <2> HIDE DEF p, x
  <2>5. p * FillTime(c) <= p * SpeedCacheSize(c)
    BY <2>1, <2>2, <2>3
  <2>6. SpeedCacheSize(c) <= p * SpeedCacheSize(c)
    BY <2>1, <2>2
  <2>7. p * SpeedCacheSize(c) \in Nat /\ p * FillTime(c) \in Nat
    BY <2>1, <2>2, <2>3
  <2>8. QED
    BY <2>2, <2>4, <2>5, <2>6, <2>7
<1>12. QED
  <2> HIDE DEF w, n, x, y
  <2>1. w * x \in Nat /\ x <= w * x
    BY <1>5, <1>8
  <2>2. (w + 1) * x <= y * x /\ y * x \in Nat
    BY <1>5, <1>7, <1>8
  <2>3. (w + 1) * x = w * x + x /\ y * x = x * y
    BY <1>5, <1>8
  <2>4. QED
    BY <2>1, <2>2, <2>3, <1>1, <1>8, <1>9, <1>10, <1>11

=============================================================================
