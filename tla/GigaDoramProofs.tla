-------------------------- MODULE GigaDoramProofs --------------------------
(***************************************************************************)
(* Proofs about GigaDoram, for every configuration and every set of calls  *)
(* that name an address once in a batch: an address is stored once, every  *)
(* query is tagged with the keys of the tables it meets, and no tag of a   *)
(* table is shown twice.                                                   *)
(***************************************************************************)
EXTENDS GigaDoramProperties, DoramConfigProofs, FiniteSetTheorems, SequenceTheorems

---------------------------------------------------------------------------
(* First the operators GigaDoram collects and labels entries with: nothing *)
(* is lost, invented or duplicated on the way into a new table.            *)

(* Sequences that list a set.                                              *)

Lists(s, S) ==
  /\ s \in Seq(S)
  /\ \A i, j \in DOMAIN s : s[i] = s[j] => i = j
  /\ \A e \in S : \E i \in DOMAIN s : s[i] = e

(* A function on 1 .. n is a sequence of length n.                         *)
LEMMA TupleIsSeq ==
  ASSUME NEW S, NEW n \in Nat, NEW f \in [1 .. n -> S]
  PROVE  f \in Seq(S) /\ Len(f) = n /\ DOMAIN f = 1 .. n
<1>1. f \in Seq(S)
  BY SeqDef, Zenon
<1>2. QED
  BY <1>1, LenProperties

(* A listed set is finite and as large as the list is long.                *)
LEMMA ListedSize ==
  ASSUME NEW S, NEW s, Lists(s, S)
  PROVE  IsFiniteSet(S) /\ Cardinality(S) = Len(s)
<1>1. Len(s) \in Nat /\ s \in [1 .. Len(s) -> S]
  BY LenProperties DEF Lists
<1>2. s \in Bijection(1 .. Len(s), S)
  BY <1>1 DEF Lists, Bijection, Injection, Surjection, IsInjective
<1>3. ExistsBijection(1 .. Len(s), S)
  BY <1>2 DEF ExistsBijection
<1>4. IsFiniteSet(1 .. Len(s)) /\ Cardinality(1 .. Len(s)) = Len(s)
  BY <1>1, FS_Interval
<1>5. QED
  BY <1>3, <1>4, FS_Bijection

(* Ascending lists its set.                                                *)
LEMMA AscendingLists ==
  ASSUME NEW P, P \subseteq Int, IsFiniteSet(P)
  PROVE  /\ Lists(Ascending(P), P)
         /\ DOMAIN Ascending(P) = 1 .. Cardinality(P)
<1> DEFINE n == Cardinality(P)
           Below(p) == {q \in P : q < p}
           rank == [p \in P |-> Cardinality(Below(p)) + 1]
<1>1. n \in Nat
  BY FS_CardinalityType
<1>2. ASSUME NEW p \in P
      PROVE  /\ IsFiniteSet(Below(p)) /\ Cardinality(Below(p)) \in Nat
             /\ Cardinality(Below(p)) + 1 \in 1 .. n
  <2>1. Below(p) \in SUBSET P /\ Below(p) # P
    <3>1. p \notin Below(p)
      OBVIOUS
    <3>2. QED
      BY <3>1
  <2> HIDE DEF Below, n
  <2>2. /\ IsFiniteSet(Below(p)) /\ Cardinality(Below(p)) \in Nat
        /\ Cardinality(Below(p)) <= n /\ Cardinality(Below(p)) # n
    BY <2>1, FS_Subset, FS_CardinalityType DEF n
  <2>3. QED
    BY <1>1, <2>2
<1>3. ASSUME NEW p \in P, NEW q \in P, p < q
      PROVE  Cardinality(Below(p)) # Cardinality(Below(q))
  <2>1. Below(p) \in SUBSET Below(q)
    <3>1. ASSUME NEW r \in P, r < p
          PROVE  r < q
      BY <1>3, <3>1
    <3>2. QED
      BY <3>1
  <2>2. p \in Below(q) /\ p \notin Below(p)
    BY <1>3
  <2> HIDE DEF Below
  <2>3. QED
    BY <1>2, <2>1, <2>2, FS_Subset
<1>4. rank \in Injection(P, 1 .. n)
  <2>1. rank \in [P -> 1 .. n]
    <3> HIDE DEF Below
    <3>1. QED
      BY <1>2
  <2>2. ASSUME NEW p \in P, NEW q \in P, p # q
        PROVE  rank[p] # rank[q]
    <3>1. p < q \/ q < p
      BY <2>2
    <3> HIDE DEF Below
    <3>2. QED
      BY <1>2, <1>3, <3>1
  <2> HIDE DEF rank
  <2>3. QED
    BY <2>1, <2>2 DEF Injection, IsInjective
<1>5. rank \in Surjection(P, 1 .. n)
  <2>1. IsFiniteSet(1 .. n) /\ Cardinality(1 .. n) = n
    BY <1>1, FS_Interval
  <2> HIDE DEF rank
  <2>2. QED
    BY <1>4, <2>1, FS_Injection DEF n
<1>6. ASSUME NEW i \in 1 .. n
      PROVE  /\ Ascending(P)[i] \in P
             /\ Cardinality(Below(Ascending(P)[i])) = i - 1
  <2>1. PICK p \in P : rank[p] = i
    BY <1>5 DEF Surjection
  <2>2. Cardinality(Below(p)) = i - 1
    <3> HIDE DEF Below
    <3>1. QED
      BY <1>2, <2>1
  <2>3. \E r \in P : Cardinality({q \in P : q < r}) = i - 1
    BY <2>2
  <2>4. Ascending(P)[i] = CHOOSE r \in P : Cardinality({q \in P : q < r}) = i - 1
    BY DEF Ascending
  <2>5. QED
    BY <2>3, <2>4
<1>7. Ascending(P) \in [1 .. n -> P]
  <2> DEFINE F(i) == CHOOSE p \in P : Cardinality({q \in P : q < p}) = i - 1
  <2>1. Ascending(P) = [i \in 1 .. n |-> F(i)]
    BY DEF Ascending
  <2> HIDE DEF n, Below, F
  <2>2. \A i \in 1 .. n : F(i) \in P
    BY <1>6, <2>1
  <2>3. QED
    BY <2>1, <2>2
<1>8. \A p \in P : Ascending(P)[rank[p]] = p /\ rank[p] \in 1 .. n
  <2> TAKE p \in P
  <2>1. rank[p] \in 1 .. n /\ rank[p] = Cardinality(Below(p)) + 1
    BY <1>4 DEF Injection
  <2> DEFINE q == Ascending(P)[rank[p]]
  <2>2. q \in P /\ Cardinality(Below(q)) = rank[p] - 1
    BY <1>6, <2>1
  <2> HIDE DEF rank, Below, q
  <2>3. Cardinality(Below(q)) = Cardinality(Below(p))
    BY <2>1, <2>2, <1>2
  <2>4. ~ (p < q) /\ ~ (q < p)
    BY <1>3, <2>2, <2>3
  <2>5. p = q
    BY <2>2, <2>4
  <2>6. QED
    BY <2>1, <2>5 DEF q
<1>9. QED
  <2>1. DOMAIN Ascending(P) = 1 .. n /\ Ascending(P) \in Seq(P)
    <3> HIDE DEF n
    <3>1. QED
      BY <1>1, <1>7, TupleIsSeq
  <2>2. \A i, j \in 1 .. n : Ascending(P)[i] = Ascending(P)[j] => i = j
    <3> HIDE DEF n, Below
    <3>1. QED
      BY <1>6
  <2>3. \A p \in P : \E i \in 1 .. n : Ascending(P)[i] = p
    <3> HIDE DEF n, rank
    <3>1. QED
      BY <1>8
  <2>4. QED
    BY <2>1, <2>2, <2>3 DEF Lists

(* Select takes the elements at the given places, in ascending order.      *)
LEMMA SelectTakes ==
  ASSUME NEW T, NEW s \in Seq(T), NEW P \in SUBSET DOMAIN s
  PROVE  LET at == Ascending(P)
         IN  /\ Lists(at, P) /\ DOMAIN at = DOMAIN Select(s, P)
             /\ Select(s, P) \in Seq(T)
             /\ Len(Select(s, P)) = Cardinality(P)
             /\ Cardinality(P) \in 0 .. Len(s)
             /\ \A i \in DOMAIN at : at[i] \in P /\ Select(s, P)[i] = s[at[i]]
<1> DEFINE at == Ascending(P)
           n == Cardinality(P)
<1>1. Len(s) \in Nat /\ DOMAIN s = 1 .. Len(s) /\ s \in [1 .. Len(s) -> T]
  BY LenProperties
<1>2. IsFiniteSet(P) /\ n \in 0 .. Len(s)
  <2> DEFINE m == Len(s)
             D == 1 .. m
  <2>1. IsFiniteSet(D) /\ Cardinality(D) = m
    <3> HIDE DEF m
    <3>1. m \in Nat
      BY <1>1 DEF m
    <3>2. QED
      BY <3>1, FS_Interval
  <2>2. IsFiniteSet(P) /\ n <= Len(s)
    <3>1. IsFiniteSet(D) /\ Cardinality(D) = Len(s) /\ P \in SUBSET D
      BY <1>1, <2>1
    <3> HIDE DEF D
    <3>2. QED
      BY <3>1, FS_Subset
  <2>3. n \in Nat
    BY <2>2, FS_CardinalityType
  <2>4. QED
    BY <1>1, <2>2, <2>3
<1>3. P \subseteq Int
  BY <1>1
<1>4. Lists(at, P) /\ DOMAIN at = 1 .. n
  BY <1>2, <1>3, AscendingLists
<1>5. \A i \in 1 .. n : at[i] \in P
  <2>1. at \in [1 .. Len(at) -> P] /\ DOMAIN at = 1 .. Len(at)
    BY <1>4, LenProperties DEF Lists
  <2> HIDE DEF at, n
  <2>2. QED
    BY <1>4, <2>1
<1>6. Select(s, P) = [i \in 1 .. n |-> s[at[i]]]
  BY <1>4 DEF Select
<1> HIDE DEF at, n
<1>7. Select(s, P) \in [1 .. n -> T]
  BY <1>1, <1>5, <1>6
<1>8. Select(s, P) \in Seq(T) /\ Len(Select(s, P)) = n /\ DOMAIN Select(s, P) = 1 .. n
  BY <1>2, <1>7, TupleIsSeq
<1>9. QED
  BY <1>2, <1>4, <1>5, <1>6, <1>8 DEF at, n

(* InSomeOrder lists a set of entries that its labels tell apart.          *)
LEMMA SomeOrderLists ==
  ASSUME NEW S, IsFiniteSet(S), \A e \in S : e.x \in Int,
         \A e, f \in S : e.x = f.x => e = f
  PROVE  Lists(InSomeOrder(S), S)
<1> DEFINE L == {e.x : e \in S}
           n == Cardinality(L)
           F(i) == CHOOSE e \in S : e.x = Ascending(L)[i]
<1>1. L \subseteq Int /\ IsFiniteSet(L)
  <2> DEFINE f == [e \in S |-> e.x]
  <2>1. f \in Surjection(S, L)
    BY DEF Surjection
  <2> HIDE DEF f, L
  <2>2. IsFiniteSet(L)
    BY <2>1, FS_Surjection
  <2>3. QED
    BY <2>2 DEF L
<1>2. Lists(Ascending(L), L) /\ DOMAIN Ascending(L) = 1 .. n /\ n \in Nat
  <2> HIDE DEF L
  <2>1. QED
    BY <1>1, AscendingLists, FS_CardinalityType
<1>3. InSomeOrder(S) = [i \in 1 .. n |-> F(i)]
  BY <1>2 DEF InSomeOrder
<1>4. \A i \in 1 .. n : Ascending(L)[i] \in L
  <2>1. /\ Ascending(L) \in [1 .. Len(Ascending(L)) -> L]
        /\ DOMAIN Ascending(L) = 1 .. Len(Ascending(L))
    BY <1>2, LenProperties DEF Lists
  <2> HIDE DEF L
  <2>2. QED
    BY <1>2, <2>1
<1>5. \A i \in 1 .. n : F(i) \in S /\ F(i).x = Ascending(L)[i]
  <2> TAKE i \in 1 .. n
  <2>1. \E e \in S : e.x = Ascending(L)[i]
    <3> HIDE DEF n
    <3>1. QED
      BY <1>4
  <2>2. QED
    BY <2>1
<1> HIDE DEF n, F
<1>6. InSomeOrder(S) \in Seq(S) /\ DOMAIN InSomeOrder(S) = 1 .. n
  <2>1. InSomeOrder(S) \in [1 .. n -> S]
    BY <1>3, <1>5
  <2>2. QED
    BY <1>2, <2>1, TupleIsSeq
<1>7. \A i, j \in 1 .. n : InSomeOrder(S)[i] = InSomeOrder(S)[j] => i = j
  BY <1>2, <1>3, <1>5 DEF Lists
<1>8. ASSUME NEW e \in S
      PROVE  \E i \in 1 .. n : InSomeOrder(S)[i] = e
  <2>1. e.x \in L
    OBVIOUS
  <2>2. PICK i \in 1 .. n : Ascending(L)[i] = e.x
    BY <1>2, <2>1 DEF Lists
  <2>3. F(i) = e
    BY <1>5, <2>2
  <2>4. QED
    BY <1>3, <2>3
<1>9. QED
  BY <1>6, <1>7, <1>8 DEF Lists

(* FlattenSeq appends one sequence after the other.                        *)
LEMMA FlattenAppends ==
  ASSUME NEW ss, NEW n \in Nat \ {0}, Len(ss) = n
  PROVE  \E g : /\ DOMAIN g = 1 .. n /\ FlattenSeq(ss) = g[n]
                /\ \A i \in 1 .. n :
                     g[i] = IF i = 1 THEN ss[i] ELSE g[i - 1] \o ss[i]
<1> DEFINE Flat(g, k) ==
             g = [i \in 1 .. k |-> IF i = 1 THEN ss[i] ELSE g[i - 1] \o ss[i]]
           Bad == {k \in Nat : ~ \E g : Flat(g, k)}
<1>1. ASSUME NEW k \in Bad, \A j \in Bad : k <= j
      PROVE  FALSE
  <2> HIDE DEF Flat
  <2>1. k \in Nat /\ ~ \E g : Flat(g, k)
    OBVIOUS
  <2>2. CASE k = 0
    <3> DEFINE e == [i \in 1 .. 0 |-> ss[i]]
    <3>1. Flat(e, 0)
      BY DEF Flat
    <3>2. QED
      BY <2>1, <2>2, <3>1
  <2>3. CASE k # 0
    <3> DEFINE m == k - 1
    <3>1. m \in Nat /\ m + 1 = k /\ m \notin Bad
      <4>1. m \in Nat /\ m + 1 = k /\ ~ (k <= m)
        BY <2>1, <2>3
      <4> HIDE DEF Bad, m
      <4>2. QED
        BY <4>1, <1>1
    <3>2. PICK g : Flat(g, m)
      BY <3>1
    <3> DEFINE h == [i \in 1 .. k |->
                       IF i < k THEN g[i]
                       ELSE IF i = 1 THEN ss[i] ELSE g[i - 1] \o ss[i]]
    <3> HIDE DEF m
    <3>3. \A i \in 1 .. k :
            h[i] = IF i = 1 THEN ss[i] ELSE h[i - 1] \o ss[i]
      <4> TAKE i \in 1 .. k
      <4>1. CASE i = k
        <5>1. i # 1 => h[i - 1] = g[i - 1]
          BY <2>1, <4>1
        <5>2. QED
          BY <2>1, <4>1, <5>1
      <4>2. CASE i # k
        <5>1. i \in 1 .. m /\ i < k /\ i \in 1 .. k
          BY <2>1, <3>1, <4>2
        <5>2. g[i] = IF i = 1 THEN ss[i] ELSE g[i - 1] \o ss[i]
          BY <3>2, <5>1 DEF Flat
        <5>3. i # 1 => h[i - 1] = g[i - 1]
          BY <2>1, <5>1
        <5>4. QED
          BY <5>1, <5>2, <5>3
      <4>3. QED
        BY <4>1, <4>2
    <3>4. Flat(h, k)
      <4>1. h = [i \in 1 .. k |-> h[i]]
        OBVIOUS
      <4> HIDE DEF h
      <4>2. QED
        BY <3>3, <4>1 DEF Flat
    <3>5. QED
      BY <2>1, <3>4
  <2>4. QED
    BY <2>2, <2>3
<1>2. Bad = {}
  <2>1. Bad \subseteq Nat
    OBVIOUS
  <2> HIDE DEF Bad
  <2>2. QED
    BY <1>1, <2>1, LeastNatural
<1>3. \E g : Flat(g, n)
  <2>1. n \notin Bad
    BY <1>2
  <2> HIDE DEF Flat
  <2>2. QED
    BY <2>1
<1> DEFINE G == CHOOSE g : Flat(g, n)
<1>4. Flat(G, n)
  <2> HIDE DEF Flat
  <2>1. QED
    BY <1>3
<1>5. FlattenSeq(ss) = G[n]
  BY DEF FlattenSeq
<1> HIDE DEF G
<1>6. QED
  BY <1>4, <1>5

---------------------------------------------------------------------------
(* Labels.                                                                 *)

(* Below 2^(N+1), the labels with bit N are those that are no addresses.   *)
LEMMA LabelFacts ==
  ASSUME NEW c \in Configs
  PROVE  LET N == BottomNumElements(c)
         IN  /\ N \in Nat \ {0}
             /\ Addresses(c) = 0 .. N - 1
             /\ \A x \in 0 .. 2 * N - 1 : IsDummy(c, x) <=> x \notin Addresses(c)
<1> DEFINE N == BottomNumElements(c)
<1>1. N \in Nat \ {0}
  <2> DEFINE p == AmpFactor(c) ^ Bottom(c)
  <2>1. Bottom(c) \in Levels(c)
    BY ConfigFacts
  <2>2. p \in Nat \ {0} /\ SpeedCacheSize(c) \in Nat \ {0}
    BY <2>1, PowerLaws
  <2>3. Bottom(c) * c.logAmpFactor + c.logSpeedCacheSize = c.logAddressSpaceSize
    BY ConfigsValid DEF Valid, ConfigFields, Bottom
  <2>4. N = p * SpeedCacheSize(c)
    BY <2>1, <2>3, LevelSize DEF BottomNumElements
  <2> HIDE DEF p, N
  <2>5. QED
    BY <2>2, <2>4
<1>2. ASSUME NEW x \in 0 .. 2 * N - 1
      PROVE  IsDummy(c, x) <=> x \notin 0 .. N - 1
  <2>1. IsDummy(c, x) <=> (x \div N) % 2 = 1
    BY DEF IsDummy
  <2> HIDE DEF N
  <2>2. CASE x \in 0 .. N - 1
    BY <1>1, <2>1, <2>2
  <2>3. CASE x \in N .. 2 * N - 1
    BY <1>1, <2>1, <2>3
  <2>4. QED
    BY <1>1, <2>2, <2>3
<1>3. QED
  BY <1>1, <1>2 DEF Addresses

(* The sequence s carries the contents R: of the entries R (which have no  *)
(* alibis) each address is in s once, and s has no other addresses.        *)
Bare(e) == Entry(e.x, e.y)

Carries(c, s, R) ==
  /\ s \in Seq(EntryOf(c))
  /\ \A i \in DOMAIN s : s[i].x \in Addresses(c) => Bare(s[i]) \in R
  /\ \A r \in R : \E i \in DOMAIN s : s[i].x \in Addresses(c) /\ Bare(s[i]) = r
  /\ \A i, j \in DOMAIN s : s[i].x = s[j].x /\ s[i].x \in Addresses(c) => i = j

Contents(c, S) == {Bare(e) : e \in {f \in S : f.x \in Addresses(c)}}

(* The entries and labels of a sequence that carries R.                    *)
LEMMA CarriedEntries ==
  ASSUME NEW c, NEW R, NEW s, Carries(c, s, R)
  PROVE  /\ Len(s) \in Nat /\ DOMAIN s = 1 .. Len(s)
         /\ \A i \in 1 .. Len(s) : s[i] \in EntryOf(c)
         /\ \A r \in R : r.x \in Addresses(c)
<1>1. s \in Seq(EntryOf(c))
  BY DEF Carries
<1>2. /\ Len(s) \in Nat /\ DOMAIN s = 1 .. Len(s)
      /\ \A i \in 1 .. Len(s) : s[i] \in EntryOf(c)
  BY <1>1, LenProperties, ElementOfSeq
<1>3. \A r \in R : r.x \in Addresses(c)
  BY DEF Carries, Bare, Entry
<1>4. QED
  BY <1>2, <1>3

(* Two sequences with different addresses carry together what each does.   *)
LEMMA CarriesConcat ==
  ASSUME NEW c, NEW R, NEW Q, NEW s, NEW t, Carries(c, s, R), Carries(c, t, Q),
         \A r \in R, q \in Q : r.x # q.x
  PROVE  Carries(c, s \o t, R \cup Q)
<1> DEFINE m == Len(s)
           n == Len(t)
           u == s \o t
<1>1. /\ m \in Nat /\ DOMAIN s = 1 .. m /\ n \in Nat /\ DOMAIN t = 1 .. n
      /\ s \in Seq(EntryOf(c)) /\ t \in Seq(EntryOf(c))
  BY CarriedEntries DEF Carries
<1>2. /\ u \in Seq(EntryOf(c)) /\ Len(u) = m + n
      /\ \A i \in 1 .. m + n : u[i] = IF i <= m THEN s[i] ELSE t[i - m]
  BY <1>1, ConcatProperties
<1>3. DOMAIN u = 1 .. m + n
  BY <1>2, LenProperties
<1> HIDE DEF m, n, u
<1>4. \A i \in 1 .. m : u[i] = s[i] /\ i \in DOMAIN s /\ i \in DOMAIN u
  BY <1>1, <1>2, <1>3
<1>5. \A i \in 1 .. n : u[i + m] = t[i] /\ i \in DOMAIN t /\ i + m \in DOMAIN u
  <2> TAKE i \in 1 .. n
  <2>1. i + m \in 1 .. m + n /\ ~ (i + m <= m) /\ i + m - m = i
    BY <1>1
  <2>2. QED
    BY <1>1, <1>2, <1>3, <2>1
<1>6. \A i \in DOMAIN u : \/ i \in 1 .. m
                          \/ i - m \in 1 .. n /\ i = (i - m) + m
  BY <1>1, <1>3
<1>7. \A i \in DOMAIN u : u[i].x \in Addresses(c) => Bare(u[i]) \in R \cup Q
  <2> TAKE i \in DOMAIN u
  <2>1. CASE i \in 1 .. m
    BY <2>1, <1>4 DEF Carries
  <2>2. CASE i - m \in 1 .. n /\ i = (i - m) + m
    BY <2>2, <1>5 DEF Carries
  <2>3. QED
    BY <1>6, <2>1, <2>2
<1>8. \A r \in R \cup Q :
        \E i \in DOMAIN u : u[i].x \in Addresses(c) /\ Bare(u[i]) = r
  <2> TAKE r \in R \cup Q
  <2>1. CASE r \in R
    BY <2>1, <1>1, <1>4 DEF Carries
  <2>2. CASE r \in Q
    BY <2>2, <1>1, <1>5 DEF Carries
  <2>3. QED
    BY <2>1, <2>2
<1>9. ASSUME NEW i \in 1 .. m, NEW j \in 1 .. n, s[i].x = t[j].x,
             s[i].x \in Addresses(c)
      PROVE  FALSE
  <2>1. Bare(s[i]) \in R /\ Bare(t[j]) \in Q
    BY <1>1, <1>9 DEF Carries
  <2>2. Bare(s[i]).x = Bare(t[j]).x
    BY <1>9 DEF Bare, Entry
  <2>3. QED
    BY <2>1, <2>2
<1>10. \A i, j \in DOMAIN u : u[i].x = u[j].x /\ u[i].x \in Addresses(c) => i = j
  <2> TAKE i, j \in DOMAIN u
  <2> HAVE u[i].x = u[j].x /\ u[i].x \in Addresses(c)
  <2>1. CASE i \in 1 .. m /\ j \in 1 .. m
    BY <2>1, <1>4 DEF Carries
  <2>2. CASE i \in 1 .. m /\ j - m \in 1 .. n /\ j = (j - m) + m
    BY <2>2, <1>4, <1>5, <1>9
  <2>3. CASE j \in 1 .. m /\ i - m \in 1 .. n /\ i = (i - m) + m
    BY <2>3, <1>4, <1>5, <1>9
  <2>4. CASE /\ i - m \in 1 .. n /\ i = (i - m) + m
             /\ j - m \in 1 .. n /\ j = (j - m) + m
    <3>1. i - m = j - m
      BY <2>4, <1>5 DEF Carries
    <3>2. QED
      BY <2>4, <3>1
  <2>5. QED
    BY <1>6, <2>1, <2>2, <2>3, <2>4
<1>11. QED
  BY <1>2, <1>7, <1>8, <1>10 DEF Carries, u

(* Dummy entries carry nothing.                                            *)
LEMMA CarriesNothing ==
  ASSUME NEW c \in Configs, NEW n \in Int
  PROVE  /\ Carries(c, [i \in 1 .. n |-> DummyEntry(c)], {})
         /\ Carries(c, <<>>, {})
<1> DEFINE d == DummyEntry(c)
<1>1. d \in EntryOf(c) /\ d.x \notin Addresses(c)
  BY LabelFacts DEF DummyEntry, Entry, EntryOf, DummyX, Zero, Values
<1> HIDE DEF d
<1>2. ASSUME NEW m \in Nat
      PROVE  Carries(c, [i \in 1 .. m |-> d], {})
  <2> DEFINE s == [i \in 1 .. m |-> d]
  <2>1. s \in [1 .. m -> EntryOf(c)]
    BY <1>1
  <2>2. s \in Seq(EntryOf(c)) /\ DOMAIN s = 1 .. m
    <3> HIDE DEF s
    <3>1. QED
      BY <2>1, TupleIsSeq
  <2>3. \A i \in DOMAIN s : s[i].x \notin Addresses(c)
    BY <1>1
  <2> HIDE DEF s
  <2>4. Carries(c, s, {})
    BY <2>2, <2>3 DEF Carries
  <2>5. QED
    BY <2>4 DEF s
<1>3. Carries(c, [i \in 1 .. n |-> d], {})
  <2>1. CASE n \in Nat
    BY <2>1, <1>2
  <2>2. CASE n \notin Nat
    <3>1. 1 .. n = 1 .. 0
      BY <2>2
    <3>2. QED
      BY <1>2, <3>1
  <2>3. QED
    BY <2>1, <2>2
<1>4. Carries(c, <<>>, {})
  <2>1. <<>> \in Seq(EntryOf(c)) /\ DOMAIN <<>> = {}
    OBVIOUS
  <2>2. QED
    BY <2>1 DEF Carries
<1>5. QED
  BY <1>3, <1>4 DEF d

(* Padding changes nothing.                                                *)
LEMMA CarriesPadded ==
  ASSUME NEW c \in Configs, NEW R, NEW s, Carries(c, s, R), NEW n \in Int
  PROVE  Carries(c, PadTo(s, n, DummyEntry(c)), R)
<1>1. n - Len(s) \in Int
  BY CarriedEntries
<1>2. Carries(c, [i \in 1 .. n - Len(s) |-> DummyEntry(c)], {})
  BY <1>1, CarriesNothing
<1>3. Carries(c, s \o [i \in 1 .. n - Len(s) |-> DummyEntry(c)], R \cup {})
  BY <1>2, CarriesConcat
<1>4. QED
  BY <1>3 DEF PadTo

(* extract_untouched hands back the contents of a table.                   *)
LEMMA CarriesUntouched ==
  ASSUME NEW c \in Configs, NEW t \in TableOf(c), IsFiniteSet(t.entries),
         \A e, f \in t.entries : e.x = f.x => e = f
  PROVE  Carries(c, ExtractUntouched(c, t), Contents(c, t.entries))
<1> DEFINE S == t.entries
           s == InSomeOrder(S)
<1>1. S \subseteq EntryOf(c) /\ t.dummies \in Int
  BY DEF TableOf
<1>2. BottomNumElements(c) \in Nat
  BY LabelFacts
<1>3. \A e \in S : e \in EntryOf(c) /\ e.x \in Int
  BY <1>1, <1>2 DEF EntryOf
<1>4. Lists(s, S)
  <2> HIDE DEF S
  <2>1. QED
    BY <1>3, SomeOrderLists DEF S
<1> HIDE DEF s
<1>5. s \in Seq(EntryOf(c)) /\ DOMAIN s = 1 .. Len(s) /\ \A i \in DOMAIN s : s[i] \in S
  <2> HIDE DEF S
  <2>1. s \in Seq(S)
    BY <1>4 DEF Lists
  <2>2. s \in Seq(EntryOf(c))
    BY <1>1, <2>1, SeqMonotonic
  <2>3. QED
    BY <2>1, <2>2, LenProperties, ElementOfSeq
<1>6. Carries(c, s, Contents(c, S))
  <2>1. \A i \in DOMAIN s : s[i].x \in Addresses(c) => Bare(s[i]) \in Contents(c, S)
    BY <1>5 DEF Contents
  <2>2. \A r \in Contents(c, S) :
          \E i \in DOMAIN s : s[i].x \in Addresses(c) /\ Bare(s[i]) = r
    BY <1>4 DEF Contents, Lists
  <2>3. \A i, j \in DOMAIN s : s[i].x = s[j].x => i = j
    BY <1>4, <1>5 DEF Lists
  <2>4. QED
    BY <1>5, <2>1, <2>2, <2>3 DEF Carries
<1>7. Carries(c, [i \in 1 .. t.dummies |-> DummyEntry(c)], {})
  BY <1>1, CarriesNothing
<1>8. Carries(c, s \o [i \in 1 .. t.dummies |-> DummyEntry(c)], Contents(c, S) \cup {})
  BY <1>6, <1>7, CarriesConcat
<1>9. QED
  BY <1>8 DEF ExtractUntouched, s

(* Sequences with different addresses carry, flattened, all they carry.    *)
LEMMA CarriesFlattened ==
  ASSUME NEW c, NEW n \in Nat \ {0}, NEW ss, Len(ss) = n, NEW R,
         \A k \in 1 .. n : Carries(c, ss[k], R[k]),
         \A j, k \in 1 .. n : \A r \in R[j], q \in R[k] : r.x = q.x => j = k,
         NEW U, \A r : r \in U <=> \E k \in 1 .. n : r \in R[k]
  PROVE  Carries(c, FlattenSeq(ss), U)
<1>1. PICK g : /\ DOMAIN g = 1 .. n /\ FlattenSeq(ss) = g[n]
               /\ \A i \in 1 .. n :
                    g[i] = IF i = 1 THEN ss[i] ELSE g[i - 1] \o ss[i]
  BY FlattenAppends
<1> DEFINE All(k) == UNION {R[j] : j \in 1 .. k}
           Bad == {k \in 1 .. n : ~ Carries(c, g[k], All(k))}
<1>2. ASSUME NEW k \in Bad, \A j \in Bad : k <= j
      PROVE  FALSE
  <2>1. k \in 1 .. n /\ ~ Carries(c, g[k], All(k))
    OBVIOUS
  <2>2. CASE k = 1
    <3>1. All(1) = R[1]
      OBVIOUS
    <3>2. g[1] = ss[1]
      BY <1>1
    <3> HIDE DEF All
    <3>3. QED
      BY <2>1, <2>2, <3>1, <3>2
  <2>3. CASE k # 1
    <3> DEFINE m == k - 1
    <3>1. m \in 1 .. n /\ m + 1 = k /\ m \notin Bad
      <4>1. m \in 1 .. n /\ m + 1 = k /\ ~ (k <= m)
        BY <2>1, <2>3
      <4> HIDE DEF Bad, m
      <4>2. QED
        BY <4>1, <1>2
    <3>2. Carries(c, g[m], All(m))
      BY <3>1
    <3>3. g[k] = g[m] \o ss[k]
      BY <1>1, <2>1, <2>3
    <3>4. All(k) = All(m) \cup R[k]
      <4>1. 1 .. k = 1 .. m \cup {k}
        BY <2>1, <2>3
      <4> HIDE DEF m
      <4>2. QED
        BY <4>1
    <3>5. \A r \in All(m), q \in R[k] : r.x # q.x
      <4> TAKE r \in All(m), q \in R[k]
      <4>1. PICK j \in 1 .. m : r \in R[j]
        OBVIOUS
      <4>2. j \in 1 .. n /\ j # k
        BY <2>1, <2>3
      <4>3. QED
        BY <2>1, <4>1, <4>2
    <3> HIDE DEF All, m
    <3>6. Carries(c, g[k], All(k))
      BY <2>1, <3>2, <3>3, <3>4, <3>5, CarriesConcat
    <3>7. QED
      BY <2>1, <3>6
  <2>4. QED
    BY <2>2, <2>3
<1>3. Bad \subseteq Nat /\ n \in 1 .. n
  OBVIOUS
<1>4. Carries(c, g[n], All(n))
  <2>1. ASSUME Bad # {}
        PROVE  FALSE
    <3> HIDE DEF Bad
    <3>1. PICK k \in Bad : \A j \in Bad : k <= j
      BY <1>3, <2>1, LeastNatural
    <3>2. QED
      BY <1>2, <3>1
  <2>2. n \notin Bad
    <3> HIDE DEF Bad
    <3>1. QED
      BY <2>1
  <2> HIDE DEF All
  <2>3. QED
    BY <1>3, <2>2
<1>5. U = All(n)
  <2>1. \A r : r \in All(n) <=> \E k \in 1 .. n : r \in R[k]
    OBVIOUS
  <2> HIDE DEF All
  <2>2. QED
    BY <2>1
<1>6. QED
  BY <1>1, <1>4, <1>5

---------------------------------------------------------------------------
(* Sequences fit for a new table: without alibis, and in the end with      *)
(* distinct labels.                                                        *)

Bared(c, s, R) == Carries(c, s, R) /\ \A i \in DOMAIN s : s[i].alibi = {}

Labelled(c, s, R) ==
  Bared(c, s, R) /\ \A i, j \in DOMAIN s : s[i].x = s[j].x => i = j

(* Clearing the alibis keeps the contents.                                 *)
LEMMA CarriesCleared ==
  ASSUME NEW c, NEW R, NEW s, Carries(c, s, R)
  PROVE  Bared(c, [i \in DOMAIN s |-> ClearAlibi(s[i])], R)
<1> DEFINE t == [i \in DOMAIN s |-> ClearAlibi(s[i])]
           n == Len(s)
<1>1. /\ n \in Nat /\ DOMAIN s = 1 .. n
      /\ \A i \in 1 .. n : s[i] \in EntryOf(c)
  BY CarriedEntries
<1>2. ASSUME NEW i \in 1 .. n
      PROVE  /\ t[i] \in EntryOf(c) /\ t[i].alibi = {}
             /\ t[i].x = s[i].x /\ Bare(t[i]) = Bare(s[i])
  <2>1. t[i] = [s[i] EXCEPT !.alibi = {}] /\ s[i] \in EntryOf(c)
    BY <1>1 DEF ClearAlibi
  <2> HIDE DEF t
  <2>2. QED
    BY <2>1 DEF EntryOf, Bare, Entry
<1>3. t \in Seq(EntryOf(c)) /\ DOMAIN t = 1 .. n
  <2>1. t = [i \in 1 .. n |-> t[i]]
    BY <1>1
  <2>2. t \in [1 .. n -> EntryOf(c)]
    <3> HIDE DEF t, n
    <3>1. QED
      BY <1>2, <2>1
  <2> HIDE DEF t, n
  <2>3. QED
    BY <1>1, <2>2, TupleIsSeq
<1> HIDE DEF t, n
<1>4. Bared(c, t, R)
  BY <1>1, <1>2, <1>3 DEF Bared, Carries
<1>5. QED
  BY <1>4 DEF t

(* The real entries of a sequence carry its contents.                      *)
LEMMA BaredReals ==
  ASSUME NEW c \in Configs, NEW R, NEW s, Bared(c, s, R)
  PROVE  /\ Labelled(c, Reals(c, s), R)
         /\ \A i \in DOMAIN Reals(c, s) : Reals(c, s)[i].x \in Addresses(c)
<1> DEFINE P == {i \in DOMAIN s : ~ IsDummy(c, s[i].x)}
           at == Ascending(P)
           t == Select(s, P)
<1>1. /\ DOMAIN s = 1 .. Len(s) /\ \A i \in DOMAIN s : s[i] \in EntryOf(c)
      /\ s \in Seq(EntryOf(c))
  BY CarriedEntries DEF Bared, Carries
<1>2. \A i \in DOMAIN s : ~ IsDummy(c, s[i].x) <=> s[i].x \in Addresses(c)
  BY <1>1, LabelFacts DEF EntryOf
<1>3. P \in SUBSET DOMAIN s
  OBVIOUS
<1>4. /\ Lists(at, P) /\ DOMAIN at = DOMAIN t /\ t \in Seq(EntryOf(c))
      /\ \A i \in DOMAIN at : at[i] \in P /\ t[i] = s[at[i]]
  <2> HIDE DEF P
  <2>1. QED
    BY <1>1, <1>3, SelectTakes DEF at, t
<1>5. \A i \in DOMAIN s : i \in P <=> s[i].x \in Addresses(c)
  BY <1>2
<1> HIDE DEF P, at, t
<1>6. \A i \in DOMAIN t : /\ at[i] \in DOMAIN s /\ t[i] = s[at[i]]
                          /\ t[i].x \in Addresses(c) /\ t[i].alibi = {}
                          /\ Bare(t[i]) \in R
  BY <1>3, <1>4, <1>5 DEF Bared, Carries
<1>7. \A i, j \in DOMAIN t : t[i].x = t[j].x => i = j
  BY <1>4, <1>6 DEF Lists, Bared, Carries
<1>8. \A r \in R : \E i \in DOMAIN t : t[i].x \in Addresses(c) /\ Bare(t[i]) = r
  <2> TAKE r \in R
  <2>1. PICK k \in DOMAIN s : s[k].x \in Addresses(c) /\ Bare(s[k]) = r
    BY DEF Bared, Carries
  <2>2. PICK i \in DOMAIN t : at[i] = k
    BY <1>4, <1>5, <2>1 DEF Lists
  <2>3. QED
    BY <1>6, <2>1, <2>2
<1>9. Labelled(c, t, R)
  BY <1>4, <1>6, <1>7, <1>8 DEF Labelled, Bared, Carries
<1>10. QED
  BY <1>6, <1>9 DEF Reals, t, P

(* Its dummies carry nothing.                                              *)
LEMMA BaredDummies ==
  ASSUME NEW c \in Configs, NEW R, NEW s, Bared(c, s, R)
  PROVE  Bared(c, Dummies(c, s), {})
<1> DEFINE P == {i \in DOMAIN s : IsDummy(c, s[i].x)}
           at == Ascending(P)
           t == Select(s, P)
<1>1. /\ DOMAIN s = 1 .. Len(s) /\ \A i \in DOMAIN s : s[i] \in EntryOf(c)
      /\ s \in Seq(EntryOf(c))
  BY CarriedEntries DEF Bared, Carries
<1>2. \A i \in DOMAIN s : IsDummy(c, s[i].x) <=> s[i].x \notin Addresses(c)
  BY <1>1, LabelFacts DEF EntryOf
<1>3. P \in SUBSET DOMAIN s
  OBVIOUS
<1>4. /\ DOMAIN at = DOMAIN t /\ t \in Seq(EntryOf(c))
      /\ \A i \in DOMAIN at : at[i] \in P /\ t[i] = s[at[i]]
  <2> HIDE DEF P
  <2>1. QED
    BY <1>1, <1>3, SelectTakes DEF at, t
<1>5. \A i \in P : i \in DOMAIN s /\ s[i].x \notin Addresses(c)
  BY <1>2
<1> HIDE DEF P, at, t
<1>6. \A i \in DOMAIN t : t[i].x \notin Addresses(c) /\ t[i].alibi = {}
  BY <1>4, <1>5 DEF Bared
<1>7. Bared(c, t, {})
  BY <1>4, <1>6 DEF Bared, Carries
<1>8. QED
  BY <1>7 DEF Dummies, t, P

(* There are no more real entries than addresses.                          *)
LEMMA RealsFit ==
  ASSUME NEW c \in Configs, NEW R, NEW s, Carries(c, s, R),
         \A i \in DOMAIN s : s[i].x \in Addresses(c)
  PROVE  Len(s) <= BottomNumElements(c)
<1> DEFINE N == BottomNumElements(c)
           n == Len(s)
           D == 1 .. n
           A == Addresses(c)
           f == [i \in D |-> s[i].x]
<1>1. N \in Nat /\ A = 0 .. N - 1 /\ n \in Nat /\ DOMAIN s = D
  BY LabelFacts, CarriedEntries
<1>2. IsFiniteSet(A) /\ Cardinality(A) = N /\ IsFiniteSet(D) /\ Cardinality(D) = n
  <2> HIDE DEF N, n, A
  <2>1. 0 - 1 \in Int /\ N - 1 \in Int /\ (0 > N - 1 <=> N = 0)
    BY <1>1
  <2>2. QED
    BY <1>1, <2>1, FS_Interval
<1>3. f \in Injection(D, A)
  <2>1. f \in [D -> A]
    BY <1>1
  <2>2. \A i, j \in D : f[i] = f[j] => i = j
    <3> HIDE DEF n, D, A
    <3>1. QED
      BY <1>1 DEF Carries, A
  <2> HIDE DEF f, D, A
  <2>3. QED
    BY <2>1, <2>2 DEF Injection, IsInjective
<1> HIDE DEF N, n, D, A, f
<1>4. n <= N
  BY <1>2, <1>3, FS_Injection
<1>5. QED
  BY <1>4 DEF n, N

(* Renumbered dummies have labels of their own, of which there are enough. *)
LEMMA RelabelledLabelled ==
  ASSUME NEW c \in Configs, NEW R, NEW s, Bared(c, s, R),
         Len(s) <= BottomNumElements(c)
  PROVE  /\ Labelled(c, RelabelDummies(c, s), R)
         /\ Len(RelabelDummies(c, s)) = Len(s)
<1> DEFINE N == BottomNumElements(c)
           n == Len(s)
           t == RelabelDummies(c, s)
<1>1. /\ n \in Nat /\ DOMAIN s = 1 .. n
      /\ \A i \in 1 .. n : s[i] \in EntryOf(c) /\ s[i].alibi = {}
  BY CarriedEntries DEF Bared
<1>2. N \in Nat /\ Addresses(c) = 0 .. N - 1 /\ n <= N
  BY LabelFacts
<1>3. ASSUME NEW i \in 1 .. n
      PROVE  /\ t[i] \in EntryOf(c) /\ t[i].alibi = {}
             /\ s[i].x \in Addresses(c) => t[i] = s[i]
             /\ s[i].x \notin Addresses(c) => t[i].x = N + i - 1
  <2>1. s[i] \in EntryOf(c) /\ s[i].alibi = {} /\ s[i].x \in 0 .. 2 * N - 1
    BY <1>1 DEF EntryOf
  <2>2. IsDummy(c, s[i].x) <=> s[i].x \notin Addresses(c)
    BY <2>1, LabelFacts
  <2>3. CASE IsDummy(c, s[i].x)
    <3>1. t[i] = [s[i] EXCEPT !.x = N + i - 1]
      BY <1>1, <2>3 DEF RelabelDummies
    <3>2. N + i - 1 \in 0 .. 2 * N - 1
      <4> HIDE DEF n, N
      <4>1. QED
        BY <1>1, <1>2
    <3> HIDE DEF t, n
    <3>3. QED
      BY <2>1, <2>2, <2>3, <3>1, <3>2 DEF EntryOf
  <2>4. CASE ~ IsDummy(c, s[i].x)
    <3>1. t[i] = s[i]
      BY <1>1, <2>4 DEF RelabelDummies
    <3> HIDE DEF t, n
    <3>2. QED
      BY <2>1, <2>2, <2>4, <3>1
  <2>5. QED
    BY <2>3, <2>4
<1>4. t \in Seq(EntryOf(c)) /\ DOMAIN t = 1 .. n /\ Len(t) = n
  <2>1. DOMAIN t = 1 .. n
    BY <1>1 DEF RelabelDummies
  <2>2. t \in [1 .. n -> EntryOf(c)]
    <3>1. t = [i \in 1 .. n |-> t[i]]
      BY <1>1 DEF RelabelDummies
    <3> HIDE DEF t, n
    <3>2. QED
      BY <1>3, <3>1
  <2> HIDE DEF t, n
  <2>3. QED
    BY <1>1, <2>2, TupleIsSeq
<1> HIDE DEF t, n, N
<1>5. \A i \in 1 .. n : t[i].x \in Addresses(c) <=> s[i].x \in Addresses(c)
  BY <1>1, <1>2, <1>3
<1>6. \A i, j \in 1 .. n : t[i].x = t[j].x => i = j
  <2> TAKE i, j \in 1 .. n
  <2> HAVE t[i].x = t[j].x
  <2>1. CASE t[i].x \in Addresses(c)
    BY <2>1, <1>1, <1>3, <1>5 DEF Bared, Carries
  <2>2. CASE t[i].x \notin Addresses(c)
    <3>1. N + i - 1 = N + j - 1
      BY <2>2, <1>3, <1>5
    <3>2. QED
      BY <1>1, <1>2, <3>1
  <2>3. QED
    BY <2>1, <2>2
<1>7. Carries(c, t, R)
  <2>1. \A i \in DOMAIN t : t[i].x \in Addresses(c) => Bare(t[i]) \in R
    BY <1>1, <1>3, <1>4, <1>5 DEF Bared, Carries
  <2>2. \A r \in R : \E i \in DOMAIN t : t[i].x \in Addresses(c) /\ Bare(t[i]) = r
    BY <1>1, <1>3, <1>4, <1>5 DEF Bared, Carries
  <2>3. QED
    BY <1>4, <1>6, <2>1, <2>2 DEF Carries
<1>8. Labelled(c, t, R) /\ Len(t) = n
  BY <1>3, <1>4, <1>6, <1>7 DEF Labelled, Bared
<1>9. QED
  BY <1>8 DEF t, n

(* The smaller of two numbers.                                             *)
LEMMA MinOfTwo ==
  ASSUME NEW m \in Int, NEW n \in Int
  PROVE  /\ Min({m, n}) \in {m, n}
         /\ Min({m, n}) <= m /\ Min({m, n}) <= n
<1>1. \E x \in {m, n} : \A y \in {m, n} : x <= y
  BY m <= n \/ n <= m
<1>2. QED
  BY <1>1 DEF Min

(* A prefix that reaches beyond the real entries keeps the contents.       *)
LEMMA PrefixKeeps ==
  ASSUME NEW c \in Configs, NEW R, NEW r, Bared(c, r, R), NEW d, Bared(c, d, {}),
         NEW k \in Len(r) .. Len(r) + Len(d)
  PROVE  Bared(c, SubSeq(r \o d, 1, k), R) /\ Len(SubSeq(r \o d, 1, k)) = k
<1> DEFINE m == Len(r)
           n == Len(d)
           u == r \o d
           t == SubSeq(u, 1, k)
<1>1. /\ m \in Nat /\ DOMAIN r = 1 .. m /\ r \in Seq(EntryOf(c))
      /\ n \in Nat /\ DOMAIN d = 1 .. n /\ d \in Seq(EntryOf(c))
  BY CarriedEntries DEF Bared, Carries
<1>2. /\ u \in Seq(EntryOf(c)) /\ Len(u) = m + n
      /\ \A i \in 1 .. m + n : u[i] = IF i <= m THEN r[i] ELSE d[i - m]
  BY <1>1, ConcatProperties
<1>3. k \in Nat /\ m <= k /\ k <= m + n
  BY <1>1
<1> HIDE DEF m, n, u
<1>4. \A i \in 1 .. k : u[i] \in EntryOf(c)
  BY <1>1, <1>2, <1>3, ElementOfSeq
<1>5. t \in Seq(EntryOf(c)) /\ Len(t) = k /\ \A i \in 1 .. k : t[i] = u[i]
  <2>1. 1 \in Int /\ k \in Int /\ k - 1 + 1 = k
    BY <1>3
  <2>2. /\ t \in Seq(EntryOf(c)) /\ Len(t) = IF 1 <= k THEN k - 1 + 1 ELSE 0
        /\ \A i \in 1 .. k - 1 + 1 : t[i] = u[1 + i - 1]
    BY <1>4, <2>1, SubSeqProperties
  <2>3. \A i \in 1 .. k : 1 + i - 1 = i
    BY <1>3
  <2> HIDE DEF t
  <2>4. QED
    BY <1>3, <2>1, <2>2, <2>3
<1> HIDE DEF t
<1>6. DOMAIN t = 1 .. k
  BY <1>5, LenProperties
<1>7. \A i \in 1 .. m : i \in DOMAIN t /\ t[i] = r[i] /\ i \in DOMAIN r
  BY <1>1, <1>2, <1>3, <1>5, <1>6
<1>8. \A i \in 1 .. k : i > m => /\ t[i] = d[i - m] /\ i - m \in DOMAIN d
                                /\ t[i].x \notin Addresses(c) /\ t[i].alibi = {}
  <2> TAKE i \in 1 .. k
  <2> HAVE i > m
  <2>1. i \in 1 .. m + n /\ ~ (i <= m) /\ i - m \in 1 .. n
    BY <1>1, <1>3
  <2>2. t[i] = d[i - m] /\ i - m \in DOMAIN d
    BY <1>1, <1>2, <1>5, <2>1
  <2>3. d[i - m].x \notin Addresses(c) /\ d[i - m].alibi = {}
    BY <2>2 DEF Bared, Carries
  <2>4. QED
    BY <2>2, <2>3
<1>9. \A i \in DOMAIN t : i \in 1 .. m \/ (i \in 1 .. k /\ i > m)
  BY <1>1, <1>3, <1>6
<1>10. Carries(c, t, R)
  <2>1. \A i \in DOMAIN t : t[i].x \in Addresses(c) => Bare(t[i]) \in R
    BY <1>7, <1>8, <1>9 DEF Bared, Carries
  <2>2. \A q \in R : \E i \in DOMAIN t : t[i].x \in Addresses(c) /\ Bare(t[i]) = q
    BY <1>1, <1>7 DEF Bared, Carries
  <2>3. \A i, j \in DOMAIN t : t[i].x = t[j].x /\ t[i].x \in Addresses(c) => i = j
    BY <1>7, <1>8, <1>9 DEF Bared, Carries
  <2>4. QED
    BY <1>5, <2>1, <2>2, <2>3 DEF Carries
<1>11. \A i \in DOMAIN t : t[i].alibi = {}
  BY <1>7, <1>8, <1>9 DEF Bared
<1>12. Bared(c, t, R) /\ Len(t) = k
  BY <1>5, <1>10, <1>11 DEF Bared
<1>13. QED
  BY <1>12 DEF t, u

(* finalize_bottom_level keeps the contents and tells all labels apart;    *)
(* with an initial bottom level only real entries are left.                *)
LEMMA FinalizedLabelled ==
  ASSUME config \in Configs, NEW R, NEW s, Bared(config, s, R)
  PROVE  LET t == FinalizeBottomLevel(s)
         IN  /\ Labelled(config, t, R) /\ Len(t) <= BottomNumElements(config)
             /\ hadInitialBottomLevel =>
                  \A i \in DOMAIN t : t[i].x \in Addresses(config)
<1> DEFINE N == BottomNumElements(config)
           r == Reals(config, s)
           d == Dummies(config, s)
           kept == Min({Len(r \o d), N})
           t == SubSeq(r \o d, 1, kept)
<1>1. N \in Nat
  BY LabelFacts
<1>2. /\ Labelled(config, r, R) /\ Bared(config, r, R)
      /\ \A i \in DOMAIN r : r[i].x \in Addresses(config)
      /\ Bared(config, d, {})
  BY BaredReals, BaredDummies DEF Labelled
<1>3. Len(r) <= N /\ Len(r) \in Nat /\ Len(d) \in Nat
      /\ Len(r \o d) = Len(r) + Len(d)
  <2>1. Len(r) <= N /\ Len(r) \in Nat /\ Len(d) \in Nat
    BY <1>2, RealsFit, CarriedEntries DEF Bared
  <2>2. r \in Seq(EntryOf(config)) /\ d \in Seq(EntryOf(config))
    BY <1>2 DEF Bared, Carries
  <2>3. QED
    BY <2>1, <2>2, ConcatProperties
<1> HIDE DEF N, r, d
<1>4. kept \in Len(r) .. Len(r) + Len(d) /\ kept <= N
  <2> DEFINE m == Len(r \o d)
  <2>1. m \in Int /\ kept = Min({m, N})
    BY <1>3
  <2> HIDE DEF m, kept
  <2>2. kept \in {m, N} /\ kept <= m /\ kept <= N
    BY <1>1, <2>1, MinOfTwo
  <2>3. m = Len(r) + Len(d)
    BY <1>3 DEF m
  <2> HIDE DEF m
  <2>4. QED
    BY <1>1, <1>3, <2>2, <2>3
<1>5. Bared(config, t, R) /\ Len(t) = kept
  <2> HIDE DEF kept
  <2>1. QED
    BY <1>2, <1>4, PrefixKeeps
<1>6. Labelled(config, RelabelDummies(config, t), R)
      /\ Len(RelabelDummies(config, t)) <= N
  <2> HIDE DEF t, kept
  <2>1. QED
    BY <1>4, <1>5, RelabelledLabelled DEF N
<1>7. FinalizeBottomLevel(s) = IF hadInitialBottomLevel THEN r ELSE RelabelDummies(config, t)
  BY DEF FinalizeBottomLevel, N, r, d
<1> HIDE DEF t
<1>8. QED
  BY <1>2, <1>3, <1>6, <1>7 DEF N

(* The contents that growing adds: the new addresses, if every address is  *)
(* to be stored.                                                           *)
Grown(c) ==
  IF hadInitialBottomLevel
  THEN {Entry(x, Zero) : x \in Addresses(c) \ Addresses(config)}
  ELSE {}

(* finish_grow builds the bottom table of the larger address space from    *)
(* the old contents and the new addresses, under labels that fit it.       *)
LEMMA GrownLabelled ==
  ASSUME config \in Configs, NEW c \in Configs, OneBitLarger(c),
         NEW R, NEW s, Labelled(config, s, R), Len(s) <= BottomNumElements(config),
         hadInitialBottomLevel => /\ Len(s) = BottomNumElements(config)
                                  /\ \A i \in DOMAIN s : s[i].x \in Addresses(config),
         FinishGrow(c, s)
  PROVE  /\ config' = c /\ baseB' = OnlyBottomCounted(c)
         /\ UNCHANGED <<hadInitialBottomLevel, call>>
         /\ \E u : /\ Labelled(c, u, R \cup Grown(c))
                   /\ BuildLevel(c, Bottom(c), NoTables(c), u)
         /\ Addresses(config) \subseteq Addresses(c)
<1> DEFINE old == BottomNumElements(config)
           new == BottomNumElements(c)
           n == Len(s)
           fresh == [i \in 1 .. new - old |-> Entry(old + i - 1, Zero)]
           p == PadTo(s, new, DummyEntry(config))
           replaced == [i \in DOMAIN p |->
                          IF IsDummy(config, p[i].x)
                          THEN [p[i] EXCEPT !.x = new + i - 1]
                          ELSE p[i]]
           u == IF hadInitialBottomLevel THEN s \o fresh ELSE replaced
<1>1. BuildLevel(c, Bottom(c), NoTables(c), u)
  BY DEF FinishGrow
<1>2. /\ old \in Nat \ {0} /\ new = 2 * old
      /\ Addresses(config) = 0 .. old - 1 /\ Addresses(c) = 0 .. new - 1
      /\ \A x \in 0 .. 2 * old - 1 :
           IsDummy(config, x) <=> x \notin Addresses(config)
  <2>1. new = 2 * old
    <3>1. config.logAddressSpaceSize \in 0 .. config.logAddressSpaceSize + 1
      BY ConfigsValid DEF Valid, ConfigFields
    <3>2. QED
      BY <3>1, PowersOfTwo DEF OneBitLarger, BottomNumElements
  <2>2. QED
    BY <2>1, LabelFacts
<1>3. /\ n \in Nat /\ DOMAIN s = 1 .. n /\ s \in Seq(EntryOf(config))
      /\ \A i \in 1 .. n : s[i] \in EntryOf(config) /\ s[i].alibi = {}
  BY CarriedEntries DEF Labelled, Bared, Carries
<1>4. ASSUME NEW e \in EntryOf(config), e.alibi = {}
      PROVE  /\ e \in EntryOf(c) /\ e.x \in 0 .. 2 * old - 1
             /\ \A x \in new .. 2 * new - 1 : [e EXCEPT !.x = x] \in EntryOf(c)
  <2> HIDE DEF old, new
  <2>1. e.x \in 0 .. 2 * old - 1 /\ 0 .. 2 * old - 1 \subseteq 0 .. 2 * new - 1
    BY <1>2 DEF EntryOf, old
  <2>2. new .. 2 * new - 1 \subseteq 0 .. 2 * new - 1
    BY <1>2
  <2>3. QED
    BY <1>4, <2>1, <2>2 DEF EntryOf, new
<1> HIDE DEF old, new, n, fresh, p, replaced
<1>5. ASSUME hadInitialBottomLevel
      PROVE  Labelled(c, u, R \cup Grown(c))
  <2>1. n = old /\ \A i \in 1 .. n : s[i].x \in Addresses(config)
    BY <1>3, <1>5 DEF n, old
  <2>2. Labelled(c, s, R)
    <3>1. \A i \in 1 .. n : s[i] \in EntryOf(c) /\ s[i].x \in Addresses(c)
      BY <1>2, <1>3, <1>4, <2>1
    <3>2. s \in Seq(EntryOf(c))
      <4>1. s \in [1 .. n -> EntryOf(c)]
        <5>1. s \in [1 .. n -> EntryOf(config)]
          BY <1>3, LenProperties DEF n
        <5>2. QED
          BY <3>1, <5>1
      <4>2. QED
        BY <1>3, <4>1, TupleIsSeq
    <3>3. QED
      BY <1>3, <2>1, <3>1, <3>2 DEF Labelled, Bared, Carries
  <2>3. Labelled(c, fresh, Grown(c))
    <3>1. \A i \in 1 .. new - old :
            /\ fresh[i] = Entry(old + i - 1, Zero)
            /\ old + i - 1 \in Addresses(c) \ Addresses(config)
      BY <1>2 DEF fresh
    <3>2. \A x \in Addresses(c) \ Addresses(config) :
            x - old + 1 \in 1 .. new - old /\ old + (x - old + 1) - 1 = x
      BY <1>2
    <3>3. \A x \in Addresses(c) : Entry(x, Zero) \in EntryOf(c)
      BY <1>2 DEF Entry, EntryOf, Zero, Values, new
    <3>4. fresh \in Seq(EntryOf(c)) /\ DOMAIN fresh = 1 .. new - old
      <4>1. fresh \in [1 .. new - old -> EntryOf(c)]
        <5>1. fresh = [i \in 1 .. new - old |-> fresh[i]]
          BY DEF fresh
        <5>2. QED
          BY <3>1, <3>3, <5>1
      <4>2. new - old \in Nat
        BY <1>2
      <4>3. QED
        BY <4>1, <4>2, TupleIsSeq
    <3>5. \A i \in 1 .. new - old :
            /\ fresh[i].x = old + i - 1 /\ fresh[i].alibi = {}
            /\ Bare(fresh[i]) = Entry(old + i - 1, Zero)
      BY <3>1 DEF Entry, Bare
    <3>6. \A i, j \in 1 .. new - old : fresh[i].x = fresh[j].x => i = j
      <4> TAKE i, j \in 1 .. new - old
      <4>1. fresh[i].x = old + i - 1 /\ fresh[j].x = old + j - 1
        BY <3>5
      <4>2. QED
        BY <1>2, <4>1
    <3>7. Grown(c) = {Entry(x, Zero) : x \in Addresses(c) \ Addresses(config)}
      BY <1>5 DEF Grown
    <3>8. \A r \in Grown(c) : \E i \in 1 .. new - old :
             fresh[i].x \in Addresses(c) /\ Bare(fresh[i]) = r
      <4> TAKE r \in Grown(c)
      <4>1. PICK x \in Addresses(c) \ Addresses(config) : r = Entry(x, Zero)
        BY <3>7
      <4> DEFINE i == x - old + 1
      <4>2. i \in 1 .. new - old /\ old + i - 1 = x
        BY <3>2
      <4> HIDE DEF i
      <4>3. QED
        BY <3>5, <4>1, <4>2
    <3>9. \A i \in 1 .. new - old : Bare(fresh[i]) \in Grown(c)
      BY <3>1, <3>5, <3>7
    <3>10. QED
      BY <3>4, <3>5, <3>6, <3>8, <3>9 DEF Labelled, Bared, Carries
  <2>4. \A r \in R, q \in Grown(c) : r.x # q.x
    <3>1. \A r \in R : r.x \in Addresses(config)
      BY CarriedEntries DEF Labelled, Bared
    <3>2. \A q \in Grown(c) : q.x \notin Addresses(config)
      BY <1>5 DEF Grown, Entry
    <3>3. QED
      BY <3>1, <3>2
  <2>5. Carries(c, u, R \cup Grown(c))
    BY <1>5, <2>2, <2>3, <2>4, CarriesConcat DEF Labelled, Bared
  <2>6. \A i \in DOMAIN u : u[i].x \in Addresses(c) /\ u[i].alibi = {}
    <3>1. /\ s \in Seq(EntryOf(c)) /\ fresh \in Seq(EntryOf(c))
          /\ DOMAIN fresh = 1 .. Len(fresh) /\ Len(fresh) \in Nat
      BY <2>2, <2>3, LenProperties DEF Labelled, Bared, Carries
    <3>2. /\ DOMAIN u = 1 .. n + Len(fresh)
          /\ \A i \in 1 .. n + Len(fresh) :
               u[i] = IF i <= n THEN s[i] ELSE fresh[i - n]
      <4>1. /\ s \o fresh \in Seq(EntryOf(c)) /\ Len(s \o fresh) = n + Len(fresh)
            /\ \A i \in 1 .. n + Len(fresh) :
                 (s \o fresh)[i] = IF i <= n THEN s[i] ELSE fresh[i - n]
        BY <3>1, ConcatProperties DEF n
      <4>2. QED
        BY <1>5, <4>1, LenProperties
    <3>3. \A i \in 1 .. n : s[i].x \in Addresses(c) /\ s[i].alibi = {}
      BY <1>2, <1>3, <2>1
    <3>4. \A i \in DOMAIN fresh : fresh[i].x \in Addresses(c) /\ fresh[i].alibi = {}
      <4> TAKE i \in DOMAIN fresh
      <4>1. fresh[i] = Entry(old + i - 1, Zero) /\ i \in 1 .. new - old
        BY DEF fresh
      <4>2. QED
        BY <1>2, <4>1 DEF Entry
    <3>5. QED
      <4> TAKE i \in DOMAIN u
      <4>1. i <= n => i \in 1 .. n
        BY <1>3, <3>2
      <4>2. ~ (i <= n) => i - n \in DOMAIN fresh
        BY <1>3, <3>1, <3>2
      <4>3. QED
        BY <3>2, <3>3, <3>4, <4>1, <4>2
  <2>7. Labelled(c, u, R \cup Grown(c))
    <3> HIDE DEF u
    <3>1. QED
      BY <2>5, <2>6 DEF Labelled, Bared, Carries
  <2>8. QED
    BY <2>7
<1>6. ASSUME ~ hadInitialBottomLevel
      PROVE  Labelled(c, u, R \cup Grown(c))
  <2>1. Carries(config, p, R)
    BY <1>2, CarriesPadded DEF p, Labelled, Bared
  <2>2. DOMAIN p = 1 .. new /\ \A i \in 1 .. new : p[i].alibi = {}
    <3> DEFINE d == [i \in 1 .. new - n |-> DummyEntry(config)]
    <3>1. d \in Seq(EntryOf(config)) /\ new - n \in Nat
      <4>1. n <= old
        BY DEF n, old
      <4>2. new - n \in Nat /\ new - n \in Int
        BY <1>2, <1>3, <4>1
      <4> DEFINE m == new - n
      <4>3. Carries(config, [i \in 1 .. m |-> DummyEntry(config)], {})
        <5> HIDE DEF m
        <5>1. QED
          BY <4>2, CarriesNothing DEF m
      <4>4. QED
        BY <4>2, <4>3 DEF Carries
    <3>2. Len(d) = new - n /\ DOMAIN d = 1 .. new - n
      <4>1. DOMAIN d = 1 .. Len(d) /\ Len(d) \in Nat
        BY <3>1, LenProperties
      <4>2. DOMAIN d = 1 .. new - n
        OBVIOUS
      <4> HIDE DEF d
      <4>3. QED
        BY <3>1, <4>1, <4>2
    <3>3. \A i \in DOMAIN d : d[i].alibi = {}
      BY DEF DummyEntry, Entry
    <3>4. p = s \o d
      BY DEF p, PadTo, n
    <3> HIDE DEF d
    <3>5. /\ p \in Seq(EntryOf(config)) /\ Len(p) = n + Len(d)
          /\ \A i \in 1 .. n + Len(d) : p[i] = IF i <= n THEN s[i] ELSE d[i - n]
      BY <1>3, <3>1, <3>4, ConcatProperties DEF n
    <3>6. DOMAIN p = 1 .. new /\ n + Len(d) = new
      <4>1. DOMAIN p = 1 .. Len(p)
        BY <3>5, LenProperties
      <4>2. QED
        BY <1>2, <1>3, <3>2, <3>5, <4>1
    <3>7. ASSUME NEW i \in 1 .. new
          PROVE  p[i].alibi = {}
      <4>1. CASE i <= n
        BY <1>2, <1>3, <3>5, <3>6, <4>1
      <4>2. CASE ~ (i <= n)
        <5>1. i - n \in DOMAIN d
          BY <1>2, <1>3, <3>2, <4>2
        <5>2. QED
          BY <3>3, <3>5, <3>6, <4>2, <5>1
      <4>3. QED
        BY <4>1, <4>2
    <3>8. QED
      BY <3>6, <3>7
  <2>3. new \in Nat /\ \A i \in 1 .. new : p[i] \in EntryOf(config)
    BY <1>2, <2>1, <2>2, CarriedEntries
  <2>4. ASSUME NEW i \in 1 .. new
        PROVE  /\ replaced[i] \in EntryOf(c) /\ replaced[i].alibi = {}
               /\ p[i].x \in Addresses(config) =>
                    replaced[i] = p[i] /\ replaced[i].x \in Addresses(c)
               /\ p[i].x \notin Addresses(config) =>
                    replaced[i].x = new + i - 1 /\ replaced[i].x \notin Addresses(c)
    <3>1. p[i] \in EntryOf(config) /\ p[i].alibi = {} /\ p[i].x \in 0 .. 2 * old - 1
      BY <2>2, <2>3, <1>4
    <3>2. IsDummy(config, p[i].x) <=> p[i].x \notin Addresses(config)
      BY <1>2, <3>1
    <3>3. CASE IsDummy(config, p[i].x)
      <4>1. replaced[i] = [p[i] EXCEPT !.x = new + i - 1]
        BY <2>2, <3>3 DEF replaced
      <4>2. new + i - 1 \in new .. 2 * new - 1 /\ new + i - 1 \notin Addresses(c)
        BY <1>2
      <4>3. replaced[i] \in EntryOf(c)
        BY <1>4, <3>1, <4>1, <4>2
      <4>4. replaced[i].x = new + i - 1 /\ replaced[i].alibi = {}
        BY <3>1, <4>1 DEF EntryOf
      <4>5. QED
        BY <3>2, <3>3, <4>2, <4>3, <4>4
    <3>4. CASE ~ IsDummy(config, p[i].x)
      <4>1. replaced[i] = p[i]
        BY <2>2, <3>4 DEF replaced
      <4>2. p[i].x \in Addresses(c)
        BY <1>2, <3>2, <3>4
      <4>3. QED
        BY <1>4, <3>1, <3>2, <3>4, <4>1, <4>2
    <3>5. QED
      BY <3>3, <3>4
  <2>5. replaced \in Seq(EntryOf(c)) /\ DOMAIN replaced = 1 .. new
    <3>1. replaced = [i \in 1 .. new |-> replaced[i]]
      BY <2>2 DEF replaced
    <3>2. replaced \in [1 .. new -> EntryOf(c)]
      BY <2>4, <3>1
    <3>3. QED
      BY <2>3, <3>2, TupleIsSeq
  <2>6. \A i, j \in 1 .. new : replaced[i].x = replaced[j].x => i = j
    <3> TAKE i, j \in 1 .. new
    <3> HAVE replaced[i].x = replaced[j].x
    <3>1. CASE replaced[i].x \in Addresses(c)
      BY <2>1, <2>2, <2>4, <3>1 DEF Carries
    <3>2. CASE replaced[i].x \notin Addresses(c)
      <4>1. new + i - 1 = new + j - 1
        BY <2>4, <3>2
      <4>2. QED
        BY <2>3, <4>1
    <3>3. QED
      BY <3>1, <3>2
  <2>7. Labelled(c, replaced, R)
    <3>1. \A i \in 1 .. new :
            replaced[i].x \in Addresses(c) => Bare(replaced[i]) \in R
      BY <2>1, <2>2, <2>4 DEF Carries
    <3>2. \A r \in R : \E i \in 1 .. new :
            replaced[i].x \in Addresses(c) /\ Bare(replaced[i]) = r
      BY <2>1, <2>2, <2>4 DEF Carries
    <3>3. QED
      BY <2>4, <2>5, <2>6, <3>1, <3>2 DEF Labelled, Bared, Carries
  <2>8. R \cup Grown(c) = R /\ u = replaced
    BY <1>6 DEF Grown
  <2>9. QED
    BY <2>7, <2>8
<1>7. QED
  <2>1. Addresses(config) \subseteq Addresses(c)
    BY <1>2
  <2>2. config' = c /\ baseB' = OnlyBottomCounted(c) /\ UNCHANGED <<hadInitialBottomLevel, call>>
    BY DEF FinishGrow
  <2> HIDE DEF u
  <2>3. QED
    BY <1>1, <1>5, <1>6, <2>1, <2>2

---------------------------------------------------------------------------
(* New tables.                                                             *)

(* The key of a new table is none of the others.                           *)
LEMMA FreshKeyFresh ==
  ASSUME NEW keys, IsFiniteSet(keys)
  PROVE  FreshKey(keys) \in Nat /\ FreshKey(keys) \notin keys
<1> DEFINE n == Cardinality(keys)
           D == 0 .. n
           T == {k \in D : k \notin keys}
<1>1. n \in Nat
  BY FS_CardinalityType
<1>2. T # {}
  <2>1. SUFFICES ASSUME D \in SUBSET keys PROVE FALSE
    OBVIOUS
  <2>2. Cardinality(D) = n + 1
    <3> HIDE DEF n
    <3>1. Cardinality(D) = IF 0 > n THEN 0 ELSE n - 0 + 1
      BY <1>1, FS_Interval
    <3>2. QED
      BY <1>1, <3>1
  <2>3. Cardinality(D) <= n
    <3> HIDE DEF D
    <3>1. QED
      BY <2>1, FS_Subset
  <2>4. QED
    BY <1>1, <2>2, <2>3
<1>3. T \subseteq Nat
  BY <1>1
<1>4. PICK m \in T : \A k \in T : m <= k
  <2> HIDE DEF T
  <2>1. QED
    BY <1>2, <1>3, LeastNatural
<1>5. m \in 0 .. n /\ m \notin keys /\ \A j \in 0 .. m - 1 : j \in keys
  <2>1. \A j \in 0 .. m - 1 : j \in 0 .. n /\ ~ (m <= j)
    BY <1>1, <1>4
  <2>2. QED
    BY <1>4, <2>1
<1>6. FreshKey(keys) \in 0 .. n /\ FreshKey(keys) \notin keys
  BY <1>5 DEF FreshKey
<1>7. QED
  BY <1>1, <1>6

(* There are finitely many tables, and so finitely many keys.              *)
LEMMA KeysFinite ==
  ASSUME NEW c \in Configs, NEW tables, DOMAIN tables = Levels(c)
  PROVE  IsFiniteSet(KeysOf(tables))
<1> DEFINE D == 0 .. c.numLevels - 1
           M == {m \in DOMAIN tables : tables[m] # NoTable}
           f == [l \in M |-> tables[l].key]
<1>1. IsFiniteSet(D)
  <2> DEFINE m == c.numLevels - 1
  <2>1. m \in Int /\ 0 \in Int
    BY ConfigFacts
  <2> HIDE DEF m
  <2>2. IsFiniteSet(0 .. m)
    BY <2>1, FS_Interval
  <2>3. QED
    BY <2>2 DEF m
<1>2. M \in SUBSET D
  BY DEF Levels
<1>3. IsFiniteSet(M)
  <2> HIDE DEF M, D
  <2>1. QED
    BY <1>1, <1>2, FS_Subset
<1>4. f \in Surjection(M, KeysOf(tables))
  BY DEF Surjection, KeysOf
<1>5. QED
  <2> HIDE DEF M, f
  <2>1. QED
    BY <1>3, <1>4, FS_Surjection

(* insert_stash fills the cache with the stash, marked with its level.     *)
LEMMA StashCarried ==
  ASSUME NEW c \in Configs, NEW level \in Levels(c), NEW S, IsFiniteSet(S),
         \A e \in S : e \in EntryOf(c) /\ e.alibi = {},
         \A e, f \in S : e.x = f.x => e = f
  PROVE  LET q == StashEntries(level, S)
         IN  /\ Carries(c, q, Contents(c, S)) /\ Len(q) = Cardinality(S)
             /\ \A i \in DOMAIN q : q[i].alibi = {level}
<1> DEFINE s == InSomeOrder(S)
           q == StashEntries(level, S)
           n == Len(s)
<1>1. BottomNumElements(c) \in Nat
  BY LabelFacts
<1>2. \A e \in S : e.x \in Int
  BY <1>1 DEF EntryOf
<1>3. Lists(s, S) /\ n = Cardinality(S)
  BY <1>2, SomeOrderLists, ListedSize
<1>4. n \in Nat /\ DOMAIN s = 1 .. n /\ \A i \in 1 .. n : s[i] \in S
  BY <1>3, LenProperties, ElementOfSeq DEF Lists
<1>5. ASSUME NEW i \in 1 .. n
      PROVE  /\ q[i] \in EntryOf(c) /\ q[i].alibi = {level}
             /\ q[i].x = s[i].x /\ Bare(q[i]) = Bare(s[i])
  <2>1. q[i] = [s[i] EXCEPT !.alibi = s[i].alibi \cup {level}]
    BY <1>4 DEF StashEntries
  <2>2. s[i] \in EntryOf(c) /\ s[i].alibi = {}
    BY <1>4
  <2> HIDE DEF q, s
  <2>3. q[i] = [s[i] EXCEPT !.alibi = {level}]
    BY <2>1, <2>2
  <2>4. QED
    BY <2>2, <2>3 DEF EntryOf, Bare, Entry
<1>6. q \in Seq(EntryOf(c)) /\ DOMAIN q = 1 .. n /\ Len(q) = n
  <2>1. q = [i \in 1 .. n |-> q[i]]
    BY <1>4 DEF StashEntries
  <2> HIDE DEF q, n
  <2>2. q \in [1 .. n -> EntryOf(c)]
    BY <1>5, <2>1
  <2>3. QED
    BY <1>4, <2>2, TupleIsSeq
<1> HIDE DEF q, s, n
<1>7. Carries(c, q, Contents(c, S))
  <2>1. \A i \in DOMAIN q : q[i].x \in Addresses(c) => Bare(q[i]) \in Contents(c, S)
    BY <1>4, <1>5, <1>6 DEF Contents
  <2>2. \A r \in Contents(c, S) :
          \E i \in DOMAIN q : q[i].x \in Addresses(c) /\ Bare(q[i]) = r
    <3> TAKE r \in Contents(c, S)
    <3>1. PICK e \in S : e.x \in Addresses(c) /\ r = Bare(e)
      BY DEF Contents
    <3>2. PICK i \in 1 .. n : s[i] = e
      BY <1>3, <1>4 DEF Lists
    <3>3. QED
      BY <1>5, <1>6, <3>1, <3>2
  <2>3. \A i, j \in DOMAIN q : q[i].x = q[j].x => i = j
    BY <1>3, <1>4, <1>5, <1>6 DEF Lists
  <2>4. QED
    BY <1>6, <2>1, <2>2, <2>3 DEF Carries
<1>8. QED
  BY <1>3, <1>5, <1>6, <1>7 DEF q

(* A new table `t` of a level and the cache `q` share the contents R.      *)
Shared(c, level, t, q, R) ==
  /\ t \in TableOf(c) /\ IsFiniteSet(t.entries)
  /\ \A e \in t.entries :
       e.alibi = {} /\ \A f \in t.entries : e.x = f.x => e = f
  /\ Cardinality(t.entries) + c.stashSize = t.numElements
  /\ t.dummies = NumDummies(c, level) /\ t.queryCount = 0 /\ t.revealed = {}
  /\ Len(q) = c.stashSize /\ \A i \in DOMAIN q : q[i].alibi = {level}
  /\ \E Q : /\ Carries(c, q, Q) /\ R = Q \cup Contents(c, t.entries)
            /\ \A r \in Q, e \in t.entries : r.x # e.x

(* A table built from labelled entries shares them with its stash.         *)
LEMMA NewTableShares ==
  ASSUME NEW c \in Configs, NEW level \in Levels(c), NEW key \in Nat, NEW R,
         NEW s, Labelled(c, s, R), NEW stash \in SUBSET ToSet(s),
         Cardinality(stash) = c.stashSize
  PROVE  Shared(c, level, NewTable(c, level, key, s, stash),
                StashEntries(level, stash), R)
<1> DEFINE S == ToSet(s)
           E == S \ stash
           t == NewTable(c, level, key, s, stash)
           q == StashEntries(level, stash)
<1>1. /\ Len(s) \in Nat /\ DOMAIN s = 1 .. Len(s) /\ s \in Seq(EntryOf(c))
      /\ \A i \in DOMAIN s : s[i] \in EntryOf(c) /\ s[i].alibi = {}
      /\ S = {s[i] : i \in DOMAIN s}
  BY CarriedEntries DEF Labelled, Bared, Carries, ToSet
<1>2. Lists(s, S)
  <2>1. s \in [1 .. Len(s) -> S]
    BY <1>1, LenProperties
  <2>2. s \in Seq(S)
    <3> HIDE DEF S
    <3>1. QED
      BY <1>1, <2>1, TupleIsSeq
  <2>3. \A i, j \in DOMAIN s : s[i] = s[j] => i = j
    BY DEF Labelled
  <2>4. \A e \in S : \E i \in DOMAIN s : s[i] = e
    BY <1>1
  <2>5. QED
    BY <2>2, <2>3, <2>4 DEF Lists
<1>3. IsFiniteSet(S) /\ Cardinality(S) = Len(s)
  BY <1>2, ListedSize
<1>4. /\ IsFiniteSet(stash) /\ IsFiniteSet(E)
      /\ Cardinality(E) + c.stashSize = Len(s)
  <2>1. stash \in SUBSET S /\ S \cap stash = stash
    OBVIOUS
  <2> HIDE DEF S
  <2>2. IsFiniteSet(stash)
    BY <1>3, <2>1, FS_Subset
  <2>3. IsFiniteSet(E) /\ Cardinality(E) = Cardinality(S) - Cardinality(S \cap stash)
    BY <1>3, FS_Difference
  <2>4. Cardinality(E) = Len(s) - c.stashSize
    BY <1>3, <2>1, <2>3
  <2>5. c.stashSize \in Nat
    BY ConfigFacts
  <2> HIDE DEF E
  <2>6. QED
    BY <1>1, <2>2, <2>3, <2>4, <2>5
<1>5. \A e, f \in S : e.x = f.x => e = f
  BY <1>1 DEF Labelled
<1>6. \A e \in S : e \in EntryOf(c) /\ e.alibi = {}
  BY <1>1
<1>7. stash \subseteq S /\ E \subseteq S
  OBVIOUS
<1>8. R = Contents(c, S)
  <2>1. \A r \in R : r \in Contents(c, S)
    BY <1>1 DEF Labelled, Bared, Carries, Contents
  <2>2. \A r \in Contents(c, S) : r \in R
    BY <1>1 DEF Labelled, Bared, Carries, Contents
  <2>3. QED
    BY <2>1, <2>2
<1>9. S = stash \cup E
  OBVIOUS
<1>10. /\ Carries(c, q, Contents(c, stash)) /\ Len(q) = c.stashSize
       /\ \A i \in DOMAIN q : q[i].alibi = {level}
  <2> HIDE DEF S
  <2>1. \A e \in stash : e \in EntryOf(c) /\ e.alibi = {}
    BY <1>6, <1>7
  <2>2. \A e, f \in stash : e.x = f.x => e = f
    BY <1>5, <1>7
  <2>3. QED
    BY <1>4, <2>1, <2>2, StashCarried
<1>11. /\ t.entries = E /\ t.numElements = Len(s) /\ t.key = key
       /\ t.dummies = NumDummies(c, level) /\ t.queryCount = 0 /\ t.revealed = {}
       /\ t = [key |-> key, entries |-> E, numElements |-> Len(s),
               dummies |-> NumDummies(c, level), queryCount |-> 0, revealed |-> {}]
  BY DEF NewTable
<1> HIDE DEF S, E, t, q
<1>12. t \in TableOf(c)
  <2>1. NumDummies(c, level) \in Nat /\ E \in SUBSET EntryOf(c)
    BY <1>6, <1>7, ConfigFacts
  <2>2. QED
    BY <1>1, <1>11, <2>1 DEF TableOf
<1>13. R = Contents(c, stash) \cup Contents(c, E)
  BY <1>8, <1>9 DEF Contents
<1>14. ASSUME NEW r \in Contents(c, stash), NEW e \in E
       PROVE  r.x # e.x
  <2>1. PICK f \in stash : r = Bare(f)
    BY DEF Contents
  <2>2. r.x = f.x
    BY <2>1 DEF Bare, Entry
  <2>3. f # e
    BY DEF E
  <2>4. QED
    BY <1>5, <1>7, <2>2, <2>3
<1>15. Shared(c, level, t, q, R)
  <2>1. \A e \in E : e.alibi = {} /\ \A f \in E : e.x = f.x => e = f
    BY <1>5, <1>6, <1>7
  <2>2. QED
    BY <1>4, <1>10, <1>11, <1>12, <1>13, <1>14, <2>1 DEF Shared
<1>16. QED
  BY <1>15 DEF t, q

(* BuildLevel puts such a table at its level and its stash in the cache.   *)
LEMMA LevelBuilt ==
  ASSUME NEW c \in Configs, NEW level \in Levels(c), NEW old,
         DOMAIN old = Levels(c), NEW R, NEW s, Labelled(c, s, R),
         BuildLevel(c, level, old, s)
  PROVE  \E t : /\ levels' = [old EXCEPT ![level] = t]
                /\ Shared(c, level, t, cache', R)
                /\ packedQueryKey' = NoKeys /\ packedBatchQueryKeys' = NoKeys
<1>1. PICK stash :
        /\ stash \subseteq ToSet(s) /\ Cardinality(stash) = c.stashSize
        /\ levels' = [old EXCEPT ![level] =
                        NewTable(c, level, FreshKey(KeysOf(old)), s, stash)]
        /\ cache' = StashEntries(level, stash)
        /\ packedQueryKey' = NoKeys /\ packedBatchQueryKeys' = NoKeys
  BY DEF BuildLevel
<1>2. FreshKey(KeysOf(old)) \in Nat
  BY KeysFinite, FreshKeyFresh
<1>3. Shared(c, level, NewTable(c, level, FreshKey(KeysOf(old)), s, stash), cache', R)
  BY <1>1, <1>2, NewTableShares
<1>4. QED
  BY <1>1, <1>3

---------------------------------------------------------------------------
(* The invariant.                                                          *)

(* What the types say, in the form the proofs use.                         *)
LEMMA StoreTypes ==
  ASSUME TypeOK
  PROVE  /\ config \in Configs
         /\ cache \in Seq(EntryOf(config))
         /\ Len(cache) \in Nat /\ DOMAIN cache = 1 .. Len(cache)
         /\ \A i \in DOMAIN cache : cache[i] \in EntryOf(config)
         /\ DOMAIN levels = Levels(config)
         /\ Live \subseteq Levels(config) /\ Levels(config) \subseteq Nat
         /\ \A l \in Levels(config) : l \in Live <=> levels[l] # NoTable
         /\ \A l \in Live :
              /\ levels[l] \in TableOf(config)
              /\ IsFiniteSet(levels[l].entries)
              /\ levels[l].entries \subseteq EntryOf(config)
              /\ levels[l].revealed \subseteq Addresses(config)
<1>1. /\ config \in Configs
      /\ cache \in Seq(EntryOf(config))
      /\ levels \in [Levels(config) -> TableOf(config) \cup {NoTable}]
      /\ \A l \in Live : IsFiniteSet(levels[l].entries)
  BY DEF TypeOK
<1>2. /\ Len(cache) \in Nat /\ DOMAIN cache = 1 .. Len(cache)
      /\ \A i \in DOMAIN cache : cache[i] \in EntryOf(config)
  BY <1>1, LenProperties, ElementOfSeq
<1>3. Live \subseteq Levels(config) /\ Levels(config) \subseteq Nat
  BY <1>1, ConfigFacts DEF Live, Levels
<1>4. \A l \in Levels(config) : l \in Live <=> levels[l] # NoTable
  BY DEF Live
<1>5. ASSUME NEW l \in Live
      PROVE  /\ levels[l] \in TableOf(config)
             /\ levels[l].entries \subseteq EntryOf(config)
             /\ levels[l].revealed \subseteq Addresses(config)
  <2>1. levels[l] \in TableOf(config)
    BY <1>1, <1>3, <1>4
  <2>2. QED
    BY <2>1 DEF TableOf
<1>6. QED
  BY <1>1, <1>2, <1>3, <1>4, <1>5

(* The same of the call under way.                                         *)
LEMMA CallTypes ==
  ASSUME TypeOK
  PROVE  /\ Len(flight) \in Nat /\ DOMAIN flight = 1 .. Len(flight)
         /\ \A i \in DOMAIN flight : flight[i] \in QueryOf(config)
         /\ Len(remaining) \in Nat /\ DOMAIN remaining = 1 .. Len(remaining)
         /\ \A i \in DOMAIN remaining : remaining[i] \in OperationOf(config)
  BY LenProperties, ElementOfSeq DEF TypeOK

---------------------------------------------------------------------------
(* Tags.                                                                   *)

(* The live levels are listed in order.                                    *)
LEMMA LiveListed ==
  ASSUME TypeOK
  PROVE  /\ Lists(Ascending(Live), Live)
         /\ DOMAIN Ascending(Live) = 1 .. Cardinality(Live)
         /\ Cardinality(Live) \in Nat
         /\ \A i \in DOMAIN Ascending(Live) : Ascending(Live)[i] \in Live
<1> DEFINE D == 0 .. config.numLevels - 1
<1>1. Live \subseteq Int /\ Live \in SUBSET D
  BY StoreTypes DEF Live, Levels
<1>2. IsFiniteSet(D)
  <2> DEFINE m == config.numLevels - 1
  <2>1. m \in Int /\ 0 \in Int
    BY StoreTypes, ConfigFacts
  <2> HIDE DEF m
  <2>2. IsFiniteSet(0 .. m)
    BY <2>1, FS_Interval
  <2>3. QED
    BY <2>2 DEF m
<1>3. IsFiniteSet(Live) /\ Cardinality(Live) \in Nat
  <2> HIDE DEF D
  <2>1. QED
    BY <1>1, <1>2, FS_Subset, FS_CardinalityType
<1>4. Lists(Ascending(Live), Live) /\ DOMAIN Ascending(Live) = 1 .. Cardinality(Live)
  BY <1>1, <1>3, AscendingLists
<1>5. \A i \in DOMAIN Ascending(Live) : Ascending(Live)[i] \in Live
  <2>1. Ascending(Live) \in Seq(Live)
    BY <1>4 DEF Lists
  <2>2. QED
    BY <2>1, LenProperties, ElementOfSeq
<1>6. QED
  BY <1>3, <1>4, <1>5

(* A query tagged with the live keys has the right tag at every level.     *)
LEMMA TagsFitEverywhere ==
  ASSUME TypeOK, queryKeys = LiveKeys, NEW l \in Live
  PROVE  TagFits(l)
<1> DEFINE order == Ascending(Live)
           n == Cardinality(Live)
<1>1. /\ Lists(order, Live) /\ DOMAIN order = 1 .. n /\ n \in Nat
      /\ \A i \in DOMAIN order : order[i] \in Live
  BY LiveListed
<1>2. PICK i \in 1 .. n : order[i] = l
  BY <1>1 DEF Lists
<1>3. LiveKeys = [j \in 1 .. n |-> levels[order[j]].key]
  BY <1>1 DEF LiveKeys
<1> HIDE DEF order, n
<1>4. Len(LiveKeys) = n
  <2> DEFINE K == {levels[order[j]].key : j \in 1 .. n}
  <2>1. LiveKeys \in [1 .. n -> K]
    BY <1>3
  <2> HIDE DEF K
  <2>2. QED
    BY <1>1, <2>1, TupleIsSeq
<1>5. i \in DOMAIN order /\ i <= Len(queryKeys) /\ queryKeys[i] = levels[l].key
  BY <1>1, <1>2, <1>3, <1>4
<1>6. QED
  BY <1>2, <1>5 DEF TagFits, order

---------------------------------------------------------------------------
(* Steps that store nothing.                                               *)

(* A step that keeps the store sound, and what is known besides.           *)
StillSound ==
  Sound' /\ (AllHeld => AllHeld') /\ (SeenMeansAbove => SeenMeansAbove')

(* What only speaks of the store and the queries under way is kept with    *)
(* them.                                                                   *)
LEMMA StoreKept ==
  ASSUME Sound, UNCHANGED <<store, flight, nextLevel>>
  PROVE  /\ BottomCounted' /\ TablesTidy' /\ SlotsCounted' /\ StoredOnce'
         /\ AlibisGood'
         /\ (AllHeld => AllHeld') /\ (SeenMeansAbove => SeenMeansAbove')
<1>1. /\ config' = config /\ hadInitialBottomLevel' = hadInitialBottomLevel
      /\ cache' = cache /\ levels' = levels /\ baseB' = baseB
      /\ flight' = flight /\ nextLevel' = nextLevel
  BY DEF store
<1>2. Live' = Live
  BY <1>1 DEF Live
<1>3. BottomCounted'
  BY <1>1, <1>2 DEF Sound, BottomCounted
<1>4. TablesTidy'
  BY <1>1, <1>2 DEF Sound, TablesTidy
<1>5. SlotsCounted'
  BY <1>1, <1>2 DEF Sound, SlotsCounted
<1>6. StoredOnce'
  BY <1>1, <1>2 DEF Sound, StoredOnce
<1>7. ASSUME AllHeld
      PROVE  AllHeld'
  BY <1>7, <1>1, <1>2 DEF Sound, AllHeld, Held
<1>8. AlibisGood'
  BY <1>1, <1>2 DEF Sound, AlibisGood
<1>9. ASSUME SeenMeansAbove
      PROVE  SeenMeansAbove'
  BY <1>9, <1>1, <1>2 DEF Sound, SeenMeansAbove
<1>10. QED
  BY <1>3, <1>4, <1>5, <1>6, <1>7, <1>8, <1>9

(* The types of what a step leaves as it is.                               *)
LEMMA TypesKept ==
  ASSUME TypeOK, UNCHANGED store
  PROVE  /\ config' \in Configs /\ hadInitialBottomLevel' \in BOOLEAN
         /\ cache' \in Seq(EntryOf(config')) /\ Free' >= 0
         /\ levels' \in [Levels(config') -> TableOf(config') \cup {NoTable}]
         /\ \A l \in Live' : IsFiniteSet(levels'[l].entries)
         /\ baseB' \in [Levels(config') -> Nat]
<1>1. /\ config' = config /\ hadInitialBottomLevel' = hadInitialBottomLevel
      /\ cache' = cache /\ levels' = levels /\ baseB' = baseB
  BY DEF store
<1>2. Live' = Live /\ Free' = Free
  BY <1>1 DEF Live, Free
<1>3. QED
  BY <1>1, <1>2 DEF TypeOK

(* The operations of a call are for different addresses of the DORAM.      *)
LEMMA StartCallKeeps ==
  ASSUME DistinctBatches, Sound, NEW isSingle \in BOOLEAN,
         NEW ops \in SingleCalls \cup BatchCalls, StartCall(ops, isSingle)
  PROVE  StillSound
<1> USE DEF Sound, StillSound
<1>1. /\ pc = "idle" /\ pc' = "access" /\ single' = isSingle
      /\ remaining' = ops /\ ops # <<>>
      /\ UNCHANGED <<store, keyCaches, flight, queryKeys, nextLevel, outputs>>
      /\ config' = config /\ levels' = levels /\ cache' = cache
      /\ flight = <<>> /\ nextLevel = 0
  BY DEF StartCall, store, CallPhases
<1>2. ops \in Seq(OperationOf(config))
  <2>1. ops \in Seq([x: Nat, y: Values \cup {NoWrite}])
    BY CallsAssumption
  <2>2. /\ DOMAIN ops = 1 .. Len(ops) /\ Len(ops) \in Nat
        /\ \A i \in DOMAIN ops : ops[i] \in [x: Nat, y: Values \cup {NoWrite}]
    BY <2>1, LenProperties, ElementOfSeq
  <2>3. \A i \in DOMAIN ops : ops[i] \in OperationOf(config)
    BY <2>2 DEF OperationOf, StartCall
  <2>4. ops \in [1 .. Len(ops) -> OperationOf(config)]
    <3>1. ops \in [1 .. Len(ops) -> [x: Nat, y: Values \cup {NoWrite}]]
      BY <2>1, LenProperties
    <3>2. QED
      BY <2>2, <2>3, <3>1
  <2>5. QED
    BY <2>2, <2>4, TupleIsSeq
<1>3. TypeOK'
  <2>1. /\ flight' \in Seq(QueryOf(config')) /\ nextLevel' \in 0 .. config'.numLevels
        /\ outputs' \in Seq(Values) /\ remaining' \in Seq(OperationOf(config'))
    BY <1>1, <1>2 DEF TypeOK
  <2>2. QED
    BY <1>1, <2>1, TypesKept DEF TypeOK
<1>4. CallPhases'
  BY <1>1 DEF CallPhases
<1>5. TagsFit'
  <2>1. LiveKeys' = LiveKeys
    BY <1>1 DEF LiveKeys, Live
  <2>2. QED
    BY <1>1, <2>1 DEF TagsFit, CachedKeysCurrent, keyCaches
<1>6. QueriedApart'
  <2>1. \A i, j \in DOMAIN ops : ops[i].x = ops[j].x => i = j
    <3>1. CASE ops \in SingleCalls
      <4>1. DOMAIN ops = 1 .. 1
        BY <1>2, <3>1, CallsAssumption, LenProperties
      <4>2. QED
        BY <4>1
    <3>2. CASE ops \in BatchCalls
      BY <3>2 DEF DistinctBatches
    <3>3. QED
      BY <3>1, <3>2
  <2>2. remaining' = ops /\ flight' = <<>>
    BY <1>1
  <2>3. QED
    BY <2>1, <2>2 DEF QueriedApart
<1>7. QED
  BY <1>1, <1>3, <1>4, <1>5, <1>6, StoreKept

(* Returning forgets the results.                                          *)
LEMMA ReturnKeeps ==
  ASSUME Sound, Return
  PROVE  StillSound
<1> USE DEF Sound, StillSound
<1>1. /\ pc = "return" /\ pc' = "idle" /\ single' = FALSE /\ outputs' = <<>>
      /\ UNCHANGED <<store, keyCaches, remaining, flight, queryKeys, nextLevel>>
      /\ config' = config /\ levels' = levels /\ cache' = cache
      /\ flight = <<>> /\ nextLevel = 0 /\ remaining = <<>>
  BY DEF Return, store, CallPhases
<1>2. TypeOK'
  <2>1. /\ flight' \in Seq(QueryOf(config')) /\ nextLevel' \in 0 .. config'.numLevels
        /\ outputs' \in Seq(Values) /\ remaining' \in Seq(OperationOf(config'))
    BY <1>1 DEF TypeOK
  <2>2. QED
    BY <1>1, <2>1, TypesKept DEF TypeOK
<1>3. CallPhases'
  BY <1>1 DEF CallPhases
<1>4. TagsFit'
  <2>1. LiveKeys' = LiveKeys
    BY <1>1 DEF LiveKeys, Live
  <2>2. QED
    BY <1>1, <2>1 DEF TagsFit, CachedKeysCurrent, keyCaches
<1>5. QueriedApart'
  BY <1>1 DEF QueriedApart
<1>6. QED
  BY <1>1, <1>2, <1>3, <1>4, <1>5, StoreKept

(* A query that skips a level has no alibi for it and leaves no trace.     *)
LEMMA SkipLevelKeeps ==
  ASSUME Sound, NEW l \in Levels(config), SkipLevel(l)
  PROVE  StillSound
<1> USE DEF Sound, StillSound
<1>1. /\ pc = "levels" /\ nextLevel = l /\ l \notin Live /\ nextLevel' = l + 1
      /\ UNCHANGED <<store, keyCaches, pc, single, remaining, flight, queryKeys, outputs>>
      /\ config' = config /\ levels' = levels /\ cache' = cache /\ baseB' = baseB
      /\ hadInitialBottomLevel' = hadInitialBottomLevel /\ flight' = flight
      /\ Live' = Live
  BY DEF SkipLevel, store, Live
<1>2. /\ l \in Nat /\ l + 1 \in 0 .. config.numLevels
      /\ Live \subseteq Nat /\ \A m \in Live : m < l + 1 <=> m < l
  <2>1. l \in Nat /\ Live \subseteq Nat
    BY StoreTypes
  <2>2. l + 1 \in 0 .. config.numLevels
    BY StoreTypes, ConfigFacts DEF Levels
  <2>3. QED
    BY <1>1, <2>1, <2>2
<1>3. TypeOK'
  <2>1. /\ flight' \in Seq(QueryOf(config')) /\ nextLevel' \in 0 .. config'.numLevels
        /\ outputs' \in Seq(Values) /\ remaining' \in Seq(OperationOf(config'))
        /\ single' \in BOOLEAN
    BY <1>1, <1>2 DEF TypeOK
  <2>2. QED
    BY <1>1, <2>1, TypesKept DEF TypeOK
<1>4. CallPhases'
  BY <1>1 DEF CallPhases
<1>5. TagsFit'
  <2>1. LiveKeys' = LiveKeys
    BY <1>1 DEF LiveKeys
  <2>2. QED
    BY <1>1, <2>1 DEF TagsFit, CachedKeysCurrent, keyCaches
<1>6. BottomCounted' /\ TablesTidy' /\ SlotsCounted' /\ StoredOnce'
  BY <1>1 DEF BottomCounted, TablesTidy, SlotsCounted, StoredOnce
<1>7. ASSUME AllHeld
      PROVE  AllHeld'
  BY <1>7, <1>1 DEF AllHeld, Held
<1>8. QueriedApart'
  BY <1>1, <1>2 DEF QueriedApart
<1>9. AlibisGood'
  <2>1. \A i \in DOMAIN flight : \A m \in flight[i].alibi : nextLevel' <= m => nextLevel <= m
    <3> TAKE i \in DOMAIN flight
    <3> TAKE m \in flight[i].alibi
    <3>1. m \in Levels(config) /\ m \in Int
      <4>1. flight[i] \in QueryOf(config)
        BY CallTypes
      <4>2. QED
        BY <4>1, StoreTypes DEF QueryOf
    <3>2. QED
      BY <1>1, <1>2, <3>1
  <2>2. QED
    BY <1>1, <2>1 DEF AlibisGood
<1>10. ASSUME SeenMeansAbove
      PROVE  SeenMeansAbove'
  BY <1>10, <1>1, <1>2 DEF SeenMeansAbove
<1>11. QED
  BY <1>3, <1>4, <1>5, <1>6, <1>7, <1>8, <1>9, <1>10

---------------------------------------------------------------------------
(* The query of the speed cache.                                           *)

(* A set of at most one element has an odd number of them if it has any.   *)
LEMMA AtMostOne ==
  ASSUME NEW I, \A i, j \in I : i = j
  PROVE  /\ IsFiniteSet(I) /\ Cardinality(I) = IF I = {} THEN 0 ELSE 1
         /\ Cardinality(I) % 2 = 1 <=> I # {}
<1>1. CASE I = {}
  BY <1>1, FS_EmptySet
<1>2. CASE I # {}
  <2>1. PICK i : I = {i}
    BY <1>2
  <2>2. IsFiniteSet(I) /\ Cardinality(I) = 1
    BY <2>1, FS_Singleton
  <2>3. QED
    BY <1>2, <2>2
<1>3. QED
  BY <1>1, <1>2

(* The XOR over at most one set is that set.                               *)
LEMMA XorOfOne ==
  ASSUME NEW I, \A i, j \in I : i = j, NEW f
  PROVE  /\ I = {} => XorOver(f, I) = {}
         /\ \A j \in I : XorOver(f, I) = f[j]
<1>1. I = {} => XorOver(f, I) = {}
  BY DEF XorOver
<1>2. ASSUME NEW j \in I
      PROVE  XorOver(f, I) = f[j]
  <2>1. I = {j}
    OBVIOUS
  <2>2. UNION {f[i] : i \in I} = f[j]
    BY <2>1
  <2>3. ASSUME NEW e \in f[j]
        PROVE  Cardinality({i \in I : e \in f[i]}) % 2 = 1
    <3>1. {i \in I : e \in f[i]} = {j}
      BY <2>1
    <3>2. Cardinality({j}) = 1
      BY FS_Singleton
    <3>3. QED
      BY <3>1, <3>2
  <2>4. QED
    BY <2>2, <2>3 DEF XorOver
<1>3. QED
  BY <1>1, <1>2

(* The chunk's queries find what the cache holds of their addresses, and   *)
(* the entries found become dummies.                                       *)
LEMMA CacheQueried ==
  ASSUME Sound, QueryCache
  PROVE  \E count \in Nat :
           /\ count <= Len(remaining) /\ count <= Free
           /\ DOMAIN flight' = 1 .. count /\ flight' \in Seq(QueryOf(config))
           /\ \A i \in 1 .. count :
                /\ i \in DOMAIN remaining
                /\ flight'[i].x = remaining[i].x
                /\ flight'[i].write = remaining[i].y
                /\ flight'[i].found <=> \E j \in DOMAIN cache : cache[j].x = remaining[i].x
                /\ \A j \in DOMAIN cache : cache[j].x = remaining[i].x =>
                     flight'[i].y = cache[j].y /\ flight'[i].alibi = cache[j].alibi
                /\ ~ flight'[i].found => flight'[i].y = Zero /\ flight'[i].alibi = {}
           /\ cache' \in Seq(EntryOf(config)) /\ Len(cache') = Len(cache)
           /\ DOMAIN cache' = DOMAIN cache
           /\ \A j \in DOMAIN cache :
                \/ /\ cache'[j] = cache[j]
                   /\ \A i \in 1 .. count : flight'[i].x # cache[j].x
                \/ /\ cache'[j].x \notin Addresses(config)
                   /\ \E i \in 1 .. count : flight'[i].x = cache[j].x
           /\ remaining' \in Seq(OperationOf(config))
           /\ DOMAIN remaining' = 1 .. Len(remaining) - count
           /\ \A k \in DOMAIN remaining' : /\ k + count \in DOMAIN remaining
                                           /\ remaining'[k] = remaining[k + count]
<1> DEFINE count == Min({Len(remaining), Free})
           ops == SubSeq(remaining, 1, count)
           N == BottomNumElements(config)
<1> USE DEF Sound, StillSound
<1>1. /\ config \in Configs /\ cache \in Seq(EntryOf(config))
      /\ Len(cache) \in Nat /\ DOMAIN cache = 1 .. Len(cache)
      /\ \A i \in DOMAIN cache : cache[i] \in EntryOf(config)
      /\ remaining \in Seq(OperationOf(config))
      /\ Len(remaining) \in Nat /\ DOMAIN remaining = 1 .. Len(remaining)
      /\ \A i \in DOMAIN remaining : remaining[i] \in OperationOf(config)
  BY StoreTypes, CallTypes DEF TypeOK
<1>2. count \in Nat /\ count <= Len(remaining) /\ count <= Free
  <2> DEFINE m == Len(remaining)
             f == Free
  <2>1. m \in Nat /\ f \in Nat
    BY <1>1, ConfigFacts DEF QueryCache, Free
  <2> HIDE DEF m, f
  <2>2. /\ Min({m, f}) = m \/ Min({m, f}) = f
        /\ Min({m, f}) <= m /\ Min({m, f}) <= f
    <3>1. m \in Int /\ f \in Int
      BY <2>1
    <3>2. QED
      BY <3>1, MinOfTwo
  <2>3. QED
    BY <2>1, <2>2 DEF m, f
<1>3. /\ flight' = [i \in 1 .. count |-> CacheResult(ops[i])]
      /\ cache' = CacheAfter(ops)
      /\ remaining' = SubSeq(remaining, count + 1, Len(remaining))
  BY DEF QueryCache
<1>4. /\ ops \in Seq(OperationOf(config)) /\ DOMAIN ops = 1 .. count
      /\ \A i \in 1 .. count : /\ ops[i] = remaining[i] /\ i \in DOMAIN remaining
                               /\ ops[i] \in OperationOf(config)
  <2> HIDE DEF count
  <2>1. \A i \in 1 .. count : i \in DOMAIN remaining /\ remaining[i] \in OperationOf(config)
    BY <1>1, <1>2
  <2>2. /\ ops \in Seq(OperationOf(config)) /\ Len(ops) = IF 1 <= count THEN count - 1 + 1 ELSE 0
        /\ \A i \in 1 .. count - 1 + 1 : ops[i] = remaining[1 + i - 1]
    <3>1. 1 \in Int /\ count \in Int
      BY <1>2
    <3>2. QED
      BY <2>1, <3>1, SubSeqProperties
  <2>3. DOMAIN ops = 1 .. Len(ops)
    BY <2>2, LenProperties
  <2> HIDE DEF ops
  <2>4. Len(ops) = count /\ \A i \in 1 .. count : ops[i] = remaining[i]
    <3>1. \A i \in 1 .. count : 1 + i - 1 = i /\ i \in 1 .. count - 1 + 1
      BY <1>2
    <3>2. QED
      BY <1>2, <2>2, <3>1
  <2>5. QED
    BY <2>1, <2>2, <2>3, <2>4
<1>5. /\ remaining' \in Seq(OperationOf(config))
      /\ DOMAIN remaining' = 1 .. Len(remaining) - count
      /\ \A k \in DOMAIN remaining' : /\ k + count \in DOMAIN remaining
                                      /\ remaining'[k] = remaining[k + count]
  <2> DEFINE m == Len(remaining)
             a == count + 1
             rest == SubSeq(remaining, a, m)
  <2>1. a \in Int /\ m \in Nat /\ count \in Nat /\ count <= m /\ a = count + 1
    BY <1>1, <1>2
  <2> HIDE DEF count, a, m
  <2>2. \A i \in a .. m : remaining[i] \in OperationOf(config)
    BY <1>1, <2>1 DEF m
  <2>3. /\ rest \in Seq(OperationOf(config)) /\ Len(rest) = IF a <= m THEN m - a + 1 ELSE 0
        /\ \A i \in 1 .. m - a + 1 : rest[i] = remaining[a + i - 1]
    BY <2>1, <2>2, SubSeqProperties
  <2>4. DOMAIN rest = 1 .. Len(rest)
    BY <2>3, LenProperties
  <2>5. remaining' = rest
    BY <1>3 DEF a, m
  <2> HIDE DEF rest
  <2>6. Len(rest) = m - count
    <3>1. CASE a <= m
      BY <2>1, <2>3, <3>1
    <3>2. CASE ~ (a <= m)
      <4>1. m - count = 0
        BY <2>1, <3>2
      <4>2. QED
        BY <2>3, <3>2, <4>1
    <3>3. QED
      BY <3>1, <3>2
  <2>7. \A i \in 1 .. m - count :
          i + count \in 1 .. m /\ i \in 1 .. m - a + 1 /\ a + i - 1 = i + count
    BY <2>1
  <2>8. QED
    BY <1>1, <2>3, <2>4, <2>5, <2>6, <2>7 DEF m
<1> HIDE DEF count, ops
<1>6. ASSUME NEW i \in 1 .. count
      PROVE  /\ flight'[i] \in QueryOf(config)
             /\ flight'[i].x = remaining[i].x
             /\ flight'[i].write = remaining[i].y
             /\ flight'[i].found <=> \E j \in DOMAIN cache : cache[j].x = remaining[i].x
             /\ \A j \in DOMAIN cache : cache[j].x = remaining[i].x =>
                  flight'[i].y = cache[j].y /\ flight'[i].alibi = cache[j].alibi
             /\ ~ flight'[i].found => flight'[i].y = Zero /\ flight'[i].alibi = {}
  <2> DEFINE op == ops[i]
             hits == Matching(op.x)
             ys == [j \in hits |-> cache[j].y]
             alibis == [j \in hits |-> cache[j].alibi]
  <2>1. op = remaining[i] /\ op \in OperationOf(config)
    BY <1>4
  <2>2. \A j, k \in hits : j = k
    BY <2>1 DEF Matching, StoredOnce, OperationOf
  <2>3. hits = {j \in DOMAIN cache : cache[j].x = op.x}
    BY DEF Matching
  <2>4. /\ flight'[i] = [x |-> op.x, write |-> op.y, y |-> XorOver(ys, hits),
                        alibi |-> XorOver(alibis, hits),
                        found |-> Cardinality(hits) % 2 = 1]
    BY <1>3 DEF CacheResult
  <2> HIDE DEF hits, op
  <2>5. Cardinality(hits) % 2 = 1 <=> hits # {}
    BY <2>2, AtMostOne
  <2>6. /\ hits = {} => XorOver(ys, hits) = {} /\ XorOver(alibis, hits) = {}
        /\ \A j \in hits : XorOver(ys, hits) = cache[j].y /\ XorOver(alibis, hits) = cache[j].alibi
    <3>1. /\ \A j \in hits : ys[j] = cache[j].y /\ alibis[j] = cache[j].alibi
      OBVIOUS
    <3> HIDE DEF ys, alibis
    <3>2. /\ hits = {} => XorOver(ys, hits) = {}
          /\ \A j \in hits : XorOver(ys, hits) = ys[j]
      BY <2>2, XorOfOne
    <3>3. /\ hits = {} => XorOver(alibis, hits) = {}
          /\ \A j \in hits : XorOver(alibis, hits) = alibis[j]
      BY <2>2, XorOfOne
    <3>4. QED
      BY <3>1, <3>2, <3>3
  <2> HIDE DEF ys, alibis
  <2>7. /\ XorOver(ys, hits) \in Values
        /\ XorOver(alibis, hits) \in SUBSET Levels(config)
    <3>1. CASE hits = {}
      BY <2>6, <3>1 DEF Values
    <3>2. CASE hits # {}
      <4>1. PICK j \in hits : TRUE
        BY <3>2
      <4>2. cache[j] \in EntryOf(config)
        BY <1>1, <2>3
      <4>3. QED
        BY <2>6, <4>2 DEF EntryOf
    <3>3. QED
      BY <3>1, <3>2
  <2>8. flight'[i] \in QueryOf(config)
    BY <2>1, <2>4, <2>7 DEF QueryOf, OperationOf
  <2>9. /\ flight'[i].x = op.x /\ flight'[i].write = op.y
        /\ flight'[i].y = XorOver(ys, hits) /\ flight'[i].alibi = XorOver(alibis, hits)
        /\ flight'[i].found <=> hits # {}
    <3> DEFINE odd == Cardinality(hits) % 2 = 1
    <3>1. flight'[i] = [x |-> op.x, write |-> op.y, y |-> XorOver(ys, hits),
                        alibi |-> XorOver(alibis, hits), found |-> odd]
      BY <2>4
    <3>2. odd <=> hits # {}
      BY <2>5
    <3> HIDE DEF odd
    <3>3. flight'[i].found = odd
      BY <3>1
    <3>4. QED
      BY <3>1, <3>2, <3>3
  <2>10. /\ flight'[i].x = remaining[i].x
         /\ flight'[i].write = remaining[i].y
    BY <2>1, <2>9
  <2>11. flight'[i].found <=> \E j \in DOMAIN cache : cache[j].x = remaining[i].x
    BY <2>1, <2>3, <2>9
  <2>12. \A j \in DOMAIN cache : cache[j].x = remaining[i].x =>
           flight'[i].y = cache[j].y /\ flight'[i].alibi = cache[j].alibi
    BY <2>1, <2>3, <2>6, <2>9
  <2>13. ~ flight'[i].found => flight'[i].y = Zero /\ flight'[i].alibi = {}
    BY <2>6, <2>9 DEF Zero
  <2>14. QED
    BY <2>8, <2>10, <2>11, <2>12, <2>13
<1>7. flight' \in Seq(QueryOf(config)) /\ DOMAIN flight' = 1 .. count
  <2>1. flight' = [i \in 1 .. count |-> flight'[i]]
    BY <1>3
  <2>2. flight' \in [1 .. count -> QueryOf(config)]
    BY <1>6, <2>1
  <2>3. QED
    BY <1>2, <2>2, TupleIsSeq
<1>8. ASSUME NEW j \in DOMAIN cache
      PROVE  /\ cache'[j] \in EntryOf(config)
             /\ \/ /\ cache'[j] = cache[j]
                   /\ \A i \in 1 .. count : flight'[i].x # cache[j].x
                \/ /\ cache'[j].x \notin Addresses(config)
                   /\ \E i \in 1 .. count : flight'[i].x = cache[j].x
  <2> DEFINE I == {i \in DOMAIN ops : ops[i].x = cache[j].x}
  <2>1. \A i, k \in I : i = k
    BY <1>4 DEF QueriedApart
  <2>2. I = {i \in 1 .. count : flight'[i].x = cache[j].x}
    BY <1>4, <1>6
  <2>3. cache'[j] = IF Cardinality(I) % 2 = 1
                    THEN [cache[j] EXCEPT !.x = DummyX(config)] ELSE cache[j]
    BY <1>3 DEF CacheAfter
  <2>4. Cardinality(I) % 2 = 1 <=> I # {}
    <3> HIDE DEF I
    <3>1. QED
      BY <2>1, AtMostOne
  <2>5. cache[j] \in EntryOf(config)
    BY <1>1
  <2>6. DummyX(config) \in 0 .. 2 * BottomNumElements(config) - 1
        /\ DummyX(config) \notin Addresses(config)
    BY <1>1, LabelFacts DEF DummyX
  <2> HIDE DEF I
  <2>7. CASE I = {}
    BY <2>2, <2>3, <2>4, <2>5, <2>7
  <2>8. CASE I # {}
    <3>1. cache'[j] = [cache[j] EXCEPT !.x = DummyX(config)]
      BY <2>3, <2>4, <2>8
    <3>2. cache'[j] \in EntryOf(config) /\ cache'[j].x = DummyX(config)
      BY <2>5, <2>6, <3>1 DEF EntryOf
    <3>3. QED
      BY <2>2, <2>6, <2>8, <3>2
  <2>9. QED
    BY <2>7, <2>8
<1>9. /\ cache' \in Seq(EntryOf(config)) /\ Len(cache') = Len(cache)
      /\ DOMAIN cache' = DOMAIN cache
  <2>1. cache' = [j \in 1 .. Len(cache) |-> cache'[j]]
    BY <1>1, <1>3 DEF CacheAfter
  <2>2. cache' \in [1 .. Len(cache) -> EntryOf(config)]
    BY <1>1, <1>8, <2>1
  <2>3. QED
    BY <1>1, <2>2, TupleIsSeq
<1>10. QED
  BY <1>2, <1>4, <1>5, <1>6, <1>7, <1>8, <1>9

(* The query of the cache takes entries out of it, and their alibis with   *)
(* them.                                                                   *)
LEMMA QueryCacheKeeps ==
  ASSUME Sound, QueryCache
  PROVE  StillSound
<1> USE DEF Sound, StillSound
<1>1. /\ pc = "access" /\ pc' = "levels" /\ nextLevel' = 0 /\ flight = <<>>
      /\ config' = config /\ hadInitialBottomLevel' = hadInitialBottomLevel
      /\ levels' = levels /\ baseB' = baseB /\ single' = single /\ outputs' = outputs
      /\ Live' = Live /\ LiveKeys' = LiveKeys
  BY DEF QueryCache, CallPhases, Live, LiveKeys
<1>2. /\ config \in Configs /\ Live \subseteq Nat /\ DOMAIN flight = {}
      /\ \A i \in DOMAIN remaining : remaining[i].x \in Addresses(config)
      /\ Len(remaining) \in Nat
  BY <1>1, StoreTypes, CallTypes DEF OperationOf
<1>3. PICK count \in Nat :
        /\ count <= Len(remaining) /\ count <= Free
        /\ DOMAIN flight' = 1 .. count /\ flight' \in Seq(QueryOf(config))
        /\ \A i \in 1 .. count :
             /\ i \in DOMAIN remaining
             /\ flight'[i].x = remaining[i].x
             /\ flight'[i].write = remaining[i].y
             /\ flight'[i].found <=> \E j \in DOMAIN cache : cache[j].x = remaining[i].x
             /\ \A j \in DOMAIN cache : cache[j].x = remaining[i].x =>
                  flight'[i].y = cache[j].y /\ flight'[i].alibi = cache[j].alibi
             /\ ~ flight'[i].found => flight'[i].y = Zero /\ flight'[i].alibi = {}
        /\ cache' \in Seq(EntryOf(config)) /\ Len(cache') = Len(cache)
        /\ DOMAIN cache' = DOMAIN cache
        /\ \A j \in DOMAIN cache :
             \/ /\ cache'[j] = cache[j]
                /\ \A i \in 1 .. count : flight'[i].x # cache[j].x
             \/ /\ cache'[j].x \notin Addresses(config)
                /\ \E i \in 1 .. count : flight'[i].x = cache[j].x
        /\ remaining' \in Seq(OperationOf(config))
        /\ DOMAIN remaining' = 1 .. Len(remaining) - count
        /\ \A k \in DOMAIN remaining' : /\ k + count \in DOMAIN remaining
                                        /\ remaining'[k] = remaining[k + count]
  BY CacheQueried
<1>4. \A i \in 1 .. count :
        /\ flight'[i].x \in Addresses(config)
        /\ \A j \in DOMAIN cache : cache[j].x = flight'[i].x =>
             flight'[i].found /\ flight'[i].alibi = cache[j].alibi
  <2> TAKE i \in 1 .. count
  <2>1. flight'[i].x = remaining[i].x /\ i \in DOMAIN remaining
    BY <1>3
  <2>2. \A j \in DOMAIN cache : cache[j].x = remaining[i].x =>
          flight'[i].found /\ flight'[i].alibi = cache[j].alibi
    BY <1>3
  <2>3. QED
    BY <1>2, <2>1, <2>2
<1>5. TypeOK'
  <2>1. Free' = Free /\ 0 \in 0 .. config.numLevels
    BY <1>1, <1>2, <1>3, ConfigFacts DEF Free
  <2>2. QED
    BY <1>1, <1>3, <2>1 DEF TypeOK
<1>6. CallPhases'
  BY <1>1 DEF CallPhases
<1>7. TagsFit'
  <2>1. \A n : PackedKeys(n) = LiveKeys
    BY DEF PackedKeys, TagsFit, CachedKeysCurrent
  <2>2. queryKeys' = LiveKeys
    BY <2>1 DEF QueryCache
  <2>3. CASE single
    <3>1. packedQueryKey' = LiveKeys /\ packedBatchQueryKeys' = packedBatchQueryKeys
      BY <2>1, <2>3 DEF QueryCache
    <3>2. QED
      BY <1>1, <2>2, <3>1 DEF TagsFit, CachedKeysCurrent
  <2>4. CASE ~ single
    <3>1. packedBatchQueryKeys'.keys = LiveKeys /\ packedQueryKey' = packedQueryKey
      BY <2>1, <2>4 DEF QueryCache
    <3>2. QED
      BY <1>1, <2>2, <3>1 DEF TagsFit, CachedKeysCurrent
  <2>5. QED
    BY <2>3, <2>4
<1>8. BottomCounted' /\ TablesTidy' /\ SlotsCounted'
  BY <1>1 DEF BottomCounted, TablesTidy, SlotsCounted
<1>9. StoredOnce'
  <2>1. \A j \in DOMAIN cache' : /\ j \in DOMAIN cache
                                 /\ cache'[j] = cache[j] \/ cache'[j].x \notin Addresses(config)
    BY <1>3
  <2>2. QED
    BY <1>1, <2>1 DEF StoredOnce
<1>10. QueriedApart'
  <2>1. \A i, j \in DOMAIN flight' : flight'[i].x = flight'[j].x => i = j
    BY <1>3 DEF QueriedApart
  <2>2. \A i, j \in DOMAIN remaining' : remaining'[i].x = remaining'[j].x => i = j
    <3> TAKE i, j \in DOMAIN remaining'
    <3> HAVE remaining'[i].x = remaining'[j].x
    <3>1. i + count = j + count
      BY <1>3 DEF QueriedApart
    <3>2. QED
      BY <1>2, <1>3, <3>1
  <2>3. \A i \in DOMAIN flight', j \in DOMAIN remaining' : flight'[i].x # remaining'[j].x
    <3> TAKE i \in DOMAIN flight', j \in DOMAIN remaining'
    <3>1. i \in 1 .. count /\ j \in 1 .. Len(remaining) - count /\ i # j + count
      BY <1>2, <1>3
    <3>2. QED
      BY <1>3, <3>1 DEF QueriedApart
  <2>4. \A i \in DOMAIN flight', j \in DOMAIN cache' : cache'[j].x # flight'[i].x
    BY <1>3, <1>4
  <2>5. \A i \in DOMAIN flight', l \in Live' : flight'[i].found \/ l < nextLevel' =>
          \A e \in levels'[l].entries : e.x # flight'[i].x
    <3> TAKE i \in DOMAIN flight', l \in Live'
    <3>1. l \in Live /\ ~ (l < nextLevel')
      BY <1>1, <1>2
    <3>2. ASSUME flight'[i].found, NEW e \in levels[l].entries, e.x = flight'[i].x
          PROVE  FALSE
      <4>1. PICK j \in DOMAIN cache : cache[j].x = e.x
        BY <1>3, <3>2
      <4>2. QED
        BY <1>3, <1>4, <3>1, <3>2, <4>1 DEF StoredOnce
    <3>3. QED
      BY <1>1, <3>1, <3>2
  <2>6. QED
    BY <1>3, <2>1, <2>2, <2>3, <2>4, <2>5 DEF QueriedApart
<1>11. ASSUME AllHeld
      PROVE  AllHeld'
  <2>1. ASSUME NEW x \in Addresses(config), Held(x)
        PROVE  Held(x)'
    <3>1. CASE \E i \in DOMAIN cache : cache[i].x = x
      <4>1. PICK j \in DOMAIN cache : cache[j].x = x
        BY <3>1
      <4>2. CASE cache'[j] = cache[j]
        BY <1>3, <4>1, <4>2 DEF Held
      <4>3. CASE \E i \in 1 .. count : flight'[i].x = cache[j].x
        BY <1>3, <1>4, <4>1, <4>3 DEF Held
      <4>4. QED
        BY <1>3, <4>2, <4>3
    <3>2. CASE \E l \in Live : \E e \in levels[l].entries : e.x = x
      BY <1>1, <3>2 DEF Held
    <3>3. QED
      BY <1>2, <2>1, <3>1, <3>2 DEF Held
  <2>2. QED
    BY <1>11, <1>1, <2>1 DEF AllHeld
<1>12. AlibisGood'
  <2>1. \A i \in DOMAIN cache' : cache'[i].x \in Addresses(config) =>
          \A l \in cache'[i].alibi : l \in Live /\ cache'[i].x \notin levels[l].revealed
    BY <1>3 DEF AlibisGood
  <2>2. \A i \in DOMAIN flight' : \A l \in flight'[i].alibi :
          l \in Live /\ flight'[i].x \notin levels[l].revealed
    <3> TAKE i \in DOMAIN flight'
    <3> TAKE l \in flight'[i].alibi
    <3>1. flight'[i].found
      BY <1>3
    <3>2. PICK j \in DOMAIN cache : cache[j].x = flight'[i].x
      BY <1>3, <3>1
    <3>3. flight'[i].alibi = cache[j].alibi /\ cache[j].x \in Addresses(config)
      <4>1. i \in 1 .. count
        BY <1>3
      <4>2. QED
        BY <1>4, <3>2, <4>1
    <3>4. QED
      BY <3>2, <3>3 DEF AlibisGood
  <2>3. QED
    BY <1>1, <2>1, <2>2 DEF AlibisGood
<1>13. ASSUME SeenMeansAbove
      PROVE  SeenMeansAbove'
  <2>1. ASSUME NEW l \in Live, NEW x \in levels[l].revealed, NEW j \in DOMAIN cache,
               cache[j].x = x, l \notin cache[j].alibi
        PROVE  \/ \E i \in DOMAIN cache' : cache'[i].x = x /\ l \notin cache'[i].alibi
               \/ \E i \in DOMAIN flight' :
                    flight'[i].x = x /\ flight'[i].found /\ l \notin flight'[i].alibi
    <3>1. CASE cache'[j] = cache[j]
      BY <1>3, <2>1, <3>1
    <3>2. CASE \E i \in 1 .. count : flight'[i].x = cache[j].x
      <4>1. PICK i \in 1 .. count : flight'[i].x = cache[j].x
        BY <3>2
      <4>2. flight'[i].found /\ flight'[i].alibi = cache[j].alibi /\ i \in DOMAIN flight'
        BY <1>3, <1>4, <4>1
      <4>3. QED
        BY <2>1, <4>1, <4>2
    <3>3. QED
      BY <1>3, <3>1, <3>2
  <2>2. \A l \in Live : \A x \in levels[l].revealed :
          \/ \E i \in DOMAIN cache : cache[i].x = x /\ l \notin cache[i].alibi
          \/ \E m \in Live : m < l /\ \E e \in levels[m].entries : e.x = x
    BY <1>13, <1>2 DEF SeenMeansAbove
  <2>3. QED
    BY <1>13, <1>1, <2>1, <2>2 DEF SeenMeansAbove
<1>14. QED
  BY <1>5, <1>6, <1>7, <1>8, <1>9, <1>10, <1>11, <1>12, <1>13
---------------------------------------------------------------------------
(* The query of a level.                                                   *)

(* A query not yet answered is looked up under its own tag, takes the      *)
(* entry of its address if the table holds it, and is answered; all other  *)
(* queries leave the entries alone.                                        *)
LEMMA LevelQueried ==
  ASSUME Sound, NEW l \in Levels(config), QueryLevel(l)
  PROVE  /\ \A i \in DOMAIN flight :
              /\ flight'[i] \in QueryOf(config)
              /\ flight'[i].x = flight[i].x /\ flight'[i].write = flight[i].write
              /\ \/ /\ flight'[i] = flight[i]
                    /\ \A e \in levels[l].entries : e.x # flight[i].x
                 \/ /\ ~ flight[i].found /\ flight'[i].found /\ flight'[i].alibi = {}
                    /\ \E e \in levels[l].entries :
                         e.x = flight[i].x /\ flight'[i].y = e.y
         /\ flight' \in Seq(QueryOf(config)) /\ DOMAIN flight' = DOMAIN flight
         /\ TagFits(l)
         /\ \E t \in TableOf(config) :
              /\ levels' = [levels EXCEPT ![l] = t]
              /\ IsFiniteSet(t.entries) /\ t.key = levels[l].key
              /\ t.entries = {e \in levels[l].entries :
                                \A i \in DOMAIN flight : flight[i].x # e.x}
              /\ t.revealed = levels[l].revealed \cup
                   {flight[i].x : i \in {j \in DOMAIN flight : UsesOwnTag(flight[j], l)}}
              /\ Cardinality(t.entries) + t.dummies + t.queryCount + config.stashSize
                   = t.numElements + NumDummies(config, l)
              /\ t.dummies + t.queryCount >= NumDummies(config, l)
<1> USE DEF Sound, StillSound
<1> DEFINE hit(i) == HitBy(flight[i], l)
           hits == {i \in DOMAIN flight : hit(i) # {}}
           touched == UNION {hit(i) : i \in hits}
           E == levels[l].entries
<1>1. /\ l \in Live /\ levels[l].queryCount + Len(flight) <= NumDummies(config, l)
      /\ Cardinality(touched) = Cardinality(hits)
      /\ levels' = [levels EXCEPT ![l] = Spend(l, touched)]
      /\ pc = "levels" /\ queryKeys = LiveKeys
  BY DEF QueryLevel, TagsFit
<1>2. flight' = [i \in DOMAIN flight |->
                   IF i \notin hits
                   THEN flight[i]
                   ELSE LET e == CHOOSE e \in hit(i) : TRUE
                        IN  [flight[i] EXCEPT !.y = SymDiff(@, e.y),
                                              !.alibi = SymDiff(@, e.alibi),
                                              !.found = ~ @]]
  BY DEF QueryLevel
<1>3. /\ levels[l] \in TableOf(config) /\ IsFiniteSet(E) /\ E \subseteq EntryOf(config)
      /\ config \in Configs
      /\ Len(flight) \in Nat /\ DOMAIN flight = 1 .. Len(flight)
      /\ \A i \in DOMAIN flight : flight[i] \in QueryOf(config)
      /\ DOMAIN levels = Levels(config)
  BY <1>1, StoreTypes, CallTypes
<1>4. TagFits(l)
  BY <1>1, TagsFitEverywhere
<1>5. ASSUME NEW i \in DOMAIN flight
      PROVE  /\ hit(i) = {e \in E : e.x = flight[i].x}
             /\ flight[i].found => hit(i) = {}
             /\ ~ flight[i].found => flight[i].alibi = {} /\ flight[i].y = {}
  <2>1. flight[i].found => \A e \in E : e.x # flight[i].x
    BY <1>1 DEF QueriedApart
  <2>2. ~ flight[i].found => flight[i].alibi = {} /\ flight[i].y = {}
    BY DEF QueriedApart, Zero
  <2>3. CASE flight[i].found
    BY <2>1, <2>2, <2>3 DEF HitBy
  <2>4. CASE ~ flight[i].found
    <3>1. UsesOwnTag(flight[i], l)
      BY <2>2, <2>4 DEF UsesOwnTag
    <3>2. QED
      BY <1>4, <2>2, <2>4, <3>1 DEF HitBy
  <2>5. QED
    BY <2>3, <2>4
<1> HIDE DEF hit
<1>6. ASSUME NEW i \in DOMAIN flight
      PROVE  /\ flight'[i] \in QueryOf(config)
             /\ flight'[i].x = flight[i].x /\ flight'[i].write = flight[i].write
             /\ \/ /\ flight'[i] = flight[i]
                   /\ \A e \in levels[l].entries : e.x # flight[i].x
                \/ /\ ~ flight[i].found /\ flight'[i].found /\ flight'[i].alibi = {}
                   /\ \E e \in levels[l].entries :
                        e.x = flight[i].x /\ flight'[i].y = e.y
  <2>1. CASE i \notin hits
    <3>1. flight'[i] = flight[i] /\ \A e \in E : e.x # flight[i].x
      BY <1>2, <1>5, <2>1
    <3>2. QED
      BY <1>3, <3>1
  <2>2. CASE i \in hits
    <3> DEFINE e == CHOOSE e \in hit(i) : TRUE
               new == ~ flight[i].found
    <3>1. /\ e \in E /\ e.x = flight[i].x /\ new
          /\ flight[i].alibi = {} /\ flight[i].y = {} /\ e.alibi = {}
      BY <1>1, <1>5, <2>2 DEF TablesTidy
    <3>2. flight'[i] = [flight[i] EXCEPT !.y = SymDiff(@, e.y),
                                         !.alibi = SymDiff(@, e.alibi),
                                         !.found = new]
      BY <1>2, <2>2
    <3> HIDE DEF e
    <3>3. SymDiff({}, e.y) = e.y /\ SymDiff({}, {}) = {}
      BY DEF SymDiff
    <3>4. ~ flight[i].found
      BY <3>1
    <3> HIDE DEF new
    <3>5. flight'[i] = [flight[i] EXCEPT !.y = e.y, !.alibi = {}, !.found = new]
      BY <3>1, <3>2, <3>3
    <3>6. flight[i] \in QueryOf(config) /\ e \in EntryOf(config) /\ new \in BOOLEAN
      BY <1>3, <3>1
    <3>7. /\ flight'[i] \in QueryOf(config) /\ flight'[i].found = new
          /\ flight'[i].x = flight[i].x /\ flight'[i].write = flight[i].write
          /\ flight'[i].alibi = {} /\ flight'[i].y = e.y
      BY <3>5, <3>6 DEF QueryOf, EntryOf
    <3>8. QED
      BY <3>1, <3>4, <3>7
  <2>3. QED
    BY <2>1, <2>2
<1>7. flight' \in Seq(QueryOf(config)) /\ DOMAIN flight' = DOMAIN flight
  <2>1. flight' = [i \in 1 .. Len(flight) |-> flight'[i]]
    BY <1>2, <1>3
  <2>2. flight' \in [1 .. Len(flight) -> QueryOf(config)]
    BY <1>3, <1>6, <2>1
  <2>3. QED
    BY <1>3, <2>2, TupleIsSeq
<1>8. touched = {e \in E : \E i \in DOMAIN flight : flight[i].x = e.x}
  BY <1>5
<1>9. /\ IsFiniteSet(E \ touched) /\ Cardinality(touched) \in 0 .. Len(flight)
      /\ Cardinality(E) \in Nat
      /\ Cardinality(E \ touched) = Cardinality(E) - Cardinality(touched)
  <2>1. touched \subseteq E
    BY <1>8
  <2> DEFINE D == 1 .. Len(flight)
  <2>2. IsFiniteSet(D) /\ Cardinality(D) = Len(flight)
    <3> DEFINE m == Len(flight)
    <3>1. m \in Nat /\ 1 \in Int /\ m \in Int
      BY <1>3
    <3> HIDE DEF m
    <3>2. IsFiniteSet(1 .. m) /\ Cardinality(1 .. m) = m
      BY <3>1, FS_Interval
    <3>3. QED
      BY <3>2 DEF m
  <2>3. hits \in SUBSET D
    BY <1>3
  <2> HIDE DEF D, hits, touched, E
  <2>4. Cardinality(hits) <= Len(flight)
    BY <2>2, <2>3, FS_Subset
  <2>5. IsFiniteSet(touched) /\ Cardinality(touched) \in Nat /\ Cardinality(E) \in Nat
    BY <1>3, <2>1, FS_Subset, FS_CardinalityType
  <2>6. E \cap touched = touched
    BY <2>1
  <2>7. IsFiniteSet(E \ touched) /\ Cardinality(E \ touched) = Cardinality(E) - Cardinality(E \cap touched)
    BY <1>3, FS_Difference
  <2>8. Cardinality(touched) \in 0 .. Len(flight)
    <3>1. Cardinality(touched) = Cardinality(hits) /\ Len(flight) \in Nat
      BY <1>1, <1>3
    <3>2. QED
      BY <2>4, <2>5, <3>1
  <2>9. Cardinality(E \ touched) = Cardinality(E) - Cardinality(touched)
    BY <2>6, <2>7
  <2>10. QED
    BY <2>5, <2>7, <2>8, <2>9
<1> DEFINE t == Spend(l, touched)
<1>10. /\ t.key = levels[l].key
       /\ t.entries = E \ touched /\ t.numElements = levels[l].numElements
       /\ t.dummies = levels[l].dummies - (Len(flight) - Cardinality(touched))
       /\ t.queryCount = levels[l].queryCount + Len(flight)
       /\ t.revealed = levels[l].revealed \cup
            {flight[i].x : i \in {j \in DOMAIN flight : UsesOwnTag(flight[j], l)}}
       /\ t = [key |-> t.key, entries |-> t.entries, numElements |-> t.numElements,
               dummies |-> t.dummies, queryCount |-> t.queryCount,
               revealed |-> t.revealed]
  <2> DEFINE shown == {flight[i].x : i \in {j \in DOMAIN flight : UsesOwnTag(flight[j], l)}}
  <2>1. shown = {flight[i].x : i \in
                   {j \in DOMAIN flight : TagFits(l) /\ UsesOwnTag(flight[j], l)}}
    BY <1>4
  <2>2. t = [levels[l] EXCEPT
               !.entries = @ \ touched,
               !.dummies = @ - (Len(flight) - Cardinality(touched)),
               !.queryCount = @ + Len(flight),
               !.revealed = @ \cup shown]
    BY <2>1 DEF Spend
  <2> HIDE DEF touched, shown, t
  <2>3. QED
    BY <1>3, <2>2 DEF TableOf, shown
<1>11. /\ Cardinality(E) + levels[l].dummies + levels[l].queryCount + config.stashSize
            = levels[l].numElements + NumDummies(config, l)
       /\ levels[l].dummies + levels[l].queryCount >= NumDummies(config, l)
       /\ NumDummies(config, l) \in Nat /\ config.stashSize \in Nat
  BY <1>1, <1>3, ConfigFacts DEF SlotsCounted
<1>12. /\ levels[l].dummies \in Nat /\ levels[l].queryCount \in Nat
       /\ levels[l].numElements \in Nat /\ levels[l].key \in Nat
       /\ levels[l].revealed \subseteq Addresses(config)
  BY <1>3 DEF TableOf
<1>13. t \in TableOf(config)
  <2>1. t.dummies \in Nat /\ t.queryCount \in Nat
    <3>1. levels[l].queryCount + Len(flight) <= NumDummies(config, l) /\ Len(flight) \in Nat
      BY <1>1, <1>3
    <3> HIDE DEF touched, t, E
    <3>2. levels[l].dummies >= Len(flight)
      BY <1>11, <1>12, <3>1
    <3>3. /\ t.dummies = levels[l].dummies - (Len(flight) - Cardinality(touched))
          /\ t.queryCount = levels[l].queryCount + Len(flight)
      BY <1>10
    <3>4. Cardinality(touched) \in 0 .. Len(flight)
      BY <1>9
    <3>5. QED
      BY <1>12, <3>1, <3>2, <3>3, <3>4
  <2>2. t.revealed \subseteq Addresses(config)
    <3>1. \A i \in DOMAIN flight : flight[i].x \in Addresses(config)
      BY <1>3 DEF QueryOf
    <3> HIDE DEF t
    <3>2. QED
      BY <1>10, <1>12, <3>1
  <2>3. t.entries \subseteq EntryOf(config)
    <3> HIDE DEF t, touched
    <3>1. QED
      BY <1>3, <1>10
  <2> HIDE DEF t, touched
  <2>4. QED
    BY <1>10, <1>12, <2>1, <2>2, <2>3 DEF TableOf
<1>14. t.entries = {e \in E : \A i \in DOMAIN flight : flight[i].x # e.x}
  <2> HIDE DEF t
  <2>1. QED
    BY <1>8, <1>10
<1>15. /\ Cardinality(t.entries) + t.dummies + t.queryCount + config.stashSize
            = t.numElements + NumDummies(config, l)
       /\ t.dummies + t.queryCount >= NumDummies(config, l)
  <2> HIDE DEF t, touched, E
  <2>1. PICK dummies \in Nat, queries \in Nat, elements \in Nat :
           dummies = levels[l].dummies /\ queries = levels[l].queryCount
             /\ elements = levels[l].numElements
    BY <1>12
  <2>2. /\ t.dummies = dummies - (Len(flight) - Cardinality(touched))
        /\ t.queryCount = queries + Len(flight) /\ t.numElements = elements
    BY <1>10, <2>1
  <2>3. /\ Cardinality(E) + dummies + queries + config.stashSize
             = elements + NumDummies(config, l)
        /\ dummies + queries >= NumDummies(config, l)
    BY <1>11, <2>1
  <2>4. /\ Cardinality(t.entries) = Cardinality(E) - Cardinality(touched)
        /\ Cardinality(E) \in Nat /\ Cardinality(touched) \in Nat /\ Len(flight) \in Nat
    BY <1>3, <1>9, <1>10
  <2>5. QED
    BY <1>11, <2>2, <2>3, <2>4
<1>16. levels' = [levels EXCEPT ![l] = t] /\ IsFiniteSet(t.entries) /\ t.key = levels[l].key
       /\ t.revealed = levels[l].revealed \cup
            {flight[i].x : i \in {j \in DOMAIN flight : UsesOwnTag(flight[j], l)}}
  <2>1. levels' = [levels EXCEPT ![l] = t]
    BY <1>1
  <2> HIDE DEF t, touched, E
  <2>2. QED
    BY <1>9, <1>10, <2>1
<1> HIDE DEF t
<1>17. QED
  BY <1>4, <1>6, <1>7, <1>13, <1>14, <1>15, <1>16

(* A query moves what it finds into its own hands, and a tag that it shows *)
(* at a level is one its entry will not be looked up with there again.     *)
LEMMA QueryLevelKeeps ==
  ASSUME Sound, NEW l \in Levels(config), QueryLevel(l)
  PROVE  StillSound
<1> USE DEF Sound, StillSound
<1>1. /\ pc = "levels" /\ nextLevel = l /\ l \in Live /\ nextLevel' = l + 1
      /\ config' = config /\ hadInitialBottomLevel' = hadInitialBottomLevel
      /\ cache' = cache /\ baseB' = baseB /\ pc' = pc /\ single' = single
      /\ packedQueryKey' = packedQueryKey
      /\ packedBatchQueryKeys' = packedBatchQueryKeys
      /\ remaining' = remaining /\ queryKeys' = queryKeys /\ outputs' = outputs
  BY DEF QueryLevel, keyCaches
<1>2. /\ config \in Configs /\ Live \subseteq Nat /\ l \in Nat
      /\ l + 1 \in 0 .. config.numLevels
      /\ DOMAIN levels = Levels(config) /\ Live \subseteq Levels(config)
      /\ \A m \in Levels(config) : m \in Live <=> levels[m] # NoTable
  <2>1. l + 1 \in 0 .. config.numLevels
    BY StoreTypes, ConfigFacts DEF Levels
  <2>2. QED
    BY <1>1, <2>1, StoreTypes
<1>3. \A i \in DOMAIN flight :
        /\ flight'[i].x = flight[i].x /\ flight'[i].write = flight[i].write
        /\ \/ /\ flight'[i] = flight[i]
              /\ \A e \in levels[l].entries : e.x # flight[i].x
           \/ /\ ~ flight[i].found /\ flight'[i].found /\ flight'[i].alibi = {}
              /\ \E e \in levels[l].entries : e.x = flight[i].x
  BY LevelQueried
<1>4. flight' \in Seq(QueryOf(config)) /\ DOMAIN flight' = DOMAIN flight
  BY LevelQueried
<1>5. PICK t \in TableOf(config) :
        /\ levels' = [levels EXCEPT ![l] = t]
        /\ IsFiniteSet(t.entries) /\ t.key = levels[l].key
        /\ t.entries = {e \in levels[l].entries :
                          \A i \in DOMAIN flight : flight[i].x # e.x}
        /\ t.revealed = levels[l].revealed \cup
             {flight[i].x : i \in {j \in DOMAIN flight : UsesOwnTag(flight[j], l)}}
        /\ Cardinality(t.entries) + t.dummies + t.queryCount + config.stashSize
             = t.numElements + NumDummies(config, l)
        /\ t.dummies + t.queryCount >= NumDummies(config, l)
  BY LevelQueried
<1>6. /\ levels'[l] = t /\ Live' = Live
      /\ \A m \in Levels(config) : m # l => levels'[m] = levels[m]
  <2>1. levels'[l] = t /\ \A m \in Levels(config) : m # l => levels'[m] = levels[m]
    BY <1>2, <1>5
  <2>2. t # NoTable
    BY <1>2, <1>5, NoTableAssumption
  <2>3. Live' = {m \in Levels(config) : levels'[m] # NoTable}
    BY <1>1 DEF Live
  <2>4. QED
    BY <1>1, <1>2, <2>1, <2>2, <2>3
<1>7. \A m \in Live : /\ levels'[m].entries \subseteq levels[m].entries
                      /\ levels'[m].key = levels[m].key
                      /\ m # l => levels'[m] = levels[m]
  BY <1>2, <1>5, <1>6
<1>8. LiveKeys' = LiveKeys
  <2> DEFINE order == Ascending(Live)
  <2>1. \A i \in DOMAIN order : order[i] \in Live
    BY LiveListed
  <2>2. LiveKeys = [i \in DOMAIN order |-> levels[order[i]].key]
    BY DEF LiveKeys
  <2>3. LiveKeys' = [i \in DOMAIN order |-> levels'[order[i]].key]
    BY <1>6 DEF LiveKeys
  <2> HIDE DEF order
  <2>4. QED
    BY <1>7, <2>1, <2>2, <2>3
<1>9. TypeOK'
  <2>1. Free' = Free
    BY <1>1 DEF Free
  <2>2. levels' \in [Levels(config) -> TableOf(config) \cup {NoTable}]
    BY <1>5 DEF TypeOK
  <2>3. \A m \in Live' : IsFiniteSet(levels'[m].entries)
    BY <1>5, <1>6, <1>7 DEF TypeOK
  <2>4. QED
    BY <1>1, <1>2, <1>4, <2>1, <2>2, <2>3 DEF TypeOK
<1>10. CallPhases' /\ TagsFit' /\ BottomCounted' /\ TablesTidy'
  <2>1. CallPhases'
    BY <1>1 DEF CallPhases
  <2>2. TagsFit'
    BY <1>1, <1>8 DEF TagsFit, CachedKeysCurrent
  <2>3. BottomCounted'
    BY <1>1, <1>6 DEF BottomCounted
  <2>4. TablesTidy'
    BY <1>6, <1>7 DEF TablesTidy
  <2>5. QED
    BY <2>1, <2>2, <2>3, <2>4
<1>11. SlotsCounted'
  <2>1. ASSUME NEW m \in Live
        PROVE  LET u == levels'[m]
               IN  /\ Cardinality(u.entries) + u.dummies + u.queryCount + config.stashSize
                        = u.numElements + NumDummies(config, m)
                   /\ u.dummies + u.queryCount >= NumDummies(config, m)
    <3>1. CASE m = l
      BY <1>5, <1>6, <3>1
    <3>2. CASE m # l
      BY <1>7, <2>1, <3>2 DEF SlotsCounted
    <3>3. QED
      BY <3>1, <3>2
  <2>2. QED
    BY <1>1, <1>6, <2>1 DEF SlotsCounted
<1>12. StoredOnce'
  BY <1>1, <1>6, <1>7 DEF StoredOnce
<1>13. \A i \in DOMAIN flight : flight[i].x \in Addresses(config)
  BY CallTypes DEF QueryOf
<1>14. \A i \in DOMAIN flight : \A e \in levels[l].entries : e.x = flight[i].x =>
         /\ flight'[i].found /\ flight'[i].alibi = {}
         /\ \A m \in Live : m # l => \A f \in levels[m].entries : f.x # e.x
  <2> TAKE i \in DOMAIN flight
  <2> TAKE e \in levels[l].entries
  <2> HAVE e.x = flight[i].x
  <2>1. flight'[i].found /\ flight'[i].alibi = {}
    BY <1>3
  <2>2. \A m \in Live : m # l => \A f \in levels[m].entries : f.x # e.x
    BY <1>1, <1>13 DEF StoredOnce
  <2>3. QED
    BY <2>1, <2>2
<1>15. QueriedApart'
  <2>1. /\ \A i, j \in DOMAIN flight' : flight'[i].x = flight'[j].x => i = j
        /\ \A i, j \in DOMAIN remaining' : remaining'[i].x = remaining'[j].x => i = j
        /\ \A i \in DOMAIN flight', j \in DOMAIN remaining' : flight'[i].x # remaining'[j].x
        /\ \A i \in DOMAIN flight' : \A j \in DOMAIN cache' : cache'[j].x # flight'[i].x
    BY <1>1, <1>3, <1>4 DEF QueriedApart
  <2>2. ASSUME NEW i \in DOMAIN flight', ~ flight'[i].found
        PROVE  flight'[i].alibi = {} /\ flight'[i].y = Zero
    BY <1>3, <1>4, <2>2 DEF QueriedApart
  <2>3. ASSUME NEW i \in DOMAIN flight', NEW m \in Live',
               flight'[i].found \/ m < nextLevel', NEW e \in levels'[m].entries
        PROVE  e.x # flight'[i].x
    <3>1. CASE m = l
      BY <1>3, <1>4, <1>5, <1>6, <2>3, <3>1
    <3>2. CASE m # l
      <4>1. e \in levels[m].entries /\ m \in Live
        BY <1>6, <1>7, <2>3
      <4>2. CASE m < nextLevel'
        <5>1. m < nextLevel
          BY <1>1, <1>2, <3>2, <4>1, <4>2
        <5>2. QED
          BY <1>3, <1>4, <4>1, <5>1 DEF QueriedApart
      <4>3. CASE flight'[i] = flight[i] /\ flight'[i].found
        BY <1>3, <1>4, <4>1, <4>3 DEF QueriedApart
      <4>4. CASE \E f \in levels[l].entries : f.x = flight[i].x
        <5>1. PICK f \in levels[l].entries : f.x = flight[i].x
          BY <4>4
        <5>2. QED
          BY <1>3, <1>4, <1>14, <3>2, <4>1, <5>1
      <4>5. QED
        BY <1>3, <1>4, <2>3, <4>2, <4>3, <4>4
    <3>3. QED
      BY <3>1, <3>2
  <2>4. QED
    BY <2>1, <2>2, <2>3 DEF QueriedApart
<1>16. ASSUME AllHeld
      PROVE  AllHeld'
  <2>1. ASSUME NEW x \in Addresses(config), Held(x)
        PROVE  Held(x)'
    <3>1. CASE \E i \in DOMAIN cache : cache[i].x = x
      BY <1>1, <3>1 DEF Held
    <3>2. CASE \E m \in Live : \E e \in levels[m].entries : e.x = x
      <4> PICK m \in Live : \E e \in levels[m].entries : e.x = x
        BY <3>2
      <4>1. PICK e \in levels[m].entries : e.x = x
        OBVIOUS
      <4>2. CASE e \in levels'[m].entries
        BY <1>6, <4>1, <4>2 DEF Held
      <4>3. CASE e \notin levels'[m].entries
        <5>1. m = l /\ e \in levels[l].entries
          BY <1>7, <4>1, <4>3
        <5>2. PICK i \in DOMAIN flight : flight[i].x = e.x
          BY <1>5, <1>6, <4>3, <5>1
        <5>3. i \in DOMAIN flight' /\ flight'[i].x = x /\ flight'[i].found
          BY <1>3, <1>4, <1>14, <4>1, <5>1, <5>2
        <5>4. QED
          BY <5>3 DEF Held
      <4>4. QED
        BY <4>2, <4>3
    <3>3. CASE \E i \in DOMAIN flight : flight[i].x = x /\ flight[i].found
      <4>1. PICK i \in DOMAIN flight : flight[i].x = x /\ flight[i].found
        BY <3>3
      <4>2. flight'[i] = flight[i] /\ i \in DOMAIN flight'
        BY <1>3, <1>4, <4>1
      <4>3. QED
        BY <4>1, <4>2 DEF Held
    <3>4. QED
      BY <2>1, <3>1, <3>2, <3>3 DEF Held
  <2>2. QED
    BY <1>16, <1>1, <2>1 DEF AllHeld
<1>17. AlibisGood'
  <2>1. ASSUME NEW i \in DOMAIN cache, cache[i].x \in Addresses(config),
               NEW m \in cache[i].alibi
        PROVE  m \in Live /\ cache[i].x \notin levels'[m].revealed
    <3>1. m \in Live /\ cache[i].x \notin levels[m].revealed
      BY <2>1 DEF AlibisGood
    <3>2. CASE m = l
      <4>1. \A j \in DOMAIN flight : cache[i].x # flight[j].x
        BY DEF QueriedApart
      <4>2. QED
        BY <1>5, <1>6, <3>1, <3>2, <4>1
    <3>3. QED
      BY <1>7, <3>1, <3>2
  <2>2. ASSUME NEW i \in DOMAIN flight, NEW m \in flight'[i].alibi, nextLevel' <= m
        PROVE  m \in Live /\ flight'[i].x \notin levels'[m].revealed
    <3>1. flight'[i] = flight[i]
      BY <1>3, <2>2
    <3>2. m \in Levels(config) /\ m \in Nat
      <4>1. flight[i] \in QueryOf(config)
        BY CallTypes
      <4>2. QED
        BY <2>2, <3>1, <4>1, StoreTypes DEF QueryOf
    <3>3. nextLevel <= m /\ m # l
      BY <1>1, <1>2, <2>2, <3>2
    <3>4. m \in Live /\ flight[i].x \notin levels[m].revealed
      BY <2>2, <3>1, <3>3 DEF AlibisGood
    <3>5. QED
      BY <1>7, <3>1, <3>3, <3>4
  <2>3. QED
    BY <1>1, <1>4, <1>6, <2>1, <2>2 DEF AlibisGood
<1>18. ASSUME SeenMeansAbove
      PROVE  SeenMeansAbove'
  <2>1. ASSUME NEW m \in Live, NEW x \in levels'[m].revealed
        PROVE  \/ \E i \in DOMAIN cache : cache[i].x = x /\ m \notin cache[i].alibi
               \/ \E k \in Live : k < m /\ \E e \in levels'[k].entries : e.x = x
               \/ \E i \in DOMAIN flight :
                    /\ flight'[i].x = x
                    /\ m < nextLevel' \/ (flight'[i].found /\ m \notin flight'[i].alibi)
    <3>1. CASE x \notin levels[m].revealed
      <4>1. m = l /\ \E i \in DOMAIN flight : flight[i].x = x
        BY <1>5, <1>6, <1>7, <2>1, <3>1
      <4>2. m < nextLevel'
        BY <1>1, <1>2, <4>1
      <4>3. QED
        BY <1>3, <4>1, <4>2
    <3>2. CASE \E i \in DOMAIN cache : cache[i].x = x /\ m \notin cache[i].alibi
      BY <3>2
    <3>3. CASE \E k \in Live : k < m /\ \E e \in levels[k].entries : e.x = x
      <4> PICK k \in Live : k < m /\ \E e \in levels[k].entries : e.x = x
        BY <3>3
      <4>1. PICK e \in levels[k].entries : k < m /\ e.x = x
        OBVIOUS
      <4>2. CASE e \in levels'[k].entries
        BY <4>1, <4>2
      <4>3. CASE e \notin levels'[k].entries
        <5>1. k = l /\ e \in levels[l].entries
          BY <1>7, <4>1, <4>3
        <5>2. PICK i \in DOMAIN flight : flight[i].x = e.x
          BY <1>5, <1>6, <4>3, <5>1
        <5>3. flight'[i].x = x /\ flight'[i].found /\ flight'[i].alibi = {}
          BY <1>3, <1>14, <4>1, <5>1, <5>2
        <5>4. QED
          BY <5>3
      <4>4. QED
        BY <4>2, <4>3
    <3>4. CASE \E i \in DOMAIN flight :
                 /\ flight[i].x = x
                 /\ m < nextLevel \/ (flight[i].found /\ m \notin flight[i].alibi)
      <4>1. PICK i \in DOMAIN flight :
                 /\ flight[i].x = x
                 /\ m < nextLevel \/ (flight[i].found /\ m \notin flight[i].alibi)
        BY <3>4
      <4>2. CASE m < nextLevel
        <5>1. m < nextLevel'
          BY <1>1, <1>2, <4>2
        <5>2. QED
          BY <1>3, <4>1, <5>1
      <4>3. CASE flight[i].found /\ m \notin flight[i].alibi
        BY <1>3, <4>1, <4>3
      <4>4. QED
        BY <4>1, <4>2, <4>3
    <3>5. QED
      BY <1>18, <3>1, <3>2, <3>3, <3>4 DEF SeenMeansAbove
  <2>2. QED
    BY <1>18, <1>1, <1>4, <1>6, <2>1 DEF SeenMeansAbove
<1>19. QED
  BY <1>9, <1>10, <1>11, <1>12, <1>15, <1>16, <1>17, <1>18

---------------------------------------------------------------------------
(* The end of an access.                                                   *)

(* Every address queried is in the cache again, and nowhere else: each     *)
(* level has been passed.                                                  *)
LEMMA WriteBackKeeps ==
  ASSUME Sound, WriteBack
  PROVE  StillSound
<1> USE DEF Sound, StillSound
<1> DEFINE m == Len(cache)
           n == Len(flight)
           fresh == [i \in DOMAIN flight |-> Fresh(flight[i])]
           read == [i \in DOMAIN flight |-> flight[i].y]
<1>1. /\ pc = "levels" /\ nextLevel = config.numLevels /\ m + n <= SpeedCacheSize(config)
      /\ cache' = cache \o fresh /\ outputs' = outputs \o read
      /\ flight' = <<>> /\ queryKeys' = <<>> /\ nextLevel' = 0 /\ pc' = AfterChunk
      /\ config' = config /\ hadInitialBottomLevel' = hadInitialBottomLevel
      /\ levels' = levels /\ baseB' = baseB /\ single' = single /\ remaining' = remaining
      /\ packedQueryKey' = packedQueryKey
      /\ packedBatchQueryKeys' = packedBatchQueryKeys
      /\ Live' = Live /\ LiveKeys' = LiveKeys
  BY DEF WriteBack, keyCaches, Live, LiveKeys
<1>2. /\ config \in Configs /\ cache \in Seq(EntryOf(config)) /\ m \in Nat /\ n \in Nat
      /\ DOMAIN cache = 1 .. m /\ DOMAIN flight = 1 .. n
      /\ \A i \in DOMAIN flight : flight[i] \in QueryOf(config)
      /\ \A l \in Live : l < nextLevel
  <2>1. \A l \in Live : l < nextLevel
    BY <1>1, StoreTypes, ConfigFacts DEF Levels
  <2>2. QED
    BY <2>1, StoreTypes, CallTypes
<1>3. \A i \in 1 .. n : fresh[i].x = flight[i].x /\ fresh[i].alibi = {}
  BY <1>2 DEF Fresh, Entry
<1>4. fresh \in Seq(EntryOf(config)) /\ Len(fresh) = n
  <2>1. ASSUME NEW i \in 1 .. n
        PROVE  fresh[i] \in EntryOf(config)
    <3>1. /\ flight[i].x \in Addresses(config) /\ flight[i].y \in Values
          /\ flight[i].write \in Values \cup {NoWrite}
      BY <1>2 DEF QueryOf
    <3>2. flight[i].x \in 0 .. 2 * BottomNumElements(config) - 1
      BY <1>2, <3>1, LabelFacts
    <3>3. QED
      BY <1>2, <3>1, <3>2 DEF Fresh, Entry, EntryOf
  <2>2. fresh \in [1 .. n -> EntryOf(config)]
    BY <1>2, <2>1
  <2> HIDE DEF fresh, n
  <2>3. QED
    BY <1>2, <2>2, TupleIsSeq
<1>5. read \in Seq(Values)
  <2>1. read \in [1 .. n -> Values]
    BY <1>2 DEF QueryOf
  <2> HIDE DEF read, n
  <2>2. QED
    BY <1>2, <2>1, TupleIsSeq
<1> HIDE DEF fresh, read
<1>6. /\ cache' \in Seq(EntryOf(config)) /\ Len(cache') = m + n
      /\ DOMAIN cache' = 1 .. m + n
      /\ \A i \in 1 .. m + n : cache'[i] = IF i <= m THEN cache[i] ELSE fresh[i - m]
  <2>1. cache' = cache \o fresh
    BY <1>1
  <2>2. /\ cache' \in Seq(EntryOf(config)) /\ Len(cache') = m + n
        /\ \A i \in 1 .. m + n : cache'[i] = IF i <= m THEN cache[i] ELSE fresh[i - m]
    <3>1. cache \in Seq(EntryOf(config)) /\ fresh \in Seq(EntryOf(config)) /\ Len(fresh) = n
      BY <1>2, <1>4
    <3>2. /\ cache \o fresh \in Seq(EntryOf(config))
          /\ Len(cache \o fresh) = Len(cache) + Len(fresh)
          /\ \A i \in 1 .. Len(cache) + Len(fresh) : (cache \o fresh)[i] =
               IF i <= Len(cache) THEN cache[i] ELSE fresh[i - Len(cache)]
      BY <3>1, ConcatProperties
    <3>3. QED
      BY <2>1, <3>1, <3>2
  <2>3. DOMAIN cache' = 1 .. m + n
    BY <2>2, LenProperties
  <2>4. QED
    BY <2>2, <2>3
<1>7. \A i \in DOMAIN cache : i \in DOMAIN cache' /\ cache'[i] = cache[i]
  BY <1>2, <1>6
<1>8. \A i \in DOMAIN flight :
        /\ m + i \in DOMAIN cache'
        /\ cache'[m + i].x = flight[i].x /\ cache'[m + i].alibi = {}
  <2> TAKE i \in DOMAIN flight
  <2>1. m + i \in 1 .. m + n /\ ~ (m + i <= m) /\ m + i - m = i
    BY <1>2
  <2>2. QED
    BY <1>2, <1>3, <1>6, <2>1
<1>9. \A k \in DOMAIN cache' :
        \/ k \in DOMAIN cache /\ cache'[k] = cache[k]
        \/ \E i \in DOMAIN flight : /\ k = m + i /\ cache'[k].x = flight[i].x
                                    /\ cache'[k].alibi = {}
  <2> TAKE k \in DOMAIN cache'
  <2>1. CASE k <= m
    BY <1>2, <1>6, <2>1
  <2>2. CASE ~ (k <= m)
    <3>1. k - m \in DOMAIN flight /\ k = m + (k - m)
      BY <1>2, <1>6, <2>2
    <3>2. QED
      BY <1>8, <3>1
  <2>3. QED
    BY <2>1, <2>2
<1>10. TypeOK'
  <2>1. outputs' \in Seq(Values)
    BY <1>1, <1>5, ConcatProperties DEF TypeOK
  <2>2. Free' >= 0
    BY <1>1, <1>2, <1>6, ConfigFacts DEF Free
  <2>3. nextLevel' \in 0 .. config.numLevels
    BY <1>1, <1>2, ConfigFacts
  <2>4. flight' \in Seq(QueryOf(config)) /\ pc' \in {"idle", "access", "levels", "return"}
    BY <1>1 DEF AfterChunk
  <2>5. QED
    BY <1>1, <1>6, <2>1, <2>2, <2>3, <2>4 DEF TypeOK
<1>11. /\ CallPhases' /\ TagsFit' /\ BottomCounted' /\ TablesTidy' /\ SlotsCounted'
  <2>1. CallPhases'
    BY <1>1 DEF CallPhases, AfterChunk
  <2>2. TagsFit'
    BY <1>1 DEF TagsFit, CachedKeysCurrent, AfterChunk
  <2>3. BottomCounted' /\ TablesTidy' /\ SlotsCounted'
    BY <1>1 DEF BottomCounted, TablesTidy, SlotsCounted
  <2>4. QED
    BY <2>1, <2>2, <2>3
<1>12. StoredOnce'
  <2>1. \A i, j \in DOMAIN cache' :
          cache'[i].x = cache'[j].x /\ cache'[i].x \in Addresses(config) => i = j
    <3> TAKE i, j \in DOMAIN cache'
    <3> HAVE cache'[i].x = cache'[j].x /\ cache'[i].x \in Addresses(config)
    <3>1. CASE i \in DOMAIN cache /\ cache'[i] = cache[i]
      BY <1>9, <3>1 DEF StoredOnce, QueriedApart
    <3>2. CASE \E k \in DOMAIN flight : i = m + k /\ cache'[i].x = flight[k].x
      BY <1>9, <3>2 DEF QueriedApart
    <3>3. QED
      BY <1>9, <3>1, <3>2
  <2>2. \A i \in DOMAIN cache', l \in Live : \A e \in levels[l].entries :
          e.x = cache'[i].x => e.x \notin Addresses(config)
    BY <1>2, <1>9 DEF StoredOnce, QueriedApart
  <2>3. QED
    BY <1>1, <2>1, <2>2 DEF StoredOnce
<1>13. QueriedApart'
  <2>1. flight' = <<>> /\ remaining' = remaining
    BY <1>1
  <2>2. QED
    BY <2>1 DEF QueriedApart
<1>14. ASSUME AllHeld
      PROVE  AllHeld'
  <2>1. ASSUME NEW x \in Addresses(config), Held(x)
        PROVE  Held(x)'
    <3>1. CASE \E i \in DOMAIN cache : cache[i].x = x
      BY <1>7, <3>1 DEF Held
    <3>2. CASE \E l \in Live : \E e \in levels[l].entries : e.x = x
      BY <1>1, <3>2 DEF Held
    <3>3. CASE \E i \in DOMAIN flight : flight[i].x = x
      BY <1>8, <3>3 DEF Held
    <3>4. QED
      BY <2>1, <3>1, <3>2, <3>3 DEF Held
  <2>2. QED
    BY <1>14, <1>1, <2>1 DEF AllHeld
<1>15. AlibisGood'
  <2>1. ASSUME NEW i \in DOMAIN cache', cache'[i].x \in Addresses(config),
               NEW l \in cache'[i].alibi
        PROVE  l \in Live /\ cache'[i].x \notin levels[l].revealed
    BY <1>9, <2>1 DEF AlibisGood
  <2>2. flight' = <<>>
    BY <1>1
  <2>3. QED
    BY <1>1, <2>1, <2>2 DEF AlibisGood
<1>16. ASSUME SeenMeansAbove
      PROVE  SeenMeansAbove'
  <2>1. ASSUME NEW l \in Live, NEW x \in levels[l].revealed
        PROVE  \/ \E i \in DOMAIN cache' : cache'[i].x = x /\ l \notin cache'[i].alibi
               \/ \E k \in Live : k < l /\ \E e \in levels[k].entries : e.x = x
    <3>1. CASE \E i \in DOMAIN cache : cache[i].x = x /\ l \notin cache[i].alibi
      BY <1>7, <3>1
    <3>2. CASE \E i \in DOMAIN flight : flight[i].x = x
      BY <1>8, <3>2
    <3>3. QED
      BY <1>16, <3>1, <3>2 DEF SeenMeansAbove
  <2>2. levels' = levels /\ Live' = Live
    BY <1>1
  <2> HIDE DEF Sound
  <2>3. QED
    BY <1>16, <2>1, <2>2 DEF SeenMeansAbove
<1>17. QED
  BY <1>10, <1>11, <1>12, <1>13, <1>14, <1>15, <1>16

---------------------------------------------------------------------------
(* Collecting what is stored.                                              *)

Cached == {cache[i] : i \in DOMAIN cache}

(* The contents of the cache and of the tables above level K.              *)
StoredAbove(K) ==
  Contents(config, Cached \cup UNION {levels[l].entries : l \in {m \in Live : m < K}})

(* Whose contents they are.                                                *)
LEMMA StoredAboveFacts ==
  ASSUME NEW K
  PROVE  /\ \A r \in StoredAbove(K) :
              /\ r.x \in Addresses(config)
              /\ \/ \E i \in DOMAIN cache : cache[i].x = r.x
                 \/ \E l \in Live : l < K /\ \E e \in levels[l].entries : e.x = r.x
         /\ \A x \in Addresses(config) :
              \/ \E i \in DOMAIN cache : cache[i].x = x
              \/ \E l \in Live : l < K /\ \E e \in levels[l].entries : e.x = x
              => \E r \in StoredAbove(K) : r.x = x
<1> DEFINE S == Cached \cup UNION {levels[l].entries : l \in {m \in Live : m < K}}
<1>1. ASSUME NEW r \in StoredAbove(K)
      PROVE  r.x \in Addresses(config) /\ \E e \in S : e.x = r.x
  <2>1. PICK e \in S : e.x \in Addresses(config) /\ r = Bare(e)
    BY <1>1 DEF StoredAbove, Contents
  <2>2. QED
    BY <2>1 DEF Bare, Entry
<1>2. ASSUME NEW e \in S
      PROVE  \/ \E i \in DOMAIN cache : cache[i].x = e.x
             \/ \E l \in Live : l < K /\ \E f \in levels[l].entries : f.x = e.x
  BY <1>2 DEF Cached
<1>3. ASSUME NEW e \in S, e.x \in Addresses(config)
      PROVE  \E r \in StoredAbove(K) : r.x = e.x
  <2>1. Bare(e) \in StoredAbove(K) /\ Bare(e).x = e.x
    BY <1>3 DEF StoredAbove, Contents, Bare, Entry
  <2>2. QED
    BY <2>1
<1>4. /\ \A i \in DOMAIN cache : cache[i] \in S
      /\ \A l \in Live : l < K => \A e \in levels[l].entries : e \in S
  BY DEF Cached
<1> HIDE DEF S
<1>5. QED
  BY <1>1, <1>2, <1>3, <1>4

(* The cache and the entries extracted from the levels above K, with their *)
(* alibis cleared, carry all that is stored there.                         *)
LEMMA Gathered ==
  ASSUME Sound, NEW K \in 0 .. config.numLevels, NEW f, f = [i \in 1 .. K |-> f[i]],
         \A i \in 1 .. K :
           IF i - 1 \in Live
           THEN Carries(config, f[i], Contents(config, levels[i - 1].entries))
           ELSE f[i] = <<>>
  PROVE  LET s == FlattenSeq(<<cache>> \o f)
         IN  Bared(config, [i \in DOMAIN s |-> ClearAlibi(s[i])], StoredAbove(K))
<1> USE DEF Sound, StillSound
<1> DEFINE c == config
           ss == <<cache>> \o f
           R == [k \in 1 .. K + 1 |->
                   IF k = 1
                   THEN Contents(c, Cached)
                   ELSE IF k - 2 \in Live THEN Contents(c, levels[k - 2].entries) ELSE {}]
<1>1. /\ c \in Configs /\ K \in Nat /\ cache \in Seq(EntryOf(c))
      /\ Live \subseteq Nat /\ DOMAIN cache = 1 .. Len(cache)
  BY StoreTypes, ConfigFacts
<1>2. /\ Len(ss) = K + 1 /\ ss[1] = cache
      /\ \A k \in 2 .. K + 1 : ss[k] = f[k - 1]
  <2> DEFINE T == {cache} \cup {f[i] : i \in 1 .. K}
  <2>1. f \in [1 .. K -> T]
    OBVIOUS
  <2>2. <<cache>> \in Seq(T) /\ Len(<<cache>>) = 1 /\ <<cache>>[1] = cache
    OBVIOUS
  <2> HIDE DEF T
  <2>3. f \in Seq(T) /\ Len(f) = K
    BY <1>1, <2>1, TupleIsSeq
  <2>4. /\ Len(ss) = Len(<<cache>>) + Len(f)
        /\ \A i \in 1 .. Len(<<cache>>) + Len(f) : ss[i] =
             IF i <= Len(<<cache>>) THEN <<cache>>[i] ELSE f[i - Len(<<cache>>)]
    BY <2>2, <2>3, ConcatProperties
  <2> HIDE DEF ss
  <2>5. ss[1] = cache
    <3>1. 1 \in 1 .. Len(<<cache>>) + Len(f) /\ 1 <= Len(<<cache>>)
      BY <1>1, <2>2, <2>3
    <3>2. QED
      BY <2>2, <2>4, <3>1
  <2>6. ASSUME NEW k \in 2 .. K + 1
        PROVE  ss[k] = f[k - 1]
    <3>1. k \in 1 .. Len(<<cache>>) + Len(f) /\ ~ (k <= Len(<<cache>>))
      BY <1>1, <2>2, <2>3
    <3>2. QED
      BY <2>2, <2>4, <3>1
  <2>7. Len(ss) = K + 1
    <3>1. Len(ss) = Len(<<cache>>) + Len(f)
      BY <2>4
    <3>2. QED
      BY <1>1, <2>2, <2>3, <3>1
  <2>8. QED
    BY <2>5, <2>6, <2>7
<1>3. ASSUME NEW k \in 1 .. K + 1
      PROVE  Carries(c, ss[k], R[k])
  <2>1. CASE k = 1
    <3>1. Carries(c, cache, Contents(c, Cached))
      BY <1>1 DEF StoredOnce, Carries, Contents, Cached
    <3>2. QED
      BY <1>1, <1>2, <2>1, <3>1
  <2>2. CASE k # 1
    <3>1. k \in 2 .. K + 1 /\ k - 1 \in 1 .. K /\ k - 1 - 1 = k - 2
      BY <1>1, <2>2
    <3>2. CASE k - 2 \in Live
      <4> DEFINE i == k - 1
      <4>1. i \in 1 .. K /\ i - 1 = k - 2
        BY <3>1
      <4>2. Carries(c, f[i], Contents(c, levels[i - 1].entries))
        <5> HIDE DEF i
        <5>1. QED
          BY <3>2, <4>1
      <4>3. R[k] = Contents(c, levels[k - 2].entries) /\ ss[k] = f[i]
        BY <1>2, <2>2, <3>1, <3>2
      <4> HIDE DEF i, R
      <4>4. QED
        BY <4>1, <4>2, <4>3
    <3>3. CASE k - 2 \notin Live
      <4>1. ss[k] = <<>> /\ R[k] = {}
        BY <1>2, <2>2, <3>1, <3>3
      <4>2. Carries(c, <<>>, {})
        <5>1. c \in Configs /\ 0 \in Int
          BY <1>1
        <5> HIDE DEF c
        <5>2. QED
          BY <5>1, CarriesNothing
      <4>3. QED
        BY <4>1, <4>2
    <3>4. QED
      BY <3>2, <3>3
  <2>3. QED
    BY <2>1, <2>2
<1>4. \A k \in 1 .. K + 1 : \A r \in R[k] :
        /\ r.x \in Addresses(c)
        /\ \/ k = 1 /\ \E i \in DOMAIN cache : cache[i].x = r.x
           \/ k # 1 /\ k - 2 \in Live /\ \E e \in levels[k - 2].entries : e.x = r.x
  BY DEF Contents, Cached, Bare, Entry
<1>5. \A j, k \in 1 .. K + 1 : \A r \in R[j], q \in R[k] : r.x = q.x => j = k
  <2> SUFFICES ASSUME NEW j \in 1 .. K + 1, NEW k \in 1 .. K + 1,
                      NEW r \in R[j], NEW q \in R[k], r.x = q.x
               PROVE  j = k
    OBVIOUS
  <2> HIDE DEF R
  <2>1. CASE j = 1 \/ k = 1
    BY <1>4, <2>1 DEF StoredOnce
  <2>2. CASE j # 1 /\ k # 1
    <3>1. j - 2 = k - 2
      BY <1>4, <2>2 DEF StoredOnce
    <3>2. QED
      BY <1>1, <3>1
  <2>3. QED
    BY <2>1, <2>2
<1>6. \A r : r \in StoredAbove(K) <=> \E k \in 1 .. K + 1 : r \in R[k]
  <2>1. ASSUME NEW r
        PROVE  r \in StoredAbove(K) <=>
                 \/ r \in Contents(c, Cached)
                 \/ \E l \in Live : l < K /\ r \in Contents(c, levels[l].entries)
    BY DEF StoredAbove, Contents
  <2>2. ASSUME NEW r
        PROVE  (\E k \in 1 .. K + 1 : r \in R[k]) <=>
                 \/ r \in Contents(c, Cached)
                 \/ \E l \in Live : l < K /\ r \in Contents(c, levels[l].entries)
    <3>1. 1 \in 1 .. K + 1 /\ R[1] = Contents(c, Cached)
      BY <1>1
    <3>2. ASSUME NEW l \in Live, l < K
          PROVE  \E k \in 1 .. K + 1 : R[k] = Contents(c, levels[l].entries)
      <4> DEFINE k == l + 2
      <4>1. k \in 1 .. K + 1 /\ k # 1 /\ k - 2 = l
        BY <1>1, <3>2
      <4> HIDE DEF k
      <4>2. R[k] = Contents(c, levels[l].entries)
        BY <4>1
      <4>3. QED
        BY <4>1, <4>2
    <3>3. ASSUME NEW k \in 1 .. K + 1, r \in R[k], k # 1
          PROVE  k - 2 \in Live /\ k - 2 < K /\ r \in Contents(c, levels[k - 2].entries)
      BY <1>1, <3>3
    <3> HIDE DEF R, c
    <3>4. QED
      BY <3>1, <3>2, <3>3
  <2> HIDE DEF R
  <2>3. QED
    BY <2>1, <2>2
<1> HIDE DEF ss, R, c
<1>7. Carries(c, FlattenSeq(ss), StoredAbove(K))
  <2> DEFINE n == K + 1
  <2>1. n \in Nat \ {0} /\ Len(ss) = n
    BY <1>1, <1>2
  <2>2. /\ \A k \in 1 .. n : Carries(c, ss[k], R[k])
        /\ \A j, k \in 1 .. n : \A r \in R[j], q \in R[k] : r.x = q.x => j = k
        /\ \A r : r \in StoredAbove(K) <=> \E k \in 1 .. n : r \in R[k]
    BY <1>3, <1>5, <1>6
  <2> HIDE DEF n
  <2>3. QED
    BY <2>1, <2>2, CarriesFlattened
<1>8. Bared(c, [i \in DOMAIN FlattenSeq(ss) |-> ClearAlibi(FlattenSeq(ss)[i])], StoredAbove(K))
  BY <1>7, CarriesCleared
<1>9. QED
  BY <1>8 DEF ss, c

---------------------------------------------------------------------------
(* Starting over from a new table.                                         *)

(* A step that builds the table of level K from the contents R and leaves  *)
(* only the tables of the levels `kept` besides: these are below K, and R  *)
(* is all that was stored elsewhere.                                       *)
LEMMA RestoredKeeps ==
  ASSUME Sound, pc # "levels",
         NEW c \in Configs, config' = c, Addresses(config) \subseteq Addresses(c),
         NEW K \in Levels(c), NEW kept \in SUBSET Live, kept = {} \/ c = config,
         \A m \in kept : K < m,
         NEW t, levels' = [m \in Levels(c) |-> levels'[m]], levels'[K] = t,
         \A m \in Levels(c) : m # K =>
           levels'[m] = IF m \in kept THEN levels[m] ELSE NoTable,
         NEW R, Shared(c, K, t, cache', R),
         packedQueryKey' = NoKeys, packedBatchQueryKeys' = NoKeys,
         UNCHANGED <<hadInitialBottomLevel, call>>,
         baseB' \in [Levels(c) -> Nat],
         Bottom(c) \in kept \cup {K} <=> baseB'[Bottom(c)] # 0,
         \A x \in Addresses(config) :
           \/ \E i \in DOMAIN cache : cache[i].x = x
           \/ \E l \in Live \ kept : \E e \in levels[l].entries : e.x = x
           => \E r \in R : r.x = x,
         \A r \in R : \A m \in kept : \A e \in levels[m].entries : e.x # r.x,
         hadInitialBottomLevel =>
           \A x \in Addresses(c) \ Addresses(config) : \E r \in R : r.x = x
  PROVE  StillSound
<1> USE DEF Sound, StillSound
<1>1. /\ pc' = pc /\ single' = single /\ remaining' = remaining /\ flight' = flight
      /\ queryKeys' = queryKeys /\ nextLevel' = nextLevel /\ outputs' = outputs
      /\ flight = <<>> /\ nextLevel = 0 /\ hadInitialBottomLevel' = hadInitialBottomLevel
  BY DEF call, CallPhases
<1>2. /\ t \in TableOf(c) /\ IsFiniteSet(t.entries)
      /\ \A e \in t.entries :
           e.alibi = {} /\ \A f \in t.entries : e.x = f.x => e = f
      /\ Cardinality(t.entries) + c.stashSize = t.numElements
      /\ t.dummies = NumDummies(c, K) /\ t.queryCount = 0 /\ t.revealed = {}
      /\ Len(cache') = c.stashSize /\ \A i \in DOMAIN cache' : cache'[i].alibi = {K}
  BY DEF Shared
<1>3. PICK Q : /\ Carries(c, cache', Q) /\ R = Q \cup Contents(c, t.entries)
               /\ \A r \in Q, e \in t.entries : r.x # e.x
  BY DEF Shared
<1>4. /\ \A i \in DOMAIN cache' : cache'[i].x \in Addresses(c) =>
           /\ \E r \in Q : r.x = cache'[i].x
           /\ \A e \in t.entries : e.x # cache'[i].x
      /\ cache' \in Seq(EntryOf(c))
      /\ \A i, j \in DOMAIN cache' :
           cache'[i].x = cache'[j].x /\ cache'[i].x \in Addresses(c) => i = j
  <2>1. ASSUME NEW i \in DOMAIN cache', cache'[i].x \in Addresses(c)
        PROVE  /\ \E r \in Q : r.x = cache'[i].x
               /\ \A e \in t.entries : e.x # cache'[i].x
    <3>1. Bare(cache'[i]) \in Q /\ Bare(cache'[i]).x = cache'[i].x
      BY <1>3, <2>1 DEF Carries, Bare, Entry
    <3>2. QED
      BY <1>3, <3>1
  <2>2. QED
    BY <1>3, <2>1 DEF Carries
<1>5. \A e \in t.entries : e.x \in Addresses(c) => \E r \in R : r.x = e.x
  <2> TAKE e \in t.entries
  <2> HAVE e.x \in Addresses(c)
  <2>1. Bare(e) \in R /\ Bare(e).x = e.x
    BY <1>3 DEF Contents, Bare, Entry
  <2>2. QED
    BY <2>1
<1>6. \A r \in R : \/ \E i \in DOMAIN cache' : cache'[i].x = r.x
                   \/ \E e \in t.entries : e.x = r.x
  <2> TAKE r \in R
  <2>1. CASE r \in Q
    BY <1>3, <2>1 DEF Carries, Bare, Entry
  <2>2. CASE r \in Contents(c, t.entries)
    BY <2>2 DEF Contents, Bare, Entry
  <2>3. QED
    BY <1>3, <2>1, <2>2
<1>7. /\ config \in Configs /\ Live \subseteq Levels(config)
      /\ \A m \in Levels(config) : m \in Live <=> levels[m] # NoTable
      /\ \A m \in Live : /\ levels[m] \in TableOf(config)
                         /\ IsFiniteSet(levels[m].entries)
                         /\ levels[m].revealed \subseteq Addresses(config)
      /\ K \in Nat /\ Levels(c) \subseteq Nat
  <2>1. K \in Nat /\ Levels(c) \subseteq Nat
    BY ConfigFacts DEF Levels
  <2>2. QED
    BY <2>1, StoreTypes
<1>8. /\ Live' = kept \cup {K} /\ K \notin kept
      /\ \A m \in kept : levels'[m] = levels[m] /\ m \in Levels(c) /\ m # K /\ K < m
  <2>1. \A m \in kept : m \in Levels(c) /\ m # K /\ m \in Nat /\ m \in Levels(config)
    BY <1>7
  <2>2. t # NoTable
    BY <1>2, NoTableAssumption
  <2>3. Live' = {m \in Levels(c) : levels'[m] # NoTable}
    BY DEF Live
  <2>4. QED
    BY <1>7, <2>1, <2>2, <2>3
<1>9. TypeOK'
  <2>1. levels' \in [Levels(c) -> TableOf(c) \cup {NoTable}]
    <3>1. ASSUME NEW m \in Levels(c)
          PROVE  levels'[m] \in TableOf(c) \cup {NoTable}
      <4>1. CASE m = K
        BY <1>2, <4>1
      <4>2. CASE m # K /\ m \in kept
        BY <1>7, <1>8, <4>2
      <4>3. CASE m # K /\ m \notin kept
        BY <4>3
      <4>4. QED
        BY <4>1, <4>2, <4>3
    <3>2. QED
      BY <3>1
  <2>2. \A m \in Live' : IsFiniteSet(levels'[m].entries)
    BY <1>2, <1>7, <1>8
  <2>3. Free' >= 0
    BY <1>2, ConfigFacts DEF Free
  <2>4. remaining' \in Seq(OperationOf(c))
    <3>1. \A i \in DOMAIN remaining : remaining[i] \in OperationOf(c)
      BY CallTypes DEF OperationOf
    <3>2. /\ remaining = [i \in DOMAIN remaining |-> remaining[i]]
          /\ Len(remaining) \in Nat /\ DOMAIN remaining = 1 .. Len(remaining)
      BY CallTypes DEF TypeOK
    <3> DEFINE n == Len(remaining)
    <3>3. remaining \in [1 .. n -> OperationOf(c)] /\ n \in Nat
      BY <3>1, <3>2
    <3> HIDE DEF n
    <3>4. QED
      BY <1>1, <3>3, TupleIsSeq
  <2>5. flight' \in Seq(QueryOf(c)) /\ nextLevel' \in 0 .. c.numLevels
    BY <1>1, ConfigFacts
  <2>6. QED
    BY <1>1, <1>4, <2>1, <2>2, <2>3, <2>4, <2>5 DEF TypeOK
<1>10. CallPhases' /\ TagsFit' /\ BottomCounted' /\ QueriedApart'
  <2>1. CallPhases'
    BY <1>1 DEF CallPhases
  <2>2. TagsFit'
    BY <1>1 DEF TagsFit, CachedKeysCurrent
  <2>3. BottomCounted'
    BY <1>8 DEF BottomCounted
  <2>4. QueriedApart'
    BY <1>1 DEF QueriedApart
  <2>5. QED
    BY <2>1, <2>2, <2>3, <2>4
<1>11. TablesTidy'
  BY <1>2, <1>8 DEF TablesTidy
<1>12. SlotsCounted'
  <2>1. ASSUME NEW m \in Live'
        PROVE  LET u == levels'[m]
               IN  /\ Cardinality(u.entries) + u.dummies + u.queryCount + c.stashSize
                        = u.numElements + NumDummies(c, m)
                   /\ u.dummies + u.queryCount >= NumDummies(c, m)
    <3>1. CASE m = K
      <4>1. /\ NumDummies(c, K) \in Nat /\ c.stashSize \in Nat
            /\ Cardinality(t.entries) \in Nat
        BY <1>2, ConfigFacts, FS_CardinalityType
      <4>2. QED
        BY <1>2, <3>1, <4>1
    <3>2. CASE m \in kept
      BY <1>8, <3>2 DEF SlotsCounted
    <3>3. QED
      BY <1>8, <3>1, <3>2
  <2>2. QED
    BY <2>1 DEF SlotsCounted
<1>13. StoredOnce'
  <2>1. \A l, m \in Live' : \A e \in levels'[l].entries, f \in levels'[m].entries :
          e.x = f.x /\ e.x \in Addresses(c) => l = m
    <3> SUFFICES ASSUME NEW l \in Live', NEW m \in Live', NEW e \in levels'[l].entries,
                        NEW f \in levels'[m].entries, e.x = f.x, e.x \in Addresses(c)
                 PROVE  l = m
      OBVIOUS
    <3>1. CASE l = K /\ m \in kept
      BY <1>5, <1>8, <3>1
    <3>2. CASE l \in kept /\ m = K
      BY <1>5, <1>8, <3>2
    <3>3. CASE l \in kept /\ m \in kept
      BY <1>8, <3>3 DEF StoredOnce
    <3>4. QED
      BY <1>8, <3>1, <3>2, <3>3
  <2>2. ASSUME NEW i \in DOMAIN cache', cache'[i].x \in Addresses(c),
               NEW l \in Live', NEW e \in levels'[l].entries
        PROVE  e.x # cache'[i].x
    <3>1. CASE l = K
      BY <1>4, <2>2, <3>1
    <3>2. CASE l \in kept
      <4>1. PICK r \in R : r.x = cache'[i].x
        BY <1>3, <1>4, <2>2
      <4>2. QED
        BY <1>8, <3>2, <4>1
    <3>3. QED
      BY <1>8, <3>1, <3>2
  <2>3. \A i \in DOMAIN cache', l \in Live' : \A e \in levels'[l].entries :
          e.x = cache'[i].x => e.x \notin Addresses(c)
    BY <2>2
  <2>4. QED
    BY <1>4, <2>1, <2>3 DEF StoredOnce
<1>14. \A x \in Addresses(c) :
         (\E r \in R : r.x = x) =>
           \/ \E i \in DOMAIN cache' : cache'[i].x = x
           \/ \E e \in levels'[K].entries : e.x = x
  BY <1>6
<1>15. ASSUME AllHeld
      PROVE  AllHeld'
  <2>1. ASSUME NEW x \in Addresses(c), hadInitialBottomLevel
        PROVE  Held(x)'
    <3>1. CASE \E r \in R : r.x = x
      BY <1>8, <1>14, <3>1 DEF Held
    <3>2. CASE \E m \in kept : \E e \in levels[m].entries : e.x = x
      BY <1>8, <3>2 DEF Held
    <3>3. CASE x \in Addresses(config)
      <4>1. Held(x)
        BY <1>15, <2>1, <3>3 DEF AllHeld
      <4>2. \/ \E i \in DOMAIN cache : cache[i].x = x
            \/ \E l \in Live : \E e \in levels[l].entries : e.x = x
        BY <1>1, <4>1 DEF Held
      <4>3. QED
        BY <3>1, <3>2, <3>3, <4>2
    <3>4. CASE x \notin Addresses(config)
      BY <2>1, <3>1, <3>4
    <3>5. QED
      BY <3>3, <3>4
  <2>2. QED
    BY <1>15, <1>1, <2>1 DEF AllHeld
<1>16. AlibisGood'
  <2>1. ASSUME NEW i \in DOMAIN cache', NEW l \in cache'[i].alibi
        PROVE  l \in Live' /\ cache'[i].x \notin levels'[l].revealed
    <3>1. l = K
      BY <1>2
    <3>2. QED
      BY <1>2, <1>8, <3>1
  <2>2. flight' = <<>>
    BY <1>1
  <2>3. QED
    BY <2>1, <2>2 DEF AlibisGood
<1>17. ASSUME SeenMeansAbove
      PROVE  SeenMeansAbove'
  <2>1. ASSUME NEW m \in Live', NEW x \in levels'[m].revealed
        PROVE  \/ \E i \in DOMAIN cache' : cache'[i].x = x /\ m \notin cache'[i].alibi
               \/ \E k \in Live' : k < m /\ \E e \in levels'[k].entries : e.x = x
    <3>1. /\ m \in kept /\ m # K /\ K < m /\ x \in levels[m].revealed
          /\ x \in Addresses(config) /\ x \in Addresses(c)
      BY <1>2, <1>7, <1>8, <2>1
    <3>2. CASE \E r \in R : r.x = x
      BY <1>2, <1>8, <1>14, <3>1, <3>2
    <3>3. CASE \E k \in kept : k < m /\ \E e \in levels[k].entries : e.x = x
      BY <1>8, <3>3
    <3>4. \/ \E i \in DOMAIN cache : cache[i].x = x
          \/ \E k \in Live : k < m /\ \E e \in levels[k].entries : e.x = x
      BY <1>17, <1>1, <3>1 DEF SeenMeansAbove
    <3>5. QED
      BY <3>1, <3>2, <3>3, <3>4
  <2>2. QED
    BY <1>17, <2>1 DEF SeenMeansAbove
<1>18. QED
  BY <1>9, <1>10, <1>11, <1>12, <1>13, <1>15, <1>16, <1>17

---------------------------------------------------------------------------
(* Rebuilding and growing.                                                 *)

(* What extract_untouched hands back, padded or not, carries its table.    *)
LEMMA Extracted ==
  ASSUME Sound, NEW l \in Levels(config)
  PROVE  /\ l \in Live =>
              Carries(config, ExtractUntouched(config, levels[l]),
                      Contents(config, levels[l].entries))
         /\ IF l \in Live
            THEN Carries(config, ExtractPadded(l), Contents(config, levels[l].entries))
            ELSE ExtractPadded(l) = <<>>
<1> USE DEF Sound, StillSound
<1>1. /\ config \in Configs
      /\ l \in Live => levels[l] \in TableOf(config) /\ IsFiniteSet(levels[l].entries)
  BY StoreTypes
<1>2. ASSUME l \in Live
      PROVE  Carries(config, ExtractUntouched(config, levels[l]),
                     Contents(config, levels[l].entries))
  <2>1. \A e, f \in levels[l].entries : e.x = f.x => e = f
    BY <1>2 DEF TablesTidy
  <2>2. QED
    BY <1>1, <1>2, <2>1, CarriesUntouched
<1>3. ASSUME l \in Live
      PROVE  Carries(config, ExtractPadded(l), Contents(config, levels[l].entries))
  <2> DEFINE n == NumElementsAt(config, l, baseB[l])
             s == ExtractUntouched(config, levels[l])
  <2>1. n \in Int
    <3>1. baseB[l] \in Nat
      BY DEF TypeOK
    <3>2. QED
      BY <1>1, <3>1, LevelFits
  <2>2. ExtractPadded(l) = PadTo(s, n, DummyEntry(config))
    BY <1>3 DEF ExtractPadded
  <2>3. Carries(config, s, Contents(config, levels[l].entries))
    BY <1>2, <1>3
  <2> HIDE DEF n, s
  <2>4. QED
    BY <1>1, <2>1, <2>2, <2>3, CarriesPadded
<1>4. l \notin Live => ExtractPadded(l) = <<>>
  BY DEF ExtractPadded
<1>5. QED
  BY <1>2, <1>3, <1>4

(* A rebuild collects the levels above its target, and the target if it    *)
(* holds a table.                                                          *)
LEMMA TargetCollects ==
  ASSUME Sound
  PROVE  /\ Target \in Levels(config) /\ Target \in Nat
         /\ Target # Bottom(config) => baseB[Target] < AmpFactor(config) - 1
         /\ LastLevelToExtract \in 0 .. config.numLevels
         /\ Target \in Live => LastLevelToExtract = Target + 1
         /\ LastLevelToExtract \in {Target, Target + 1}
<1> USE DEF Sound, StillSound
<1>1. config \in Configs /\ baseB \in [Levels(config) -> Nat]
  BY DEF TypeOK
<1>2. /\ Target \in Levels(config)
      /\ Target = Bottom(config) \/ baseB[Target] < AmpFactor(config) - 1
  BY <1>1, TargetFacts DEF Target
<1>3. Target \in Live => NeedToExtract(config, baseB, Live)
  BY DEF NeedToExtract, Target, BottomCounted
<1>4. Target \in Nat /\ Target + 1 \in 0 .. config.numLevels /\ Target \in 0 .. config.numLevels
  <2> DEFINE T == Target
             n == config.numLevels
  <2>1. T \in 0 .. n - 1 /\ n \in Nat
    BY <1>1, <1>2, ConfigFacts DEF Levels
  <2> HIDE DEF T, n
  <2>2. T \in Nat /\ T + 1 \in 0 .. n /\ T \in 0 .. n
    BY <2>1
  <2>3. QED
    BY <2>2 DEF T, n
<1>5. LastLevelToExtract = Target + 1 \/ LastLevelToExtract = Target
  <2>1. Target + 0 = Target
    BY <1>4
  <2>2. QED
    BY <2>1 DEF LastLevelToExtract
<1>6. Target \in Live => LastLevelToExtract = Target + 1
  BY <1>3 DEF LastLevelToExtract
<1>7. QED
  BY <1>2, <1>4, <1>5, <1>6

(* The entries of a rebuild carry all that is stored above the last level  *)
(* it collects; those of a growth on demand, all there is.                 *)
LEMMA CollapsedCarries ==
  ASSUME Sound
  PROVE  /\ Bared(config, Collapsed, StoredAbove(LastLevelToExtract))
         /\ Bared(config, AllUntouched, StoredAbove(config.numLevels))
<1> DEFINE K == LastLevelToExtract
           n == config.numLevels
           f == [i \in 1 .. K |-> ExtractPadded(i - 1)]
           g == [i \in 1 .. n |->
                   IF i - 1 \in Live
                   THEN ExtractUntouched(config, levels[i - 1]) ELSE <<>>]
<1>1. n \in Nat /\ K \in 0 .. n /\ Levels(config) = 0 .. n - 1
  BY TargetCollects, ConfigFacts DEF Sound, TypeOK, Levels
<1>2. Bared(config, Collapsed, StoredAbove(K))
  <2> DEFINE s == FlattenSeq(<<cache>> \o f)
  <2>1. f = [i \in 1 .. K |-> f[i]]
    OBVIOUS
  <2>2. ASSUME NEW i \in 1 .. K
        PROVE  IF i - 1 \in Live
               THEN Carries(config, f[i], Contents(config, levels[i - 1].entries))
               ELSE f[i] = <<>>
    <3>1. i - 1 \in Levels(config) /\ f[i] = ExtractPadded(i - 1)
      BY <1>1
    <3> HIDE DEF f
    <3>2. QED
      BY <3>1, Extracted
  <2>3. Collapsed = [i \in DOMAIN s |-> ClearAlibi(s[i])]
    BY DEF Collapsed
  <2> HIDE DEF f, K
  <2>4. QED
    BY <1>1, <2>1, <2>2, <2>3, Gathered
<1>3. Bared(config, AllUntouched, StoredAbove(n))
  <2> DEFINE s == FlattenSeq(<<cache>> \o g)
  <2>1. g = [i \in 1 .. n |-> g[i]]
    OBVIOUS
  <2>2. ASSUME NEW i \in 1 .. n
        PROVE  IF i - 1 \in Live
               THEN Carries(config, g[i], Contents(config, levels[i - 1].entries))
               ELSE g[i] = <<>>
    <3>1. /\ i - 1 \in Levels(config)
          /\ g[i] = IF i - 1 \in Live
                    THEN ExtractUntouched(config, levels[i - 1]) ELSE <<>>
      BY <1>1
    <3> HIDE DEF g
    <3>2. QED
      BY <3>1, Extracted
  <2>3. AllUntouched = [i \in DOMAIN s |-> ClearAlibi(s[i])]
    BY DEF AllUntouched
  <2>4. n \in 0 .. config.numLevels /\ n = config.numLevels
    BY <1>1
  <2> HIDE DEF g, n
  <2>5. QED
    BY <2>1, <2>2, <2>3, <2>4, Gathered
<1>4. QED
  BY <1>2, <1>3

(* A rebuild moves what it collects into a new table, and leaves the       *)
(* tables below alone.                                                     *)
LEMMA RebuildBuilds ==
  ASSUME Sound, Rebuild
  PROVE  /\ pc = "access" /\ config' = config
         /\ UNCHANGED <<hadInitialBottomLevel, call>>
         /\ baseB' = BaseBAfterRebuild(config, baseB, Target)
         /\ packedQueryKey' = NoKeys /\ packedBatchQueryKeys' = NoKeys
         /\ levels' = [m \in Levels(config) |-> levels'[m]]
         /\ \A m \in Levels(config) : m # Target =>
              levels'[m] = IF m \in Live /\ Target < m THEN levels[m] ELSE NoTable
         /\ Shared(config, Target, levels'[Target], cache',
                   StoredAbove(LastLevelToExtract))
         /\ \A m \in Live : m < LastLevelToExtract <=> ~ (Target < m)
<1> DEFINE K == Target
           L == LastLevelToExtract
           R == StoredAbove(L)
           B == Bottom(config)
           old == [l \in Levels(config) |->
                     IF l < LastLevelToExtract THEN NoTable ELSE levels[l]]
<1>1. /\ pc = "access" /\ config' = config
      /\ baseB' = BaseBAfterRebuild(config, baseB, K)
      /\ UNCHANGED <<hadInitialBottomLevel, call>>
  BY DEF Rebuild
<1>2. /\ config \in Configs /\ K \in Levels(config) /\ K \in Nat
      /\ K # B => baseB[K] < AmpFactor(config) - 1
      /\ K \in Live => L = K + 1
      /\ L \in {K, K + 1}
      /\ Levels(config) \subseteq Nat /\ Live \subseteq Levels(config)
      /\ \A l \in Levels(config) : l \in Live <=> levels[l] # NoTable
      /\ baseB \in [Levels(config) -> Nat] /\ AmpFactor(config) \in Nat
      /\ B \in Levels(config)
  BY TargetCollects, StoreTypes, ConfigFacts DEF Sound, TypeOK
<1>3. Bared(config, Collapsed, R)
  BY CollapsedCarries
<1>4. PICK s : Labelled(config, s, R) /\ BuildLevel(config, K, old, s)
  <2>1. CASE K = B
    <3>1. BuildLevel(config, K, old, FinalizeBottomLevel(Collapsed))
      BY <2>1 DEF Rebuild
    <3>2. Labelled(config, FinalizeBottomLevel(Collapsed), R)
      <4> HIDE DEF R
      <4>1. QED
        BY <1>2, <1>3, FinalizedLabelled
    <3>3. QED
      BY <3>1, <3>2
  <2>2. CASE K # B
    <3> DEFINE b == baseB[K] + 1
    <3>1. /\ Len(Collapsed) = NumElementsAt(config, K, b)
          /\ BuildLevel(config, K, old, RelabelDummies(config, Collapsed))
      BY <2>2 DEF Rebuild
    <3>2. b \in Nat /\ b <= AmpFactor(config)
      BY <1>2, <2>2
    <3>3. NumElementsAt(config, K, b) <= BottomNumElements(config)
      <4> HIDE DEF b, K
      <4>1. QED
        BY <1>2, <2>2, <3>2, LevelFits
    <3>4. Labelled(config, RelabelDummies(config, Collapsed), R)
      <4> HIDE DEF R, K, b
      <4>1. QED
        BY <1>2, <1>3, <3>1, <3>3, RelabelledLabelled
    <3>5. QED
      BY <3>1, <3>4
  <2>3. QED
    BY <2>1, <2>2
<1>5. PICK t : /\ levels' = [old EXCEPT ![K] = t]
               /\ Shared(config, K, t, cache', R)
               /\ packedQueryKey' = NoKeys /\ packedBatchQueryKeys' = NoKeys
  <2>1. DOMAIN old = Levels(config)
    OBVIOUS
  <2> HIDE DEF old, R, K
  <2>2. QED
    BY <1>2, <1>4, <2>1, LevelBuilt
<1>6. /\ levels' = [m \in Levels(config) |-> levels'[m]] /\ levels'[K] = t
      /\ \A m \in Levels(config) : m # K => levels'[m] = old[m]
  <2> HIDE DEF K
  <2>1. QED
    BY <1>2, <1>5
<1>7. ASSUME NEW m \in Levels(config), m # K
      PROVE  levels'[m] = IF m \in Live /\ K < m THEN levels[m] ELSE NoTable
  <2>1. m < L <=> m < K
    <3> HIDE DEF K, L
    <3>1. m \in Nat /\ m # K
      BY <1>2, <1>7
    <3>2. QED
      BY <1>2, <3>1
  <2>2. levels'[m] = IF m < L THEN NoTable ELSE levels[m]
    BY <1>6, <1>7
  <2>3. m < K \/ K < m
    BY <1>2, <1>7
  <2>4. m < K => ~ (K < m)
    BY <1>2
  <2> HIDE DEF K, L
  <2>5. QED
    BY <1>2, <2>1, <2>2, <2>3, <2>4
<1>8. ASSUME NEW m \in Live
      PROVE  m < L <=> ~ (K < m)
  <2>1. m \in Nat /\ (m = K => m < L)
    BY <1>2
  <2> HIDE DEF K, L
  <2>2. QED
    BY <1>2, <2>1
<1> HIDE DEF R, old
<1>9. QED
  BY <1>1, <1>5, <1>6, <1>7, <1>8 DEF R

(* A rebuild keeps the invariant.                                          *)
LEMMA RebuildKeeps ==
  ASSUME Sound, Rebuild
  PROVE  StillSound
<1> DEFINE K == Target
           L == LastLevelToExtract
           R == StoredAbove(L)
           B == Bottom(config)
           kept == {m \in Live : K < m}
           t == levels'[K]
<1>1. /\ pc = "access" /\ config' = config
      /\ baseB' = BaseBAfterRebuild(config, baseB, K)
      /\ UNCHANGED <<hadInitialBottomLevel, call>>
      /\ packedQueryKey' = NoKeys /\ packedBatchQueryKeys' = NoKeys
      /\ levels' = [m \in Levels(config) |-> levels'[m]]
      /\ \A m \in Levels(config) : m # K =>
           levels'[m] = IF m \in Live /\ K < m THEN levels[m] ELSE NoTable
      /\ Shared(config, K, t, cache', R)
      /\ \A m \in Live : m < L <=> ~ (K < m)
  BY RebuildBuilds
<1>2. /\ config \in Configs /\ K \in Levels(config) /\ K \in Nat
      /\ Levels(config) \subseteq Nat /\ Live \subseteq Levels(config)
      /\ baseB \in [Levels(config) -> Nat] /\ AmpFactor(config) \in Nat
      /\ B \in Levels(config)
  BY TargetCollects, StoreTypes, ConfigFacts DEF Sound, TypeOK
<1>7. ASSUME NEW m \in Levels(config), m # K
      PROVE  levels'[m] = IF m \in kept THEN levels[m] ELSE NoTable
  BY <1>1, <1>7
<1>8. kept \in SUBSET Live /\ \A m \in kept : K < m
  OBVIOUS
<1>9. baseB' \in [Levels(config) -> Nat] /\ (B \in kept \cup {K} <=> baseB'[B] # 0)
  <2>1. baseB' = [l \in Levels(config) |->
                    CASE l < K /\ baseB[l] = AmpFactor(config) - 1 -> 0
                      [] l = K /\ K = B -> 1
                      [] l = K /\ K # B -> baseB[K] + 1
                      [] OTHER -> baseB[l]]
    BY <1>1 DEF BaseBAfterRebuild
  <2> HIDE DEF K, B
  <2>2. ASSUME NEW l \in Levels(config)
        PROVE  /\ l < K => baseB'[l] = IF baseB[l] = AmpFactor(config) - 1 THEN 0 ELSE baseB[l]
               /\ l = K => baseB'[l] = IF K = B THEN 1 ELSE baseB[K] + 1
               /\ l > K => baseB'[l] = baseB[l]
    BY <1>2, <2>1
  <2>3. baseB' \in [Levels(config) -> Nat]
    <3>1. ASSUME NEW l \in Levels(config)
          PROVE  baseB'[l] \in Nat
      <4>1. baseB[l] \in Nat /\ baseB[K] \in Nat /\ l \in Nat
        BY <1>2
      <4>2. QED
        BY <1>2, <2>2, <4>1
    <3>2. QED
      BY <2>1, <3>1
  <2>4. B >= K
    <3>1. K \in 0 .. config.numLevels - 1 /\ B = config.numLevels - 1
      BY <1>2 DEF Levels, B, Bottom
    <3>2. config.numLevels \in Nat
      BY <1>2, ConfigFacts
    <3>3. QED
      BY <3>1, <3>2
  <2> HIDE DEF kept
  <2>5. CASE K = B
    <3>1. baseB'[B] = 1
      BY <1>2, <2>2, <2>5
    <3>2. QED
      BY <2>3, <2>5, <3>1
  <2>6. CASE K # B
    <3>1. K < B /\ B \in Nat
      BY <1>2, <2>4, <2>6
    <3>2. baseB'[B] = baseB[B]
      BY <1>2, <2>2, <3>1
    <3>3. B \in Live <=> baseB[B] # 0
      BY DEF Sound, BottomCounted, B
    <3>4. B \in kept <=> B \in Live
      BY <3>1 DEF kept
    <3>5. QED
      BY <2>3, <2>6, <3>2, <3>3, <3>4
  <2>7. QED
    BY <2>3, <2>5, <2>6
<1>10. ASSUME NEW x \in Addresses(config),
              \/ \E i \in DOMAIN cache : cache[i].x = x
              \/ \E l \in Live \ kept : \E e \in levels[l].entries : e.x = x
       PROVE  \E r \in R : r.x = x
  <2>1. \A l \in Live \ kept : l < L
    BY <1>1
  <2> HIDE DEF L, kept
  <2>2. QED
    BY <1>10, <2>1, StoredAboveFacts
<1>11. ASSUME NEW r \in R, NEW m \in kept, NEW e \in levels[m].entries
       PROVE  e.x # r.x
  <2>1. ~ (m < L) /\ m \in Live
    BY <1>1
  <2> HIDE DEF L, kept
  <2>2. /\ r.x \in Addresses(config)
        /\ \/ \E i \in DOMAIN cache : cache[i].x = r.x
           \/ \E l \in Live : l < L /\ \E f \in levels[l].entries : f.x = r.x
    BY StoredAboveFacts
  <2>3. QED
    BY <2>1, <2>2 DEF Sound, StoredOnce
<1>12. Addresses(config) \subseteq Addresses(config) /\ pc # "levels"
  BY <1>1
<1> HIDE DEF K, R, B, t, kept
<1>13. Bottom(config) \in kept \cup {K} <=> baseB'[Bottom(config)] # 0
  BY <1>9 DEF B
<1>14. levels'[K] = t
  BY DEF t
<1>15. QED
  BY <1>1, <1>2, <1>7, <1>8, <1>9, <1>10, <1>11, <1>12, <1>13, <1>14, RestoredKeeps

(* Growing moves everything stored into the bottom table of the larger     *)
(* address space, and the new addresses with it.                           *)
LEMMA FinishGrowBuilds ==
  ASSUME Sound, NEW c \in Configs, OneBitLarger(c),
         NEW R, NEW e, Bared(config, e, R), CleanseSucceeds(e),
         FinishGrow(c, FinalizeBottomLevel(e))
  PROVE  /\ config' = c /\ baseB' = OnlyBottomCounted(c)
         /\ UNCHANGED <<hadInitialBottomLevel, call>>
         /\ packedQueryKey' = NoKeys /\ packedBatchQueryKeys' = NoKeys
         /\ Addresses(config) \subseteq Addresses(c)
         /\ levels' = [m \in Levels(c) |-> levels'[m]]
         /\ \A m \in Levels(c) : m # Bottom(c) => levels'[m] = NoTable
         /\ Shared(c, Bottom(c), levels'[Bottom(c)], cache', R \cup Grown(c))
<1> DEFINE K == Bottom(c)
           s == FinalizeBottomLevel(e)
           G == R \cup Grown(c)
           old == NoTables(c)
<1>1. config \in Configs /\ K \in Levels(c)
  BY ConfigFacts DEF Sound, TypeOK
<1>2. /\ Labelled(config, s, R) /\ Len(s) <= BottomNumElements(config)
      /\ hadInitialBottomLevel => /\ Len(s) = BottomNumElements(config)
                                  /\ \A i \in DOMAIN s : s[i].x \in Addresses(config)
  BY <1>1, FinalizedLabelled DEF CleanseSucceeds
<1>3. PICK u : /\ config' = c /\ baseB' = OnlyBottomCounted(c)
               /\ UNCHANGED <<hadInitialBottomLevel, call>>
               /\ Labelled(c, u, G) /\ BuildLevel(c, K, old, u)
               /\ Addresses(config) \subseteq Addresses(c)
  <2> HIDE DEF s
  <2>1. FinishGrow(c, s)
    BY DEF s
  <2>2. QED
    BY <1>1, <1>2, <2>1, GrownLabelled
<1>4. PICK t : /\ levels' = [old EXCEPT ![K] = t]
               /\ Shared(c, K, t, cache', G)
               /\ packedQueryKey' = NoKeys /\ packedBatchQueryKeys' = NoKeys
  <2>1. DOMAIN old = Levels(c)
    BY DEF NoTables
  <2> HIDE DEF old, G, K
  <2>2. QED
    BY <1>1, <1>3, <2>1, LevelBuilt
<1>5. /\ levels' = [m \in Levels(c) |-> levels'[m]] /\ levels'[K] = t
      /\ \A m \in Levels(c) : m # K => levels'[m] = NoTable
  <2> HIDE DEF K
  <2>1. QED
    BY <1>1, <1>4 DEF NoTables
<1>6. QED
  BY <1>1, <1>3, <1>4, <1>5

(* Growing on either occasion collects everything stored.                  *)
LEMMA GrowBuilds ==
  ASSUME Sound, NEW c \in Configs, GrowNaturally(c) \/ GrowOnDemand(c)
  PROVE  /\ pc = "idle" /\ OneBitLarger(c)
         /\ \E K : /\ \A l \in Live : l < K
                   /\ \E e : /\ Bared(config, e, StoredAbove(K))
                             /\ CleanseSucceeds(e)
                             /\ FinishGrow(c, FinalizeBottomLevel(e))
<1> DEFINE L == LastLevelToExtract
           n == config.numLevels
<1>1. /\ pc = "idle" /\ OneBitLarger(c)
      /\ \/ /\ Target = Bottom(config) /\ CleanseSucceeds(Collapsed)
            /\ FinishGrow(c, FinalizeBottomLevel(Collapsed))
         \/ /\ CleanseSucceeds(AllUntouched)
            /\ FinishGrow(c, FinalizeBottomLevel(AllUntouched))
  BY DEF GrowNaturally, GrowOnDemand, ReadyToGrowNaturally
<1>2. \A l \in Live : l \in 0 .. n - 1 /\ l < n
  BY StoreTypes, ConfigFacts DEF Sound, Levels
<1>3. CASE Target = Bottom(config) /\ CleanseSucceeds(Collapsed)
           /\ FinishGrow(c, FinalizeBottomLevel(Collapsed))
  <2>1. Bared(config, Collapsed, StoredAbove(L))
    BY CollapsedCarries
  <2>2. \A l \in Live : l < L
    <3>1. n \in Nat /\ Target = n - 1 /\ L \in {Target, Target + 1}
          /\ (Target \in Live => L = Target + 1)
      BY <1>3, TargetCollects, ConfigFacts DEF Sound, TypeOK, Bottom
    <3> HIDE DEF L, n
    <3>2. TAKE l \in Live
    <3>3. l \in 0 .. n - 1 /\ (l = n - 1 => Target \in Live)
      BY <1>2, <3>1
    <3>4. QED
      BY <3>1, <3>3
  <2> HIDE DEF L
  <2>3. QED
    BY <1>1, <1>3, <2>1, <2>2
<1>4. CASE CleanseSucceeds(AllUntouched)
           /\ FinishGrow(c, FinalizeBottomLevel(AllUntouched))
  <2>1. Bared(config, AllUntouched, StoredAbove(n))
    BY CollapsedCarries
  <2> HIDE DEF n
  <2>2. QED
    BY <1>1, <1>2, <1>4, <2>1
<1>5. QED
  BY <1>1, <1>3, <1>4

(* Growing keeps the invariant.                                            *)
LEMMA GrowKeeps ==
  ASSUME Sound, NEW c \in Configs, GrowNaturally(c) \/ GrowOnDemand(c)
  PROVE  StillSound
<1>1. PICK L : /\ \A l \in Live : l < L
               /\ \E e : /\ Bared(config, e, StoredAbove(L))
                         /\ CleanseSucceeds(e)
                         /\ FinishGrow(c, FinalizeBottomLevel(e))
  BY GrowBuilds
<1> DEFINE K == Bottom(c)
           G == StoredAbove(L) \cup Grown(c)
           none == {l \in Live : FALSE}
           t == levels'[K]
<1>2. /\ config' = c /\ baseB' = OnlyBottomCounted(c)
      /\ UNCHANGED <<hadInitialBottomLevel, call>>
      /\ packedQueryKey' = NoKeys /\ packedBatchQueryKeys' = NoKeys
      /\ Addresses(config) \subseteq Addresses(c)
      /\ levels' = [m \in Levels(c) |-> levels'[m]]
      /\ \A m \in Levels(c) : m # K => levels'[m] = NoTable
      /\ Shared(c, K, t, cache', G)
  <2>1. OneBitLarger(c)
    BY GrowBuilds
  <2>2. QED
    BY <1>1, <2>1, FinishGrowBuilds
<1>3. pc = "idle" /\ K \in Levels(c)
  BY GrowBuilds, ConfigFacts
<1>4. \A m \in Levels(c) : m # K =>
        levels'[m] = IF m \in none THEN levels[m] ELSE NoTable
  BY <1>2
<1>5. /\ baseB' \in [Levels(c) -> Nat]
      /\ Bottom(c) \in none \cup {K} <=> baseB'[Bottom(c)] # 0
  BY <1>2, <1>3 DEF OnlyBottomCounted
<1>6. \A x \in Addresses(config) :
        \/ \E i \in DOMAIN cache : cache[i].x = x
        \/ \E l \in Live \ none : \E f \in levels[l].entries : f.x = x
        => \E r \in G : r.x = x
  BY <1>1, StoredAboveFacts
<1>7. hadInitialBottomLevel =>
        \A x \in Addresses(c) \ Addresses(config) : \E r \in G : r.x = x
  <2>1. ASSUME hadInitialBottomLevel, NEW x \in Addresses(c) \ Addresses(config)
        PROVE  Entry(x, Zero) \in Grown(c) /\ Entry(x, Zero).x = x
    BY <2>1 DEF Grown, Entry
  <2>2. QED
    BY <2>1
<1>8. /\ none \in SUBSET Live /\ (none = {} \/ c = config) /\ pc # "levels"
      /\ \A m \in none : K < m
      /\ \A r \in G : \A m \in none : \A f \in levels[m].entries : f.x # r.x
  BY <1>3
<1>9. levels'[K] = t
  OBVIOUS
<1> HIDE DEF K, G, none, t
<1>10. QED
  BY <1>2, <1>3, <1>4, <1>5, <1>6, <1>7, <1>8, <1>9, RestoredKeeps

---------------------------------------------------------------------------
(* Creation.                                                               *)

(* A new DORAM holds nothing but dummies.                                  *)
LEMMA InitEmptyIInv ==
  ASSUME config \in Configs, InitEmpty, NoCall,
         packedQueryKey = NoKeys, packedBatchQueryKeys = NoKeys
  PROVE  IInv
<1> DEFINE n == config.stashSize
           d == DummyEntry(config)
<1>1. /\ n \in Nat /\ SpeedCacheSize(config) \in Nat /\ n < SpeedCacheSize(config)
      /\ config.numLevels \in Nat
  BY ConfigFacts
<1>2. Live = {} /\ levels = [l \in Levels(config) |-> NoTable]
  BY DEF InitEmpty, NoTables, Live
<1>3. /\ d \in EntryOf(config) /\ d.x \notin Addresses(config) /\ d.alibi = {}
  BY LabelFacts DEF DummyEntry, DummyX, Entry, EntryOf, Zero, Values
<1>4. /\ cache \in Seq(EntryOf(config)) /\ Len(cache) = n /\ DOMAIN cache = 1 .. n
      /\ \A i \in DOMAIN cache : cache[i].x \notin Addresses(config)
  <2>1. cache = [i \in 1 .. n |-> d]
    BY DEF InitEmpty
  <2> HIDE DEF d, n
  <2>2. cache \in [1 .. n -> EntryOf(config)]
    BY <1>3, <2>1
  <2>3. QED
    BY <1>1, <1>3, <2>1, <2>2, TupleIsSeq
<1>5. TypeOK
  <2>1. Free >= 0
    BY <1>1, <1>4 DEF Free
  <2>2. /\ pc = "idle" /\ single = FALSE /\ remaining = <<>> /\ flight = <<>>
        /\ nextLevel \in 0 .. config.numLevels /\ outputs = <<>>
    BY <1>1 DEF NoCall
  <2>3. baseB \in [Levels(config) -> Nat] /\ hadInitialBottomLevel \in BOOLEAN
    BY DEF InitEmpty
  <2>4. levels \in [Levels(config) -> TableOf(config) \cup {NoTable}]
    BY <1>2
  <2>5. /\ single \in BOOLEAN /\ remaining \in Seq(OperationOf(config))
        /\ flight \in Seq(QueryOf(config)) /\ outputs \in Seq(Values)
    <3>1. \A S : <<>> \in Seq(S)
      OBVIOUS
    <3>2. QED
      BY <2>2, <3>1
  <2>6. QED
    BY <1>2, <1>4, <2>1, <2>2, <2>3, <2>4, <2>5 DEF TypeOK
<1>6. CallPhases /\ TagsFit /\ BottomCounted
  <2>1. CallPhases
    BY DEF CallPhases, NoCall
  <2>2. TagsFit
    BY DEF TagsFit, CachedKeysCurrent, NoCall
  <2>3. BottomCounted
    BY <1>2, ConfigFacts DEF BottomCounted, InitEmpty
  <2>4. QED
    BY <2>1, <2>2, <2>3
<1>7. TablesTidy /\ SlotsCounted
  BY <1>2 DEF TablesTidy, SlotsCounted
<1>8. StoredOnce
  BY <1>2, <1>4 DEF StoredOnce
<1>9. QueriedApart /\ AllHeld
  BY DEF QueriedApart, AllHeld, NoCall, InitEmpty
<1>10. AlibisGood /\ SeenMeansAbove
  BY <1>2, <1>4 DEF AlibisGood, SeenMeansAbove, NoCall
<1>11. QED
  BY <1>5, <1>6, <1>7, <1>8, <1>9, <1>10 DEF IInv, Sound

(* An initial bottom level and its stash share the contents it is given.    *)
LEMMA InitBottomBuilds ==
  ASSUME config \in Configs, InitBottom
  PROVE  /\ hadInitialBottomLevel = TRUE /\ baseB = OnlyBottomCounted(config)
         /\ \E ys \in InitialYs : \E t :
              /\ DOMAIN ys = Addresses(config)
              /\ levels = [NoTables(config) EXCEPT ![Bottom(config)] = t]
              /\ Shared(config, Bottom(config), t, cache,
                        {Entry(x, ys[x]) : x \in Addresses(config)})
<1> DEFINE c == config
           N == BottomNumElements(c)
           K == Bottom(c)
<1>1. /\ N \in Nat \ {0} /\ Addresses(c) = 0 .. N - 1 /\ K \in Levels(c)
      /\ SpeedCacheSize(c) \in Nat /\ c.stashSize \in Nat
      /\ c.stashSize < SpeedCacheSize(c) /\ c.numLevels \in Nat
  BY LabelFacts, ConfigFacts
<1> PICK ys \in InitialYs :
     LET s == [i \in 1 .. N |-> Entry(i - 1, ys[i - 1])]
     IN  /\ DOMAIN ys = Addresses(c)
         /\ hadInitialBottomLevel = TRUE
         /\ baseB = OnlyBottomCounted(c)
         /\ \E stash \in StashesOf(c.stashSize, ToSet(s)) :
              /\ stash \subseteq ToSet(s) /\ Cardinality(stash) = c.stashSize
              /\ levels = [NoTables(c) EXCEPT ![K] = NewTable(c, K, 0, s, stash)]
              /\ cache = StashEntries(K, stash)
  BY DEF InitBottom
<1> DEFINE s == [i \in 1 .. N |-> Entry(i - 1, ys[i - 1])]
           R == {Entry(x, ys[x]) : x \in Addresses(c)}
<1>2. /\ DOMAIN ys = Addresses(c) /\ hadInitialBottomLevel = TRUE
      /\ baseB = OnlyBottomCounted(c)
  OBVIOUS
<1>3. PICK stash \in SUBSET ToSet(s) :
        /\ Cardinality(stash) = c.stashSize
        /\ levels = [NoTables(c) EXCEPT ![K] = NewTable(c, K, 0, s, stash)]
        /\ cache = StashEntries(K, stash)
  OBVIOUS
<1>4. Labelled(c, s, R)
  <2>1. \A x \in Addresses(c) : x \in 0 .. 2 * N - 1 /\ ys[x] \in Values
    <3>1. \A x \in Addresses(c) : ys[x] \in Values
      BY <1>2, InitialYsAssumption
    <3> HIDE DEF N
    <3>2. QED
      BY <1>1, <3>1
  <2>2. ASSUME NEW i \in 1 .. N
        PROVE  /\ i - 1 \in Addresses(c) /\ s[i] \in EntryOf(c)
               /\ s[i].x = i - 1 /\ s[i].alibi = {} /\ s[i] = Entry(i - 1, ys[i - 1])
               /\ Bare(s[i]) = s[i] /\ s[i] \in R
    <3>1. i - 1 \in Addresses(c)
      <4> HIDE DEF N
      <4>1. QED
        BY <1>1
    <3>2. s[i] = Entry(i - 1, ys[i - 1])
      OBVIOUS
    <3>3. s[i].x = i - 1 /\ s[i].alibi = {} /\ Bare(s[i]) = s[i]
      BY <3>2 DEF Entry, Bare
    <3>4. s[i] \in EntryOf(c)
      BY <2>1, <3>1, <3>2 DEF Entry, EntryOf
    <3>5. s[i] \in R
      BY <3>1, <3>2
    <3>6. QED
      BY <3>1, <3>2, <3>3, <3>4, <3>5
  <2>3. s \in Seq(EntryOf(c)) /\ DOMAIN s = 1 .. N
    <3>1. s \in [1 .. N -> EntryOf(c)]
      BY <2>2
    <3> HIDE DEF s, N
    <3>2. QED
      BY <1>1, <3>1, TupleIsSeq
  <2>4. ASSUME NEW r \in R
        PROVE  \E i \in 1 .. N : s[i].x \in Addresses(c) /\ Bare(s[i]) = r
    <3>1. PICK x \in Addresses(c) : r = Entry(x, ys[x])
      OBVIOUS
    <3> DEFINE i == x + 1
    <3>2. i \in 1 .. N /\ i - 1 = x
      <4> HIDE DEF N
      <4>1. QED
        BY <1>1
    <3> HIDE DEF s, R, i
    <3>3. QED
      BY <2>2, <3>1, <3>2
  <2>5. \A i, j \in 1 .. N : s[i].x = s[j].x => i = j
    <3> TAKE i, j \in 1 .. N
    <3>1. s[i].x = i - 1 /\ s[j].x = j - 1 /\ i \in Int /\ j \in Int
      BY <1>1, <2>2
    <3> HIDE DEF s
    <3>2. QED
      BY <3>1
  <2> HIDE DEF s, R, N
  <2>6. QED
    BY <2>2, <2>3, <2>4, <2>5 DEF Labelled, Bared, Carries
<1> DEFINE t == NewTable(c, K, 0, s, stash)
<1>5. Shared(c, K, t, cache, R)
  <2>1. 0 \in Nat
    OBVIOUS
  <2> HIDE DEF K, s, R, c
  <2>2. QED
    BY <1>1, <1>3, <1>4, <2>1, NewTableShares DEF c
<1>6. levels = [NoTables(c) EXCEPT ![K] = t]
  BY <1>3
<1> HIDE DEF t, s, K
<1>7. QED
  BY <1>2, <1>5, <1>6 DEF K

(* A DORAM with an initial bottom level holds every address once, in that  *)
(* level or in the stash it has left in the cache.                         *)
LEMMA InitBottomIInv ==
  ASSUME config \in Configs, InitBottom, NoCall,
         packedQueryKey = NoKeys, packedBatchQueryKeys = NoKeys
  PROVE  IInv
<1> DEFINE c == config
           K == Bottom(c)
<1>1. /\ K \in Levels(c) /\ SpeedCacheSize(c) \in Nat /\ c.stashSize \in Nat
      /\ c.stashSize < SpeedCacheSize(c) /\ c.numLevels \in Nat
  BY ConfigFacts
<1>2. hadInitialBottomLevel = TRUE /\ baseB = OnlyBottomCounted(c)
  BY InitBottomBuilds
<1>3. PICK ys \in InitialYs : \E t :
        /\ DOMAIN ys = Addresses(c) /\ levels = [NoTables(c) EXCEPT ![K] = t]
        /\ Shared(c, K, t, cache, {Entry(x, ys[x]) : x \in Addresses(c)})
  BY InitBottomBuilds
<1>4. PICK t :
        /\ DOMAIN ys = Addresses(c) /\ levels = [NoTables(c) EXCEPT ![K] = t]
        /\ Shared(c, K, t, cache, {Entry(x, ys[x]) : x \in Addresses(c)})
  BY <1>3
<1> DEFINE R == {Entry(x, ys[x]) : x \in Addresses(c)}
<1>5. \A x \in Addresses(c) : \E r \in R : r.x = x
  <2> TAKE x \in Addresses(c)
  <2>1. Entry(x, ys[x]) \in R /\ Entry(x, ys[x]).x = x
    BY DEF Entry
  <2>2. QED
    BY <2>1
<1>6. Shared(c, K, t, cache, R)
  BY <1>4
<1> HIDE DEF R
<1>7. /\ t \in TableOf(c) /\ IsFiniteSet(t.entries)
      /\ \A e \in t.entries :
           e.alibi = {} /\ \A f \in t.entries : e.x = f.x => e = f
      /\ Cardinality(t.entries) + c.stashSize = t.numElements
      /\ t.dummies = NumDummies(c, K) /\ t.queryCount = 0 /\ t.revealed = {}
      /\ Len(cache) = c.stashSize /\ \A i \in DOMAIN cache : cache[i].alibi = {K}
  BY <1>6 DEF Shared
<1>8. PICK Q : /\ Carries(c, cache, Q) /\ R = Q \cup Contents(c, t.entries)
               /\ \A r \in Q, e \in t.entries : r.x # e.x
  BY <1>6 DEF Shared
<1>9. Live = {K} /\ levels[K] = t /\ levels \in [Levels(c) -> TableOf(c) \cup {NoTable}]
  <2>1. t # NoTable
    BY <1>7, NoTableAssumption
  <2>2. levels = [NoTables(c) EXCEPT ![K] = t]
    BY <1>4
  <2> HIDE DEF K
  <2>3. levels[K] = t /\ \A l \in Levels(c) : l # K => levels[l] = NoTable
    BY <1>1, <2>2 DEF NoTables
  <2>4. levels \in [Levels(c) -> TableOf(c) \cup {NoTable}]
    BY <1>7, <2>2 DEF NoTables
  <2>5. QED
    BY <1>1, <2>1, <2>3, <2>4 DEF Live
<1>10. /\ pc = "idle" /\ single = FALSE /\ remaining = <<>> /\ flight = <<>>
       /\ nextLevel = 0 /\ outputs = <<>>
  BY DEF NoCall
<1> HIDE DEF K
<1>11. TypeOK
  <2>1. cache \in Seq(EntryOf(c)) /\ Free >= 0
    BY <1>1, <1>7, <1>8 DEF Carries, Free
  <2>2. baseB \in [Levels(c) -> Nat]
    BY <1>2 DEF OnlyBottomCounted
  <2>3. nextLevel \in 0 .. c.numLevels
    BY <1>1, <1>10
  <2>4. /\ single \in BOOLEAN /\ remaining \in Seq(OperationOf(c))
        /\ flight \in Seq(QueryOf(c)) /\ outputs \in Seq(Values)
    <3>1. \A S : <<>> \in Seq(S)
      OBVIOUS
    <3>2. QED
      BY <1>10, <3>1
  <2>5. QED
    BY <1>2, <1>7, <1>9, <1>10, <2>1, <2>2, <2>3, <2>4 DEF TypeOK
<1>12. CallPhases /\ TagsFit /\ BottomCounted
  <2>1. CallPhases
    BY <1>10 DEF CallPhases
  <2>2. TagsFit
    BY <1>10 DEF TagsFit, CachedKeysCurrent
  <2>3. BottomCounted
    BY <1>1, <1>2, <1>9 DEF BottomCounted, OnlyBottomCounted, K
  <2>4. QED
    BY <2>1, <2>2, <2>3
<1>13. TablesTidy /\ SlotsCounted
  <2>1. TablesTidy
    BY <1>7, <1>9 DEF TablesTidy
  <2>2. NumDummies(c, K) \in Nat /\ Cardinality(t.entries) \in Nat
    BY <1>1, <1>7, ConfigFacts, FS_CardinalityType
  <2>3. SlotsCounted
    BY <1>1, <1>7, <1>9, <2>2 DEF SlotsCounted
  <2>4. QED
    BY <2>1, <2>3
<1>14. StoredOnce
  <2>1. ASSUME NEW i \in DOMAIN cache, cache[i].x \in Addresses(c),
               NEW e \in t.entries
        PROVE  e.x # cache[i].x
    <3>1. Bare(cache[i]) \in Q /\ Bare(cache[i]).x = cache[i].x
      BY <1>8, <2>1 DEF Carries, Bare, Entry
    <3>2. QED
      BY <1>8, <3>1
  <2>2. \A i, j \in DOMAIN cache :
          cache[i].x = cache[j].x /\ cache[i].x \in Addresses(c) => i = j
    BY <1>8 DEF Carries
  <2>3. QED
    BY <1>9, <2>1, <2>2 DEF StoredOnce
<1>15. QueriedApart
  BY <1>10 DEF QueriedApart
<1>16. AllHeld
  <2>1. ASSUME NEW x \in Addresses(c)
        PROVE  Held(x)
    <3>1. PICK r \in R : r.x = x
      BY <1>5
    <3>2. CASE r \in Q
      <4>1. \E i \in DOMAIN cache : cache[i].x = x
        BY <1>8, <3>1, <3>2 DEF Carries, Bare, Entry
      <4>2. QED
        BY <4>1 DEF Held
    <3>3. CASE r \in Contents(c, t.entries)
      <4>1. \E e \in t.entries : e.x = x
        BY <3>1, <3>3 DEF Contents, Bare, Entry
      <4>2. QED
        BY <1>9, <4>1 DEF Held
    <3>4. QED
      BY <1>8, <3>2, <3>3
  <2>2. QED
    BY <2>1 DEF AllHeld
<1>17. AlibisGood
  <2>1. ASSUME NEW i \in DOMAIN cache, NEW l \in cache[i].alibi
        PROVE  l \in Live /\ cache[i].x \notin levels[l].revealed
    <3>1. l = K
      BY <1>7
    <3>2. QED
      BY <1>7, <1>9, <3>1
  <2>2. QED
    BY <1>10, <2>1 DEF AlibisGood
<1>18. SeenMeansAbove
  BY <1>7, <1>9 DEF SeenMeansAbove
<1>19. QED
  BY <1>11, <1>12, <1>13, <1>14, <1>15, <1>16, <1>17, <1>18 DEF IInv, Sound

---------------------------------------------------------------------------
(* The invariant.                                                          *)

(* It holds of every new DORAM.                                            *)
LEMMA InitIInv == Init => IInv
<1>1. SUFFICES ASSUME Init PROVE IInv
  OBVIOUS
<1>2. /\ config \in Configs /\ NoCall
      /\ InitEmpty \/ InitBottom
      /\ packedQueryKey = NoKeys /\ packedBatchQueryKeys = NoKeys
  BY <1>1 DEF Init
<1>3. QED
  BY <1>2, InitEmptyIInv, InitBottomIInv

(* Every step keeps the store sound.                                       *)
LEMMA NextSound ==
  ASSUME DistinctBatches, Sound, [Next]_vars
  PROVE  StillSound
<1>1. CASE \E ops \in SingleCalls : StartCall(ops, TRUE)
  BY <1>1, StartCallKeeps
<1>2. CASE \E ops \in BatchCalls : StartCall(ops, FALSE)
  BY <1>2, StartCallKeeps
<1>3. CASE Rebuild
  BY <1>3, RebuildKeeps
<1>4. CASE QueryCache
  BY <1>4, QueryCacheKeeps
<1>5. CASE \E l \in Levels(config) : QueryLevel(l)
  BY <1>5, QueryLevelKeeps
<1>6. CASE \E l \in Levels(config) : SkipLevel(l)
  BY <1>6, SkipLevelKeeps
<1>7. CASE WriteBack
  BY <1>7, WriteBackKeeps
<1>8. CASE Return
  BY <1>8, ReturnKeeps
<1>9. CASE \E c \in Configs : GrowNaturally(c)
  BY <1>9, GrowKeeps
<1>10. CASE \E c \in Configs : GrowOnDemand(c)
  BY <1>10, GrowKeeps
<1>11. CASE UNCHANGED vars
  <2>1. UNCHANGED <<store, flight, nextLevel>> /\ UNCHANGED <<keyCaches, call>>
    BY <1>11 DEF vars, call
  <2>2. /\ config' = config /\ cache' = cache /\ levels' = levels /\ pc' = pc
        /\ single' = single /\ remaining' = remaining /\ flight' = flight
        /\ queryKeys' = queryKeys /\ nextLevel' = nextLevel /\ outputs' = outputs
        /\ packedQueryKey' = packedQueryKey
        /\ packedBatchQueryKeys' = packedBatchQueryKeys
    BY <2>1 DEF store, call, keyCaches
  <2>3. Live' = Live /\ LiveKeys' = LiveKeys
    BY <2>2 DEF Live, LiveKeys
  <2>4. TypeOK'
    BY <2>1, <2>2, TypesKept DEF Sound, TypeOK
  <2>5. CallPhases' /\ QueriedApart'
    BY <2>2, <2>3 DEF Sound, CallPhases, QueriedApart
  <2>6. TagsFit'
    BY <2>2, <2>3 DEF Sound, TagsFit, CachedKeysCurrent
  <2>7. QED
    BY <2>1, <2>4, <2>5, <2>6, StoreKept DEF Sound, StillSound
<1>12. QED
  BY <1>1, <1>2, <1>3, <1>4, <1>5, <1>6, <1>7, <1>8, <1>9, <1>10, <1>11
     DEF Next, Access

(* Every step keeps the invariant.                                         *)
LEMMA NextIInv ==
  ASSUME DistinctBatches, IInv, [Next]_vars
  PROVE  IInv'
BY NextSound DEF IInv, StillSound

(* In every state, if no batch names an address twice: IInv.               *)
THEOREM StoreInvariant == ASSUME DistinctBatches PROVE Spec => []IInv
<1>1. Init => IInv
  BY InitIInv
<1>2. IInv /\ [Next]_vars => IInv'
  BY NextIInv
<1>3. QED
  BY <1>1, <1>2, PTL DEF Spec

(* Every variable has its type, whatever is accessed, rebuilt or grown:    *)
(* in particular the cache is never overfull (SpeedCache::insert), no      *)
(* table runs out of dummies, and every stored label fits 2^(N+1).         *)
THEOREM StoreTypeOK == ASSUME DistinctBatches PROVE Spec => []TypeOK
<1>1. IInv => TypeOK
  BY DEF IInv, Sound
<1>2. QED
  BY <1>1, StoreInvariant, PTL

(* Round keys cached for the next query (lib.rs: packed_query_key and      *)
(* packed_batch_query_keys) are those of the tables now live: none         *)
(* outlives the table it is for.                                           *)
THEOREM KeysStayCurrent == ASSUME DistinctBatches PROVE Spec => []CachedKeysCurrent
<1>1. IInv => CachedKeysCurrent
  BY DEF IInv, Sound, TagsFit
<1>2. QED
  BY <1>1, StoreInvariant, PTL

(* Within a table labels are distinct, as the cuckoo table needs, and      *)
(* every slot is accounted for, after any number of queries.               *)
THEOREM TablesStayConsistent == ASSUME DistinctBatches PROVE Spec => []TablesConsistent
<1>1. IInv => TablesConsistent
  BY DEF IInv, Sound, TablesConsistent, TablesTidy, SlotsCounted
<1>2. QED
  BY <1>1, StoreInvariant, PTL

(* An alibi in the cache always names a live table that has stashed the    *)
(* entry and has not shown its tag since.                                  *)
THEOREM AlibisStayGood == ASSUME DistinctBatches PROVE Spec => []AlibisHold
<1>1. ASSUME IInv
      PROVE  AlibisHold
  <2>1. ASSUME NEW i \in DOMAIN cache, cache[i].x \in Addresses(config),
               NEW l \in cache[i].alibi
        PROVE  /\ l \in Live
               /\ \A e \in levels[l].entries : e.x # cache[i].x
               /\ pc # "levels" => cache[i].x \notin levels[l].revealed
    <3>1. l \in Live /\ cache[i].x \notin levels[l].revealed
      BY <1>1, <2>1 DEF IInv, Sound, AlibisGood
    <3>2. \A e \in levels[l].entries : e.x # cache[i].x
      BY <1>1, <2>1, <3>1 DEF IInv, Sound, StoredOnce
    <3>3. QED
      BY <3>1, <3>2
  <2>2. QED
    BY <2>1 DEF AlibisHold
<1>2. QED
  BY <1>1, StoreInvariant, PTL

(* Every address is held at most once by the cache, a table or the query   *)
(* under way, and exactly once if the DORAM began with a full bottom       *)
(* level: cleanse_bottom_level (lib.rs:1035) counts on it.                 *)
THEOREM StoredExactlyOnce == ASSUME DistinctBatches PROVE Spec => []OneLiveCopy
<1>1. ASSUME IInv, NEW x \in Addresses(config)
      PROVE  /\ NumCopies(x) <= 1
             /\ hadInitialBottomLevel => NumCopies(x) = 1
  <2> DEFINE C == CacheCopies(x)
             T == TableCopies(x)
             F == FlightCopies(x)
  <2>1. /\ \A i, j \in C : i = j
        /\ C # {} <=> \E i \in DOMAIN cache : cache[i].x = x
    BY <1>1 DEF CacheCopies, IInv, Sound, StoredOnce
  <2>2. \A p \in T : \E l \in Live : /\ p = <<l, p[2]>> /\ p[2] \in levels[l].entries
                                      /\ p[2].x = x
    BY DEF TableCopies
  <2>3. \A p, q \in T : p = q
    <3> SUFFICES ASSUME NEW p \in T, NEW q \in T PROVE p = q
      OBVIOUS
    <3>1. PICK l \in Live : p = <<l, p[2]>> /\ p[2] \in levels[l].entries /\ p[2].x = x
      BY <2>2
    <3>2. PICK m \in Live : q = <<m, q[2]>> /\ q[2] \in levels[m].entries /\ q[2].x = x
      BY <2>2
    <3>3. l = m
      BY <1>1, <3>1, <3>2 DEF IInv, Sound, StoredOnce
    <3>4. p[2] = q[2]
      BY <1>1, <3>1, <3>2, <3>3 DEF IInv, Sound, TablesTidy
    <3>5. QED
      BY <3>1, <3>2, <3>3, <3>4
  <2>4. T # {} <=> \E l \in Live : \E e \in levels[l].entries : e.x = x
    <3>1. ASSUME NEW l \in Live, NEW e \in levels[l].entries, e.x = x
          PROVE  <<l, e>> \in T
      BY <3>1 DEF TableCopies
    <3> HIDE DEF T
    <3>2. QED
      BY <2>2, <3>1
  <2>5. /\ \A i, j \in F : i = j
        /\ F # {} <=> \E i \in DOMAIN flight : flight[i].x = x /\ flight[i].found
    BY <1>1 DEF FlightCopies, IInv, Sound, QueriedApart
  <2>6. C = {} \/ T = {}
    BY <1>1, <2>1, <2>4 DEF IInv, Sound, StoredOnce
  <2>7. F = {} \/ (C = {} /\ T = {})
    BY <1>1, <2>1, <2>4, <2>5 DEF IInv, Sound, QueriedApart
  <2>8. hadInitialBottomLevel => C # {} \/ T # {} \/ F # {}
    BY <1>1, <2>1, <2>4, <2>5 DEF IInv, Sound, AllHeld, Held
  <2> HIDE DEF C, T, F
  <2>9. /\ Cardinality(C) = IF C = {} THEN 0 ELSE 1
        /\ Cardinality(T) = IF T = {} THEN 0 ELSE 1
        /\ Cardinality(F) = IF F = {} THEN 0 ELSE 1
    BY <2>1, <2>3, <2>5, AtMostOne
  <2>10. NumCopies(x) = Cardinality(C) + Cardinality(T) + Cardinality(F)
    BY DEF NumCopies, C, T, F
  <2>11. QED
    BY <2>6, <2>7, <2>8, <2>9, <2>10
<1>2. IInv => OneLiveCopy
  BY <1>1 DEF OneLiveCopy
<1>3. QED
  BY <1>2, StoreInvariant, PTL

(* A query never shows a table a tag that the table has been shown before, *)
(* nor two queries of a chunk the same one (lib.rs:707).                   *)
THEOREM TagsShownOnce == ASSUME DistinctBatches PROVE Spec => NoTagRevealedTwice
<1> DEFINE Apart ==
             \A l \in Live : nextLevel = l /\ nextLevel' = l + 1 =>
               \A i \in DOMAIN flight :
                 TagFits(l) /\ UsesOwnTag(flight[i], l) =>
                   /\ flight[i].x \notin levels[l].revealed
                   /\ \A j \in DOMAIN flight : j # i /\ flight[j].x = flight[i].x =>
                        ~ UsesOwnTag(flight[j], l)
<1>1. ASSUME IInv, NEW l \in Live, nextLevel = l,
             NEW i \in DOMAIN flight, UsesOwnTag(flight[i], l)
      PROVE  /\ flight[i].x \notin levels[l].revealed
             /\ \A j \in DOMAIN flight : flight[j].x = flight[i].x => j = i
  <2>1. \A j \in DOMAIN flight : flight[j].x = flight[i].x => j = i
    BY <1>1 DEF IInv, Sound, QueriedApart
  <2>2. l \in Nat
    BY <1>1, StoreTypes DEF IInv, Sound
  <2>3. CASE flight[i].found
    <3>1. l \in flight[i].alibi
      BY <1>1, <2>3 DEF UsesOwnTag
    <3>2. QED
      BY <1>1, <2>1, <2>2, <3>1 DEF IInv, Sound, AlibisGood
  <2>4. CASE ~ flight[i].found
    <3>1. \A j \in DOMAIN cache : cache[j].x # flight[i].x
      BY <1>1 DEF IInv, Sound, QueriedApart
    <3>2. \A m \in Live : m < l => \A e \in levels[m].entries : e.x # flight[i].x
      BY <1>1 DEF IInv, Sound, QueriedApart
    <3>3. ~ (l < nextLevel)
      BY <1>1, <2>2
    <3>4. ASSUME flight[i].x \in levels[l].revealed
          PROVE  FALSE
      <4>1. PICK k \in DOMAIN flight :
              /\ flight[k].x = flight[i].x
              /\ l < nextLevel \/ (flight[k].found /\ l \notin flight[k].alibi)
        BY <1>1, <3>1, <3>2, <3>4 DEF IInv, Sound, SeenMeansAbove
      <4>2. QED
        BY <2>1, <2>4, <3>3, <4>1
    <3>5. QED
      BY <2>1, <3>4
  <2>5. QED
    BY <2>3, <2>4
<1>2. IInv => Apart
  BY <1>1
<1>3. Spec => []IInv
  BY StoreInvariant
<1>4. NoTagRevealedTwice <=> [][Apart]_vars
  BY DEF NoTagRevealedTwice
<1> HIDE DEF Apart
<1>5. IInv => [Apart]_vars
  BY <1>2
<1>6. QED
  BY <1>3, <1>4, <1>5, PTL

=============================================================================
