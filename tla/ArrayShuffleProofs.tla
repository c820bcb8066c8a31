------------------------- MODULE ArrayShuffleProofs -------------------------
(***************************************************************************)
(* Proofs about ArrayShuffle, for every length, all streams from which no  *)
(* choice is drawn twice, and all arrays: the parties stay at the same     *)
(* places of their streams, each step permutes what the shares stand for   *)
(* by the pair's permutation, and the inverse array and the two who know a *)
(* permutation find every element where it went.                           *)
(***************************************************************************)
EXTENDS ArrayShuffleProperties, SequenceTheorems, FiniteSetTheorems, WellFoundedInduction, TLAPS

(* sample_indices takes a stream's elements as they come: each is below    *)
(* the zone of its bound.  Beyond it the finding applies: pairs may sample *)
(* different permutations.                                                 *)
NoneRejected == \A s \in Streams : \A k \in 1 .. Length - 1 : s[k] < Zone(k + 1)

LEMMA LeastNatural ==
  ASSUME NEW S, S \subseteq Nat, S # {}
  PROVE  \E m \in S : \A n \in S : m <= n
<1>1. IsWellFoundedOn(OpToRel(<, Nat), Nat)
  BY NatLessThanWellFounded
<1>2. PICK m \in S : \A n \in S : ~ (<<n, m>> \in OpToRel(<, Nat))
  BY <1>1, WFMin, Zenon
<1>3. \A n \in S : ~ (n < m)
  BY <1>2 DEF OpToRel
<1> QED
  BY <1>3

---------------------------------------------------------------------------
(* Exchanges.                                                              *)
Identity == [i \in Indices |-> i]

IsArray(values) == values = [i \in Indices |-> values[i]]

After(perm, values) == [i \in Indices |-> values[perm[i]]]

(* f holds the array after each of the first n exchanges.                  *)
Run(f, values, fy, order, n) ==
  f = [k \in 0 .. n |->
         IF k = 0 THEN values ELSE Swap(f[k - 1], order[k], fy[order[k]])]

LEMMA RunSteps ==
  ASSUME NEW f, NEW values, NEW fy, NEW order, NEW n \in Nat, Run(f, values, fy, order, n)
  PROVE  /\ f[0] = values
         /\ \A k \in 1 .. n : f[k] = Swap(f[k - 1], order[k], fy[order[k]])
<1> DEFINE after(k) == IF k = 0 THEN values ELSE Swap(f[k - 1], order[k], fy[order[k]])
<1> HIDE DEF after
<1>1. f = [k \in 0 .. n |-> after(k)]
  BY DEF Run, after
<1>2. \A k \in 0 .. n : f[k] = after(k)
  BY <1>1
<1> QED
  BY <1>2 DEF after

LEMMA RunExists ==
  ASSUME NEW values, NEW fy, NEW order, NEW n \in Nat
  PROVE  \E f : Run(f, values, fy, order, n)
<1> DEFINE Bad == {k \in Nat : ~ \E f : Run(f, values, fy, order, k)}
<1> SUFFICES Bad = {}
  OBVIOUS
<1> SUFFICES ASSUME Bad # {} PROVE FALSE
  OBVIOUS
<1>1. PICK m \in Bad : \A k \in Bad : m <= k
  BY LeastNatural
<1>2. m \in Nat /\ ~ \E f : Run(f, values, fy, order, m)
  BY <1>1
<1>3. CASE m = 0
  <2>1. Run([k \in 0 .. 0 |-> values], values, fy, order, 0)
    BY DEF Run
  <2> QED
    BY <1>2, <1>3, <2>1
<1>4. CASE m # 0
  <2>1. m - 1 \in Nat /\ ~ (m <= m - 1)
    BY <1>2, <1>4
  <2>2. PICK f : Run(f, values, fy, order, m - 1)
    BY <1>1, <2>1
  <2> DEFINE g == [k \in 0 .. m |->
                     IF k < m THEN f[k] ELSE Swap(f[m - 1], order[m], fy[order[m]])]
  <2>3. \A k \in 0 .. m :
          g[k] = IF k = 0 THEN values ELSE Swap(g[k - 1], order[k], fy[order[k]])
    <3>1. f[0] = values /\ \A k \in 1 .. m - 1 : f[k] = Swap(f[k - 1], order[k], fy[order[k]])
      BY <2>1, <2>2, RunSteps
    <3>2. \A k \in 0 .. m - 1 : g[k] = f[k]
      BY <1>2
    <3>3. g[m] = Swap(f[m - 1], order[m], fy[order[m]])
      BY <1>2
    <3> HIDE DEF g
    <3> TAKE k \in 0 .. m
    <3>4. CASE k = m
      BY <1>2, <1>4, <2>1, <3>2, <3>3, <3>4
    <3>5. CASE k # m
      BY <1>2, <3>1, <3>2, <3>5
    <3> QED
      BY <3>4, <3>5
  <2>4. g = [k \in 0 .. m |-> g[k]]
    OBVIOUS
  <2> HIDE DEF g
  <2>5. Run(g, values, fy, order, m)
    BY <2>3, <2>4 DEF Run
  <2> QED
    BY <1>2, <2>5
<1> QED
  BY <1>3, <1>4

LEMMA SwapAllRuns ==
  ASSUME NEW values, NEW fy, NEW order, Len(order) \in Nat
  PROVE  \E f : Run(f, values, fy, order, Len(order)) /\ SwapAll(values, fy, order) = f[Len(order)]
<1> DEFINE f == CHOOSE f : Run(f, values, fy, order, Len(order))
<1>1. Run(f, values, fy, order, Len(order))
  <2> HIDE DEF Run
  <2> QED
    BY RunExists
<1>2. SwapAll(values, fy, order) = f[Len(order)]
  BY DEF SwapAll, Run
<1> QED
  BY <1>1, <1>2

(* Exchanging twice restores; an exchange commutes with a renaming.        *)
LEMMA SwapTwice ==
  ASSUME NEW values, IsArray(values),
         NEW a \in Indices, NEW b \in Indices
  PROVE  Swap(Swap(values, a, b), a, b) = values
<1> DEFINE once == Swap(values, a, b)
<1>1. /\ once = [i \in Indices |-> once[i]]
      /\ \A i \in Indices : once[i] = IF i = b THEN values[a] ELSE IF i = a THEN values[b] ELSE values[i]
  BY DEF Swap, IsArray
<1> HIDE DEF once
<1>2. /\ Swap(once, a, b) = [i \in Indices |-> Swap(once, a, b)[i]]
      /\ \A i \in Indices : Swap(once, a, b)[i] = IF i = b THEN once[a] ELSE IF i = a THEN once[b] ELSE once[i]
  BY <1>1 DEF Swap
<1>3. \A i \in Indices : Swap(once, a, b)[i] = values[i]
  BY <1>1, <1>2
<1> QED
  BY <1>2, <1>3 DEF once, IsArray

LEMMA SwapAfter ==
  ASSUME NEW values, NEW perm \in [Indices -> Indices],
         NEW a \in Indices, NEW b \in Indices
  PROVE  /\ Swap(After(perm, values), a, b) = After(Swap(perm, a, b), values)
         /\ Swap(perm, a, b) \in [Indices -> Indices]
BY DEF Swap, After

Within(order, n) == \A k \in 1 .. n : order[k] \in Indices

LEMMA RunIsAfter ==
  ASSUME NEW values, IsArray(values),
         NEW fy \in [Indices -> Indices], NEW n \in Nat,
         NEW order, Within(order, n),
         NEW f, Run(f, values, fy, order, n), NEW g, Run(g, Identity, fy, order, n)
  PROVE  \A k \in 0 .. n : g[k] \in [Indices -> Indices] /\ f[k] = After(g[k], values)
<1> DEFINE Good(k) == g[k] \in [Indices -> Indices] /\ f[k] = After(g[k], values)
           Bad == {k \in 0 .. n : ~ Good(k)}
<1>1. Good(0)
  <2>1. f[0] = values /\ g[0] = Identity
    BY RunSteps
  <2>2. Identity \in [Indices -> Indices] /\ After(Identity, values) = values
    BY DEF Identity, After, IsArray
  <2> QED
    BY <2>1, <2>2
<1>2. ASSUME NEW k \in 1 .. n, Good(k - 1)
      PROVE  Good(k)
  <2>1. order[k] \in Indices /\ fy[order[k]] \in Indices
    BY DEF Within
  <2>2. /\ f[k] = Swap(f[k - 1], order[k], fy[order[k]])
        /\ g[k] = Swap(g[k - 1], order[k], fy[order[k]])
    BY RunSteps
  <2> QED
    BY <1>2, <2>1, <2>2, SwapAfter
<1> HIDE DEF Good
<1> SUFFICES ASSUME Bad # {} PROVE FALSE
  BY DEF Good
<1>3. PICK m \in Bad : \A k \in Bad : m <= k
  <2>1. Bad \subseteq Nat
    OBVIOUS
  <2> QED
    BY <2>1, LeastNatural
<1>4. m \in 1 .. n /\ m - 1 \in 0 .. n /\ ~ (m <= m - 1)
  BY <1>1, <1>3
<1>5. Good(m - 1)
  BY <1>3, <1>4
<1> QED
  BY <1>2, <1>3, <1>4, <1>5

---------------------------------------------------------------------------
(* The permutation of Fisher-Yates choices, and its inverse.               *)
Exchanges == IF Length = 0 THEN 0 ELSE Length - 1

Downwards == [k \in 1 .. Length - 1 |-> Length - k]
Upwards == [k \in 1 .. Length - 1 |-> k]

LEMMA Orders ==
  /\ Exchanges \in Nat
  /\ Len(Downwards) = Exchanges /\ Len(Upwards) = Exchanges
  /\ \A k \in 1 .. Exchanges : /\ Downwards[k] = Length - k /\ Downwards[k] \in Indices
                               /\ Upwards[k] = k /\ Upwards[k] \in Indices
  /\ \A fy \in [Indices -> Indices] : \A values :
        /\ Shuffle(fy, values) = SwapAll(values, fy, Downwards)
        /\ InverseShuffle(fy, values) = SwapAll(values, fy, Upwards)
<1>1. Exchanges \in Nat /\ 1 .. Length - 1 = 1 .. Exchanges
  BY StreamsAssumption DEF Exchanges
<1>2. \A k \in 1 .. Exchanges : /\ Downwards[k] = Length - k /\ Downwards[k] \in Indices
                               /\ Upwards[k] = k /\ Upwards[k] \in Indices
  BY StreamsAssumption DEF Exchanges, Downwards, Upwards, Indices
<1>3. Len(Downwards) = Exchanges /\ Len(Upwards) = Exchanges
  <2>1. Downwards \in [1 .. Exchanges -> Indices] /\ Upwards \in [1 .. Exchanges -> Indices]
    BY <1>1, <1>2 DEF Downwards, Upwards
  <2>2. Downwards \in Seq(Indices) /\ Upwards \in Seq(Indices)
    BY <1>1, <2>1, SeqDef
  <2> QED
    BY <1>1, <2>1, <2>2, LenProperties
<1>4. ASSUME NEW fy \in [Indices -> Indices]
      PROVE  Size(fy) = Length
  <2>1. Cardinality(Indices) = Length
    BY StreamsAssumption, FS_Interval DEF Indices
  <2> QED
    BY <2>1 DEF Size
<1> QED
  BY <1>1, <1>2, <1>3, <1>4 DEF Shuffle, InverseShuffle, Downwards, Upwards

LEMMA ShuffleIsAfter ==
  ASSUME NEW fy \in [Indices -> Indices], NEW values, IsArray(values)
  PROVE  /\ Shuffle(fy, Identity) \in [Indices -> Indices]
         /\ InverseShuffle(fy, Identity) \in [Indices -> Indices]
         /\ Shuffle(fy, values) = After(Shuffle(fy, Identity), values)
         /\ InverseShuffle(fy, values) = After(InverseShuffle(fy, Identity), values)
<1> DEFINE n == Exchanges
<1>1. ASSUME NEW order, Len(order) = n, Within(order, n)
      PROVE  /\ SwapAll(Identity, fy, order) \in [Indices -> Indices]
             /\ SwapAll(values, fy, order) = After(SwapAll(Identity, fy, order), values)
  <2>1. n \in Nat
    BY Orders
  <2>2. PICK f : Run(f, values, fy, order, n) /\ SwapAll(values, fy, order) = f[n]
    BY <1>1, <2>1, SwapAllRuns
  <2>3. PICK g : Run(g, Identity, fy, order, n) /\ SwapAll(Identity, fy, order) = g[n]
    BY <1>1, <2>1, SwapAllRuns
  <2>4. g[n] \in [Indices -> Indices] /\ f[n] = After(g[n], values)
    <3>1. \A k \in 0 .. n : g[k] \in [Indices -> Indices] /\ f[k] = After(g[k], values)
      BY <1>1, <2>1, <2>2, <2>3, RunIsAfter
    <3> QED
      BY <2>1, <3>1
  <2> QED
    BY <2>2, <2>3, <2>4
<1>2. Len(Downwards) = n /\ Within(Downwards, n) /\ Len(Upwards) = n /\ Within(Upwards, n)
  BY Orders DEF Within
<1> QED
  BY <1>1, <1>2, Orders

(* Going up undoes going down, and the other way round.                    *)
Opposite(there, back, n) ==
  \A k \in 1 .. n : there[k] \in Indices /\ back[n + 1 - k] = there[k]

LEMMA RunBack ==
  ASSUME NEW values, IsArray(values),
         NEW fy \in [Indices -> Indices], NEW n \in Nat,
         NEW there, NEW back, Opposite(there, back, n),
         NEW f, Run(f, values, fy, there, n), NEW g, Run(g, f[n], fy, back, n)
  PROVE  g[n] = values
<1> DEFINE Good(k) == g[k] = f[n - k]
           Bad == {k \in 0 .. n : ~ Good(k)}
<1>1. PICK h : Run(h, Identity, fy, there, n)
  BY RunExists
<1>2. \A k \in 0 .. n : h[k] \in [Indices -> Indices] /\ f[k] = After(h[k], values)
  <2>1. Within(there, n)
    BY DEF Opposite, Within
  <2> QED
    BY <1>1, <2>1, RunIsAfter
<1>3. \A k \in 0 .. n : IsArray(f[k])
  BY <1>2 DEF After, IsArray
<1>4. Good(0)
  BY RunSteps
<1>5. ASSUME NEW k \in 1 .. n, Good(k - 1)
      PROVE  Good(k)
  <2> DEFINE j == n + 1 - k
  <2>1. j \in 1 .. n /\ n - (k - 1) = j /\ n - k = j - 1 /\ n + 1 - j = k /\ j - 1 \in 0 .. n
    OBVIOUS
  <2>2. back[k] = there[j] /\ there[j] \in Indices /\ fy[there[j]] \in Indices
    BY <2>1 DEF Opposite
  <2>3. g[k] = Swap(g[k - 1], back[k], fy[back[k]])
    BY RunSteps
  <2>4. f[j] = Swap(f[j - 1], there[j], fy[there[j]])
    BY <2>1, RunSteps
  <2>5. IsArray(f[j - 1])
    BY <1>3, <2>1
  <2> HIDE DEF j
  <2>6. g[k] = f[j - 1]
    BY <1>5, <2>1, <2>2, <2>3, <2>4, <2>5, SwapTwice
  <2> QED
    BY <2>1, <2>6
<1> HIDE DEF Good
<1>6. Bad = {}
  <2> SUFFICES ASSUME Bad # {} PROVE FALSE
    OBVIOUS
  <2>1. PICK m \in Bad : \A k \in Bad : m <= k
    <3>1. Bad \subseteq Nat
      OBVIOUS
    <3> QED
      BY <3>1, LeastNatural
  <2>2. m \in 1 .. n /\ m - 1 \in 0 .. n /\ ~ (m <= m - 1)
    BY <1>4, <2>1
  <2>3. Good(m - 1)
    BY <2>1, <2>2
  <2> QED
    BY <1>5, <2>1, <2>2, <2>3
<1>7. Good(n)
  BY <1>6
<1>8. f[0] = values
  BY RunSteps
<1> QED
  BY <1>7, <1>8 DEF Good

LEMMA ShuffleUndone ==
  ASSUME NEW fy \in [Indices -> Indices], NEW i \in Indices
  PROVE  /\ Shuffle(fy, Identity)[InverseShuffle(fy, Identity)[i]] = i
         /\ InverseShuffle(fy, Identity)[Shuffle(fy, Identity)[i]] = i
<1> DEFINE n == Exchanges
           down == SwapAll(Identity, fy, Downwards)
           up == SwapAll(Identity, fy, Upwards)
<1>1. /\ n \in Nat /\ Len(Downwards) = n /\ Len(Upwards) = n
      /\ Opposite(Downwards, Upwards, n) /\ Opposite(Upwards, Downwards, n)
  <2>1. \A k \in 1 .. Exchanges : Exchanges + 1 - k \in 1 .. Exchanges /\ Exchanges + 1 = Length
    BY StreamsAssumption DEF Exchanges
  <2>2. \A k \in 1 .. Exchanges : Length - (Length - k) = k
    BY StreamsAssumption, <2>1
  <2> QED
    BY <2>1, <2>2, Orders DEF Opposite
<1>2. IsArray(Identity) /\ \A j \in Indices : Identity[j] = j
  BY DEF Identity, IsArray
<1> HIDE DEF n
<1>3. SwapAll(down, fy, Upwards) = Identity
  <2>1. PICK f : Run(f, Identity, fy, Downwards, n) /\ down = f[n]
    BY <1>1, SwapAllRuns
  <2>2. PICK g : Run(g, f[n], fy, Upwards, n) /\ SwapAll(f[n], fy, Upwards) = g[n]
    BY <1>1, SwapAllRuns
  <2>3. g[n] = Identity
    <3>1. Run(f, Identity, fy, Downwards, n) /\ Run(g, f[n], fy, Upwards, n)
      BY <2>1, <2>2
    <3>2. Opposite(Downwards, Upwards, n)
      BY <1>1
    <3>3. n \in Nat /\ IsArray(Identity)
      BY <1>1, <1>2
    <3> HIDE DEF Run
    <3> QED
      BY ONLY <3>1, <3>2, <3>3, fy \in [Indices -> Indices], RunBack
  <2> QED
    BY <2>1, <2>2, <2>3
<1>4. SwapAll(up, fy, Downwards) = Identity
  <2>1. PICK f : Run(f, Identity, fy, Upwards, n) /\ up = f[n]
    BY <1>1, SwapAllRuns
  <2>2. PICK g : Run(g, f[n], fy, Downwards, n) /\ SwapAll(f[n], fy, Downwards) = g[n]
    BY <1>1, SwapAllRuns
  <2>3. g[n] = Identity
    <3>1. Run(f, Identity, fy, Upwards, n) /\ Run(g, f[n], fy, Downwards, n)
      BY <2>1, <2>2
    <3>2. Opposite(Upwards, Downwards, n)
      BY <1>1
    <3>3. n \in Nat /\ IsArray(Identity)
      BY <1>1, <1>2
    <3> HIDE DEF Run
    <3> QED
      BY ONLY <3>1, <3>2, <3>3, fy \in [Indices -> Indices], RunBack
  <2> QED
    BY <2>1, <2>2, <2>3
<1>5. Shuffle(fy, Identity) = down /\ InverseShuffle(fy, Identity) = up
  BY Orders
<1>6. InverseShuffle(fy, down) = Identity /\ Shuffle(fy, up) = Identity
  BY <1>3, <1>4, Orders
<1> HIDE DEF down, up
<1>7. down \in [Indices -> Indices] /\ up \in [Indices -> Indices]
  BY <1>2, <1>5, ShuffleIsAfter
<1>8. After(up, down) = Identity /\ After(down, up) = Identity
  <2>1. IsArray(down) /\ IsArray(up)
    BY <1>7 DEF IsArray
  <2> QED
    BY <1>5, <1>6, <2>1, ShuffleIsAfter
<1>9. After(up, down)[i] = down[up[i]] /\ After(down, up)[i] = up[down[i]]
  BY DEF After
<1> QED
  BY <1>2, <1>5, <1>8, <1>9

---------------------------------------------------------------------------
(* The choices.                                                            *)
LEMMA ThreeParties ==
  /\ \A p \in Parties : NextId(p) \in Parties /\ PrevId(p) \in Parties
  /\ \A p \in Parties : PrevId(NextId(p)) = p /\ NextId(PrevId(p)) = p
  /\ \A p \in Parties : NextId(p) # p /\ PrevId(p) # p /\ NextId(p) # PrevId(p)
  /\ Parties = {0, 1, 2} /\ NextId(0) = 1 /\ NextId(1) = 2 /\ NextId(2) = 0
  /\ PrevId(0) = 2 /\ PrevId(1) = 0 /\ PrevId(2) = 1
BY DEF Parties, NextId, PrevId

(* Those taken from the stream of p, if none is rejected.                  *)
Sampled(p) == [i \in Indices |-> IF i = 0 THEN 0 ELSE stream[p][i] % (i + 1)]

Fresh(p) == position[p] = [own |-> 0, other |-> 0]

LEMMA ChoicesTyped ==
  ASSUME stream \in [Parties -> Streams], NEW p \in Parties
  PROVE  Sampled(p) \in [Indices -> Indices]
<1> SUFFICES ASSUME NEW i \in Indices PROVE (IF i = 0 THEN 0 ELSE stream[p][i] % (i + 1)) \in Indices
  BY DEF Sampled
<1>1. CASE i = 0
  BY <1>1
<1>2. CASE i # 0
  <2>1. stream[p] \in Seq(Nat) /\ Len(stream[p]) >= Length - 1 /\ Length \in Nat
    BY StreamsAssumption
  <2>2. i \in 1 .. Len(stream[p])
    BY <1>2, <2>1 DEF Indices
  <2>3. stream[p][i] \in Nat
    BY <2>1, <2>2
  <2>4. i \in 0 .. Length - 1 /\ (stream[p][i] % (i + 1)) \in 0 .. i
    BY <1>2, <2>1, <2>3 DEF Indices
  <2> QED
    BY <1>2, <2>1, <2>4 DEF Indices
<1> QED
  BY <1>1, <1>2

LEMMA SampledAtOnce ==
  ASSUME NoneRejected, stream \in [Parties -> Streams], NEW p \in Parties, Fresh(p),
         NEW i \in Indices, i # 0
  PROVE  SampleIndices(p, i + 1, i - 1) = i
<1> DEFINE Usable == {n \in (i - 1) + 1 .. Len(stream[p]) - position[p].own :
                        Own(p, n) < Zone(i + 1) /\ Other(p, n) < Zone(i + 1)}
<1>1. i \in 1 .. Length - 1 /\ Length \in Nat /\ (i - 1) + 1 = i
  BY StreamsAssumption DEF Indices
<1>2. \A q \in Parties : /\ stream[q] \in Streams
                         /\ Len(stream[q]) \in Nat /\ Len(stream[q]) >= Length - 1
                         /\ stream[q][i] < Zone(i + 1)
  BY <1>1, StreamsAssumption DEF NoneRejected
<1>3. position[p].own = 0 /\ position[p].other = 0
  BY DEF Fresh
<1>4. Own(p, i) = stream[p][i] /\ Other(p, i) = stream[PrevId(p)][i]
  BY <1>1, <1>3 DEF Own, Other
<1>5. i \in Usable
  BY <1>1, <1>2, <1>3, <1>4, ThreeParties
<1>6. \A n \in Usable : n \in Int /\ i <= n
  BY <1>1, <1>2, <1>3
<1>7. SampleIndices(p, i + 1, i - 1) = CHOOSE n \in Usable : \A k \in Usable : n <= k
  BY DEF SampleIndices, Min
<1> HIDE DEF Usable
<1>8. \A n \in Usable : (\A k \in Usable : n <= k) => n = i
  BY <1>1, <1>5, <1>6
<1> QED
  BY <1>5, <1>6, <1>7, <1>8

LEMMA DrawnAtOnce ==
  ASSUME NoneRejected, stream \in [Parties -> Streams], NEW p \in Parties, Fresh(p)
  PROVE  /\ CallsOf(Draws(p)) = Exchanges
         /\ ChoicesFrom([i \in Indices |-> Own(p, Draws(p)[i])]) = Sampled(p)
         /\ ChoicesFrom([i \in Indices |-> Other(p, Draws(p)[i])]) = Sampled(PrevId(p))
<1> DEFINE Is(f) == f = [i \in Indices |-> IF i = 0 THEN 0 ELSE SampleIndices(p, i + 1, f[i - 1])]
           draws == Draws(p)
           Bad == {i \in Indices : draws[i] # i}
<1>1. \A i \in Indices : i \in Nat /\ (i # 0 => i - 1 \in Indices /\ ~ (i <= i - 1))
  BY StreamsAssumption DEF Indices
<1>2. Is(Identity)
  BY <1>1, SampledAtOnce DEF Identity
<1>3. Is(draws)
  <2>1. draws = CHOOSE f : Is(f)
    BY DEF Draws
  <2> HIDE DEF Is, draws
  <2> QED
    BY <1>2, <2>1
<1>4. \A i \in Indices : draws[i] = IF i = 0 THEN 0 ELSE SampleIndices(p, i + 1, draws[i - 1])
  BY <1>3
<1> HIDE DEF draws, Is
<1>5. \A i \in Indices : draws[i] = i
  <2> SUFFICES ASSUME Bad # {} PROVE FALSE
    OBVIOUS
  <2>1. PICK m \in Bad : \A k \in Bad : m <= k
    <3>1. Bad \subseteq Nat
      BY <1>1
    <3> QED
      BY <3>1, LeastNatural
  <2>2. m \in Indices /\ draws[m] # m
    BY <2>1
  <2>3. m # 0
    BY <1>4, <2>2
  <2>4. m - 1 \in Indices /\ m - 1 \notin Bad
    BY <1>1, <2>1, <2>2, <2>3
  <2>5. draws[m - 1] = m - 1
    BY <2>4
  <2>6. draws[m] = SampleIndices(p, m + 1, m - 1)
    BY <1>4, <2>2, <2>3, <2>5
  <2> QED
    BY <2>2, <2>3, <2>6, SampledAtOnce
<1>6. position[p].own = 0 /\ position[p].other = 0
  BY DEF Fresh
<1>7. \A i \in Indices : Own(p, draws[i]) = stream[p][i] /\ Other(p, draws[i]) = stream[PrevId(p)][i]
  <2> TAKE i \in Indices
  <2>1. position[p].own + draws[i] = i /\ position[p].other + draws[i] = i
    BY <1>1, <1>5, <1>6
  <2> QED
    BY <2>1 DEF Own, Other
<1>8. CallsOf(draws) = Exchanges
  BY <1>5, StreamsAssumption DEF CallsOf, Exchanges, Indices
<1>9. /\ ChoicesFrom([i \in Indices |-> Own(p, draws[i])]) = Sampled(p)
      /\ ChoicesFrom([i \in Indices |-> Other(p, draws[i])]) = Sampled(PrevId(p))
  BY <1>7 DEF ChoicesFrom, Sampled
<1> QED
  BY <1>8, <1>9 DEF draws

---------------------------------------------------------------------------
(* What shares stand for: W[q] is the q-th component of an array.          *)
ShareAt(W, p) == [i \in Indices |-> ShareOf([q \in Parties |-> W[q][i]], p)]

Sum(W, i) == Xor(Xor(W[0][i], W[1][i]), W[2][i])

Part(W, owner, p) == [i \in Indices |-> TwoShare(p, ShareAt(W, p)[i], owner, NextId(owner))]

(* The components after a step of `owner` by perm, masked with the streams *)
(* from `from` on.                                                         *)
StepOf(W, owner, perm, from) ==
  [p \in Parties |-> [i \in Indices |->
     LocalComponent(p, Part(W, owner, p)[perm[i]], owner, NextId(owner),
                    BitsOf(stream[p][from + i]), BitsOf(stream[PrevId(p)][from + i]))]]

LEMMA XorMember ==
  ASSUME NEW x, NEW y, NEW z
  PROVE  x \in Xor(y, z) <=> ~ (x \in y <=> x \in z)
BY DEF Xor

(* The masks cancel, and the pair's parts add up.                          *)
LEMMA MasksCancel0 ==
  ASSUME NEW k, NEW l, NEW m, NEW a, NEW b, NEW c
  PROVE  Xor(Xor(Xor(Xor(k, m), Xor(a, c)), Xor(Xor(l, k), b)), Xor(Xor(m, l), {}))
           = Xor(Xor(a, b), c)
<1>1. \A x : x \in Xor(Xor(Xor(Xor(k, m), Xor(a, c)), Xor(Xor(l, k), b)), Xor(Xor(m, l), {}))
             <=> x \in Xor(Xor(a, b), c)
  BY XorMember
<1> QED
  BY <1>1

LEMMA MasksCancel1 ==
  ASSUME NEW k, NEW l, NEW m, NEW a, NEW b, NEW c
  PROVE  Xor(Xor(Xor(Xor(k, m), {}), Xor(Xor(l, k), Xor(b, a))), Xor(Xor(m, l), c))
           = Xor(Xor(a, b), c)
<1>1. \A x : x \in Xor(Xor(Xor(Xor(k, m), {}), Xor(Xor(l, k), Xor(b, a))), Xor(Xor(m, l), c))
             <=> x \in Xor(Xor(a, b), c)
  BY XorMember
<1> QED
  BY <1>1

LEMMA MasksCancel2 ==
  ASSUME NEW k, NEW l, NEW m, NEW a, NEW b, NEW c
  PROVE  Xor(Xor(Xor(Xor(k, m), a), Xor(Xor(l, k), {})), Xor(Xor(m, l), Xor(c, b)))
           = Xor(Xor(a, b), c)
<1>1. \A x : x \in Xor(Xor(Xor(Xor(k, m), a), Xor(Xor(l, k), {})), Xor(Xor(m, l), Xor(c, b)))
             <=> x \in Xor(Xor(a, b), c)
  BY XorMember
<1> QED
  BY <1>1

LEMMA StepPermutes ==
  ASSUME NEW W, NEW owner \in Parties, NEW perm \in [Indices -> Indices], NEW from,
         NEW i \in Indices
  PROVE  Sum(StepOf(W, owner, perm, from), i) = Sum(W, perm[i])
<1> DEFINE next == StepOf(W, owner, perm, from)
           j == perm[i]
           mask(q) == BitsOf(stream[q][from + i])
<1>1. j \in Indices
  OBVIOUS
<1>2. \A p \in Parties : next[p][i] =
        LocalComponent(p, Part(W, owner, p)[j], owner, NextId(owner), mask(p), mask(PrevId(p)))
  BY DEF StepOf
<1> HIDE DEF next, j, mask
<1>3. \A p \in Parties : Part(W, owner, p)[j] =
        TwoShare(p, [a |-> W[p][j], b |-> W[PrevId(p)][j]], owner, NextId(owner))
  BY <1>1, ThreeParties DEF Part, ShareAt, ShareOf
<1>4. CASE owner = 0
  <2>1. /\ next[0][i] = Xor(Xor(mask(0), mask(2)), Xor(W[0][j], W[2][j]))
        /\ next[1][i] = Xor(Xor(mask(1), mask(0)), W[1][j])
        /\ next[2][i] = Xor(Xor(mask(2), mask(1)), {})
    BY <1>2, <1>3, <1>4, ThreeParties DEF LocalComponent, TwoShare
  <2>2. Xor(Xor(next[0][i], next[1][i]), next[2][i]) = Xor(Xor(W[0][j], W[1][j]), W[2][j])
    BY ONLY <2>1, MasksCancel0
  <2> QED
    BY <2>2 DEF Sum, next, j
<1>5. CASE owner = 1
  <2>1. /\ next[0][i] = Xor(Xor(mask(0), mask(2)), {})
        /\ next[1][i] = Xor(Xor(mask(1), mask(0)), Xor(W[1][j], W[0][j]))
        /\ next[2][i] = Xor(Xor(mask(2), mask(1)), W[2][j])
    BY <1>2, <1>3, <1>5, ThreeParties DEF LocalComponent, TwoShare
  <2>2. Xor(Xor(next[0][i], next[1][i]), next[2][i]) = Xor(Xor(W[0][j], W[1][j]), W[2][j])
    BY ONLY <2>1, MasksCancel1
  <2> QED
    BY <2>2 DEF Sum, next, j
<1>6. CASE owner = 2
  <2>1. /\ next[0][i] = Xor(Xor(mask(0), mask(2)), W[0][j])
        /\ next[1][i] = Xor(Xor(mask(1), mask(0)), {})
        /\ next[2][i] = Xor(Xor(mask(2), mask(1)), Xor(W[2][j], W[1][j]))
    BY <1>2, <1>3, <1>6, ThreeParties DEF LocalComponent, TwoShare
  <2>2. Xor(Xor(next[0][i], next[1][i]), next[2][i]) = Xor(Xor(W[0][j], W[1][j]), W[2][j])
    BY ONLY <2>1, MasksCancel2
  <2> QED
    BY <2>2 DEF Sum, next, j
<1> QED
  BY <1>4, <1>5, <1>6, ThreeParties

SharesFor(shares, W) == \A p \in Parties : shares[p] = ShareAt(W, p)

LEMMA SharesOpen ==
  ASSUME NEW W, NEW shares, SharesFor(shares, W), NEW i \in Indices
  PROVE  /\ Replicated([p \in Parties |-> shares[p][i]])
         /\ \A target \in Parties : RevealTo(target, [p \in Parties |-> shares[p][i]]) = Sum(W, i)
<1> DEFINE share == [p \in Parties |-> shares[p][i]]
<1>1. \A p \in Parties : share[p].a = W[p][i] /\ share[p].b = W[PrevId(p)][i]
  BY ThreeParties DEF SharesFor, ShareAt, ShareOf
<1> HIDE DEF share
<1>2. Replicated(share)
  BY <1>1, ThreeParties DEF Replicated
<1>3. ASSUME NEW target \in Parties
      PROVE  RevealTo(target, share) = Sum(W, i)
  <2> DEFINE a == W[0][i]
             b == W[1][i]
             c == W[2][i]
  <2>1. RevealTo(target, share) =
          Xor(Xor(W[target][i], W[PrevId(target)][i]), W[PrevId(PrevId(target))][i])
    BY <1>1, ThreeParties DEF RevealTo
  <2> HIDE DEF a, b, c
  <2>2. Xor(Xor(a, c), b) = Xor(Xor(a, b), c)
    <3>1. \A x : x \in Xor(Xor(a, c), b) <=> x \in Xor(Xor(a, b), c)
      BY XorMember
    <3> QED
      BY <3>1
  <2>3. Xor(Xor(b, a), c) = Xor(Xor(a, b), c)
    <3>1. \A x : x \in Xor(Xor(b, a), c) <=> x \in Xor(Xor(a, b), c)
      BY XorMember
    <3> QED
      BY <3>1
  <2>4. Xor(Xor(c, b), a) = Xor(Xor(a, b), c)
    <3>1. \A x : x \in Xor(Xor(c, b), a) <=> x \in Xor(Xor(a, b), c)
      BY XorMember
    <3> QED
      BY <3>1
  <2>5. target = 0 \/ target = 1 \/ target = 2
    BY ThreeParties
  <2> QED
    BY <2>1, <2>2, <2>3, <2>4, <2>5, ThreeParties DEF Sum, a, b, c
<1> QED
  BY <1>2, <1>3 DEF share

---------------------------------------------------------------------------
(* The inductive invariant.  All that happens is determined by the first   *)
(* components: V[n] and U[n] are the components of the forward and of the  *)
(* inverse array after n steps, whoever has taken them.                    *)
Forwards(p) == Shuffle(Sampled(p), Identity)
Backwards(p) == InverseShuffle(Sampled(p), Identity)

Drawing == IF Inverts THEN 2 * Length ELSE Length

(* The place in all streams before the (n + 1)-th step.                    *)
Place(n) == Exchanges + n * Drawing

Computed(V, U) ==
  /\ \A i \in Indices : Sum(V[0], i) = secret[i] /\ Sum(U[0], i) = BitsOf(i)
  /\ \A n \in 1 .. Len(steps) :
       /\ V[n] = StepOf(V[n - 1], steps[n][1], Forwards(steps[n][1]), Place(n - 1) + 1)
       /\ U[n] = IF Inverts THEN StepOf(U[n - 1], steps[n][2], Backwards(steps[n][2]),
                                        Place(n - 1) + (Length + 1))
                 ELSE [p \in Parties |-> <<>>]

(* What p sends in its n-th step, and in its steps after `from` to `to`.   *)
Message(V, U, n, p) == [fwd |-> V[n][p], inv |-> U[n][p]]

Messages(V, U, p, from, to) == [k \in 1 .. to - from |-> Message(V, U, from + k, p)]

(* How many steps p has ended.                                             *)
Ended(p) == IF local[p] = <<>> THEN step[p] ELSE step[p] - 1

Knows(p) ==
  IF shuffler[p] = None
  THEN step[p] = 0 /\ local[p] = <<>> /\ Fresh(p)
  ELSE /\ shuffler[p] = [next |-> Sampled(p), prev |-> Sampled(PrevId(p))]
       /\ position[p] = [own |-> Place(step[p]), other |-> Place(step[p])]

PartyAt(V, U, p) ==
  /\ step[p] \in 0 .. Len(steps)
  /\ local[p] = <<>> \/ (step[p] > 0 /\ local[p] = <<Message(V, U, step[p], p)>>)
  /\ Knows(p)
  /\ forward[p] = ShareAt(V[Ended(p)], p)
  /\ Inverts => inverse[p] = ShareAt(U[Ended(p)], p)

(* On the way are the messages of the steps p's successor has not ended.   *)
ChannelAt(V, U, p) ==
  /\ Ended(NextId(p)) <= step[p]
  /\ net[p] = Messages(V, U, p, Ended(NextId(p)), step[p])

Given ==
  /\ secret \in Secrets /\ stream \in [Parties -> Streams] /\ steps \in StepsOfOperations

Books ==
  /\ DOMAIN step = Parties /\ DOMAIN position = Parties /\ DOMAIN shuffler = Parties
  /\ DOMAIN forward = Parties /\ DOMAIN inverse = Parties /\ DOMAIN local = Parties
  /\ DOMAIN net = Parties

Follows(V, U) == Computed(V, U) /\ \A p \in Parties : PartyAt(V, U, p) /\ ChannelAt(V, U, p)

IInv == Given /\ Books /\ \E V, U : Follows(V, U)

LEMMA StepsFacts ==
  ASSUME Given
  PROVE  /\ Len(steps) \in {1, 3}
         /\ \A n \in 1 .. Len(steps) :
              /\ steps[n][1] \in Parties
              /\ steps[n][2] = None <=> ~ Inverts
              /\ Inverts => steps[n][2] \in Parties
         /\ Inverts => /\ Len(steps) = 3
                       /\ \A n \in 1 .. 3 : steps[n][1] = n - 1 /\ steps[n][2] = 3 - n
<1>1. CASE steps = <<<<0, None>>, <<1, None>>, <<2, None>>>>
  BY <1>1, NoneAssumption DEF Parties, Inverts
<1>2. CASE steps = <<<<0, 2>>, <<1, 1>>, <<2, 0>>>>
  BY <1>2, NoneAssumption DEF Parties, Inverts
<1>3. CASE \E p \in Parties : steps = <<<<p, None>>>>
  BY <1>3, NoneAssumption DEF Parties, Inverts
<1> QED
  BY <1>1, <1>2, <1>3 DEF Given, StepsOfOperations

LEMMA PermutationsTyped ==
  ASSUME Given, NEW p \in Parties
  PROVE  /\ Sampled(p) \in [Indices -> Indices]
         /\ Forwards(p) \in [Indices -> Indices] /\ Backwards(p) \in [Indices -> Indices]
         /\ \A i \in Indices : Forwards(p)[Backwards(p)[i]] = i /\ Backwards(p)[Forwards(p)[i]] = i
<1>1. Sampled(p) \in [Indices -> Indices]
  BY ChoicesTyped DEF Given
<1>2. IsArray(Identity)
  BY DEF IsArray, Identity
<1> QED
  BY <1>1, <1>2, ShuffleIsAfter, ShuffleUndone DEF Forwards, Backwards

LEMMA PlaceMoves ==
  ASSUME NEW n \in Nat
  PROVE  /\ Place(n) \in Nat /\ Place(n + 1) = Place(n) + Drawing /\ Drawing \in Nat
         /\ Place(0) = Exchanges
<1>1. Drawing \in Nat /\ Exchanges \in Nat
  BY StreamsAssumption, Orders DEF Drawing
<1> DEFINE d == Drawing
<1> HIDE DEF d
<1>2. d \in Nat => n * d \in Nat /\ (n + 1) * d = n * d + d /\ 0 * d = 0
  OBVIOUS
<1> QED
  BY <1>1, <1>2 DEF Place, d

---------------------------------------------------------------------------
(* Channels.                                                               *)
LEMMA FunctionIsSeq ==
  ASSUME NEW T, NEW n \in Nat, NEW f \in [1 .. n -> T]
  PROVE  f \in Seq(T) /\ Len(f) = n /\ DOMAIN f = 1 .. n
<1>1. f \in Seq(T) BY SeqDef
<1>2. DOMAIN f = 1 .. Len(f) /\ Len(f) \in Nat BY <1>1, LenProperties
<1> QED BY <1>1, <1>2

LEMMA ChannelGrows ==
  ASSUME NEW m \in Nat, NEW f, NEW s, s = [k \in 1 .. m |-> f[k]]
  PROVE  Append(s, f[m + 1]) = [k \in 1 .. m + 1 |-> f[k]]
<1> DEFINE T == {f[k] : k \in 1 .. m + 1}
           e == f[m + 1]
           t == Append(s, e)
<1>1. s \in [1 .. m -> T] /\ e \in T
  OBVIOUS
<1> HIDE DEF T, e
<1>2. s \in Seq(T) /\ Len(s) = m
  BY <1>1, FunctionIsSeq
<1>3. t \in Seq(T) /\ Len(t) = m + 1 /\ \A k \in 1 .. m + 1 : t[k] = IF k = m + 1 THEN e ELSE s[k]
  BY <1>1, <1>2, AppendProperties
<1>4. DOMAIN t = 1 .. m + 1 /\ t = [k \in DOMAIN t |-> t[k]]
  BY <1>3, LenProperties
<1> HIDE DEF t
<1>5. \A k \in 1 .. m + 1 : t[k] = f[k]
  <2> TAKE k \in 1 .. m + 1
  <2>1. CASE k = m + 1
    BY <1>3, <2>1 DEF e
  <2>2. CASE k # m + 1
    <3>1. k \in 1 .. m
      BY <2>2
    <3> QED
      BY <1>3, <2>2, <3>1
  <2> QED
    BY <2>1, <2>2
<1> QED
  BY <1>4, <1>5 DEF t, e

LEMMA ChannelShrinks ==
  ASSUME NEW m \in Nat, NEW f, NEW s, s = [k \in 1 .. m |-> f[k]], s # <<>>
  PROVE  /\ m > 0 /\ Head(s) = f[1]
         /\ Tail(s) = [k \in 1 .. m - 1 |-> f[k + 1]]
<1> DEFINE T == {f[k] : k \in 1 .. m}
           t == Tail(s)
<1>1. s \in [1 .. m -> T]
  OBVIOUS
<1> HIDE DEF T
<1>2. s \in Seq(T) /\ Len(s) = m
  BY <1>1, FunctionIsSeq
<1>3. m > 0
  BY <1>2, EmptySeq
<1>4. t \in Seq(T) /\ Len(t) = m - 1 /\ Head(s) = s[1] /\ \A k \in 1 .. m - 1 : t[k] = s[k + 1]
  BY <1>2, <1>3, HeadTailProperties
<1>5. DOMAIN t = 1 .. m - 1 /\ t = [k \in DOMAIN t |-> t[k]]
  BY <1>4, LenProperties
<1> HIDE DEF t
<1>6. \A k \in 1 .. m - 1 : t[k] = f[k + 1]
  BY <1>3, <1>4
<1> QED
  BY <1>3, <1>4, <1>5, <1>6 DEF t

---------------------------------------------------------------------------
(* The invariant holds at first.                                           *)
LEMMA SplitAgain ==
  ASSUME NEW a, NEW b, NEW v
  PROVE  Xor(Xor(a, b), Xor(v, Xor(a, b))) = v /\ Xor(Xor(v, {}), {}) = v
<1>1. \A x : x \in Xor(Xor(a, b), Xor(v, Xor(a, b))) <=> x \in v
  BY XorMember
<1>2. \A x : x \in Xor(Xor(v, {}), {}) <=> x \in v
  BY XorMember
<1> QED
  BY <1>1, <1>2

LEMMA InitHolds == Init => IInv
<1> SUFFICES ASSUME Init PROVE IInv
  OBVIOUS
<1>1. Given
  BY DEF Init, Given
<1>2. Books
  BY DEF Init, Books
<1>3. PICK components \in Components : forward = [p \in Parties |-> SharesOf(secret, components, p)]
  BY DEF Init
<1> DEFINE c0 == components[0]
           c1 == components[1]
           V0 == [q \in Parties |-> [i \in Indices |->
                    IF q = 2 THEN Xor(secret[i], Xor(c0, c1)) ELSE components[q]]]
           U0 == [q \in Parties |-> [i \in Indices |-> IF q = 0 THEN BitsOf(i) ELSE {}]]
           next(W, n) == StepOf(W, steps[n][1], Forwards(steps[n][1]), Place(n - 1) + 1)
           last(W, n) == IF Inverts THEN StepOf(W, steps[n][2], Backwards(steps[n][2]),
                                                Place(n - 1) + (Length + 1))
                         ELSE [p \in Parties |-> <<>>]
           V == [n \in 0 .. 3 |-> CASE n = 0 -> V0
                                    [] n = 1 -> next(V0, 1)
                                    [] n = 2 -> next(next(V0, 1), 2)
                                    [] n = 3 -> next(next(next(V0, 1), 2), 3)]
           U == [n \in 0 .. 3 |-> CASE n = 0 -> U0
                                    [] n = 1 -> last(U0, 1)
                                    [] n = 2 -> last(last(U0, 1), 2)
                                    [] n = 3 -> last(last(last(U0, 1), 2), 3)]
<1>4. \A i \in Indices : Sum(V0, i) = secret[i] /\ Sum(U0, i) = BitsOf(i)
  <2> TAKE i \in Indices
  <2>1. V0[0][i] = c0 /\ V0[1][i] = c1 /\ V0[2][i] = Xor(secret[i], Xor(c0, c1))
    BY ThreeParties
  <2>2. U0[0][i] = BitsOf(i) /\ U0[1][i] = {} /\ U0[2][i] = {}
    BY ThreeParties
  <2> HIDE DEF V0, U0, c0, c1
  <2> QED
    BY <2>1, <2>2, SplitAgain DEF Sum
<1>5. \A p \in Parties : forward[p] = ShareAt(V0, p)
  <2> TAKE p \in Parties
  <2>1. forward[p] = [i \in Indices |-> ShareOf([q \in Parties |->
                        IF q = 2 THEN Xor(secret[i], Xor(c0, c1)) ELSE components[q]], p)]
    BY <1>3 DEF SharesOf
  <2>2. ASSUME NEW i \in Indices
        PROVE  [q \in Parties |-> V0[q][i]]
                 = [q \in Parties |-> IF q = 2 THEN Xor(secret[i], Xor(c0, c1)) ELSE components[q]]
    OBVIOUS
  <2> HIDE DEF V0, c0, c1
  <2> QED
    BY <2>1, <2>2 DEF ShareAt
<1>6. \A p \in Parties : inverse[p] = ShareAt(U0, p)
  <2> TAKE p \in Parties
  <2>1. inverse[p] = [i \in Indices |-> PromotePublic(p, BitsOf(i))]
    BY DEF Init, IndexShares
  <2>2. ASSUME NEW i \in Indices
        PROVE  ShareOf([q \in Parties |-> U0[q][i]], p) = PromotePublic(p, BitsOf(i))
    <3>1. ShareOf([q \in Parties |-> U0[q][i]], p) = [a |-> U0[p][i], b |-> U0[PrevId(p)][i]]
      BY ThreeParties DEF ShareOf
    <3>2. U0[0][i] = BitsOf(i) /\ U0[1][i] = {} /\ U0[2][i] = {}
      BY ThreeParties
    <3> HIDE DEF U0
    <3>3. p = 0 \/ p = 1 \/ p = 2
      BY ThreeParties
    <3> QED
      BY <3>1, <3>2, <3>3, ThreeParties DEF PromotePublic
  <2> HIDE DEF U0
  <2> QED
    BY <2>1, <2>2 DEF ShareAt
<1> HIDE DEF V0, U0, next, last
<1>7. /\ V[0] = V0 /\ V[1] = next(V[0], 1) /\ V[2] = next(V[1], 2) /\ V[3] = next(V[2], 3)
      /\ U[0] = U0 /\ U[1] = last(U[0], 1) /\ U[2] = last(U[1], 2) /\ U[3] = last(U[2], 3)
  OBVIOUS
<1> HIDE DEF V, U
<1>8. Computed(V, U)
  <2>1. \A n \in 1 .. Len(steps) : n \in {1, 2, 3}
    BY <1>1, StepsFacts
  <2>2. \A n \in {1, 2, 3} : V[n] = next(V[n - 1], n) /\ U[n] = last(U[n - 1], n)
    BY <1>7
  <2> QED
    BY <1>4, <1>7, <2>1, <2>2 DEF Computed, next, last
<1>9. ASSUME NEW p \in Parties
      PROVE  PartyAt(V, U, p) /\ ChannelAt(V, U, p)
  <2>1. \A q \in Parties : step[q] = 0 /\ local[q] = <<>> /\ shuffler[q] = None /\ Fresh(q) /\ net[q] = <<>>
    BY DEF Init, Fresh
  <2>2. \A q \in Parties : Ended(q) = 0
    BY <2>1 DEF Ended
  <2>3. PartyAt(V, U, p)
    BY <1>1, <1>5, <1>6, <1>7, <2>1, <2>2, StepsFacts DEF PartyAt, Knows
  <2>4. ChannelAt(V, U, p)
    <3>1. step[p] - Ended(NextId(p)) = 0 /\ Ended(NextId(p)) <= step[p]
      BY <2>1, <2>2, ThreeParties
    <3>2. [k \in 1 .. 0 |-> Message(V, U, Ended(NextId(p)) + k, p)] = <<>>
      OBVIOUS
    <3> QED
      BY <2>1, <3>1, <3>2 DEF ChannelAt, Messages
  <2> QED
    BY <2>3, <2>4
<1> QED
  BY <1>1, <1>2, <1>8, <1>9 DEF IInv, Follows

---------------------------------------------------------------------------
(* Every step keeps it.                                                    *)
LEMMA SameGiven ==
  ASSUME UNCHANGED <<secret, stream, steps>>, NEW V, NEW U
  PROVE  /\ Given' <=> Given
         /\ Computed(V, U)' <=> Computed(V, U)
         /\ Inverts' <=> Inverts
         /\ \A n : Place(n)' = Place(n)
         /\ \A p : Sampled(p)' = Sampled(p)
<1>1. Inverts' <=> Inverts
  BY DEF Inverts
<1>2. \A n : Place(n)' = Place(n)
  BY DEF Place, Drawing, Inverts, Exchanges
<1>4. \A p : Sampled(p)' = Sampled(p)
  BY DEF Sampled
<1>5. \A W, owner, perm, from : StepOf(W, owner, perm, from)' = StepOf(W, owner, perm, from)
  BY DEF StepOf
<1>6. \A p : Forwards(p)' = Forwards(p) /\ Backwards(p)' = Backwards(p)
  BY <1>4 DEF Forwards, Backwards
<1>7. Given' <=> Given
  BY DEF Given
<1>8. Computed(V, U)' <=> Computed(V, U)
  BY <1>1, <1>2, <1>5, <1>6 DEF Computed
<1> QED
  BY <1>1, <1>2, <1>4, <1>7, <1>8

LEMMA SameParty ==
  ASSUME UNCHANGED <<secret, stream, steps>>, NEW V, NEW U, NEW p \in Parties,
         step'[p] = step[p], local'[p] = local[p], shuffler'[p] = shuffler[p],
         position'[p] = position[p], forward'[p] = forward[p], inverse'[p] = inverse[p]
  PROVE  PartyAt(V, U, p)' <=> PartyAt(V, U, p)
<1>1. Ended(p)' = Ended(p)
  BY DEF Ended
<1>2. Knows(p)' <=> Knows(p)
  BY SameGiven DEF Knows, Fresh
<1> QED
  BY <1>1, <1>2, SameGiven DEF PartyAt

LEMMA SameChannel ==
  ASSUME UNCHANGED <<secret, stream, steps>>, NEW V, NEW U, NEW p \in Parties,
         step'[p] = step[p], Ended(NextId(p))' = Ended(NextId(p)), net'[p] = net[p]
  PROVE  ChannelAt(V, U, p)' <=> ChannelAt(V, U, p)
BY DEF ChannelAt

LEMMA NewKeeps ==
  ASSUME NoneRejected, IInv, NEW p \in Parties, New(p)
  PROVE  IInv'
<1> SUFFICES ASSUME NEW V, NEW U, Follows(V, U)
             PROVE  Given' /\ Books' /\ Follows(V, U)'
  BY DEF IInv
<1>1. /\ Given /\ Books /\ PartyAt(V, U, p) /\ stream \in [Parties -> Streams]
      /\ UNCHANGED <<secret, stream, steps>>
  BY DEF IInv, Given, Follows, New
<1>2. /\ shuffler[p] = None /\ step[p] = 0 /\ local[p] = <<>> /\ Fresh(p)
      /\ UNCHANGED <<step, forward, inverse, local, net>>
  BY <1>1 DEF New, PartyAt, Knows
<1>3. /\ shuffler' = [shuffler EXCEPT ![p] = [next |-> Sampled(p), prev |-> Sampled(PrevId(p))]]
      /\ position' = [position EXCEPT ![p] = [own |-> Exchanges, other |-> Exchanges]]
  <2>1. Moved(p, Exchanges) = [own |-> Exchanges, other |-> Exchanges]
    BY <1>2, Orders DEF Moved, Fresh
  <2> QED
    BY <1>1, <1>2, <2>1, DrawnAtOnce DEF New
<1>4. Books'
  BY <1>1, <1>2, <1>3 DEF Books
<1>5. \A q \in Parties : Ended(q)' = Ended(q)
  BY <1>2 DEF Ended
<1>6. PartyAt(V, U, p)'
  <2>1. Knows(p)'
    <3>1. shuffler'[p] = [next |-> Sampled(p), prev |-> Sampled(PrevId(p))]
      BY <1>1, <1>3 DEF Books
    <3>2. shuffler'[p] # None
      <4>1. Sampled(p) \in [Indices -> Indices] /\ Sampled(PrevId(p)) \in [Indices -> Indices]
        BY <1>1, PermutationsTyped, ThreeParties
      <4> QED
        BY <3>1, <4>1, NoneAssumption
    <3>3. position'[p] = [own |-> Place(step[p]), other |-> Place(step[p])]
      BY <1>1, <1>2, <1>3, PlaceMoves DEF Books
    <3> QED
      BY <1>1, <1>2, <3>1, <3>2, <3>3, SameGiven DEF Knows
  <2> QED
    BY <1>1, <1>2, <1>5, <2>1, SameGiven DEF PartyAt
<1>7. ASSUME NEW q \in Parties, q # p
      PROVE  PartyAt(V, U, q)'
  <2>1. shuffler'[q] = shuffler[q] /\ position'[q] = position[q]
    BY <1>1, <1>3, <1>7 DEF Books
  <2>2. PartyAt(V, U, q)
    BY DEF Follows
  <2> QED
    BY <1>1, <1>2, <2>1, <2>2, SameParty
<1>8. ASSUME NEW q \in Parties
      PROVE  ChannelAt(V, U, q)'
  <2>1. ChannelAt(V, U, q) /\ Ended(NextId(q))' = Ended(NextId(q))
    BY <1>5, ThreeParties DEF Follows
  <2> QED
    BY <1>1, <1>2, <2>1, SameChannel
<1>9. Given' /\ Computed(V, U)'
  BY <1>1, SameGiven DEF Follows
<1> QED
  BY <1>4, <1>6, <1>7, <1>8, <1>9 DEF Follows

LEMMA MessagesGrow ==
  ASSUME NEW V, NEW U, NEW p, NEW n \in Nat, NEW e \in Int, e <= n
  PROVE  Append(Messages(V, U, p, e, n), Message(V, U, n + 1, p)) = Messages(V, U, p, e, n + 1)
<1> DEFINE f == [k \in Int |-> Message(V, U, e + k, p)]
           l == n - e
<1>1. l \in Nat /\ l + 1 = (n + 1) - e /\ e + (l + 1) = n + 1
  OBVIOUS
<1>2. \A j \in Nat : [k \in 1 .. j |-> Message(V, U, e + k, p)] = [k \in 1 .. j |-> f[k]]
  OBVIOUS
<1>3. f[l + 1] = Message(V, U, n + 1, p)
  BY <1>1
<1> HIDE DEF f, l
<1>4. /\ Messages(V, U, p, e, n) = [k \in 1 .. l |-> f[k]]
      /\ Messages(V, U, p, e, n + 1) = [k \in 1 .. l + 1 |-> f[k]]
  BY <1>1, <1>2 DEF Messages, l
<1> QED
  BY <1>1, <1>3, <1>4, ChannelGrows

LEMMA MessagesShrink ==
  ASSUME NEW V, NEW U, NEW p, NEW n \in Nat, NEW e \in Int, e <= n,
         NEW s, s = Messages(V, U, p, e, n), s # <<>>
  PROVE  /\ e + 1 <= n
         /\ Head(s) = Message(V, U, e + 1, p)
         /\ Tail(s) = Messages(V, U, p, e + 1, n)
<1> DEFINE f == [k \in Int |-> Message(V, U, e + k, p)]
           l == n - e
<1>1. l \in Nat /\ l - 1 = n - (e + 1)
  OBVIOUS
<1>2. [k \in 1 .. l |-> Message(V, U, e + k, p)] = [k \in 1 .. l |-> f[k]]
  OBVIOUS
<1>3. [k \in 1 .. l - 1 |-> Message(V, U, (e + 1) + k, p)] = [k \in 1 .. l - 1 |-> f[k + 1]]
  <2>1. \A k \in 1 .. l - 1 : (e + 1) + k = e + (k + 1)
    OBVIOUS
  <2> QED
    BY <2>1
<1>4. f[1] = Message(V, U, e + 1, p)
  OBVIOUS
<1> HIDE DEF f, l
<1>5. /\ s = [k \in 1 .. l |-> f[k]]
      /\ Messages(V, U, p, e + 1, n) = [k \in 1 .. l - 1 |-> f[k + 1]]
  BY <1>1, <1>2, <1>3 DEF Messages, l
<1>6. l > 0 /\ Head(s) = f[1] /\ Tail(s) = [k \in 1 .. l - 1 |-> f[k + 1]]
  BY <1>1, <1>5, ChannelShrinks
<1> QED
  BY <1>1, <1>4, <1>5, <1>6 DEF l

(* What BeginStep sends of an array is p's component after the step.       *)
LEMMA StepSends ==
  ASSUME Given, NEW p \in Parties, NEW owner \in Parties, NEW W, NEW at \in Nat, NEW first \in Nat,
         shuffler[p] = [next |-> Sampled(p), prev |-> Sampled(PrevId(p))],
         position[p] = [own |-> at, other |-> at]
  PROVE  /\ Masked(p, owner, PermutedBy(Shuffle, p, owner, Part(W, owner, p)), first)
              = StepOf(W, owner, Forwards(owner), at + first)[p]
         /\ Masked(p, owner, PermutedBy(InverseShuffle, p, owner, Part(W, owner, p)), first)
              = StepOf(W, owner, Backwards(owner), at + first)[p]
<1> DEFINE part == Part(W, owner, p)
           there == PermutedBy(Shuffle, p, owner, part)
           back == PermutedBy(InverseShuffle, p, owner, part)
           own(i) == BitsOf(stream[p][(at + first) + i])
           other(i) == BitsOf(stream[PrevId(p)][(at + first) + i])
<1>1. IsArray(part)
  BY DEF Part, IsArray
<1>2. ASSUME p \in {owner, NextId(owner)}
      PROVE  there = After(Forwards(owner), part) /\ back = After(Backwards(owner), part)
  <2> HIDE DEF part
  <2>1. Sampled(owner) \in [Indices -> Indices]
    BY PermutationsTyped
  <2>2. /\ Shuffle(Sampled(owner), part) = After(Forwards(owner), part)
        /\ InverseShuffle(Sampled(owner), part) = After(Backwards(owner), part)
    BY <1>1, <2>1, ShuffleIsAfter DEF Forwards, Backwards
  <2>3. CASE p = owner
    <3>1. p # NextId(owner)
      BY <2>3, ThreeParties
    <3> QED
      BY <2>2, <2>3, <3>1 DEF PermutedBy
  <2>4. CASE p = NextId(owner)
    <3>1. PrevId(p) = owner /\ p # owner
      BY <2>4, ThreeParties
    <3> QED
      BY <2>2, <2>4, <3>1 DEF PermutedBy
  <2> QED
    BY <1>2, <2>3, <2>4
<1>3. \A i \in Indices : BitsOf(Own(p, first + i)) = own(i) /\ BitsOf(Other(p, first + i)) = other(i)
  <2> TAKE i \in Indices
  <2>1. at + (first + i) = (at + first) + i
    BY StreamsAssumption DEF Indices
  <2>2. position[p].own = at /\ position[p].other = at
    OBVIOUS
  <2> QED
    BY <2>1, <2>2 DEF Own, Other
<1> HIDE DEF part, there, back, own, other
<1>4. ASSUME NEW perm \in [Indices -> Indices], NEW two,
             p \in {owner, NextId(owner)} => two = After(perm, part)
      PROVE  Masked(p, owner, two, first) = StepOf(W, owner, perm, at + first)[p]
  <2>1. Masked(p, owner, two, first) = [i \in Indices |->
          LocalComponent(p, two[i], owner, NextId(owner), own(i), other(i))]
    BY <1>3 DEF Masked
  <2>2. StepOf(W, owner, perm, at + first)[p] = [i \in Indices |->
          LocalComponent(p, part[perm[i]], owner, NextId(owner), own(i), other(i))]
    BY DEF StepOf, part, own, other
  <2>3. ASSUME NEW i \in Indices
        PROVE  LocalComponent(p, two[i], owner, NextId(owner), own(i), other(i))
                 = LocalComponent(p, part[perm[i]], owner, NextId(owner), own(i), other(i))
    BY <1>4 DEF LocalComponent, After
  <2> QED
    BY <2>1, <2>2, <2>3
<1>5. Forwards(owner) \in [Indices -> Indices] /\ Backwards(owner) \in [Indices -> Indices]
  BY PermutationsTyped
<1> QED
  BY <1>2, <1>4, <1>5 DEF there, back, part

LEMMA SharesSplit ==
  ASSUME NEW W, NEW p \in Parties, NEW owner \in Parties, NEW shares, shares = ShareAt(W, p)
  PROVE  TwoShares(p, shares, owner) = Part(W, owner, p)
BY DEF TwoShares, Part

LEMMA BeginStepKeeps ==
  ASSUME IInv, NEW p \in Parties, BeginStep(p)
  PROVE  IInv'
<1> SUFFICES ASSUME NEW V, NEW U, Follows(V, U)
             PROVE  Given' /\ Books' /\ Follows(V, U)'
  BY DEF IInv
<1>1. /\ Given /\ Books /\ PartyAt(V, U, p) /\ Computed(V, U)
      /\ UNCHANGED <<secret, stream, steps, shuffler, forward, inverse>>
  BY DEF IInv, Given, Follows, BeginStep
<1> DEFINE n == step[p]
           at == Place(n)
           m == Message(V, U, n + 1, p)
<1>2. /\ shuffler[p] # None /\ local[p] = <<>> /\ n \in Nat /\ n + 1 \in 1 .. Len(steps)
      /\ Ended(p) = n
  <2>1. Len(steps) \in {1, 3} /\ n \in 0 .. Len(steps) /\ n < Len(steps)
    BY <1>1, StepsFacts DEF BeginStep, PartyAt
  <2> QED
    BY <2>1 DEF BeginStep, Ended
<1>3. /\ shuffler[p] = [next |-> Sampled(p), prev |-> Sampled(PrevId(p))]
      /\ position[p] = [own |-> at, other |-> at]
      /\ forward[p] = ShareAt(V[n], p) /\ (Inverts => inverse[p] = ShareAt(U[n], p))
  BY <1>1, <1>2 DEF PartyAt, Knows
<1> DEFINE o == steps[n + 1]
           fwd == Masked(p, o[1], PermutedBy(Shuffle, p, o[1], TwoShares(p, forward[p], o[1])), 1)
           inv == IF o[2] = None THEN <<>> ELSE Masked(p, o[2], Inverted(p, o[2]), Length + 1)
<1>4. /\ local' = [local EXCEPT ![p] = <<[fwd |-> fwd, inv |-> inv]>>]
      /\ net' = [net EXCEPT ![p] = Append(@, [fwd |-> fwd, inv |-> inv])]
      /\ position' = [position EXCEPT ![p] = Moved(p, Drawn(p))]
      /\ step' = [step EXCEPT ![p] = n + 1]
  BY DEF BeginStep
<1>5. /\ o[1] \in Parties /\ (o[2] = None <=> ~ Inverts) /\ (Inverts => o[2] \in Parties)
      /\ V[n + 1] = StepOf(V[n], o[1], Forwards(o[1]), at + 1)
      /\ U[n + 1] = IF Inverts THEN StepOf(U[n], o[2], Backwards(o[2]), at + (Length + 1))
                    ELSE [q \in Parties |-> <<>>]
      /\ at \in Nat
  <2>1. (n + 1) - 1 = n
    BY <1>2
  <2> QED
    BY <1>1, <1>2, <2>1, StepsFacts, PlaceMoves DEF Computed
<1> HIDE DEF n, at, o
<1>6. fwd = V[n + 1][p]
  <2>1. TwoShares(p, forward[p], o[1]) = Part(V[n], o[1], p)
    BY <1>3, <1>5, SharesSplit
  <2> QED
    BY <1>1, <1>3, <1>5, <2>1, StepSends
<1>7. inv = U[n + 1][p]
  <2>1. CASE Inverts
    <3>1. TwoShares(p, inverse[p], o[2]) = Part(U[n], o[2], p)
      BY <1>3, <1>5, <2>1, SharesSplit
    <3>2. Length + 1 \in Nat
      BY StreamsAssumption
    <3>3. Inverted(p, o[2]) = PermutedBy(InverseShuffle, p, o[2], Part(U[n], o[2], p))
      BY <3>1 DEF Inverted
    <3> QED
      BY <1>1, <1>3, <1>5, <2>1, <3>2, <3>3, StepSends
  <2>2. CASE ~ Inverts
    BY <1>5, <2>2
  <2> QED
    BY <2>1, <2>2
<1> HIDE DEF fwd, inv
<1>8. [fwd |-> fwd, inv |-> inv] = m
  BY <1>6, <1>7 DEF Message
<1> HIDE DEF m
<1>9. Moved(p, Drawn(p)) = [own |-> Place(n + 1), other |-> Place(n + 1)]
  <2>1. Drawn(p) = Drawing
    BY <1>5 DEF Drawn, Drawing, o, n
  <2>2. position[p].own = at /\ position[p].other = at
    BY <1>3
  <2>3. Place(n + 1) = at + Drawing
    BY <1>2, PlaceMoves DEF at
  <2> QED
    BY <2>1, <2>2, <2>3 DEF Moved
<1>10. Books'
  BY <1>1, <1>4 DEF Books
<1>11. \A q \in Parties : Ended(q)' = Ended(q)
  <2>1. local'[p] = <<m>> /\ step'[p] = n + 1
    BY <1>1, <1>4, <1>8 DEF Books
  <2>2. Ended(p)' = Ended(p)
    <3>1. <<m>> # <<>>
      OBVIOUS
    <3> QED
      BY <1>2, <2>1, <3>1 DEF Ended
  <2>3. ASSUME NEW q \in Parties, q # p
        PROVE  Ended(q)' = Ended(q)
    BY <1>1, <1>4, <2>3 DEF Ended, Books
  <2> QED
    BY <2>2, <2>3
<1>12. PartyAt(V, U, p)'
  <2>1. local'[p] = <<m>> /\ step'[p] = n + 1 /\ n + 1 > 0
    BY <1>1, <1>2, <1>4, <1>8 DEF Books
  <2>2. m = Message(V, U, n + 1, p)
    BY DEF m
  <2>3. Knows(p)'
    <3>1. position'[p] = [own |-> Place(n + 1), other |-> Place(n + 1)]
      BY <1>1, <1>4, <1>9 DEF Books
    <3>2. shuffler'[p] = shuffler[p]
      BY <1>1
    <3> QED
      BY <1>1, <1>2, <1>3, <2>1, <3>1, <3>2, SameGiven DEF Knows
  <2>4. (step[p] \in 0 .. Len(steps))'
    BY <1>1, <1>2, <2>1
  <2>5. (forward[p] = ShareAt(V[Ended(p)], p))' /\ (Inverts => inverse[p] = ShareAt(U[Ended(p)], p))'
    BY <1>1, <1>11, SameGiven DEF PartyAt
  <2> QED
    BY <2>1, <2>2, <2>3, <2>4, <2>5 DEF PartyAt
<1>13. ASSUME NEW q \in Parties, q # p
       PROVE  PartyAt(V, U, q)'
  <2>1. step'[q] = step[q] /\ local'[q] = local[q] /\ position'[q] = position[q]
    BY <1>1, <1>4, <1>13 DEF Books
  <2>2. PartyAt(V, U, q)
    BY DEF Follows
  <2> QED
    BY <1>1, <2>1, <2>2, SameParty
<1>14. ChannelAt(V, U, p)'
  <2>1. PICK e : e = Ended(NextId(p))
    OBVIOUS
  <2>2. e \in Int /\ e <= n /\ net[p] = Messages(V, U, p, e, n)
    <3>1. PartyAt(V, U, NextId(p)) /\ ChannelAt(V, U, p)
      BY ThreeParties DEF Follows
    <3> QED
      BY <2>1, <3>1 DEF PartyAt, ChannelAt, Ended, n
  <2>3. Append(net[p], m) = Messages(V, U, p, e, n + 1)
    BY <1>2, <2>2, MessagesGrow DEF m
  <2>4. net'[p] = Messages(V, U, p, e, n + 1) /\ step'[p] = n + 1 /\ e <= n + 1
    BY <1>1, <1>2, <1>4, <1>8, <2>2, <2>3 DEF Books
  <2>5. Ended(NextId(p))' = e
    BY <1>11, <2>1, ThreeParties
  <2> QED
    BY <2>4, <2>5 DEF ChannelAt
<1>15. ASSUME NEW q \in Parties, q # p
       PROVE  ChannelAt(V, U, q)'
  <2>1. ChannelAt(V, U, q) /\ Ended(NextId(q))' = Ended(NextId(q))
    BY <1>11, ThreeParties DEF Follows
  <2>2. step'[q] = step[q] /\ net'[q] = net[q]
    BY <1>1, <1>4, <1>15 DEF Books
  <2> QED
    BY <1>1, <2>1, <2>2, SameChannel
<1>16. Given' /\ Computed(V, U)'
  BY <1>1, SameGiven
<1> QED
  BY <1>10, <1>12, <1>13, <1>14, <1>15, <1>16 DEF Follows

LEMMA EndStepKeeps ==
  ASSUME IInv, NEW p \in Parties, EndStep(p)
  PROVE  IInv'
<1> SUFFICES ASSUME NEW V, NEW U, Follows(V, U)
             PROVE  Given' /\ Books' /\ Follows(V, U)'
  BY DEF IInv
<1>1. /\ Given /\ Books /\ PartyAt(V, U, p) /\ Computed(V, U)
      /\ UNCHANGED <<secret, stream, steps, step, position, shuffler>>
  BY DEF IInv, Given, Follows, EndStep
<1> PICK r \in Parties : r = PrevId(p)
  BY ThreeParties
<1>2. NextId(r) = p /\ r # p /\ PartyAt(V, U, r) /\ ChannelAt(V, U, r)
  BY ThreeParties DEF Follows
<1> DEFINE n == step[p]
<1>3. n \in Nat \ {0} /\ n \in 1 .. Len(steps) /\ local[p] = <<Message(V, U, n, p)>>
  <2>1. Len(steps) \in {1, 3} /\ local[p] # <<>> /\ step[p] \in 0 .. Len(steps)
    BY <1>1, StepsFacts DEF EndStep, PartyAt
  <2> QED
    BY <1>1, <2>1 DEF PartyAt
<1>4. Ended(p) = n - 1 /\ n - 1 \in Nat
  <2>1. local[p] # <<>>
    BY DEF EndStep
  <2> QED
    BY <1>3, <2>1 DEF Ended
<1>5. step[r] \in Nat
  <2>1. Len(steps) \in {1, 3}
    BY <1>1, StepsFacts
  <2> QED
    BY <1>2, <2>1 DEF PartyAt
<1> HIDE DEF n
<1>6. n - 1 <= step[r] /\ net[r] = Messages(V, U, r, n - 1, step[r]) /\ net[r] # <<>>
  BY <1>2, <1>4 DEF ChannelAt, EndStep
<1>7. n <= step[r] /\ Head(net[r]) = Message(V, U, n, r) /\ Tail(net[r]) = Messages(V, U, r, n, step[r])
  <2>1. (n - 1) + 1 = n /\ n - 1 \in Int
    BY <1>3
  <2>2. /\ (n - 1) + 1 <= step[r]
        /\ Head(net[r]) = Message(V, U, (n - 1) + 1, r)
        /\ Tail(net[r]) = Messages(V, U, r, (n - 1) + 1, step[r])
    BY <1>5, <1>6, <2>1, MessagesShrink
  <2> QED
    BY <2>1, <2>2
<1>8. /\ forward' = [forward EXCEPT ![p] =
            [i \in Indices |-> Recombine(Message(V, U, n, p).fwd[i], Message(V, U, n, r).fwd[i])]]
      /\ inverse' = [inverse EXCEPT ![p] =
            IF steps[n][2] = None THEN inverse[p]
            ELSE [i \in Indices |-> Recombine(Message(V, U, n, p).inv[i], Message(V, U, n, r).inv[i])]]
      /\ net' = [net EXCEPT ![r] = Messages(V, U, r, n, step[r])]
      /\ local' = [local EXCEPT ![p] = <<>>]
  <2>1. Head(local[p]) = Message(V, U, n, p)
    BY <1>3
  <2> QED
    BY <1>7, <2>1 DEF EndStep, n
<1>9. ASSUME NEW W
      PROVE  [i \in Indices |-> Recombine(W[n][p][i], W[n][r][i])] = ShareAt(W[n], p)
  BY DEF Recombine, ShareAt, ShareOf
<1>10. /\ forward'[p] = ShareAt(V[n], p)
       /\ Inverts => inverse'[p] = ShareAt(U[n], p)
  <2>1. Inverts => steps[n][2] # None
    BY <1>1, <1>3, StepsFacts
  <2>2. /\ Message(V, U, n, p).fwd = V[n][p] /\ Message(V, U, n, r).fwd = V[n][r]
        /\ Message(V, U, n, p).inv = U[n][p] /\ Message(V, U, n, r).inv = U[n][r]
    BY DEF Message
  <2>3. forward'[p] = [i \in Indices |-> Recombine(V[n][p][i], V[n][r][i])]
    BY <1>1, <1>8, <2>2 DEF Books
  <2>4. Inverts => inverse'[p] = [i \in Indices |-> Recombine(U[n][p][i], U[n][r][i])]
    BY <1>1, <1>8, <2>1, <2>2 DEF Books
  <2> QED
    BY <1>9, <2>3, <2>4
<1>11. Books'
  BY <1>1, <1>8 DEF Books
<1>12. Ended(p)' = n /\ local'[p] = <<>>
  BY <1>1, <1>8 DEF Books, Ended, n
<1>13. \A q \in Parties \ {p} : Ended(q)' = Ended(q)
  BY <1>1, <1>8 DEF Ended, Books
<1>14. PartyAt(V, U, p)'
  <2>1. Knows(p)'
    <3>1. Knows(p) /\ local[p] # <<>>
      BY <1>1 DEF PartyAt, EndStep
    <3> QED
      BY <1>1, <3>1, SameGiven DEF Knows
  <2>2. step'[p] = n
    BY <1>1 DEF n
  <2>3. (step[p] \in 0 .. Len(steps))'
    BY <1>1 DEF PartyAt
  <2>4. Inverts' <=> Inverts
    BY <1>1, SameGiven
  <2> QED
    BY <1>10, <1>12, <2>1, <2>2, <2>3, <2>4 DEF PartyAt
<1>15. ASSUME NEW q \in Parties, q # p
       PROVE  PartyAt(V, U, q)'
  <2>1. /\ step'[q] = step[q] /\ local'[q] = local[q] /\ position'[q] = position[q]
        /\ shuffler'[q] = shuffler[q] /\ forward'[q] = forward[q] /\ inverse'[q] = inverse[q]
    BY <1>1, <1>8, <1>15 DEF Books
  <2>2. PartyAt(V, U, q)
    BY DEF Follows
  <2> QED
    BY <1>1, <2>1, <2>2, SameParty
<1>16. ChannelAt(V, U, r)'
  <2>1. net'[r] = Messages(V, U, r, n, step[r]) /\ step'[r] = step[r]
    BY <1>1, <1>8 DEF Books
  <2> QED
    BY <1>2, <1>7, <1>12, <2>1 DEF ChannelAt
<1>17. ASSUME NEW q \in Parties, q # r
       PROVE  ChannelAt(V, U, q)'
  <2>1. NextId(q) \in Parties \ {p}
    BY <1>17, ThreeParties
  <2>2. ChannelAt(V, U, q) /\ Ended(NextId(q))' = Ended(NextId(q))
    BY <1>13, <2>1 DEF Follows
  <2>3. step'[q] = step[q] /\ net'[q] = net[q]
    BY <1>1, <1>8, <1>17 DEF Books
  <2> QED
    BY <1>1, <2>2, <2>3, SameChannel
<1>18. Given' /\ Computed(V, U)'
  BY <1>1, SameGiven
<1> QED
  BY <1>11, <1>14, <1>15, <1>16, <1>17, <1>18 DEF Follows

LEMMA NothingKeeps ==
  ASSUME IInv, UNCHANGED vars
  PROVE  IInv'
<1> SUFFICES ASSUME NEW V, NEW U, Follows(V, U)
             PROVE  Given' /\ Books' /\ Follows(V, U)'
  BY DEF IInv
<1>1. UNCHANGED <<secret, stream, steps, step, position, shuffler, forward, inverse, local, net>>
  BY DEF vars
<1>2. Given' /\ Books' /\ Computed(V, U)'
  BY <1>1, SameGiven DEF IInv, Books, Follows
<1>3. \A p \in Parties : Ended(p)' = Ended(p)
  BY <1>1 DEF Ended
<1>4. ASSUME NEW p \in Parties
      PROVE  PartyAt(V, U, p)' /\ ChannelAt(V, U, p)'
  <2>1. PartyAt(V, U, p) /\ ChannelAt(V, U, p) /\ Ended(NextId(p))' = Ended(NextId(p))
    BY <1>3, ThreeParties DEF Follows
  <2> QED
    BY <1>1, <2>1, SameParty, SameChannel
<1> QED
  BY <1>2, <1>4 DEF Follows

LEMMA NextKeeps ==
  ASSUME NoneRejected, IInv, [Next]_vars
  PROVE  IInv'
<1>1. ASSUME NEW p \in Parties, New(p) PROVE IInv'
  BY <1>1, NewKeeps
<1>2. ASSUME NEW p \in Parties, BeginStep(p) PROVE IInv'
  BY <1>2, BeginStepKeeps
<1>3. ASSUME NEW p \in Parties, EndStep(p) PROVE IInv'
  BY <1>3, EndStepKeeps
<1>4. CASE Done \/ UNCHANGED vars
  BY <1>4, NothingKeeps DEF Done
<1> QED
  BY <1>1, <1>2, <1>3, <1>4 DEF Next

(* The invariant: what the parties hold is determined by the components at *)
(* first and the number of steps each has ended.                           *)
THEOREM ShuffleInvariant == ASSUME NoneRejected PROVE Spec => []IInv
<1>1. IInv /\ [Next]_vars => IInv'
  BY NextKeeps
<1> QED
  BY <1>1, InitHolds, PTL DEF Spec

---------------------------------------------------------------------------
(* What it says when all have come as far.                                 *)
LEMMA AllEnded ==
  ASSUME Given, NEW V, NEW U, Follows(V, U), NEW n, AllAt(n)
  PROVE  /\ \A p \in Parties : shuffler[p] = [next |-> Sampled(p), prev |-> Sampled(PrevId(p))]
         /\ SharesFor(forward, V[n])
         /\ Inverts => SharesFor(inverse, U[n])
<1> SUFFICES ASSUME NEW p \in Parties
             PROVE  /\ shuffler[p] = [next |-> Sampled(p), prev |-> Sampled(PrevId(p))]
                    /\ forward[p] = ShareAt(V[n], p)
                    /\ Inverts => inverse[p] = ShareAt(U[n], p)
  BY DEF SharesFor
<1>1. PartyAt(V, U, p) /\ shuffler[p] # None /\ local[p] = <<>> /\ step[p] = n
  BY DEF Follows, AllAt
<1>2. Ended(p) = n
  BY <1>1 DEF Ended
<1> QED
  BY <1>1, <1>2 DEF PartyAt, Knows

LEMMA OpenedIsSum ==
  ASSUME NEW W, NEW array, SharesFor(array, W), NEW target \in Parties
  PROVE  Opened(array, target) = [i \in Indices |-> Sum(W, i)]
<1>1. \A i \in Indices : RevealTo(target, [p \in Parties |-> array[p][i]]) = Sum(W, i)
  BY SharesOpen
<1> QED
  BY <1>1 DEF Opened

(* A step moves what the components add up to.                             *)
LEMMA StepsMove ==
  ASSUME Given, NEW V, NEW U, Computed(V, U), NEW n \in 1 .. Len(steps), NEW i \in Indices
  PROVE  /\ Sum(V[n], i) = Sum(V[n - 1], Forwards(steps[n][1])[i])
         /\ Inverts => Sum(U[n], i) = Sum(U[n - 1], Backwards(steps[n][2])[i])
<1> DEFINE o == steps[n]
<1>1. o[1] \in Parties /\ (Inverts => o[2] \in Parties)
  BY StepsFacts
<1>2. V[n] = StepOf(V[n - 1], o[1], Forwards(o[1]), Place(n - 1) + 1)
  BY DEF Computed
<1>3. Inverts => U[n] = StepOf(U[n - 1], o[2], Backwards(o[2]), Place(n - 1) + (Length + 1))
  BY DEF Computed
<1> HIDE DEF o
<1>4. Sum(V[n], i) = Sum(V[n - 1], Forwards(o[1])[i])
  <2>1. Forwards(o[1]) \in [Indices -> Indices]
    BY <1>1, PermutationsTyped
  <2> QED
    BY <1>1, <1>2, <2>1, StepPermutes
<1>5. ASSUME Inverts PROVE Sum(U[n], i) = Sum(U[n - 1], Backwards(o[2])[i])
  <2>1. Backwards(o[2]) \in [Indices -> Indices]
    BY <1>1, <1>5, PermutationsTyped
  <2> QED
    BY <1>1, <1>3, <1>5, <2>1, StepPermutes
<1> QED
  BY <1>4, <1>5 DEF o

(* The arrays ShuffledBySteps compares with.                               *)
IsAfter(f) ==
  f = [n \in 0 .. Len(steps) |->
         IF n = 0 THEN secret ELSE Shuffle(shuffler[steps[n][1]].next, f[n - 1])]

LEMMA AfterIsSum ==
  ASSUME Given, NEW V, NEW U, Computed(V, U), \A p \in Parties : shuffler[p].next = Sampled(p),
         NEW after, after = (CHOOSE f : IsAfter(f)), NEW n \in 0 .. Len(steps)
  PROVE  after[n] = [i \in Indices |-> Sum(V[n], i)]
<1> DEFINE sums == [k \in 0 .. Len(steps) |-> [i \in Indices |-> Sum(V[k], i)]]
           L == Len(steps)
<1>1. L \in {1, 3} /\ \A k \in 1 .. L : steps[k][1] \in Parties
  BY StepsFacts
<1>2. sums[0] = secret
  <2>1. secret = [i \in Indices |-> secret[i]]
    BY SecretsAssumption DEF Given
  <2>2. 0 \in 0 .. L
    BY <1>1
  <2>3. \A i \in Indices : Sum(V[0], i) = secret[i]
    BY DEF Computed
  <2> QED
    BY <2>1, <2>2, <2>3
<1>3. ASSUME NEW k \in 1 .. L
      PROVE  sums[k] = Shuffle(shuffler[steps[k][1]].next, sums[k - 1])
  <2> DEFINE o == steps[k][1]
             before == [i \in Indices |-> Sum(V[k - 1], i)]
  <2>1. o \in Parties /\ k - 1 \in 0 .. L /\ k \in 0 .. L
    BY <1>1
  <2>2. sums[k - 1] = before /\ sums[k] = [i \in Indices |-> Sum(V[k], i)]
    BY <2>1
  <2>3. IsArray(before)
    BY DEF IsArray
  <2>4. Sampled(o) \in [Indices -> Indices] /\ Forwards(o) \in [Indices -> Indices]
    BY <2>1, PermutationsTyped
  <2>5. \A i \in Indices : Sum(V[k], i) = Sum(V[k - 1], Forwards(o)[i])
    BY StepsMove
  <2>6. \A i \in Indices : before[Forwards(o)[i]] = Sum(V[k], i)
    BY <2>4, <2>5
  <2> HIDE DEF before, sums, o
  <2>7. Shuffle(Sampled(o), before) = [i \in Indices |-> before[Forwards(o)[i]]]
    BY <2>3, <2>4, ShuffleIsAfter DEF Forwards, After
  <2>8. shuffler[o].next = Sampled(o)
    BY <2>1
  <2> QED
    BY <2>2, <2>6, <2>7, <2>8 DEF o
<1>4. IsAfter(sums)
  <2>1. sums = [k \in 0 .. L |-> sums[k]]
    OBVIOUS
  <2> HIDE DEF sums
  <2>2. \A k \in 0 .. L : sums[k] = IF k = 0 THEN secret ELSE Shuffle(shuffler[steps[k][1]].next, sums[k - 1])
    BY <1>1, <1>2, <1>3
  <2> QED
    BY <2>1, <2>2 DEF IsAfter
<1>5. IsAfter(after)
  BY <1>4
<1> HIDE DEF sums
<1>6. /\ after[0] = secret
      /\ \A k \in 1 .. L : after[k] = Shuffle(shuffler[steps[k][1]].next, after[k - 1])
  <2> DEFINE body(k) == IF k = 0 THEN secret ELSE Shuffle(shuffler[steps[k][1]].next, after[k - 1])
  <2> HIDE DEF body
  <2>1. after = [k \in 0 .. L |-> body(k)]
    BY <1>5 DEF IsAfter, body
  <2>2. \A k \in 0 .. L : after[k] = body(k)
    BY <2>1
  <2>3. 0 \in 0 .. L /\ \A k \in 1 .. L : k \in 0 .. L /\ k # 0
    BY <1>1
  <2> QED
    BY <2>2, <2>3 DEF body
<1>7. \A k \in 1 .. L : after[k - 1] = sums[k - 1] => after[k] = sums[k]
  BY <1>3, <1>6
<1>8. after[n] = sums[n]
  <2>1. after[0] = sums[0] /\ (1 \in 1 .. L => after[1] = sums[1])
    BY <1>2, <1>6, <1>7
  <2>2. 2 \in 1 .. L => after[2] = sums[2]
    BY <1>1, <1>7, <2>1
  <2>3. 3 \in 1 .. L => after[3] = sums[3]
    BY <1>1, <1>7, <2>2
  <2>4. n = 0 \/ (n = 1 /\ 1 \in 1 .. L) \/ (n = 2 /\ 2 \in 1 .. L) \/ (n = 3 /\ 3 \in 1 .. L)
    BY <1>1
  <2> QED
    BY <2>1, <2>2, <2>3, <2>4
<1> QED
  BY <1>8 DEF sums

(* Parties who share a stream have drawn as much of it when they have      *)
(* come equally far.                                                       *)
THEOREM StreamsStayAligned == ASSUME NoneRejected PROVE Spec => []StreamsAligned
<1>1. ASSUME IInv PROVE StreamsAligned
  <2> PICK V, U : Follows(V, U)
    BY <1>1 DEF IInv
  <2> SUFFICES ASSUME NEW p \in Parties,
                      shuffler[p] = None <=> shuffler[NextId(p)] = None, step[p] = step[NextId(p)]
               PROVE  position[p].own = position[NextId(p)].other
    BY DEF StreamsAligned
  <2>1. Knows(p) /\ Knows(NextId(p))
    BY ThreeParties DEF Follows, PartyAt
  <2> QED
    BY <2>1 DEF Knows, Fresh
<1> QED
  BY <1>1, ShuffleInvariant, PTL

(* After each step the shares are sound and stand for the array shuffled   *)
(* by the permutations so far.                                             *)
THEOREM StepsShuffle == ASSUME NoneRejected PROVE Spec => []ShuffledBySteps
<1>1. ASSUME IInv PROVE ShuffledBySteps
  <2> PICK V, U : Follows(V, U)
    BY <1>1 DEF IInv
  <2> DEFINE after == CHOOSE f : IsAfter(f)
  <2>1. ASSUME NEW n \in 0 .. Len(steps), AllAt(n)
        PROVE  /\ \A i \in Indices : Replicated([p \in Parties |-> forward[p][i]])
               /\ \A target \in Parties : Opened(forward, target) = after[n]
    <3>1. Given /\ Computed(V, U)
      BY <1>1 DEF IInv, Follows
    <3>2. SharesFor(forward, V[n]) /\ \A p \in Parties : shuffler[p].next = Sampled(p)
      <4>1. /\ SharesFor(forward, V[n])
            /\ \A p \in Parties : shuffler[p] = [next |-> Sampled(p), prev |-> Sampled(PrevId(p))]
        BY <2>1, <3>1, AllEnded
      <4>2. ASSUME NEW p \in Parties PROVE shuffler[p].next = Sampled(p)
        <5>1. shuffler[p] = [next |-> Sampled(p), prev |-> Sampled(PrevId(p))]
          BY <4>1
        <5> QED
          BY <5>1
      <4> QED
        BY <4>1, <4>2
    <3>3. after[n] = [i \in Indices |-> Sum(V[n], i)]
      BY <3>1, <3>2, AfterIsSum
    <3>4. \A i \in Indices : Replicated([p \in Parties |-> forward[p][i]])
      BY <3>2, SharesOpen
    <3>5. \A target \in Parties : Opened(forward, target) = [i \in Indices |-> Sum(V[n], i)]
      BY <3>2, OpenedIsSum
    <3> QED
      BY <3>3, <3>4, <3>5
  <2> QED
    BY <2>1 DEF ShuffledBySteps, IsAfter
<1> QED
  BY <1>1, ShuffleInvariant, PTL

(* The index array tells where each element went.                          *)
THEOREM InverseTells == ASSUME NoneRejected PROVE Spec => []InverseTellsPlaces
<1>1. ASSUME IInv PROVE InverseTellsPlaces
  <2> PICK V, U : Follows(V, U)
    BY <1>1 DEF IInv
  <2> SUFFICES ASSUME AllAt(Len(steps)), Inverts, NEW i \in Indices
               PROVE  \E place \in Indices :
                        Opened(inverse, 0)[i] = BitsOf(place) /\ Opened(forward, 0)[place] = secret[i]
    BY DEF InverseTellsPlaces
  <2>1. Given /\ Computed(V, U)
    BY <1>1 DEF IInv, Follows
  <2>2. /\ Len(steps) = 3 /\ steps[1][1] = 0 /\ steps[2][1] = 1 /\ steps[3][1] = 2
        /\ steps[1][2] = 2 /\ steps[2][2] = 1 /\ steps[3][2] = 0
    BY <2>1, StepsFacts
  <2>3. SharesFor(forward, V[3]) /\ SharesFor(inverse, U[3])
    BY <2>1, <2>2, AllEnded
  <2> DEFINE x == Backwards(0)[i]
             y == Backwards(1)[x]
             place == Backwards(2)[y]
  <2>4. /\ x \in Indices /\ y \in Indices /\ place \in Indices
        /\ Forwards(2)[place] = y /\ Forwards(1)[y] = x /\ Forwards(0)[x] = i
    BY <2>1, ThreeParties, PermutationsTyped
  <2>5. Opened(forward, 0) = [j \in Indices |-> Sum(V[3], j)] /\ Opened(inverse, 0) = [j \in Indices |-> Sum(U[3], j)]
    BY <2>3, ThreeParties, OpenedIsSum
  <2> HIDE DEF x, y, place
  <2>6. Sum(V[3], place) = secret[i]
    <3>1. /\ Sum(V[3], place) = Sum(V[2], Forwards(2)[place])
          /\ Sum(V[2], y) = Sum(V[1], Forwards(1)[y])
          /\ Sum(V[1], x) = Sum(V[0], Forwards(0)[x])
      <4>1. /\ 1 \in 1 .. Len(steps) /\ 2 \in 1 .. Len(steps) /\ 3 \in 1 .. Len(steps)
            /\ 3 - 1 = 2 /\ 2 - 1 = 1 /\ 1 - 1 = 0
        BY <2>2
      <4>2. Sum(V[3], place) = Sum(V[3 - 1], Forwards(steps[3][1])[place])
        BY <2>1, <2>4, <4>1, StepsMove
      <4>3. Sum(V[2], y) = Sum(V[2 - 1], Forwards(steps[2][1])[y])
        BY <2>1, <2>4, <4>1, StepsMove
      <4>4. Sum(V[1], x) = Sum(V[1 - 1], Forwards(steps[1][1])[x])
        BY <2>1, <2>4, <4>1, StepsMove
      <4> QED
        BY <2>2, <4>1, <4>2, <4>3, <4>4
    <3>2. Sum(V[0], i) = secret[i]
      BY <2>1 DEF Computed
    <3> QED
      BY <2>4, <3>1, <3>2
  <2>7. Sum(U[3], i) = BitsOf(place)
    <3>1. /\ Sum(U[3], i) = Sum(U[2], Backwards(0)[i])
          /\ Sum(U[2], x) = Sum(U[1], Backwards(1)[x])
          /\ Sum(U[1], y) = Sum(U[0], Backwards(2)[y])
      <4>1. /\ 1 \in 1 .. Len(steps) /\ 2 \in 1 .. Len(steps) /\ 3 \in 1 .. Len(steps)
            /\ 3 - 1 = 2 /\ 2 - 1 = 1 /\ 1 - 1 = 0
        BY <2>2
      <4>2. Sum(U[3], i) = Sum(U[3 - 1], Backwards(steps[3][2])[i])
        BY <2>1, <4>1, StepsMove
      <4>3. Sum(U[2], x) = Sum(U[2 - 1], Backwards(steps[2][2])[x])
        BY <2>1, <2>4, <4>1, StepsMove
      <4>4. Sum(U[1], y) = Sum(U[1 - 1], Backwards(steps[1][2])[y])
        BY <2>1, <2>4, <4>1, StepsMove
      <4> QED
        BY <2>2, <4>1, <4>2, <4>3, <4>4
    <3>2. Sum(U[0], place) = BitsOf(place)
      BY <2>1, <2>4 DEF Computed
    <3> QED
      BY <3>1, <3>2 DEF x, y, place
  <2> QED
    BY <2>4, <2>5, <2>6, <2>7
<1> QED
  BY <1>1, ShuffleInvariant, PTL

(* The two who know a permutation both find where an element went.         *)
THEOREM BothKnow == ASSUME NoneRejected PROVE Spec => []KnownToTwo
<1>1. ASSUME IInv PROVE KnownToTwo
  <2> PICK V, U : Follows(V, U)
    BY <1>1 DEF IInv
  <2> DEFINE p == steps[1][1]
  <2> SUFFICES ASSUME AllAt(Len(steps)), Len(steps) = 1, NEW i \in Indices
               PROVE  /\ EvaluateAt(shuffler[p].next, i) = EvaluateAt(shuffler[NextId(p)].prev, i)
                      /\ Opened(forward, 0)[EvaluateAt(shuffler[p].next, i)] = secret[i]
    BY DEF KnownToTwo
  <2>1. Given /\ Computed(V, U) /\ p \in Parties
    BY <1>1, StepsFacts DEF IInv, Follows
  <2>2. /\ SharesFor(forward, V[1])
        /\ shuffler[p].next = Sampled(p) /\ shuffler[NextId(p)].prev = Sampled(p)
    <3>1. /\ \A q \in Parties : shuffler[q] = [next |-> Sampled(q), prev |-> Sampled(PrevId(q))]
          /\ SharesFor(forward, V[1])
      BY <2>1, AllEnded
    <3> QED
      BY <2>1, <3>1, ThreeParties
  <2>3. EvaluateAt(Sampled(p), i) = Backwards(p)[i]
    <3>1. DOMAIN Sampled(p) = Indices
      BY <2>1, PermutationsTyped
    <3> QED
      BY <3>1 DEF EvaluateAt, Backwards, Identity
  <2> HIDE DEF p
  <2>4. Backwards(p)[i] \in Indices /\ Forwards(p)[Backwards(p)[i]] = i
    BY <2>1, PermutationsTyped
  <2>5. Opened(forward, 0) = [j \in Indices |-> Sum(V[1], j)]
    BY <2>2, ThreeParties, OpenedIsSum
  <2>6. Sum(V[1], Backwards(p)[i]) = secret[i]
    <3>1. 1 \in 1 .. Len(steps) /\ 1 - 1 = 0
      OBVIOUS
    <3>2. Sum(V[1], Backwards(p)[i]) = Sum(V[1 - 1], Forwards(steps[1][1])[Backwards(p)[i]])
      BY <2>1, <2>4, <3>1, StepsMove
    <3>3. Sum(V[0], i) = secret[i]
      BY <2>1 DEF Computed
    <3> QED
      BY <2>4, <3>1, <3>2, <3>3 DEF p
  <2> QED
    BY <2>2, <2>3, <2>4, <2>5, <2>6
<1> QED
  BY <1>1, ShuffleInvariant, PTL
=============================================================================
