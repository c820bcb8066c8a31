------------------------ MODULE ObliviousSortProofs ------------------------
(***************************************************************************)
(* Proofs about ObliviousSort, for every length, number of columns, ring,  *)
(* array of flags, permutations and streams: the rows come out sorted and  *)
(* stably so, in shares that match, the pairs' streams stay aligned and no *)
(* message is left over.                                                   *)
(*                                                                         *)
(* The invariant writes out what every variable is when the parties are    *)
(* where they are; what is proved of the end follows from the values that  *)
(* the messages have.                                                      *)
(***************************************************************************)
EXTENDS ObliviousSort, FiniteSetTheorems, SequenceTheorems, TLAPS

---------------------------------------------------------------------------
(* What the streams add to the rows: to hide them from the party they are  *)
(* sent to, and as the new shares of parties 0 and 2.                      *)
MaskFrom0(x)  == BitsOf(stream[0][Length + Nth(x[1], x[2])])
MaskFrom2(x)  == BitsOf(stream[2][Nth(x[1], x[2])])
FreshFrom0(x) == BitsOf(stream[0][Length + CellsDrawn + Nth(x[1], x[2])])
FreshFrom2(x) == BitsOf(stream[2][CellsDrawn + Nth(x[1], x[2])])

(* The cell of the same column at another index.                           *)
Moved(x, p) == <<x[1], perm[p][x[2]]>>

(* The messages, as functions of what is given.                            *)
Places0 ==
  [i \in Indices |->
     (rho[0][perm[0][i]].a + rho[0][perm[0][i]].b - stream[0][i + 1]) % Ring]

Places1 == [i \in Indices |-> (rho[1][perm[0][i]].a + stream[0][i + 1]) % Ring]

(* Where the row comes from that the permutations put at i.                *)
Source(i) == perm[0][perm[2][perm[1][i]]]

Places == [i \in Indices |-> BitPerm(flags)[Source(i)]]

Rows0 ==
  [x \in Cells |->
     LET y == Moved(x, 2)
     IN  Xor(Xor(Xor(input[0][Moved(y, 0)].a, input[0][Moved(y, 0)].b), MaskFrom0(y)),
             MaskFrom2(x))]

Rows1 == [x \in Cells |-> Xor(input[1][Moved(x, 0)].a, MaskFrom0(x))]

Rand1 == [x \in Cells |-> Xor(Rows0[Moved(x, 1)], FreshFrom0(x))]

Rand2 ==
  [x \in Cells |->
     LET y == Moved(x, 1) IN Xor(Xor(Rows1[Moved(y, 2)], MaskFrom2(y)), FreshFrom2(x))]

(* The component that parties 1 and 2 find.                                *)
Both == [x \in Cells |-> Xor(Rand1[x], Rand2[x])]

(* The shares of the shuffled rows, and of the rows at their places.       *)
Shuffled(p) ==
  [x \in Cells |-> CASE p = 0 -> [a |-> FreshFrom0(x), b |-> FreshFrom2(x)]
                     [] p = 1 -> [a |-> Both[x], b |-> FreshFrom0(x)]
                     [] p = 2 -> [a |-> FreshFrom2(x), b |-> Both[x]]]

Sorted(p) ==
  [x \in Cells |->
     Shuffled(p)[<<x[1], CHOOSE i \in Indices : Places[i] - 1 = x[2]>>]]

---------------------------------------------------------------------------
(* The inductive invariant: how far the parties can be apart, and what is  *)
(* in each variable when they are where they are.                          *)
Given ==
  /\ flags \in Flags /\ stream \in Masks
  /\ perm \in [Parties -> Bijection(Indices, Indices)]
  /\ rho = [p \in Parties |-> [i \in Indices |->
              AdditiveShare(BitPerm(flags)[i], i % Ring, ((3 * i) + 1) % Ring, p)]]
  /\ input = [p \in Parties |-> [x \in Cells |->
                XorShare(rows[x[1]][x[2]], BitsOf(x[2]), BitsOf(x[1]), p)]]

AllLabels == {"reveal", "opened", "shuffle", "reshare", "exchange", "place", "done"}

Labels ==
  /\ pc \in [Parties -> AllLabels]
  /\ pc[0] \in {"reveal", "opened", "shuffle", "place", "done"}
  /\ pc[2] \in {"reveal", "shuffle", "exchange", "place", "done"}
  /\ pc[2] # "reveal" => pc[0] # "reveal" /\ pc[1] # "reveal"
  /\ pc[0] \in {"shuffle", "place", "done"} => pc[2] # "reveal"
  /\ pc[1] \notin {"reveal", "opened"} => pc[2] # "reveal"
  /\ pc[1] \in {"exchange", "place", "done"} => pc[0] \in {"place", "done"}
  /\ pc[2] \in {"exchange", "place", "done"} =>
       pc[1] \in {"reshare", "exchange", "place", "done"}
  /\ pc[2] \in {"place", "done"} => pc[1] \in {"exchange", "place", "done"}
  /\ pc[1] \in {"place", "done"} => pc[2] \in {"exchange", "place", "done"}

PositionOf(p) ==
  CASE p = 0 -> IF pc[0] = "reveal" THEN [own |-> 0, other |-> 0]
                ELSE IF pc[0] \in {"place", "done"}
                THEN [own |-> Length + (2 * CellsDrawn), other |-> 2 * CellsDrawn]
                ELSE [own |-> Length, other |-> 0]
    [] p = 1 -> [own |-> 0,
                 other |-> IF pc[1] = "reveal" THEN 0
                           ELSE IF pc[1] \in {"opened", "shuffle"} THEN Length
                           ELSE IF pc[1] = "reshare" THEN Length + CellsDrawn
                           ELSE Length + (2 * CellsDrawn)]
    [] p = 2 -> [own |-> IF pc[2] \in {"reveal", "shuffle"} THEN 0 ELSE 2 * CellsDrawn,
                 other |-> 0]

Positions == position = [p \in Parties |-> PositionOf(p)]

Net01 == IF pc[0] \in {"place", "done"} /\ pc[1] \notin {"exchange", "place", "done"}
         THEN <<Rows0>> ELSE <<>>

Net02 == IF pc[0] # "reveal" /\ pc[2] = "reveal" THEN <<Places0>> ELSE <<>>

Net12 ==
  IF pc[2] = "reveal"
  THEN IF pc[1] = "opened" THEN <<Places1>> ELSE <<>>
  ELSE IF pc[2] = "shuffle"
  THEN IF pc[1] = "reshare" THEN <<Rows1>>
       ELSE IF pc[1] \in {"exchange", "place", "done"} THEN <<Rows1, Rand1>> ELSE <<>>
  ELSE IF pc[2] = "exchange" /\ pc[1] # "reshare" THEN <<Rand1>> ELSE <<>>

Net20 == IF pc[0] = "opened" /\ pc[2] # "reveal" THEN <<Places>> ELSE <<>>

Net21 ==
  IF pc[1] = "opened" /\ pc[2] # "reveal" THEN <<Places>>
  ELSE IF pc[1] \in {"reshare", "exchange"} /\ pc[2] \in {"exchange", "place", "done"}
  THEN <<Rand2>> ELSE <<>>

NetOf(p, q) ==
  CASE p = 0 /\ q = 1 -> Net01
    [] p = 0 /\ q = 2 -> Net02
    [] p = 1 /\ q = 2 -> Net12
    [] p = 2 /\ q = 0 -> Net20
    [] p = 2 /\ q = 1 -> Net21
    [] OTHER -> <<>>

(* net has a queue for every two parties.                                  *)
IsTable(table) ==
  DOMAIN table = Parties /\ \A p \in Parties : DOMAIN table[p] = Parties

Messages ==
  /\ IsTable(net)
  /\ \A p, q \in Parties : net[p][q] = NetOf(p, q)

OpenedOf(p) == IF pc[p] \in {"reveal", "opened"} THEN None ELSE Places

LocalOf(p) ==
  IF pc[p] \in {"exchange", "place", "done"}
  THEN CASE p = 0 -> None [] p = 1 -> Rand1 [] p = 2 -> Rand2
  ELSE None

ResultOf(p) ==
  CASE pc[p] = "exchange" /\ p = 1 -> [x \in Cells |-> [a |-> {}, b |-> FreshFrom0(x)]]
    [] pc[p] = "exchange" /\ p = 2 -> [x \in Cells |-> [a |-> FreshFrom2(x), b |-> {}]]
    [] pc[p] = "place" -> Shuffled(p)
    [] pc[p] = "done" -> Sorted(p)
    [] OTHER -> None

Kept ==
  /\ opened = [p \in Parties |-> OpenedOf(p)]
  /\ local  = [p \in Parties |-> LocalOf(p)]
  /\ result = [p \in Parties |-> ResultOf(p)]

IInv == Given /\ Labels /\ Positions /\ Messages /\ Kept

---------------------------------------------------------------------------
(* Residues.                                                               *)
LEMMA Residue ==
  ASSUME NEW a \in Int, NEW m \in Nat \ {0}
  PROVE  \E q \in Int : a = (q * m) + (a % m) /\ (a % m) \in 0 .. m - 1
<1>1. a = ((a \div m) * m) + (a % m) /\ (a % m) \in 0 .. m - 1 /\ (a \div m) \in Int
  BY SMTT(30)
<1> QED BY <1>1

LEMMA OneResidue ==
  ASSUME NEW a \in Int, NEW m \in Nat \ {0}, NEW q \in Int, NEW r \in 0 .. m - 1,
         a = (q * m) + r
  PROVE  (a % m) = r
BY SMTT(30)

LEMMA SumOfResidue ==
  ASSUME NEW a \in Int, NEW b \in Int, NEW m \in Nat \ {0}
  PROVE  ((a + (b % m)) % m) = ((a + b) % m)
<1> DEFINE rb == b % m
           sum == a + rb
<1>1. PICK qb \in Int : b = (qb * m) + rb BY Residue
<1>2. rb \in Int BY Residue
<1>3. sum \in Int BY <1>2
<1> HIDE DEF sum, rb
<1>4. PICK q \in Int : sum = (q * m) + (sum % m) /\ (sum % m) \in 0 .. m - 1
  BY <1>3, Residue
<1> DEFINE r == sum % m
           total == a + b
           quotient == qb + q
<1>5. r \in 0 .. m - 1 /\ sum = (q * m) + r BY <1>4
<1> HIDE DEF r
<1>6. total = (quotient * m) + r BY <1>1, <1>5, <1>2, SMTT(30) DEF sum
<1>7. total \in Int /\ quotient \in Int OBVIOUS
<1> HIDE DEF total, quotient
<1>8. (total % m) = r BY <1>5, <1>6, <1>7, OneResidue
<1> QED BY <1>8 DEF r, sum, rb, total

---------------------------------------------------------------------------
(* Ranks.                                                                  *)
LEMMA Countable ==
  /\ IsFiniteSet(Indices)
  /\ \A S \in SUBSET Indices :
       IsFiniteSet(S) /\ Cardinality(S) \in Nat /\ Cardinality(S) <= Length
<1>1. IsFiniteSet(Indices) /\ Cardinality(Indices) = Length
  BY LengthAssumption, FS_Interval DEF Indices
<1>2. ASSUME NEW S \in SUBSET Indices
      PROVE  IsFiniteSet(S) /\ Cardinality(S) \in Nat /\ Cardinality(S) <= Length
  BY <1>1, FS_Subset, FS_CardinalityType
<1> QED BY <1>1, <1>2

(* The place gen_bit_perm gives a row is one more than the number of rows  *)
(* that belong before it.                                                  *)
LEMMA PlaceIsRank ==
  ASSUME Given, NEW i \in Indices
  PROVE  /\ Cardinality(Before(i)) \in Indices
         /\ BitPerm(flags)[i] = Cardinality(Before(i)) + 1
         /\ BitPerm(flags)[i] \in 0 .. Ring - 1
<1> DEFINE Zeros(n) == {j \in 0 .. n : flags[j] = 0}
           OnesTo(n) == {j \in 0 .. n : flags[j] = 1}
<1>0. flags \in [Indices -> {0, 1}] BY InputsAssumption DEF Given
<1>1. Before(i) \in SUBSET Indices /\ i \notin Before(i) BY <1>0 DEF Before, Indices
<1>2. \A n \in Indices : Zeros(n) \in SUBSET Indices /\ OnesTo(n) \in SUBSET Indices
  BY LengthAssumption DEF Indices
<1>3. Length - 1 \in Indices BY LengthAssumption DEF Indices
<1>4. Before(i) \cup {i} \in SUBSET Indices BY <1>1
<1>5. Cardinality(Before(i) \cup {i}) = Cardinality(Before(i)) + 1
  BY <1>1, Countable, FS_AddElement
<1>6. Cardinality(Before(i)) \in Nat /\ Cardinality(Before(i)) + 1 <= Length
  BY <1>1, <1>4, <1>5, Countable
<1>7. (1 - flags[i]) * ZeroCount(flags, i) + flags[i] * OneCount(flags, i)
        = Cardinality(Before(i)) + 1
  <2>1. CASE flags[i] = 0
    <3>1. Before(i) \cup {i} = Zeros(i)
      BY <1>0, <2>1, LengthAssumption DEF Before, Indices
    <3>2. ZeroCount(flags, i) = Cardinality(Before(i)) + 1 BY <3>1, <1>5 DEF ZeroCount
    <3>3. OneCount(flags, i) \in Int
      BY <1>2, <1>3, Countable DEF OneCount, ZeroCount
    <3> QED BY <2>1, <3>2, <3>3, <1>6
  <2>2. CASE flags[i] = 1
    <3>1. Before(i) \cup {i} = Zeros(Length - 1) \cup OnesTo(i)
      BY <1>0, <2>2, LengthAssumption DEF Before, Indices
    <3>2. Zeros(Length - 1) \cap OnesTo(i) = {} BY <1>0
    <3>3. Cardinality(Zeros(Length - 1) \cup OnesTo(i))
            = Cardinality(Zeros(Length - 1)) + Cardinality(OnesTo(i))
      <4>1. /\ IsFiniteSet(Zeros(Length - 1)) /\ IsFiniteSet(OnesTo(i))
            /\ Cardinality(Zeros(Length - 1)) \in Nat /\ Cardinality(OnesTo(i)) \in Nat
        BY <1>2, <1>3, Countable
      <4> DEFINE Z == Zeros(Length - 1)
                 O == OnesTo(i)
      <4>2. Z \cap O = {} BY <3>2
      <4> HIDE DEF Z, O
      <4>3. Cardinality(Z \cup O) = Cardinality(Z) + Cardinality(O) - Cardinality(Z \cap O)
        BY <4>1, FS_Union DEF Z, O
      <4>4. Cardinality(Z \cap O) = 0 BY <4>2, FS_EmptySet
      <4> QED BY <4>1, <4>3, <4>4 DEF Z, O
    <3>4. OneCount(flags, i) = Cardinality(Before(i)) + 1
      BY <3>1, <3>3, <1>5 DEF OneCount, ZeroCount
    <3>5. ZeroCount(flags, i) \in Int BY <1>2, Countable DEF ZeroCount
    <3> QED BY <2>2, <3>4, <3>5, <1>6
  <2> QED BY <1>0, <2>1, <2>2
<1>8. BitPerm(flags)[i] = ((Cardinality(Before(i)) + 1) % Ring) BY <1>7 DEF BitPerm
<1> DEFINE place == Cardinality(Before(i)) + 1
<1>9. place \in 0 .. Ring - 1 /\ place = (0 * Ring) + place
  BY <1>6, RingAssumption, LengthAssumption
<1>10. Ring \in Nat \ {0} BY RingAssumption, LengthAssumption
<1>11. (place % Ring) = place
  <2> HIDE DEF place
  <2> QED BY <1>9, <1>10, OneResidue
<1> QED BY <1>6, <1>8, <1>9, <1>11, LengthAssumption DEF Indices
---------------------------------------------------------------------------
(* What is given stays, and with it what the messages are.                 *)
LEMMA GivenStays ==
  ASSUME Given, UNCHANGED given
  PROVE  /\ Given'
         /\ Places0' = Places0 /\ Places1' = Places1 /\ Places' = Places
         /\ Rows0' = Rows0 /\ Rows1' = Rows1 /\ Rand1' = Rand1 /\ Rand2' = Rand2
         /\ \A p \in Parties : Shuffled(p)' = Shuffled(p) /\ Sorted(p)' = Sorted(p)
         /\ \A x \in Cells : FreshFrom0(x)' = FreshFrom0(x) /\ FreshFrom2(x)' = FreshFrom2(x)
<1> USE DEF given
<1>1. Given' BY DEF Given, BitPerm
<1>2. Places0' = Places0 /\ Places1' = Places1 /\ Places' = Places
  BY DEF Places0, Places1, Places, Source, BitPerm
<1>3. \A x : /\ FreshFrom0(x)' = FreshFrom0(x) /\ FreshFrom2(x)' = FreshFrom2(x)
             /\ MaskFrom0(x)' = MaskFrom0(x) /\ MaskFrom2(x)' = MaskFrom2(x)
  BY DEF FreshFrom0, FreshFrom2, MaskFrom0, MaskFrom2
<1>4. \A x, p : Moved(x, p)' = Moved(x, p) BY DEF Moved
<1>5. Rows0' = Rows0 /\ Rows1' = Rows1
  BY <1>3, <1>4 DEF Rows0, Rows1
<1>6. Rand1' = Rand1 /\ Rand2' = Rand2
  BY <1>3, <1>4, <1>5 DEF Rand1, Rand2
<1>7. Both' = Both BY <1>6 DEF Both
<1>8. \A p \in Parties : Shuffled(p)' = Shuffled(p)
  BY <1>3, <1>7 DEF Shuffled, Parties
<1>9. \A p \in Parties : Sorted(p)' = Sorted(p)
  BY <1>2, <1>8 DEF Sorted
<1> QED BY <1>1, <1>2, <1>3, <1>5, <1>6, <1>8, <1>9

---------------------------------------------------------------------------
(* Queues of up to two messages, and the table of queues.                  *)
LEMMA Queues ==
  ASSUME NEW a, NEW b
  PROVE  /\ Append(<<>>, a) = <<a>> /\ Append(<<a>>, b) = <<a, b>>
         /\ Tail(<<a>>) = <<>> /\ Tail(<<a, b>>) = <<b>>
         /\ Head(<<a>>) = a /\ Head(<<a, b>>) = a
         /\ <<a>> # <<>> /\ <<a, b>> # <<>>
<1>1. Append(<<>>, a) = <<a>> OBVIOUS
<1>2. Append(<<a>>, b) = <<a, b>>
  <2> DEFINE S == {a, b}
  <2>1. <<a>> \in Seq(S) /\ <<a, b>> \in Seq(S) /\ b \in S OBVIOUS
  <2>2. Append(<<a>>, b) \in Seq(S) BY <2>1
  <2>3. Len(<<a, b>>) = 2 /\ Len(Append(<<a>>, b)) = 2 OBVIOUS
  <2>4. Append(<<a>>, b)[1] = a /\ Append(<<a>>, b)[2] = b OBVIOUS
  <2>5. \A i \in 1 .. 2 : Append(<<a>>, b)[i] = <<a, b>>[i] BY <2>4
  <2> QED BY <2>1, <2>2, <2>3, <2>5, SeqEqual
<1>3. Tail(<<a>>) = <<>> OBVIOUS
<1>4. Tail(<<a, b>>) = <<b>> OBVIOUS
<1>5. Head(<<a>>) = a /\ Head(<<a, b>>) = a OBVIOUS
<1>6. <<a>> # <<>> /\ <<a, b>> # <<>> OBVIOUS
<1> QED BY <1>1, <1>2, <1>3, <1>4, <1>5, <1>6

Put(table, p, q, queue) == [table EXCEPT ![p][q] = queue]

LEMMA Replaced ==
  ASSUME NEW table, IsTable(table), NEW p \in Parties, NEW q \in Parties, NEW queue
  PROVE  /\ IsTable(Put(table, p, q, queue))
         /\ \A r, s \in Parties :
              Put(table, p, q, queue)[r][s] = IF r = p /\ s = q THEN queue ELSE table[r][s]
BY DEF IsTable, Put

---------------------------------------------------------------------------
(* One variable after the other, in a step of one party.                   *)
LEMMA ThreeParties ==
  /\ 0 \in Parties /\ 1 \in Parties /\ 2 \in Parties
  /\ \A p \in Parties : p = 0 \/ p = 1 \/ p = 2
BY DEF Parties

LEMMA Goes ==
  ASSUME Labels, NEW p \in Parties, NEW label, Goto(p, label)
  PROVE  pc'[p] = label /\ \A q \in Parties : q # p => pc'[q] = pc[q]
<1>1. DOMAIN pc = Parties BY DEF Labels
<1> QED BY <1>1 DEF Goto

LEMMA GoesTyped ==
  ASSUME Labels, NEW p \in Parties,
         NEW label \in AllLabels,
         Goto(p, label)
  PROVE  pc' \in [Parties -> AllLabels]
BY DEF Labels, Goto

(* A party that stays where it is keeps what it has.                       *)
LEMMA OthersStay ==
  ASSUME Given, UNCHANGED given, NEW q \in Parties, pc'[q] = pc[q]
  PROVE  /\ PositionOf(q)' = PositionOf(q) /\ OpenedOf(q)' = OpenedOf(q)
         /\ LocalOf(q)' = LocalOf(q) /\ ResultOf(q)' = ResultOf(q)
<1>1. PositionOf(q)' = PositionOf(q)
  <2>1. CASE q = 0 BY <2>1 DEF PositionOf
  <2>2. CASE q = 1
    <3>1. pc'[1] = pc[1] BY <2>2
    <3>2. PositionOf(1)' = PositionOf(1) BY <3>1 DEF PositionOf
    <3> QED BY <2>2, <3>2
  <2>3. CASE q = 2 BY <2>3 DEF PositionOf
  <2> QED BY <2>1, <2>2, <2>3, ThreeParties
<1>2. OpenedOf(q)' = OpenedOf(q) BY GivenStays DEF OpenedOf
<1>3. LocalOf(q)' = LocalOf(q) BY GivenStays DEF LocalOf
<1>4. ResultOf(q)' = ResultOf(q) BY GivenStays DEF ResultOf
<1> QED BY <1>1, <1>2, <1>3, <1>4

LEMMA PositionsDrawn ==
  ASSUME Given, UNCHANGED given, Labels, Positions, NEW p \in Parties, NEW label,
         Goto(p, label), NEW own, NEW other, Drew(p, own, other),
         PositionOf(p)' = [own   |-> PositionOf(p).own + own,
                           other |-> PositionOf(p).other + other]
  PROVE  Positions'
<1>1. \A q \in Parties : q # p => pc'[q] = pc[q] BY Goes
<1>2. \A q \in Parties : q # p => PositionOf(q)' = PositionOf(q)
  BY <1>1, OthersStay
<1>3. position[p] = PositionOf(p) BY DEF Positions
<1>4. position' = [position EXCEPT ![p] = PositionOf(p)'] BY <1>3 DEF Drew
<1> QED BY <1>2, <1>4 DEF Positions

LEMMA PositionsStay ==
  ASSUME Given, UNCHANGED given, Labels, Positions, NEW p \in Parties, NEW label,
         Goto(p, label), UNCHANGED position,
         PositionOf(p)' = PositionOf(p)
  PROVE  Positions'
<1>1. \A q \in Parties : q # p => pc'[q] = pc[q] BY Goes
<1>2. \A q \in Parties : q # p => PositionOf(q)' = PositionOf(q)
  BY <1>1, OthersStay
<1> QED BY <1>2 DEF Positions

LEMMA KeptFollows ==
  ASSUME Given, UNCHANGED given, Labels, Kept,
         NEW p \in Parties, NEW label,
         Goto(p, label),
         \/ opened' = [opened EXCEPT ![p] = OpenedOf(p)']
         \/ UNCHANGED opened /\ OpenedOf(p)' = OpenedOf(p),
         \/ local' = [local EXCEPT ![p] = LocalOf(p)']
         \/ UNCHANGED local /\ LocalOf(p)' = LocalOf(p),
         \/ result' = [result EXCEPT ![p] = ResultOf(p)']
         \/ UNCHANGED result /\ ResultOf(p)' = ResultOf(p)
  PROVE  Kept'
<1>1. \A q \in Parties : q # p => pc'[q] = pc[q] BY Goes
<1>2. \A q \in Parties : q # p => /\ OpenedOf(q)' = OpenedOf(q)
                                  /\ LocalOf(q)' = LocalOf(q)
                                  /\ ResultOf(q)' = ResultOf(q)
  BY <1>1, OthersStay
<1>3. opened' = [q \in Parties |-> OpenedOf(q)'] BY <1>2 DEF Kept
<1>4. local' = [q \in Parties |-> LocalOf(q)'] BY <1>2 DEF Kept
<1>5. result' = [q \in Parties |-> ResultOf(q)'] BY <1>2 DEF Kept
<1> QED BY <1>3, <1>4, <1>5 DEF Kept
---------------------------------------------------------------------------
(* What the messages are made of.                                          *)
LEMMA CellFacts ==
  ASSUME Given, NEW x \in Cells, NEW p \in Parties
  PROVE  /\ x = <<x[1], x[2]>> /\ x[1] \in Columns /\ x[2] \in Indices
         /\ perm[p] \in [Indices -> Indices] /\ Moved(x, p) \in Cells
         /\ Moved(x, p)[1] = x[1] /\ Moved(x, p)[2] = perm[p][x[2]]
<1>1. x = <<x[1], x[2]>> /\ x[1] \in Columns /\ x[2] \in Indices BY DEF Cells
<1>2. perm[p] \in [Indices -> Indices] BY DEF Given, Bijection, Injection
<1>3. Moved(x, p) \in Cells BY <1>1, <1>2 DEF Moved, Cells
<1> QED BY <1>1, <1>2, <1>3 DEF Moved

LEMMA Counts ==
  /\ CellsDrawn \in Nat
  /\ \A x \in Cells : Nth(x[1], x[2]) \in Int
<1>1. IsFiniteSet(Indices) BY LengthAssumption, FS_Interval DEF Indices
<1>2. IsFiniteSet(Cells) BY <1>1, LengthAssumption, FS_Product DEF Cells
<1>3. CellsDrawn \in Nat BY <1>2, FS_CardinalityType DEF CellsDrawn
<1>4. \A c \in Columns, i \in Indices : Nth(c, i) \in Int
  BY LengthAssumption DEF Indices, Nth
<1> QED BY <1>3, <1>4 DEF Cells
LEMMA RanksDiffer ==
  ASSUME Given, NEW i \in Indices, NEW j \in Indices,
         Cardinality(Before(i)) = Cardinality(Before(j))
  PROVE  i = j
<1>1. flags \in [Indices -> {0, 1}] BY InputsAssumption DEF Given
<1>2. ASSUME NEW k \in Indices, NEW l \in Indices, k \in Before(l)
      PROVE  Cardinality(Before(k)) < Cardinality(Before(l))
  <2>1. Before(k) \in SUBSET Indices /\ Before(l) \in SUBSET Indices BY DEF Before
  <2>2. Before(k) \subseteq Before(l) /\ k \notin Before(k)
    BY <1>1, <1>2 DEF Before, Indices
  <2>3. Before(k) # Before(l) BY <1>2, <2>2
  <2>4. IsFiniteSet(Before(l)) /\ Cardinality(Before(k)) \in Nat
        /\ Cardinality(Before(l)) \in Nat
    BY <2>1, Countable
  <2> QED BY <2>2, <2>3, <2>4, FS_Subset
<1>3. i # j => i \in Before(j) \/ j \in Before(i) BY <1>1 DEF Before, Indices
<1>4. Cardinality(Before(i)) \in Nat /\ Cardinality(Before(j)) \in Nat
  BY Countable DEF Before
<1> QED BY <1>2, <1>3, <1>4

---------------------------------------------------------------------------
(* What is opened and shuffled.                                            *)
LEMMA PlacesOpened ==
  ASSUME Given
  PROVE  PlacesAt2(Places0, Places1) = Places
<1>1. ASSUME NEW i \in Indices
      PROVE  PlacesAt2(Places0, Places1)[i] = Places[i]
  <2> DEFINE index == perm[2][perm[1][i]]
             k == perm[0][index]
             v == BitPerm(flags)[k]
             c0 == k % Ring
             c1 == ((3 * k) + 1) % Ring
             c2 == (v - c0 - c1) % Ring
             s == stream[0][index + 1]
  <2>1. index \in Indices /\ k \in Indices
    BY DEF Given, Bijection, Injection, Parties
  <2>2. v \in 0 .. Ring - 1 BY <2>1, PlaceIsRank
  <2>3. Ring \in Nat \ {0} BY RingAssumption, LengthAssumption
  <2>4. c0 \in Int /\ c1 \in Int
    <3> DEFINE l == (3 * k) + 1
    <3>1. k \in Int /\ l \in Int BY <2>1, LengthAssumption DEF Indices
    <3> HIDE DEF k, l
    <3>2. (k % Ring) \in Int /\ (l % Ring) \in Int BY <3>1, <2>3, Residue
    <3> QED BY <3>2 DEF l
  <2>5. s \in Int
    <3>1. stream \in Masks BY DEF Given
    <3>2. index + 1 \in 1 .. Length
      <4> HIDE DEF index
      <4> QED BY <2>1, LengthAssumption DEF Indices
    <3> DEFINE n == index + 1
    <3> HIDE DEF n
    <3>3. n \in 1 .. Length BY <3>2 DEF n
    <3>4. stream[0][n] \in 0 .. Ring - 1 BY <3>1, <3>3, InputsAssumption
    <3>5. 0 .. Ring - 1 \subseteq Int BY RingAssumption
    <3> QED BY <3>4, <3>5 DEF n
  <2>6. rho[0][k].a = c0 /\ rho[0][k].b = c2 /\ rho[1][k].a = c1
    <3>1. \A p \in Parties : rho[p][k] = AdditiveShare(v, c0, c1, p)
      BY <2>1 DEF Given
    <3>2. PrevId(0) = 2 /\ PrevId(1) = 0 BY DEF PrevId
    <3> HIDE DEF v, c0, c1, c2
    <3>3. /\ AdditiveShare(v, c0, c1, 0) = [a |-> c0, b |-> ((v - c0 - c1) % Ring)]
          /\ AdditiveShare(v, c0, c1, 1).a = c1
      BY <3>2, ThreeParties DEF AdditiveShare, ShareOf
    <3> QED BY <3>1, <3>3, ThreeParties DEF c2
  <2>7. /\ Places0[index] = ((c0 + c2 - s) % Ring)
        /\ Places1[index] = ((c1 + s) % Ring)
    BY <2>1, <2>6 DEF Places0, Places1
  <2>8. PlacesAt2(Places0, Places1)[i] = ((Places1[index] + Places0[index]) % Ring)
    BY DEF PlacesAt2, PermA, PermB, PrevId
  <2>9. Places[i] = v BY DEF Places, Source
  <2> DEFINE x == c1 + s
             y == c0 + c2 - s
             z == v - c0 - c1
             w == c0 + c1
             rx == x % Ring
  <2> HIDE DEF index, k, v, c0, c1, s
  <2>10. z \in Int /\ c2 = (z % Ring) /\ c2 \in Int BY <2>2, <2>3, <2>4, Residue
  <2>11. x \in Int /\ y \in Int /\ w \in Int BY <2>4, <2>5, <2>10
  <2> HIDE DEF c2
  <2>12. y + x = w + c2 /\ w + z = v BY <2>2, <2>4, <2>5, <2>10
  <2> HIDE DEF x, y, z, w
  <2>13. rx \in Int BY <2>3, <2>11, Residue
  <2>14. ((rx + (y % Ring)) % Ring) = ((rx + y) % Ring)
    <3> HIDE DEF rx
    <3> QED BY <2>3, <2>11, <2>13, SumOfResidue
  <2>15. ((y + rx) % Ring) = ((y + x) % Ring) BY <2>3, <2>11, SumOfResidue
  <2>16. rx + y = y + rx BY <2>11, <2>13
  <2>17. ((w + (z % Ring)) % Ring) = ((w + z) % Ring) BY <2>3, <2>10, <2>11, SumOfResidue
  <2>18. (v % Ring) = v
    <3>1. v = (0 * Ring) + v BY <2>2, <2>3
    <3> QED BY <2>2, <2>3, <3>1, OneResidue
  <2>19. ((rx + (y % Ring)) % Ring) = v
    BY <2>10, <2>12, <2>14, <2>15, <2>16, <2>17, <2>18
  <2> QED BY <2>7, <2>8, <2>9, <2>19 DEF rx, x, y
<1> QED BY <1>1 DEF PlacesAt2, Places

(* What cancels.                                                           *)
LEMMA XorMember ==
  ASSUME NEW x, NEW y, NEW z
  PROVE  x \in Xor(y, z) <=> ~(x \in y <=> x \in z)
BY DEF Xor

LEMMA XorCancels ==
  ASSUME NEW a, NEW b, NEW c, NEW d, NEW e, NEW f, NEW g
  PROVE  Xor(Xor(Xor(Xor(Xor(a, b), d), e), f), Xor(Xor(Xor(c, d), e), g))
           = Xor(Xor(Xor(a, b), c), Xor(f, g))
<1>1. \A x : x \in Xor(Xor(Xor(Xor(Xor(a, b), d), e), f), Xor(Xor(Xor(c, d), e), g))
             <=> x \in Xor(Xor(Xor(a, b), c), Xor(f, g))
  BY XorMember
<1> QED BY <1>1

LEMMA XorOpens ==
  ASSUME NEW a, NEW b, NEW c
  PROVE  /\ Xor(Xor(a, Xor(b, Xor(a, c))), c) = b
         /\ Xor(Xor(a, c), Xor(b, Xor(a, c))) = b
<1>1. \A x : x \in Xor(Xor(a, Xor(b, Xor(a, c))), c) <=> x \in b BY XorMember
<1>2. \A x : x \in Xor(Xor(a, c), Xor(b, Xor(a, c))) <=> x \in b BY XorMember
<1> QED BY <1>1, <1>2

(* The new shares open to the shuffled rows.                               *)
LEMMA RowsShuffled ==
  ASSUME Given, NEW x \in Cells
  PROVE  Both[x] = Xor(rows[x[1]][Source(x[2])], Xor(FreshFrom0(x), FreshFrom2(x)))
<1> DEFINE y == Moved(x, 1)
           z == Moved(y, 2)
           o == Moved(z, 0)
<1>1. y \in Cells /\ z \in Cells /\ o \in Cells BY CellFacts, ThreeParties
<1>2. o[1] = x[1] /\ o[2] = Source(x[2])
  BY DEF Moved, Source
<1>3. Rows0[y] = Xor(Xor(Xor(input[0][o].a, input[0][o].b), MaskFrom0(z)), MaskFrom2(y))
  BY <1>1 DEF Rows0
<1>4. Rows1[z] = Xor(input[1][o].a, MaskFrom0(z)) BY <1>1 DEF Rows1
<1>5. Both[x] = Xor(Xor(Rows0[y], FreshFrom0(x)),
                    Xor(Xor(Rows1[z], MaskFrom2(y)), FreshFrom2(x)))
  BY DEF Both, Rand1, Rand2
<1> HIDE DEF y, z
<1>6. Both[x] = Xor(Xor(Xor(input[0][o].a, input[0][o].b), input[1][o].a),
                    Xor(FreshFrom0(x), FreshFrom2(x)))
  <2> HIDE DEF o
  <2> QED BY <1>3, <1>4, <1>5, XorCancels
<1> DEFINE row == rows[o[1]][o[2]]
           x0 == BitsOf(o[2])
           x1 == BitsOf(o[1])
<1>7. /\ input[0][o] = XorShare(row, x0, x1, 0)
      /\ input[1][o] = XorShare(row, x0, x1, 1)
  BY <1>1, ThreeParties DEF Given
<1>8. input[0][o].a = x0 /\ input[0][o].b = Xor(row, Xor(x0, x1)) /\ input[1][o].a = x1
  <2>1. PrevId(0) = 2 BY DEF PrevId
  <2> HIDE DEF row, x0, x1
  <2>2. /\ XorShare(row, x0, x1, 0) = [a |-> x0, b |-> Xor(row, Xor(x0, x1))]
        /\ XorShare(row, x0, x1, 1).a = x1
    BY <2>1, ThreeParties DEF XorShare, ShareOf
  <2> QED BY <1>7, <2>2
<1> HIDE DEF x0, x1, row
<1>9. Xor(Xor(input[0][o].a, input[0][o].b), input[1][o].a) = row
  BY <1>8, XorOpens
<1> QED BY <1>2, <1>6, <1>9 DEF row
LEMMA SendsPlaces0 ==
  ASSUME position[0] = [own |-> 0, other |-> 0], RevealPerm0
  PROVE  net' = [net EXCEPT ![0][2] = Append(@, Places0)]
<1>1. \A i \in Indices : Own(0, i + 1) = stream[0][i + 1]
  BY LengthAssumption DEF Own, Indices
<1>2. Places0 = [i \in Indices |->
        (rho[0][PermA(0)[i]].a + rho[0][PermA(0)[i]].b - Own(0, i + 1)) % Ring]
  BY <1>1 DEF Places0, PermA
<1> QED BY <1>2 DEF RevealPerm0, SendTo

LEMMA SendsPlaces1 ==
  ASSUME position[1] = [own |-> 0, other |-> 0], RevealPerm1
  PROVE  net' = [net EXCEPT ![1][2] = Append(@, Places1)]
<1>1. \A i \in Indices : Other(1, i + 1) = stream[0][i + 1]
  BY LengthAssumption DEF Other, Indices, PrevId
<1>2. Places1 = [i \in Indices |-> (rho[1][PermB(1)[i]].a + Other(1, i + 1)) % Ring]
  BY <1>1 DEF Places1, PermB, PrevId
<1> QED BY <1>2 DEF RevealPerm1, SendTo

LEMMA SendsRows0 ==
  ASSUME Given, position[0] = [own |-> Length, other |-> 0], ShuffleRows0
  PROVE  /\ net' = [net EXCEPT ![0][1] = Append(@, Rows0)]
         /\ result' = [result EXCEPT ![0] = Shuffled(0)]
<1> DEFINE beta == [x \in Cells |-> Xor(input[0][x].a, input[0][x].b)]
           shuffled1 == [x \in Cells |->
             Xor(beta[<<x[1], PermA(0)[x[2]]>>], BitsOf(Own(0, Nth(x[1], x[2]))))]
           shuffled3 == [x \in Cells |->
             Xor(shuffled1[<<x[1], PermB(0)[x[2]]>>], BitsOf(Other(0, Nth(x[1], x[2]))))]
           fresh == [x \in Cells |->
             [a |-> BitsOf(Own(0, CellsDrawn + Nth(x[1], x[2]))),
              b |-> BitsOf(Other(0, CellsDrawn + Nth(x[1], x[2])))]]
<1>1. \A x \in Cells : /\ BitsOf(Own(0, Nth(x[1], x[2]))) = MaskFrom0(x)
                       /\ BitsOf(Other(0, Nth(x[1], x[2]))) = MaskFrom2(x)
  BY Counts DEF Own, Other, PrevId, MaskFrom0, MaskFrom2
<1>2. \A x \in Cells : /\ BitsOf(Own(0, CellsDrawn + Nth(x[1], x[2]))) = FreshFrom0(x)
                       /\ BitsOf(Other(0, CellsDrawn + Nth(x[1], x[2]))) = FreshFrom2(x)
  BY Counts, LengthAssumption DEF Own, Other, PrevId, FreshFrom0, FreshFrom2
<1>3. \A x : <<x[1], PermA(0)[x[2]]>> = Moved(x, 0) /\ <<x[1], PermB(0)[x[2]]>> = Moved(x, 2)
  BY DEF Moved, PermA, PermB, PrevId
<1>4. \A x \in Cells, p \in Parties : Moved(x, p) \in Cells BY CellFacts
<1>5. \A x \in Cells : shuffled3[x] = Rows0[x]
  <2> TAKE x \in Cells
  <2> DEFINE y == Moved(x, 2)
  <2>1. y \in Cells /\ Moved(y, 0) \in Cells BY <1>4, ThreeParties
  <2>2. shuffled3[x] = Xor(shuffled1[y], MaskFrom2(x)) BY <1>1, <1>3
  <2>3. shuffled1[y] = Xor(beta[Moved(y, 0)], MaskFrom0(y)) BY <1>1, <1>3, <2>1
  <2>4. beta[Moved(y, 0)] = Xor(input[0][Moved(y, 0)].a, input[0][Moved(y, 0)].b) BY <2>1
  <2>5. Rows0[x] = Xor(Xor(Xor(input[0][Moved(y, 0)].a, input[0][Moved(y, 0)].b), MaskFrom0(y)),
                       MaskFrom2(x))
    BY DEF Rows0
  <2> HIDE DEF y, beta, shuffled1, shuffled3
  <2> QED BY <2>2, <2>3, <2>4, <2>5
<1>6. shuffled3 = Rows0 BY <1>5 DEF Rows0
<1>7. fresh = Shuffled(0) BY <1>2 DEF Shuffled
<1> QED BY <1>6, <1>7 DEF ShuffleRows0, SendTo
LEMMA SendsRows1 ==
  ASSUME Given, position[1] = [own |-> 0, other |-> Length], ShuffleRows1Send
  PROVE  net' = [net EXCEPT ![1][2] = Append(@, Rows1)]
<1>1. \A x \in Cells : BitsOf(Other(1, Nth(x[1], x[2]))) = MaskFrom0(x)
  BY Counts, LengthAssumption DEF Other, PrevId, MaskFrom0
<1>2. \A x : <<x[1], PermB(1)[x[2]]>> = Moved(x, 0) BY DEF Moved, PermB, PrevId
<1>3. [x \in Cells |->
        Xor(input[1][<<x[1], PermB(1)[x[2]]>>].a, BitsOf(Other(1, Nth(x[1], x[2]))))] = Rows1
  BY <1>1, <1>2 DEF Rows1
<1> QED BY <1>3 DEF ShuffleRows1Send, SendTo

LEMMA SendsRand1 ==
  ASSUME Given, position[1] = [own |-> 0, other |-> Length + CellsDrawn],
         ShuffleRows1, Arrived(0, 1) = Rows0
  PROVE  /\ net' = [net EXCEPT ![0][1] = Tail(@), ![1][2] = Append(@, Rand1)]
         /\ local' = [local EXCEPT ![1] = Rand1]
        
        /\ result' = [result EXCEPT ![1] = [x \in Cells |-> [a |-> {}, b |-> FreshFrom0(x)]]]
<1> DEFINE fresh == [x \in Cells |-> BitsOf(Other(1, Nth(x[1], x[2])))]
           rand == [x \in Cells |-> Xor(Arrived(0, 1)[<<x[1], PermA(1)[x[2]]>>], fresh[x])]
<1>1. \A x \in Cells : fresh[x] = FreshFrom0(x)
  BY Counts, LengthAssumption DEF Other, PrevId, FreshFrom0
<1>2. \A x : <<x[1], PermA(1)[x[2]]>> = Moved(x, 1) BY DEF Moved, PermA
<1>3. rand = Rand1 BY <1>1, <1>2 DEF Rand1
<1>4. [x \in Cells |-> [a |-> {}, b |-> fresh[x]]]
        = [x \in Cells |-> [a |-> {}, b |-> FreshFrom0(x)]]
  BY <1>1
<1> QED BY <1>3, <1>4 DEF ShuffleRows1

LEMMA SendsRand2 ==
  ASSUME Given, position[2] = [own |-> 0, other |-> 0],
         ShuffleRows2, Arrived(1, 2) = Rows1
  PROVE  /\ net' = [net EXCEPT ![1][2] = Tail(@), ![2][1] = Append(@, Rand2)]
         /\ local' = [local EXCEPT ![2] = Rand2]
        
        /\ result' = [result EXCEPT ![2] = [x \in Cells |-> [a |-> FreshFrom2(x), b |-> {}]]]
<1> DEFINE gamma == Arrived(1, 2)
           shuffled1 == [x \in Cells |->
             Xor(gamma[<<x[1], PermA(2)[x[2]]>>], BitsOf(Own(2, Nth(x[1], x[2]))))]
           fresh == [x \in Cells |-> BitsOf(Own(2, CellsDrawn + Nth(x[1], x[2])))]
           rand == [x \in Cells |-> Xor(shuffled1[<<x[1], PermB(2)[x[2]]>>], fresh[x])]
<1>1. \A x \in Cells : fresh[x] = FreshFrom2(x)
  BY Counts DEF Own, FreshFrom2
<1>2. \A x : <<x[1], PermA(2)[x[2]]>> = Moved(x, 2) /\ <<x[1], PermB(2)[x[2]]>> = Moved(x, 1)
  BY DEF Moved, PermA, PermB, PrevId
<1>3. \A x \in Cells : BitsOf(Own(2, Nth(x[1], x[2]))) = MaskFrom2(x)
  BY Counts DEF Own, MaskFrom2
<1>4. \A x \in Cells : rand[x] = Rand2[x]
  <2> TAKE x \in Cells
  <2> DEFINE y == Moved(x, 1)
  <2>1. y \in Cells BY CellFacts, ThreeParties
  <2>2. rand[x] = Xor(shuffled1[y], FreshFrom2(x)) BY <1>1, <1>2
  <2>3. shuffled1[y] = Xor(Rows1[Moved(y, 2)], MaskFrom2(y)) BY <1>2, <1>3, <2>1
  <2>4. Rand2[x] = Xor(Xor(Rows1[Moved(y, 2)], MaskFrom2(y)), FreshFrom2(x)) BY DEF Rand2
  <2> HIDE DEF y, shuffled1, rand
  <2> QED BY <2>2, <2>3, <2>4
<1>5. rand = Rand2 BY <1>4 DEF Rand2
<1>6. [x \in Cells |-> [a |-> fresh[x], b |-> {}]]
        = [x \in Cells |-> [a |-> FreshFrom2(x), b |-> {}]]
  BY <1>1
<1> QED BY <1>5, <1>6 DEF ShuffleRows2
LEMMA Exchanged1 ==
  ASSUME Exchange(1, 2), Arrived(2, 1) = Rand2, local[1] = Rand1,
         result[1] = [x \in Cells |-> [a |-> {}, b |-> FreshFrom0(x)]]
  PROVE  result' = [result EXCEPT ![1] = Shuffled(1)]
<1> DEFINE both == [x \in Cells |-> Xor(Arrived(2, 1)[x], local[1][x])]
           new == [x \in Cells |-> [result[1][x] EXCEPT !.a = both[x]]]
<1>1. \A x \in Cells : both[x] = Both[x] BY DEF Both, Xor
<1>2. \A x \in Cells : new[x] = [a |-> Both[x], b |-> FreshFrom0(x)] BY <1>1
<1>3. new = Shuffled(1) BY <1>2 DEF Shuffled
<1> QED BY <1>3 DEF Exchange

LEMMA Exchanged2 ==
  ASSUME Exchange(2, 1), Arrived(1, 2) = Rand1, local[2] = Rand2,
         result[2] = [x \in Cells |-> [a |-> FreshFrom2(x), b |-> {}]]
  PROVE  result' = [result EXCEPT ![2] = Shuffled(2)]
<1> DEFINE both == [x \in Cells |-> Xor(Arrived(1, 2)[x], local[2][x])]
           new == [x \in Cells |-> [result[2][x] EXCEPT !.b = both[x]]]
<1>1. \A x \in Cells : both[x] = Both[x] BY DEF Both
<1>2. \A x \in Cells : new[x] = [a |-> FreshFrom2(x), b |-> Both[x]] BY <1>1
<1>3. new = Shuffled(2) BY <1>2 DEF Shuffled
<1>4. result' = [result EXCEPT ![2] = [x \in Cells |->
        IF 2 = 1 THEN [@[x] EXCEPT !.a = both[x]] ELSE [@[x] EXCEPT !.b = both[x]]]]
  BY DEF Exchange
<1>5. 2 # 1 OBVIOUS
<1>6. result' = [result EXCEPT ![2] = new] BY <1>4, <1>5
<1> HIDE DEF new
<1> QED BY <1>3, <1>6

LEMMA Placed ==
  ASSUME NEW p \in Parties, Place(p), opened[p] = Places, result[p] = Shuffled(p)
  PROVE  result' = [result EXCEPT ![p] = Sorted(p)]
<1>1. result' = [result EXCEPT ![p] = [x \in Cells |->
        LET i == CHOOSE i \in Indices : opened[p][i] - 1 = x[2] IN @[<<x[1], i>>]]]
  BY DEF Place
<1>2. Sorted(p) = [x \in Cells |->
        LET i == CHOOSE i \in Indices : opened[p][i] - 1 = x[2] IN result[p][<<x[1], i>>]]
  BY DEF Sorted
<1> QED BY <1>1, <1>2
---------------------------------------------------------------------------
(* The steps.                                                              *)
LEMMA RevealPerm0Step ==
  ASSUME IInv, RevealPerm0
  PROVE  IInv'
<1>1. Given /\ Labels /\ Positions /\ Messages /\ Kept BY DEF IInv
<1>2. UNCHANGED given BY DEF RevealPerm0
<1>3. Goto(0, "opened") BY DEF RevealPerm0
<1>4. pc'[0] = "opened" /\ pc'[1] = pc[1] /\ pc'[2] = pc[2]
  BY <1>1, <1>3, Goes, ThreeParties
<1>5. pc[0] = "reveal"
  BY DEF RevealPerm0
<1>6. pc[2] = "reveal"
  BY <1>1, <1>5 DEF Labels
<1>7. pc[1] \in {"reveal", "opened"}
  BY <1>1, <1>6 DEF Labels
<1>8. Labels'
  <2>1. pc' \in [Parties -> AllLabels] BY <1>1, <1>3, GoesTyped, ThreeParties DEF AllLabels
  <2> QED BY <2>1, <1>1, <1>4, <1>5, <1>6, <1>7 DEF Labels
<1>9. Positions'
  <2>1. Drew(0, Length, 0) BY DEF RevealPerm0
  <2>2. PositionOf(0) = [own |-> 0, other |-> 0] BY <1>5, <1>6, <1>7 DEF PositionOf
  <2>3. PositionOf(0)' = [own |-> Length, other |-> 0] BY <1>4 DEF PositionOf
  <2>4. PositionOf(0)' = [own   |-> PositionOf(0).own + (Length),
                         other |-> PositionOf(0).other + (0)]
    BY <2>2, <2>3, LengthAssumption, Counts
  <2> QED BY <2>1, <2>4, <1>1, <1>2, <1>3, PositionsDrawn, ThreeParties
<1>10. position[0] = [own |-> 0, other |-> 0]
  BY <1>1, <1>5, <1>6, <1>7, ThreeParties DEF Positions, PositionOf
<1>11. net[0][2] = <<>>
  BY <1>1, <1>5, <1>6, <1>7, ThreeParties DEF Messages, NetOf, Net02
<1>12. net' = [net EXCEPT ![0][2] = <<Places0>>]
  BY <1>10, <1>11, SendsPlaces0, Queues
<1>13. Messages'
  <2>1. NetOf(0, 2)' = <<Places0>>
    BY <1>1, <1>2, <1>4, <1>5, <1>6, <1>7, GivenStays DEF NetOf, Net02
  <2>2. net' = [net EXCEPT ![0][2] = NetOf(0, 2)']
    BY <2>1, <1>10, <1>11, <1>12
  <2>3. Net01' = Net01 /\ Net12' = Net12 /\ Net20' = Net20 /\ Net21' = Net21
    BY <1>1, <1>2, <1>4, <1>5, <1>6, <1>7, GivenStays DEF Net01, Net12, Net20, Net21
  <2>4. \A r, s \in Parties : ~(r = 0 /\ s = 2)
          => NetOf(r, s)' = NetOf(r, s)
    BY <2>3, ThreeParties DEF NetOf
  <2>5. IsTable(net) /\ \A r, s \in Parties : net[r][s] = NetOf(r, s) BY <1>1 DEF Messages
  <2>6. net' = Put(net, 0, 2, NetOf(0, 2)')
    BY <2>2 DEF Put
  <2>7. IsTable(net') /\ \A r, s \in Parties :
          net'[r][s] = IF r = 0 /\ s = 2 THEN NetOf(0, 2)' ELSE net[r][s]
    BY <2>5, <2>6, Replaced, ThreeParties
  <2> QED BY <2>4, <2>5, <2>7 DEF Messages
<1>14. Kept'
  <2>1. UNCHANGED opened BY DEF RevealPerm0
  <2>2. OpenedOf(0)' = OpenedOf(0)
    BY <1>1, <1>2, <1>4, <1>5, <1>6, <1>7, GivenStays, ThreeParties DEF OpenedOf
  <2>3. UNCHANGED local BY DEF RevealPerm0
  <2>4. LocalOf(0)' = LocalOf(0)
    BY <1>1, <1>2, <1>4, <1>5, <1>6, <1>7, GivenStays, ThreeParties DEF LocalOf
  <2>5. UNCHANGED result BY DEF RevealPerm0
  <2>6. ResultOf(0)' = ResultOf(0)
    BY <1>1, <1>2, <1>4, <1>5, <1>6, <1>7, GivenStays, ThreeParties DEF ResultOf
  <2> QED BY <2>1, <2>2, <2>3, <2>4, <2>5, <2>6, <1>1, <1>2, <1>3, KeptFollows, ThreeParties
<1> QED BY <1>1, <1>2, <1>8, <1>9, <1>13, <1>14, GivenStays DEF IInv

LEMMA RevealPerm1Step ==
  ASSUME IInv, RevealPerm1
  PROVE  IInv'
<1>1. Given /\ Labels /\ Positions /\ Messages /\ Kept BY DEF IInv
<1>2. UNCHANGED given BY DEF RevealPerm1
<1>3. Goto(1, "opened") BY DEF RevealPerm1
<1>4. pc'[1] = "opened" /\ pc'[0] = pc[0] /\ pc'[2] = pc[2]
  BY <1>1, <1>3, Goes, ThreeParties
<1>5. pc[1] = "reveal"
  BY DEF RevealPerm1
<1>6. pc[2] = "reveal"
  BY <1>1, <1>5 DEF Labels
<1>7. pc[0] \in {"reveal", "opened"}
  BY <1>1, <1>6 DEF Labels
<1>8. Labels'
  <2>1. pc' \in [Parties -> AllLabels] BY <1>1, <1>3, GoesTyped, ThreeParties DEF AllLabels
  <2> QED BY <2>1, <1>1, <1>4, <1>5, <1>6, <1>7 DEF Labels
<1>9. Positions'
  <2>1. Drew(1, 0, Length) BY DEF RevealPerm1
  <2>2. PositionOf(1) = [own |-> 0, other |-> 0] BY <1>5, <1>6, <1>7 DEF PositionOf
  <2>3. PositionOf(1)' = [own |-> 0, other |-> Length] BY <1>4 DEF PositionOf
  <2>4. PositionOf(1)' = [own   |-> PositionOf(1).own + (0),
                         other |-> PositionOf(1).other + (Length)]
    BY <2>2, <2>3, LengthAssumption, Counts
  <2> QED BY <2>1, <2>4, <1>1, <1>2, <1>3, PositionsDrawn, ThreeParties
<1>10. position[1] = [own |-> 0, other |-> 0]
  BY <1>1, <1>5, <1>6, <1>7, ThreeParties DEF Positions, PositionOf
<1>11. net[1][2] = <<>>
  BY <1>1, <1>5, <1>6, <1>7, ThreeParties DEF Messages, NetOf, Net12
<1>12. net' = [net EXCEPT ![1][2] = <<Places1>>]
  BY <1>10, <1>11, SendsPlaces1, Queues
<1>13. Messages'
  <2>1. NetOf(1, 2)' = <<Places1>>
    BY <1>1, <1>2, <1>4, <1>5, <1>6, <1>7, GivenStays DEF NetOf, Net12
  <2>2. net' = [net EXCEPT ![1][2] = NetOf(1, 2)']
    BY <2>1, <1>10, <1>11, <1>12
  <2>3. Net01' = Net01 /\ Net02' = Net02 /\ Net20' = Net20 /\ Net21' = Net21
    BY <1>1, <1>2, <1>4, <1>5, <1>6, <1>7, GivenStays DEF Net01, Net02, Net20, Net21
  <2>4. \A r, s \in Parties : ~(r = 1 /\ s = 2)
          => NetOf(r, s)' = NetOf(r, s)
    BY <2>3, ThreeParties DEF NetOf
  <2>5. IsTable(net) /\ \A r, s \in Parties : net[r][s] = NetOf(r, s) BY <1>1 DEF Messages
  <2>6. net' = Put(net, 1, 2, NetOf(1, 2)')
    BY <2>2 DEF Put
  <2>7. IsTable(net') /\ \A r, s \in Parties :
          net'[r][s] = IF r = 1 /\ s = 2 THEN NetOf(1, 2)' ELSE net[r][s]
    BY <2>5, <2>6, Replaced, ThreeParties
  <2> QED BY <2>4, <2>5, <2>7 DEF Messages
<1>14. Kept'
  <2>1. UNCHANGED opened BY DEF RevealPerm1
  <2>2. OpenedOf(1)' = OpenedOf(1)
    BY <1>1, <1>2, <1>4, <1>5, <1>6, <1>7, GivenStays, ThreeParties DEF OpenedOf
  <2>3. UNCHANGED local BY DEF RevealPerm1
  <2>4. LocalOf(1)' = LocalOf(1)
    BY <1>1, <1>2, <1>4, <1>5, <1>6, <1>7, GivenStays, ThreeParties DEF LocalOf
  <2>5. UNCHANGED result BY DEF RevealPerm1
  <2>6. ResultOf(1)' = ResultOf(1)
    BY <1>1, <1>2, <1>4, <1>5, <1>6, <1>7, GivenStays, ThreeParties DEF ResultOf
  <2> QED BY <2>1, <2>2, <2>3, <2>4, <2>5, <2>6, <1>1, <1>2, <1>3, KeptFollows, ThreeParties
<1> QED BY <1>1, <1>2, <1>8, <1>9, <1>13, <1>14, GivenStays DEF IInv

LEMMA RevealPerm2Step ==
  ASSUME IInv, RevealPerm2
  PROVE  IInv'
<1>1. Given /\ Labels /\ Positions /\ Messages /\ Kept BY DEF IInv
<1>2. UNCHANGED given BY DEF RevealPerm2
<1>3. Goto(2, "shuffle") BY DEF RevealPerm2
<1>4. pc'[2] = "shuffle" /\ pc'[0] = pc[0] /\ pc'[1] = pc[1]
  BY <1>1, <1>3, Goes, ThreeParties
<1>5. pc[2] = "reveal"
  BY DEF RevealPerm2
<1>6. pc[0] = "opened"
  <2>1. NetOf(0, 2) # <<>> BY <1>1, ThreeParties DEF RevealPerm2, Messages
  <2>2. NetOf(0, 2) = Net02 BY DEF NetOf
  <2>3. pc[0] # "reveal" BY <2>1, <2>2, <1>1, <1>5 DEF Net02
  <2> QED BY <2>3, <1>1, <1>5 DEF Labels
<1>7. pc[1] = "opened"
  <2>1. NetOf(1, 2) # <<>> BY <1>1, ThreeParties DEF RevealPerm2, Messages
  <2>2. NetOf(1, 2) = Net12 BY DEF NetOf
  <2>3. pc[1] = "opened" BY <2>1, <2>2, <1>1, <1>5 DEF Net12
  <2> QED BY <2>3, <1>1, <1>5 DEF Labels
<1>8. Labels'
  <2>1. pc' \in [Parties -> AllLabels] BY <1>1, <1>3, GoesTyped, ThreeParties DEF AllLabels
  <2> QED BY <2>1, <1>1, <1>4, <1>5, <1>6, <1>7 DEF Labels
<1>9. Positions'
  <2>1. PositionOf(2)' = PositionOf(2) BY <1>4, <1>5, <1>6, <1>7 DEF PositionOf
  <2> QED BY <2>1, <1>1, <1>2, <1>3, PositionsStay, ThreeParties DEF RevealPerm2
<1>10. net[0][2] = <<Places0>>
  <2>1. NetOf(0, 2) = <<Places0>> BY <1>5, <1>6, <1>7 DEF NetOf, Net02
  <2> QED BY <2>1, <1>1, ThreeParties DEF Messages
<1>11. net[1][2] = <<Places1>>
  <2>1. NetOf(1, 2) = <<Places1>> BY <1>5, <1>6, <1>7 DEF NetOf, Net12
  <2> QED BY <2>1, <1>1, ThreeParties DEF Messages
<1>12. net[2][0] = <<>>
  <2>1. NetOf(2, 0) = <<>> BY <1>5, <1>6, <1>7 DEF NetOf, Net20
  <2> QED BY <2>1, <1>1, ThreeParties DEF Messages
<1>13. net[2][1] = <<>>
  <2>1. NetOf(2, 1) = <<>> BY <1>5, <1>6, <1>7 DEF NetOf, Net21
  <2> QED BY <2>1, <1>1, ThreeParties DEF Messages
<1>14. PlacesAt2(Arrived(0, 2), Arrived(1, 2)) = Places
  BY <1>1, <1>10, <1>11, PlacesOpened, Queues DEF Arrived
<1>15. net' = [net EXCEPT ![0][2] = Tail(net[0][2]), ![1][2] = Tail(net[1][2]),
                             ![2][0] = Append(net[2][0], Places),
                             ![2][1] = Append(net[2][1], Places)]
  BY <1>14 DEF RevealPerm2
<1>16. Tail(net[0][2]) = <<>> /\ Tail(net[1][2]) = <<>>
       /\ Append(net[2][0], Places) = <<Places>> /\ Append(net[2][1], Places) = <<Places>>
  BY <1>10, <1>11, <1>12, <1>13, Queues
<1>17. Messages'
  <2>1. NetOf(0, 2)' = <<>>
    BY <1>1, <1>2, <1>4, <1>5, <1>6, <1>7, GivenStays DEF NetOf, Net02
  <2>2. NetOf(1, 2)' = <<>>
    BY <1>1, <1>2, <1>4, <1>5, <1>6, <1>7, GivenStays DEF NetOf, Net12
  <2>3. NetOf(2, 0)' = <<Places>>
    BY <1>1, <1>2, <1>4, <1>5, <1>6, <1>7, GivenStays DEF NetOf, Net20
  <2>4. NetOf(2, 1)' = <<Places>>
    BY <1>1, <1>2, <1>4, <1>5, <1>6, <1>7, GivenStays DEF NetOf, Net21
  <2>5. net' = [net EXCEPT ![0][2] = NetOf(0, 2)', ![1][2] = NetOf(1, 2)',
                            ![2][0] = NetOf(2, 0)', ![2][1] = NetOf(2, 1)']
    BY <2>1, <2>2, <2>3, <2>4, <1>10, <1>11, <1>12, <1>13, <1>14, <1>15, <1>16
  <2>6. Net01' = Net01
    BY <1>1, <1>2, <1>4, <1>5, <1>6, <1>7, GivenStays DEF Net01
  <2>7. \A r, s \in Parties :
          ~(r = 0 /\ s = 2) /\ ~(r = 1 /\ s = 2) /\ ~(r = 2 /\ s = 0) /\ ~(r = 2 /\ s = 1)
          => NetOf(r, s)' = NetOf(r, s)
    BY <2>6, ThreeParties DEF NetOf
  <2>8. IsTable(net) /\ \A r, s \in Parties : net[r][s] = NetOf(r, s) BY <1>1 DEF Messages
  <2>9. net' =
           Put(Put(Put(Put(net, 0, 2, NetOf(0, 2)'), 1, 2, NetOf(1, 2)'),
              2, 0, NetOf(2, 0)'), 2, 1, NetOf(2, 1)')
    BY <2>5 DEF Put
  <2>10. IsTable(net') /\ \A r, s \in Parties :
          net'[r][s] = IF r = 2 /\ s = 1 THEN NetOf(2, 1)'
                       ELSE IF r = 2 /\ s = 0 THEN NetOf(2, 0)'
                       ELSE IF r = 1 /\ s = 2 THEN NetOf(1, 2)'
                       ELSE IF r = 0 /\ s = 2 THEN NetOf(0, 2)' ELSE net[r][s]
    BY <2>8, <2>9, Replaced, ThreeParties
  <2> QED BY <2>7, <2>8, <2>10 DEF Messages
<1>18. Kept'
  <2>1. opened' = [opened EXCEPT ![2] = Places]
    BY <1>10, <1>11, <1>12, <1>13, <1>14, <1>15, <1>16 DEF RevealPerm2
  <2>2. OpenedOf(2)' = Places
    BY <1>1, <1>2, <1>4, <1>5, <1>6, <1>7, GivenStays, ThreeParties DEF OpenedOf
  <2>3. UNCHANGED local BY DEF RevealPerm2
  <2>4. LocalOf(2)' = LocalOf(2)
    BY <1>1, <1>2, <1>4, <1>5, <1>6, <1>7, GivenStays, ThreeParties DEF LocalOf
  <2>5. UNCHANGED result BY DEF RevealPerm2
  <2>6. ResultOf(2)' = ResultOf(2)
    BY <1>1, <1>2, <1>4, <1>5, <1>6, <1>7, GivenStays, ThreeParties DEF ResultOf
  <2> QED BY <2>1, <2>2, <2>3, <2>4, <2>5, <2>6, <1>1, <1>2, <1>3, KeptFollows, ThreeParties
<1> QED BY <1>1, <1>2, <1>8, <1>9, <1>17, <1>18, GivenStays DEF IInv

LEMMA Opened0Step ==
  ASSUME IInv, Opened(0)
  PROVE  IInv'
<1>1. Given /\ Labels /\ Positions /\ Messages /\ Kept BY DEF IInv
<1>2. UNCHANGED given BY DEF Opened
<1>3. Goto(0, "shuffle") BY DEF Opened
<1>4. pc'[0] = "shuffle" /\ pc'[1] = pc[1] /\ pc'[2] = pc[2]
  BY <1>1, <1>3, Goes, ThreeParties
<1>5. pc[0] = "opened"
  BY DEF Opened
<1>6. pc[2] # "reveal"
  <2>1. NetOf(2, 0) # <<>> BY <1>1, ThreeParties DEF Opened, Messages
  <2>2. NetOf(2, 0) = Net20 BY DEF NetOf
  <2>3. pc[2] # "reveal" BY <2>1, <2>2, <1>1, <1>5 DEF Net20
  <2> QED BY <2>3, <1>1, <1>5 DEF Labels
<1>7. Labels'
  <2>1. pc' \in [Parties -> AllLabels] BY <1>1, <1>3, GoesTyped, ThreeParties DEF AllLabels
  <2> QED BY <2>1, <1>1, <1>4, <1>5, <1>6 DEF Labels
<1>8. Positions'
  <2>1. PositionOf(0)' = PositionOf(0) BY <1>4, <1>5, <1>6 DEF PositionOf
  <2> QED BY <2>1, <1>1, <1>2, <1>3, PositionsStay, ThreeParties DEF Opened
<1>9. net[2][0] = <<Places>>
  <2>1. NetOf(2, 0) = <<Places>> BY <1>5, <1>6 DEF NetOf, Net20
  <2> QED BY <2>1, <1>1, ThreeParties DEF Messages
<1>10. Arrived(2, 0) = Places /\ net' = [net EXCEPT ![2][0] = <<>>]
  BY <1>9, Queues DEF Opened, Arrived
<1>11. Messages'
  <2>1. NetOf(2, 0)' = <<>>
    BY <1>1, <1>2, <1>4, <1>5, <1>6, GivenStays DEF NetOf, Net20
  <2>2. net' = [net EXCEPT ![2][0] = NetOf(2, 0)']
    BY <2>1, <1>9, <1>10
  <2>3. Net01' = Net01 /\ Net02' = Net02 /\ Net12' = Net12 /\ Net21' = Net21
    BY <1>1, <1>2, <1>4, <1>5, <1>6, GivenStays DEF Net01, Net02, Net12, Net21
  <2>4. \A r, s \in Parties : ~(r = 2 /\ s = 0)
          => NetOf(r, s)' = NetOf(r, s)
    BY <2>3, ThreeParties DEF NetOf
  <2>5. IsTable(net) /\ \A r, s \in Parties : net[r][s] = NetOf(r, s) BY <1>1 DEF Messages
  <2>6. net' = Put(net, 2, 0, NetOf(2, 0)')
    BY <2>2 DEF Put
  <2>7. IsTable(net') /\ \A r, s \in Parties :
          net'[r][s] = IF r = 2 /\ s = 0 THEN NetOf(2, 0)' ELSE net[r][s]
    BY <2>5, <2>6, Replaced, ThreeParties
  <2> QED BY <2>4, <2>5, <2>7 DEF Messages
<1>12. Kept'
  <2>1. opened' = [opened EXCEPT ![0] = Places] BY <1>9, <1>10 DEF Opened
  <2>2. OpenedOf(0)' = Places
    BY <1>1, <1>2, <1>4, <1>5, <1>6, GivenStays, ThreeParties DEF OpenedOf
  <2>3. UNCHANGED local BY DEF Opened
  <2>4. LocalOf(0)' = LocalOf(0)
    BY <1>1, <1>2, <1>4, <1>5, <1>6, GivenStays, ThreeParties DEF LocalOf
  <2>5. UNCHANGED result BY DEF Opened
  <2>6. ResultOf(0)' = ResultOf(0)
    BY <1>1, <1>2, <1>4, <1>5, <1>6, GivenStays, ThreeParties DEF ResultOf
  <2> QED BY <2>1, <2>2, <2>3, <2>4, <2>5, <2>6, <1>1, <1>2, <1>3, KeptFollows, ThreeParties
<1> QED BY <1>1, <1>2, <1>7, <1>8, <1>11, <1>12, GivenStays DEF IInv

LEMMA Opened1Step ==
  ASSUME IInv, Opened(1)
  PROVE  IInv'
<1>1. Given /\ Labels /\ Positions /\ Messages /\ Kept BY DEF IInv
<1>2. UNCHANGED given BY DEF Opened
<1>3. Goto(1, "shuffle") BY DEF Opened
<1>4. pc'[1] = "shuffle" /\ pc'[0] = pc[0] /\ pc'[2] = pc[2]
  BY <1>1, <1>3, Goes, ThreeParties
<1>5. pc[1] = "opened"
  BY DEF Opened
<1>6. pc[2] = "shuffle"
  <2>1. NetOf(2, 1) # <<>> BY <1>1, ThreeParties DEF Opened, Messages
  <2>2. NetOf(2, 1) = Net21 BY DEF NetOf
  <2>3. pc[2] # "reveal" BY <2>1, <2>2, <1>1, <1>5 DEF Net21
  <2> QED BY <2>3, <1>1, <1>5 DEF Labels
<1>7. Labels'
  <2>1. pc' \in [Parties -> AllLabels] BY <1>1, <1>3, GoesTyped, ThreeParties DEF AllLabels
  <2> QED BY <2>1, <1>1, <1>4, <1>5, <1>6 DEF Labels
<1>8. Positions'
  <2>1. PositionOf(1)' = PositionOf(1) BY <1>4, <1>5, <1>6 DEF PositionOf
  <2> QED BY <2>1, <1>1, <1>2, <1>3, PositionsStay, ThreeParties DEF Opened
<1>9. net[2][1] = <<Places>>
  <2>1. NetOf(2, 1) = <<Places>> BY <1>5, <1>6 DEF NetOf, Net21
  <2> QED BY <2>1, <1>1, ThreeParties DEF Messages
<1>10. Arrived(2, 1) = Places /\ net' = [net EXCEPT ![2][1] = <<>>]
  BY <1>9, Queues DEF Opened, Arrived
<1>11. Messages'
  <2>1. NetOf(2, 1)' = <<>>
    BY <1>1, <1>2, <1>4, <1>5, <1>6, GivenStays DEF NetOf, Net21
  <2>2. net' = [net EXCEPT ![2][1] = NetOf(2, 1)']
    BY <2>1, <1>9, <1>10
  <2>3. Net01' = Net01 /\ Net02' = Net02 /\ Net12' = Net12 /\ Net20' = Net20
    BY <1>1, <1>2, <1>4, <1>5, <1>6, GivenStays DEF Net01, Net02, Net12, Net20
  <2>4. \A r, s \in Parties : ~(r = 2 /\ s = 1)
          => NetOf(r, s)' = NetOf(r, s)
    BY <2>3, ThreeParties DEF NetOf
  <2>5. IsTable(net) /\ \A r, s \in Parties : net[r][s] = NetOf(r, s) BY <1>1 DEF Messages
  <2>6. net' = Put(net, 2, 1, NetOf(2, 1)')
    BY <2>2 DEF Put
  <2>7. IsTable(net') /\ \A r, s \in Parties :
          net'[r][s] = IF r = 2 /\ s = 1 THEN NetOf(2, 1)' ELSE net[r][s]
    BY <2>5, <2>6, Replaced, ThreeParties
  <2> QED BY <2>4, <2>5, <2>7 DEF Messages
<1>12. Kept'
  <2>1. opened' = [opened EXCEPT ![1] = Places] BY <1>9, <1>10 DEF Opened
  <2>2. OpenedOf(1)' = Places
    BY <1>1, <1>2, <1>4, <1>5, <1>6, GivenStays, ThreeParties DEF OpenedOf
  <2>3. UNCHANGED local BY DEF Opened
  <2>4. LocalOf(1)' = LocalOf(1)
    BY <1>1, <1>2, <1>4, <1>5, <1>6, GivenStays, ThreeParties DEF LocalOf
  <2>5. UNCHANGED result BY DEF Opened
  <2>6. ResultOf(1)' = ResultOf(1)
    BY <1>1, <1>2, <1>4, <1>5, <1>6, GivenStays, ThreeParties DEF ResultOf
  <2> QED BY <2>1, <2>2, <2>3, <2>4, <2>5, <2>6, <1>1, <1>2, <1>3, KeptFollows, ThreeParties
<1> QED BY <1>1, <1>2, <1>7, <1>8, <1>11, <1>12, GivenStays DEF IInv

LEMMA ShuffleRows0Step ==
  ASSUME IInv, ShuffleRows0
  PROVE  IInv'
<1>1. Given /\ Labels /\ Positions /\ Messages /\ Kept BY DEF IInv
<1>2. UNCHANGED given BY DEF ShuffleRows0
<1>3. Goto(0, "place") BY DEF ShuffleRows0
<1>4. pc'[0] = "place" /\ pc'[1] = pc[1] /\ pc'[2] = pc[2]
  BY <1>1, <1>3, Goes, ThreeParties
<1>5. pc[0] = "shuffle"
  BY DEF ShuffleRows0
<1>6. pc[2] # "reveal"
  BY <1>1, <1>5 DEF Labels
<1>7. pc[1] \notin {"exchange", "place", "done"}
  BY <1>1, <1>5 DEF Labels
<1>8. Labels'
  <2>1. pc' \in [Parties -> AllLabels] BY <1>1, <1>3, GoesTyped, ThreeParties DEF AllLabels
  <2> QED BY <2>1, <1>1, <1>4, <1>5, <1>6, <1>7 DEF Labels
<1>9. Positions'
  <2>1. Drew(0, 2 * CellsDrawn, 2 * CellsDrawn) BY DEF ShuffleRows0
  <2>2. PositionOf(0) = [own |-> Length, other |-> 0] BY <1>5, <1>6, <1>7 DEF PositionOf
  <2>3. PositionOf(0)' = [own |-> Length + (2 * CellsDrawn), other |-> 2 * CellsDrawn]
    BY <1>4 DEF PositionOf
  <2>4. PositionOf(0)' = [own   |-> PositionOf(0).own + (2 * CellsDrawn),
                         other |-> PositionOf(0).other + (2 * CellsDrawn)]
    BY <2>2, <2>3, LengthAssumption, Counts
  <2> QED BY <2>1, <2>4, <1>1, <1>2, <1>3, PositionsDrawn, ThreeParties
<1>10. position[0] = [own |-> Length, other |-> 0]
  <2>1. PositionOf(0) = [own |-> Length, other |-> 0] BY <1>5, <1>6, <1>7 DEF PositionOf
  <2> QED BY <2>1, <1>1, ThreeParties DEF Positions
<1>11. net[0][1] = <<>>
  <2>1. NetOf(0, 1) = <<>> BY <1>5, <1>6, <1>7 DEF NetOf, Net01
  <2> QED BY <2>1, <1>1, ThreeParties DEF Messages
<1>12. net' = [net EXCEPT ![0][1] = <<Rows0>>] /\ result' = [result EXCEPT ![0] = Shuffled(0)]
  BY <1>1, <1>10, <1>11, SendsRows0, Queues
<1>13. Messages'
  <2>1. NetOf(0, 1)' = <<Rows0>>
    BY <1>1, <1>2, <1>4, <1>5, <1>6, <1>7, GivenStays DEF NetOf, Net01
  <2>2. net' = [net EXCEPT ![0][1] = NetOf(0, 1)']
    BY <2>1, <1>10, <1>11, <1>12
  <2>3. Net02' = Net02 /\ Net12' = Net12 /\ Net20' = Net20 /\ Net21' = Net21
    BY <1>1, <1>2, <1>4, <1>5, <1>6, <1>7, GivenStays DEF Net02, Net12, Net20, Net21
  <2>4. \A r, s \in Parties : ~(r = 0 /\ s = 1)
          => NetOf(r, s)' = NetOf(r, s)
    BY <2>3, ThreeParties DEF NetOf
  <2>5. IsTable(net) /\ \A r, s \in Parties : net[r][s] = NetOf(r, s) BY <1>1 DEF Messages
  <2>6. net' = Put(net, 0, 1, NetOf(0, 1)')
    BY <2>2 DEF Put
  <2>7. IsTable(net') /\ \A r, s \in Parties :
          net'[r][s] = IF r = 0 /\ s = 1 THEN NetOf(0, 1)' ELSE net[r][s]
    BY <2>5, <2>6, Replaced, ThreeParties
  <2> QED BY <2>4, <2>5, <2>7 DEF Messages
<1>14. Kept'
  <2>1. UNCHANGED opened BY DEF ShuffleRows0
  <2>2. OpenedOf(0)' = OpenedOf(0)
    BY <1>1, <1>2, <1>4, <1>5, <1>6, <1>7, GivenStays, ThreeParties DEF OpenedOf
  <2>3. UNCHANGED local BY DEF ShuffleRows0
  <2>4. LocalOf(0)' = LocalOf(0)
    BY <1>1, <1>2, <1>4, <1>5, <1>6, <1>7, GivenStays, ThreeParties DEF LocalOf
  <2>5. result' = [result EXCEPT ![0] = Shuffled(0)] BY <1>10, <1>11, <1>12 DEF ShuffleRows0
  <2>6. ResultOf(0)' = Shuffled(0)
    BY <1>1, <1>2, <1>4, <1>5, <1>6, <1>7, GivenStays, ThreeParties DEF ResultOf
  <2> QED BY <2>1, <2>2, <2>3, <2>4, <2>5, <2>6, <1>1, <1>2, <1>3, KeptFollows, ThreeParties
<1> QED BY <1>1, <1>2, <1>8, <1>9, <1>13, <1>14, GivenStays DEF IInv

LEMMA ShuffleRows1SendStep ==
  ASSUME IInv, ShuffleRows1Send
  PROVE  IInv'
<1>1. Given /\ Labels /\ Positions /\ Messages /\ Kept BY DEF IInv
<1>2. UNCHANGED given BY DEF ShuffleRows1Send
<1>3. Goto(1, "reshare") BY DEF ShuffleRows1Send
<1>4. pc'[1] = "reshare" /\ pc'[0] = pc[0] /\ pc'[2] = pc[2]
  BY <1>1, <1>3, Goes, ThreeParties
<1>5. pc[1] = "shuffle"
  BY DEF ShuffleRows1Send
<1>6. pc[2] = "shuffle"
  BY <1>1, <1>5 DEF Labels
<1>7. Labels'
  <2>1. pc' \in [Parties -> AllLabels] BY <1>1, <1>3, GoesTyped, ThreeParties DEF AllLabels
  <2> QED BY <2>1, <1>1, <1>4, <1>5, <1>6 DEF Labels
<1>8. Positions'
  <2>1. Drew(1, 0, CellsDrawn) BY DEF ShuffleRows1Send
  <2>2. PositionOf(1) = [own |-> 0, other |-> Length] BY <1>5, <1>6 DEF PositionOf
  <2>3. PositionOf(1)' = [own |-> 0, other |-> Length + CellsDrawn] BY <1>4 DEF PositionOf
  <2>4. PositionOf(1)' = [own   |-> PositionOf(1).own + (0),
                         other |-> PositionOf(1).other + (CellsDrawn)]
    BY <2>2, <2>3, LengthAssumption, Counts
  <2> QED BY <2>1, <2>4, <1>1, <1>2, <1>3, PositionsDrawn, ThreeParties
<1>9. position[1] = [own |-> 0, other |-> Length]
  <2>1. PositionOf(1) = [own |-> 0, other |-> Length] BY <1>5, <1>6 DEF PositionOf
  <2> QED BY <2>1, <1>1, ThreeParties DEF Positions
<1>10. net[1][2] = <<>>
  <2>1. NetOf(1, 2) = <<>> BY <1>5, <1>6 DEF NetOf, Net12
  <2> QED BY <2>1, <1>1, ThreeParties DEF Messages
<1>11. net' = [net EXCEPT ![1][2] = <<Rows1>>]
  BY <1>1, <1>9, <1>10, SendsRows1, Queues
<1>12. Messages'
  <2>1. NetOf(1, 2)' = <<Rows1>>
    BY <1>1, <1>2, <1>4, <1>5, <1>6, GivenStays DEF NetOf, Net12
  <2>2. net' = [net EXCEPT ![1][2] = NetOf(1, 2)']
    BY <2>1, <1>9, <1>10, <1>11
  <2>3. Net01' = Net01 /\ Net02' = Net02 /\ Net20' = Net20 /\ Net21' = Net21
    BY <1>1, <1>2, <1>4, <1>5, <1>6, GivenStays DEF Net01, Net02, Net20, Net21
  <2>4. \A r, s \in Parties : ~(r = 1 /\ s = 2)
          => NetOf(r, s)' = NetOf(r, s)
    BY <2>3, ThreeParties DEF NetOf
  <2>5. IsTable(net) /\ \A r, s \in Parties : net[r][s] = NetOf(r, s) BY <1>1 DEF Messages
  <2>6. net' = Put(net, 1, 2, NetOf(1, 2)')
    BY <2>2 DEF Put
  <2>7. IsTable(net') /\ \A r, s \in Parties :
          net'[r][s] = IF r = 1 /\ s = 2 THEN NetOf(1, 2)' ELSE net[r][s]
    BY <2>5, <2>6, Replaced, ThreeParties
  <2> QED BY <2>4, <2>5, <2>7 DEF Messages
<1>13. Kept'
  <2>1. UNCHANGED opened BY DEF ShuffleRows1Send
  <2>2. OpenedOf(1)' = OpenedOf(1)
    BY <1>1, <1>2, <1>4, <1>5, <1>6, GivenStays, ThreeParties DEF OpenedOf
  <2>3. UNCHANGED local BY DEF ShuffleRows1Send
  <2>4. LocalOf(1)' = LocalOf(1)
    BY <1>1, <1>2, <1>4, <1>5, <1>6, GivenStays, ThreeParties DEF LocalOf
  <2>5. UNCHANGED result BY DEF ShuffleRows1Send
  <2>6. ResultOf(1)' = ResultOf(1)
    BY <1>1, <1>2, <1>4, <1>5, <1>6, GivenStays, ThreeParties DEF ResultOf
  <2> QED BY <2>1, <2>2, <2>3, <2>4, <2>5, <2>6, <1>1, <1>2, <1>3, KeptFollows, ThreeParties
<1> QED BY <1>1, <1>2, <1>7, <1>8, <1>12, <1>13, GivenStays DEF IInv

LEMMA ShuffleRows1Step ==
  ASSUME IInv, ShuffleRows1
  PROVE  IInv'
<1>1. Given /\ Labels /\ Positions /\ Messages /\ Kept BY DEF IInv
<1>2. UNCHANGED given BY DEF ShuffleRows1
<1>3. Goto(1, "exchange") BY DEF ShuffleRows1
<1>4. pc'[1] = "exchange" /\ pc'[0] = pc[0] /\ pc'[2] = pc[2]
  BY <1>1, <1>3, Goes, ThreeParties
<1>5. pc[1] = "reshare"
  BY DEF ShuffleRows1
<1>6. pc[0] \in {"place", "done"}
  <2>1. NetOf(0, 1) # <<>> BY <1>1, ThreeParties DEF ShuffleRows1, Messages
  <2>2. NetOf(0, 1) = Net01 BY DEF NetOf
  <2>3. pc[0] \in {"place", "done"} BY <2>1, <2>2, <1>1, <1>5 DEF Net01
  <2> QED BY <2>3, <1>1, <1>5 DEF Labels
<1>7. pc[2] \in {"shuffle", "exchange"}
  BY <1>1, <1>5 DEF Labels
<1>8. Labels'
  <2>1. pc' \in [Parties -> AllLabels] BY <1>1, <1>3, GoesTyped, ThreeParties DEF AllLabels
  <2> QED BY <2>1, <1>1, <1>4, <1>5, <1>6, <1>7 DEF Labels
<1>9. Positions'
  <2>1. Drew(1, 0, CellsDrawn) BY DEF ShuffleRows1
  <2>2. PositionOf(1) = [own |-> 0, other |-> Length + CellsDrawn]
    BY <1>5, <1>6, <1>7 DEF PositionOf
  <2>3. PositionOf(1)' = [own |-> 0, other |-> Length + (2 * CellsDrawn)]
    BY <1>4 DEF PositionOf
  <2>4. PositionOf(1)' = [own   |-> PositionOf(1).own + (0),
                         other |-> PositionOf(1).other + (CellsDrawn)]
    BY <2>2, <2>3, LengthAssumption, Counts
  <2> QED BY <2>1, <2>4, <1>1, <1>2, <1>3, PositionsDrawn, ThreeParties
<1>10. position[1] = [own |-> 0, other |-> Length + CellsDrawn]
  <2>1. PositionOf(1) = [own |-> 0, other |-> Length + CellsDrawn]
    BY <1>5, <1>6, <1>7 DEF PositionOf
  <2> QED BY <2>1, <1>1, ThreeParties DEF Positions
<1>11. net[0][1] = <<Rows0>>
  <2>1. NetOf(0, 1) = <<Rows0>> BY <1>5, <1>6, <1>7 DEF NetOf, Net01
  <2> QED BY <2>1, <1>1, ThreeParties DEF Messages
<1>12. net[1][2] = IF pc[2] = "shuffle" THEN <<Rows1>> ELSE <<>>
  <2>1. NetOf(1, 2) = IF pc[2] = "shuffle" THEN <<Rows1>> ELSE <<>>
    BY <1>5, <1>6, <1>7 DEF NetOf, Net12
  <2> QED BY <2>1, <1>1, ThreeParties DEF Messages
<1>13. Arrived(0, 1) = Rows0
  BY <1>11, Queues DEF Arrived
<1>14. local' = [local EXCEPT ![1] = Rand1]
        /\ result' = [result EXCEPT ![1] = [x \in Cells |-> [a |-> {}, b |-> FreshFrom0(x)]]]
  BY <1>1, <1>10, <1>13, SendsRand1
<1>15. net' = [net EXCEPT ![0][1] = Tail(net[0][1]), ![1][2] = Append(net[1][2], Rand1)]
  BY <1>1, <1>10, <1>13, SendsRand1
<1>16. Tail(net[0][1]) = <<>>
       /\ Append(net[1][2], Rand1) = IF pc[2] = "shuffle" THEN <<Rows1, Rand1>> ELSE <<Rand1>>
  <2>1. CASE pc[2] = "shuffle"
    <3>1. net[1][2] = <<Rows1>> BY <2>1, <1>12
    <3>2. Append(<<Rows1>>, Rand1) = <<Rows1, Rand1>> BY Queues
    <3> QED BY <2>1, <3>1, <3>2, <1>11, Queues
  <2>2. CASE pc[2] # "shuffle" BY <2>2, <1>11, <1>12, Queues
  <2> QED BY <2>1, <2>2
<1>17. Messages'
  <2>1. NetOf(0, 1)' = <<>>
    BY <1>1, <1>2, <1>4, <1>5, <1>6, <1>7, GivenStays DEF NetOf, Net01
  <2>2. NetOf(1, 2)' = IF pc[2] = "shuffle" THEN <<Rows1, Rand1>> ELSE <<Rand1>>
    BY <1>1, <1>2, <1>4, <1>5, <1>6, <1>7, GivenStays DEF NetOf, Net12
  <2>3. net' = [net EXCEPT ![0][1] = NetOf(0, 1)', ![1][2] = NetOf(1, 2)']
    BY <2>1, <2>2, <1>10, <1>11, <1>12, <1>13, <1>14, <1>15, <1>16
  <2>4. Net02' = Net02 /\ Net20' = Net20 /\ Net21' = Net21
    BY <1>1, <1>2, <1>4, <1>5, <1>6, <1>7, GivenStays DEF Net02, Net20, Net21
  <2>5. \A r, s \in Parties : ~(r = 0 /\ s = 1) /\ ~(r = 1 /\ s = 2)
          => NetOf(r, s)' = NetOf(r, s)
    BY <2>4, ThreeParties DEF NetOf
  <2>6. IsTable(net) /\ \A r, s \in Parties : net[r][s] = NetOf(r, s) BY <1>1 DEF Messages
  <2>7. net' = Put(Put(net, 0, 1, NetOf(0, 1)'), 1, 2, NetOf(1, 2)')
    BY <2>3 DEF Put
  <2>8. IsTable(net') /\ \A r, s \in Parties :
          net'[r][s] = IF r = 1 /\ s = 2 THEN NetOf(1, 2)'
                       ELSE IF r = 0 /\ s = 1 THEN NetOf(0, 1)' ELSE net[r][s]
    BY <2>6, <2>7, Replaced, ThreeParties
  <2> QED BY <2>5, <2>6, <2>8 DEF Messages
<1>18. Kept'
  <2>1. UNCHANGED opened BY DEF ShuffleRows1
  <2>2. OpenedOf(1)' = OpenedOf(1)
    BY <1>1, <1>2, <1>4, <1>5, <1>6, <1>7, GivenStays, ThreeParties DEF OpenedOf
  <2>3. local' = [local EXCEPT ![1] = Rand1]
    BY <1>10, <1>11, <1>12, <1>13, <1>14, <1>15, <1>16 DEF ShuffleRows1
  <2>4. LocalOf(1)' = Rand1
    BY <1>1, <1>2, <1>4, <1>5, <1>6, <1>7, GivenStays, ThreeParties DEF LocalOf
  <2>5. result' = [result EXCEPT ![1] = [x \in Cells |-> [a |-> {}, b |-> FreshFrom0(x)]]]
    BY <1>10, <1>11, <1>12, <1>13, <1>14, <1>15, <1>16 DEF ShuffleRows1
  <2>6. ResultOf(1)' = [x \in Cells |-> [a |-> {}, b |-> FreshFrom0(x)]]
    BY <1>1, <1>2, <1>4, <1>5, <1>6, <1>7, GivenStays, ThreeParties DEF ResultOf
  <2> QED BY <2>1, <2>2, <2>3, <2>4, <2>5, <2>6, <1>1, <1>2, <1>3, KeptFollows, ThreeParties
<1> QED BY <1>1, <1>2, <1>8, <1>9, <1>17, <1>18, GivenStays DEF IInv

LEMMA ShuffleRows2Step ==
  ASSUME IInv, ShuffleRows2
  PROVE  IInv'
<1>1. Given /\ Labels /\ Positions /\ Messages /\ Kept BY DEF IInv
<1>2. UNCHANGED given BY DEF ShuffleRows2
<1>3. Goto(2, "exchange") BY DEF ShuffleRows2
<1>4. pc'[2] = "exchange" /\ pc'[0] = pc[0] /\ pc'[1] = pc[1]
  BY <1>1, <1>3, Goes, ThreeParties
<1>5. pc[2] = "shuffle"
  BY DEF ShuffleRows2
<1>6. pc[1] \in {"reshare", "exchange"}
  <2>1. NetOf(1, 2) # <<>> BY <1>1, ThreeParties DEF ShuffleRows2, Messages
  <2>2. NetOf(1, 2) = Net12 BY DEF NetOf
  <2>3. pc[1] \in {"reshare", "exchange", "place", "done"}
    BY <2>1, <2>2, <1>1, <1>5 DEF Net12
  <2> QED BY <2>3, <1>1, <1>5 DEF Labels
<1>7. Labels'
  <2>1. pc' \in [Parties -> AllLabels] BY <1>1, <1>3, GoesTyped, ThreeParties DEF AllLabels
  <2> QED BY <2>1, <1>1, <1>4, <1>5, <1>6 DEF Labels
<1>8. Positions'
  <2>1. Drew(2, 2 * CellsDrawn, 0) BY DEF ShuffleRows2
  <2>2. PositionOf(2) = [own |-> 0, other |-> 0] BY <1>5, <1>6 DEF PositionOf
  <2>3. PositionOf(2)' = [own |-> 2 * CellsDrawn, other |-> 0] BY <1>4 DEF PositionOf
  <2>4. PositionOf(2)' = [own   |-> PositionOf(2).own + (2 * CellsDrawn),
                         other |-> PositionOf(2).other + (0)]
    BY <2>2, <2>3, LengthAssumption, Counts
  <2> QED BY <2>1, <2>4, <1>1, <1>2, <1>3, PositionsDrawn, ThreeParties
<1>9. position[2] = [own |-> 0, other |-> 0]
  <2>1. PositionOf(2) = [own |-> 0, other |-> 0] BY <1>5, <1>6 DEF PositionOf
  <2> QED BY <2>1, <1>1, ThreeParties DEF Positions
<1>10. net[1][2] = IF pc[1] = "reshare" THEN <<Rows1>> ELSE <<Rows1, Rand1>>
  <2>1. NetOf(1, 2) = IF pc[1] = "reshare" THEN <<Rows1>> ELSE <<Rows1, Rand1>>
    BY <1>5, <1>6 DEF NetOf, Net12
  <2> QED BY <2>1, <1>1, ThreeParties DEF Messages
<1>11. net[2][1] = <<>>
  <2>1. NetOf(2, 1) = <<>> BY <1>5, <1>6 DEF NetOf, Net21
  <2> QED BY <2>1, <1>1, ThreeParties DEF Messages
<1>12. Arrived(1, 2) = Rows1
  BY <1>10, Queues DEF Arrived
<1>13. local' = [local EXCEPT ![2] = Rand2]
        /\ result' = [result EXCEPT ![2] = [x \in Cells |-> [a |-> FreshFrom2(x), b |-> {}]]]
  BY <1>1, <1>9, <1>12, SendsRand2
<1>14. net' = [net EXCEPT ![1][2] = Tail(net[1][2]), ![2][1] = Append(net[2][1], Rand2)]
  BY <1>1, <1>9, <1>12, SendsRand2
<1>15. Append(net[2][1], Rand2) = <<Rand2>>
       /\ Tail(net[1][2]) = IF pc[1] = "reshare" THEN <<>> ELSE <<Rand1>>
  <2>1. CASE pc[1] = "reshare" BY <2>1, <1>10, <1>11, Queues
  <2>2. CASE pc[1] # "reshare" BY <2>2, <1>10, <1>11, Queues
  <2> QED BY <2>1, <2>2
<1>16. Messages'
  <2>1. NetOf(1, 2)' = IF pc[1] = "reshare" THEN <<>> ELSE <<Rand1>>
    BY <1>1, <1>2, <1>4, <1>5, <1>6, GivenStays DEF NetOf, Net12
  <2>2. NetOf(2, 1)' = <<Rand2>>
    BY <1>1, <1>2, <1>4, <1>5, <1>6, GivenStays DEF NetOf, Net21
  <2>3. net' = [net EXCEPT ![1][2] = NetOf(1, 2)', ![2][1] = NetOf(2, 1)']
    BY <2>1, <2>2, <1>9, <1>10, <1>11, <1>12, <1>13, <1>14, <1>15
  <2>4. Net01' = Net01 /\ Net02' = Net02 /\ Net20' = Net20
    BY <1>1, <1>2, <1>4, <1>5, <1>6, GivenStays DEF Net01, Net02, Net20
  <2>5. \A r, s \in Parties : ~(r = 1 /\ s = 2) /\ ~(r = 2 /\ s = 1)
          => NetOf(r, s)' = NetOf(r, s)
    BY <2>4, ThreeParties DEF NetOf
  <2>6. IsTable(net) /\ \A r, s \in Parties : net[r][s] = NetOf(r, s) BY <1>1 DEF Messages
  <2>7. net' = Put(Put(net, 1, 2, NetOf(1, 2)'), 2, 1, NetOf(2, 1)')
    BY <2>3 DEF Put
  <2>8. IsTable(net') /\ \A r, s \in Parties :
          net'[r][s] = IF r = 2 /\ s = 1 THEN NetOf(2, 1)'
                       ELSE IF r = 1 /\ s = 2 THEN NetOf(1, 2)' ELSE net[r][s]
    BY <2>6, <2>7, Replaced, ThreeParties
  <2> QED BY <2>5, <2>6, <2>8 DEF Messages
<1>17. Kept'
  <2>1. UNCHANGED opened BY DEF ShuffleRows2
  <2>2. OpenedOf(2)' = OpenedOf(2)
    BY <1>1, <1>2, <1>4, <1>5, <1>6, GivenStays, ThreeParties DEF OpenedOf
  <2>3. local' = [local EXCEPT ![2] = Rand2]
    BY <1>9, <1>10, <1>11, <1>12, <1>13, <1>14, <1>15 DEF ShuffleRows2
  <2>4. LocalOf(2)' = Rand2
    BY <1>1, <1>2, <1>4, <1>5, <1>6, GivenStays, ThreeParties DEF LocalOf
  <2>5. result' = [result EXCEPT ![2] = [x \in Cells |-> [a |-> FreshFrom2(x), b |-> {}]]]
    BY <1>9, <1>10, <1>11, <1>12, <1>13, <1>14, <1>15 DEF ShuffleRows2
  <2>6. ResultOf(2)' = [x \in Cells |-> [a |-> FreshFrom2(x), b |-> {}]]
    BY <1>1, <1>2, <1>4, <1>5, <1>6, GivenStays, ThreeParties DEF ResultOf
  <2> QED BY <2>1, <2>2, <2>3, <2>4, <2>5, <2>6, <1>1, <1>2, <1>3, KeptFollows, ThreeParties
<1> QED BY <1>1, <1>2, <1>7, <1>8, <1>16, <1>17, GivenStays DEF IInv

LEMMA Exchange1Step ==
  ASSUME IInv, Exchange(1, 2)
  PROVE  IInv'
<1>1. Given /\ Labels /\ Positions /\ Messages /\ Kept BY DEF IInv
<1>2. UNCHANGED given BY DEF Exchange
<1>3. Goto(1, "place") BY DEF Exchange
<1>4. pc'[1] = "place" /\ pc'[0] = pc[0] /\ pc'[2] = pc[2]
  BY <1>1, <1>3, Goes, ThreeParties
<1>5. pc[1] = "exchange"
  BY DEF Exchange
<1>6. pc[2] \in {"exchange", "place", "done"}
  <2>1. NetOf(2, 1) # <<>> BY <1>1, ThreeParties DEF Exchange, Messages
  <2>2. NetOf(2, 1) = Net21 BY DEF NetOf
  <2>3. pc[2] \in {"exchange", "place", "done"} BY <2>1, <2>2, <1>1, <1>5 DEF Net21
  <2> QED BY <2>3, <1>1, <1>5 DEF Labels
<1>7. Labels'
  <2>1. pc' \in [Parties -> AllLabels] BY <1>1, <1>3, GoesTyped, ThreeParties DEF AllLabels
  <2> QED BY <2>1, <1>1, <1>4, <1>5, <1>6 DEF Labels
<1>8. Positions'
  <2>1. PositionOf(1)' = PositionOf(1) BY <1>4, <1>5, <1>6 DEF PositionOf
  <2> QED BY <2>1, <1>1, <1>2, <1>3, PositionsStay, ThreeParties DEF Exchange
<1>9. net[2][1] = <<Rand2>>
  <2>1. NetOf(2, 1) = <<Rand2>> BY <1>5, <1>6 DEF NetOf, Net21
  <2> QED BY <2>1, <1>1, ThreeParties DEF Messages
<1>10. local[1] = Rand1 /\ result[1] = [x \in Cells |-> [a |-> {}, b |-> FreshFrom0(x)]]
  BY <1>1, <1>5, <1>6, ThreeParties DEF Kept, LocalOf, ResultOf
<1>11. Arrived(2, 1) = Rand2 /\ net' = [net EXCEPT ![2][1] = <<>>]
  BY <1>9, Queues DEF Exchange, Arrived
<1>12. result' = [result EXCEPT ![1] = Shuffled(1)]
  BY <1>10, <1>11, Exchanged1
<1>13. Messages'
  <2>1. NetOf(2, 1)' = <<>>
    BY <1>1, <1>2, <1>4, <1>5, <1>6, GivenStays DEF NetOf, Net21
  <2>2. net' = [net EXCEPT ![2][1] = NetOf(2, 1)']
    BY <2>1, <1>9, <1>10, <1>11, <1>12
  <2>3. Net01' = Net01 /\ Net02' = Net02 /\ Net12' = Net12 /\ Net20' = Net20
    BY <1>1, <1>2, <1>4, <1>5, <1>6, GivenStays DEF Net01, Net02, Net12, Net20
  <2>4. \A r, s \in Parties : ~(r = 2 /\ s = 1)
          => NetOf(r, s)' = NetOf(r, s)
    BY <2>3, ThreeParties DEF NetOf
  <2>5. IsTable(net) /\ \A r, s \in Parties : net[r][s] = NetOf(r, s) BY <1>1 DEF Messages
  <2>6. net' = Put(net, 2, 1, NetOf(2, 1)')
    BY <2>2 DEF Put
  <2>7. IsTable(net') /\ \A r, s \in Parties :
          net'[r][s] = IF r = 2 /\ s = 1 THEN NetOf(2, 1)' ELSE net[r][s]
    BY <2>5, <2>6, Replaced, ThreeParties
  <2> QED BY <2>4, <2>5, <2>7 DEF Messages
<1>14. Kept'
  <2>1. UNCHANGED opened BY DEF Exchange
  <2>2. OpenedOf(1)' = OpenedOf(1)
    BY <1>1, <1>2, <1>4, <1>5, <1>6, GivenStays, ThreeParties DEF OpenedOf
  <2>3. UNCHANGED local BY DEF Exchange
  <2>4. LocalOf(1)' = LocalOf(1)
    BY <1>1, <1>2, <1>4, <1>5, <1>6, GivenStays, ThreeParties DEF LocalOf
  <2>5. result' = [result EXCEPT ![1] = Shuffled(1)]
    BY <1>9, <1>10, <1>11, <1>12 DEF Exchange
  <2>6. ResultOf(1)' = Shuffled(1)
    BY <1>1, <1>2, <1>4, <1>5, <1>6, GivenStays, ThreeParties DEF ResultOf
  <2> QED BY <2>1, <2>2, <2>3, <2>4, <2>5, <2>6, <1>1, <1>2, <1>3, KeptFollows, ThreeParties
<1> QED BY <1>1, <1>2, <1>7, <1>8, <1>13, <1>14, GivenStays DEF IInv

LEMMA Exchange2Step ==
  ASSUME IInv, Exchange(2, 1)
  PROVE  IInv'
<1>1. Given /\ Labels /\ Positions /\ Messages /\ Kept BY DEF IInv
<1>2. UNCHANGED given BY DEF Exchange
<1>3. Goto(2, "place") BY DEF Exchange
<1>4. pc'[2] = "place" /\ pc'[0] = pc[0] /\ pc'[1] = pc[1]
  BY <1>1, <1>3, Goes, ThreeParties
<1>5. pc[2] = "exchange"
  BY DEF Exchange
<1>6. pc[1] \in {"exchange", "place", "done"}
  <2>1. NetOf(1, 2) # <<>> BY <1>1, ThreeParties DEF Exchange, Messages
  <2>2. NetOf(1, 2) = Net12 BY DEF NetOf
  <2>3. pc[1] # "reshare" BY <2>1, <2>2, <1>1, <1>5 DEF Net12
  <2> QED BY <2>3, <1>1, <1>5 DEF Labels
<1>7. Labels'
  <2>1. pc' \in [Parties -> AllLabels] BY <1>1, <1>3, GoesTyped, ThreeParties DEF AllLabels
  <2> QED BY <2>1, <1>1, <1>4, <1>5, <1>6 DEF Labels
<1>8. Positions'
  <2>1. PositionOf(2)' = PositionOf(2) BY <1>4, <1>5, <1>6 DEF PositionOf
  <2> QED BY <2>1, <1>1, <1>2, <1>3, PositionsStay, ThreeParties DEF Exchange
<1>9. net[1][2] = <<Rand1>>
  <2>1. NetOf(1, 2) = <<Rand1>> BY <1>5, <1>6 DEF NetOf, Net12
  <2> QED BY <2>1, <1>1, ThreeParties DEF Messages
<1>10. local[2] = Rand2 /\ result[2] = [x \in Cells |-> [a |-> FreshFrom2(x), b |-> {}]]
  BY <1>1, <1>5, <1>6, ThreeParties DEF Kept, LocalOf, ResultOf
<1>11. Arrived(1, 2) = Rand1 /\ net' = [net EXCEPT ![1][2] = <<>>]
  BY <1>9, Queues DEF Exchange, Arrived
<1>12. result' = [result EXCEPT ![2] = Shuffled(2)]
  BY <1>10, <1>11, Exchanged2
<1>13. Messages'
  <2>1. NetOf(1, 2)' = <<>>
    BY <1>1, <1>2, <1>4, <1>5, <1>6, GivenStays DEF NetOf, Net12
  <2>2. net' = [net EXCEPT ![1][2] = NetOf(1, 2)']
    BY <2>1, <1>9, <1>10, <1>11, <1>12
  <2>3. Net01' = Net01 /\ Net02' = Net02 /\ Net20' = Net20 /\ Net21' = Net21
    BY <1>1, <1>2, <1>4, <1>5, <1>6, GivenStays DEF Net01, Net02, Net20, Net21
  <2>4. \A r, s \in Parties : ~(r = 1 /\ s = 2)
          => NetOf(r, s)' = NetOf(r, s)
    BY <2>3, ThreeParties DEF NetOf
  <2>5. IsTable(net) /\ \A r, s \in Parties : net[r][s] = NetOf(r, s) BY <1>1 DEF Messages
  <2>6. net' = Put(net, 1, 2, NetOf(1, 2)')
    BY <2>2 DEF Put
  <2>7. IsTable(net') /\ \A r, s \in Parties :
          net'[r][s] = IF r = 1 /\ s = 2 THEN NetOf(1, 2)' ELSE net[r][s]
    BY <2>5, <2>6, Replaced, ThreeParties
  <2> QED BY <2>4, <2>5, <2>7 DEF Messages
<1>14. Kept'
  <2>1. UNCHANGED opened BY DEF Exchange
  <2>2. OpenedOf(2)' = OpenedOf(2)
    BY <1>1, <1>2, <1>4, <1>5, <1>6, GivenStays, ThreeParties DEF OpenedOf
  <2>3. UNCHANGED local BY DEF Exchange
  <2>4. LocalOf(2)' = LocalOf(2)
    BY <1>1, <1>2, <1>4, <1>5, <1>6, GivenStays, ThreeParties DEF LocalOf
  <2>5. result' = [result EXCEPT ![2] = Shuffled(2)]
    BY <1>9, <1>10, <1>11, <1>12 DEF Exchange
  <2>6. ResultOf(2)' = Shuffled(2)
    BY <1>1, <1>2, <1>4, <1>5, <1>6, GivenStays, ThreeParties DEF ResultOf
  <2> QED BY <2>1, <2>2, <2>3, <2>4, <2>5, <2>6, <1>1, <1>2, <1>3, KeptFollows, ThreeParties
<1> QED BY <1>1, <1>2, <1>7, <1>8, <1>13, <1>14, GivenStays DEF IInv

LEMMA Place0Step ==
  ASSUME IInv, Place(0)
  PROVE  IInv'
<1>1. Given /\ Labels /\ Positions /\ Messages /\ Kept BY DEF IInv
<1>2. UNCHANGED given BY DEF Place
<1>3. Goto(0, "done") BY DEF Place
<1>4. pc'[0] = "done" /\ pc'[1] = pc[1] /\ pc'[2] = pc[2]
  BY <1>1, <1>3, Goes, ThreeParties
<1>5. pc[0] = "place"
  BY DEF Place
<1>6. Labels'
  <2>1. pc' \in [Parties -> AllLabels] BY <1>1, <1>3, GoesTyped, ThreeParties DEF AllLabels
  <2> QED BY <2>1, <1>1, <1>4, <1>5 DEF Labels
<1>7. Positions'
  <2>1. PositionOf(0)' = PositionOf(0) BY <1>4, <1>5 DEF PositionOf
  <2> QED BY <2>1, <1>1, <1>2, <1>3, PositionsStay, ThreeParties DEF Place
<1>8. opened[0] = Places /\ result[0] = Shuffled(0)
  BY <1>1, <1>5, ThreeParties DEF Kept, OpenedOf, ResultOf
<1>9. result' = [result EXCEPT ![0] = Sorted(0)]
  BY <1>8, Placed, ThreeParties
<1>10. Messages'
  <2>1. UNCHANGED net BY DEF Place
  <2>2. \A r, s \in Parties : NetOf(r, s)' = NetOf(r, s)
    BY <1>1, <1>2, <1>4, <1>5, GivenStays, ThreeParties DEF NetOf, Net01, Net02, Net12,
         Net20, Net21
  <2> QED BY <2>1, <2>2, <1>1 DEF Messages, IsTable
<1>11. Kept'
  <2>1. UNCHANGED opened BY DEF Place
  <2>2. OpenedOf(0)' = OpenedOf(0)
    BY <1>1, <1>2, <1>4, <1>5, GivenStays, ThreeParties DEF OpenedOf
  <2>3. UNCHANGED local BY DEF Place
  <2>4. LocalOf(0)' = LocalOf(0)
    BY <1>1, <1>2, <1>4, <1>5, GivenStays, ThreeParties DEF LocalOf
  <2>5. result' = [result EXCEPT ![0] = Sorted(0)] BY <1>8, <1>9 DEF Place
  <2>6. ResultOf(0)' = Sorted(0)
    BY <1>1, <1>2, <1>4, <1>5, GivenStays, ThreeParties DEF ResultOf
  <2> QED BY <2>1, <2>2, <2>3, <2>4, <2>5, <2>6, <1>1, <1>2, <1>3, KeptFollows, ThreeParties
<1> QED BY <1>1, <1>2, <1>6, <1>7, <1>10, <1>11, GivenStays DEF IInv

LEMMA Place1Step ==
  ASSUME IInv, Place(1)
  PROVE  IInv'
<1>1. Given /\ Labels /\ Positions /\ Messages /\ Kept BY DEF IInv
<1>2. UNCHANGED given BY DEF Place
<1>3. Goto(1, "done") BY DEF Place
<1>4. pc'[1] = "done" /\ pc'[0] = pc[0] /\ pc'[2] = pc[2]
  BY <1>1, <1>3, Goes, ThreeParties
<1>5. pc[1] = "place"
  BY DEF Place
<1>6. Labels'
  <2>1. pc' \in [Parties -> AllLabels] BY <1>1, <1>3, GoesTyped, ThreeParties DEF AllLabels
  <2> QED BY <2>1, <1>1, <1>4, <1>5 DEF Labels
<1>7. Positions'
  <2>1. PositionOf(1)' = PositionOf(1) BY <1>4, <1>5 DEF PositionOf
  <2> QED BY <2>1, <1>1, <1>2, <1>3, PositionsStay, ThreeParties DEF Place
<1>8. opened[1] = Places /\ result[1] = Shuffled(1)
  BY <1>1, <1>5, ThreeParties DEF Kept, OpenedOf, ResultOf
<1>9. result' = [result EXCEPT ![1] = Sorted(1)]
  BY <1>8, Placed, ThreeParties
<1>10. Messages'
  <2>1. UNCHANGED net BY DEF Place
  <2>2. \A r, s \in Parties : NetOf(r, s)' = NetOf(r, s)
    BY <1>1, <1>2, <1>4, <1>5, GivenStays, ThreeParties DEF NetOf, Net01, Net02, Net12,
         Net20, Net21
  <2> QED BY <2>1, <2>2, <1>1 DEF Messages, IsTable
<1>11. Kept'
  <2>1. UNCHANGED opened BY DEF Place
  <2>2. OpenedOf(1)' = OpenedOf(1)
    BY <1>1, <1>2, <1>4, <1>5, GivenStays, ThreeParties DEF OpenedOf
  <2>3. UNCHANGED local BY DEF Place
  <2>4. LocalOf(1)' = LocalOf(1)
    BY <1>1, <1>2, <1>4, <1>5, GivenStays, ThreeParties DEF LocalOf
  <2>5. result' = [result EXCEPT ![1] = Sorted(1)] BY <1>8, <1>9 DEF Place
  <2>6. ResultOf(1)' = Sorted(1)
    BY <1>1, <1>2, <1>4, <1>5, GivenStays, ThreeParties DEF ResultOf
  <2> QED BY <2>1, <2>2, <2>3, <2>4, <2>5, <2>6, <1>1, <1>2, <1>3, KeptFollows, ThreeParties
<1> QED BY <1>1, <1>2, <1>6, <1>7, <1>10, <1>11, GivenStays DEF IInv

LEMMA Place2Step ==
  ASSUME IInv, Place(2)
  PROVE  IInv'
<1>1. Given /\ Labels /\ Positions /\ Messages /\ Kept BY DEF IInv
<1>2. UNCHANGED given BY DEF Place
<1>3. Goto(2, "done") BY DEF Place
<1>4. pc'[2] = "done" /\ pc'[0] = pc[0] /\ pc'[1] = pc[1]
  BY <1>1, <1>3, Goes, ThreeParties
<1>5. pc[2] = "place"
  BY DEF Place
<1>6. Labels'
  <2>1. pc' \in [Parties -> AllLabels] BY <1>1, <1>3, GoesTyped, ThreeParties DEF AllLabels
  <2> QED BY <2>1, <1>1, <1>4, <1>5 DEF Labels
<1>7. Positions'
  <2>1. PositionOf(2)' = PositionOf(2) BY <1>4, <1>5 DEF PositionOf
  <2> QED BY <2>1, <1>1, <1>2, <1>3, PositionsStay, ThreeParties DEF Place
<1>8. opened[2] = Places /\ result[2] = Shuffled(2)
  BY <1>1, <1>5, ThreeParties DEF Kept, OpenedOf, ResultOf
<1>9. result' = [result EXCEPT ![2] = Sorted(2)]
  BY <1>8, Placed, ThreeParties
<1>10. Messages'
  <2>1. UNCHANGED net BY DEF Place
  <2>2. \A r, s \in Parties : NetOf(r, s)' = NetOf(r, s)
    BY <1>1, <1>2, <1>4, <1>5, GivenStays, ThreeParties DEF NetOf, Net01, Net02, Net12,
         Net20, Net21
  <2> QED BY <2>1, <2>2, <1>1 DEF Messages, IsTable
<1>11. Kept'
  <2>1. UNCHANGED opened BY DEF Place
  <2>2. OpenedOf(2)' = OpenedOf(2)
    BY <1>1, <1>2, <1>4, <1>5, GivenStays, ThreeParties DEF OpenedOf
  <2>3. UNCHANGED local BY DEF Place
  <2>4. LocalOf(2)' = LocalOf(2)
    BY <1>1, <1>2, <1>4, <1>5, GivenStays, ThreeParties DEF LocalOf
  <2>5. result' = [result EXCEPT ![2] = Sorted(2)] BY <1>8, <1>9 DEF Place
  <2>6. ResultOf(2)' = Sorted(2)
    BY <1>1, <1>2, <1>4, <1>5, GivenStays, ThreeParties DEF ResultOf
  <2> QED BY <2>1, <2>2, <2>3, <2>4, <2>5, <2>6, <1>1, <1>2, <1>3, KeptFollows, ThreeParties
<1> QED BY <1>1, <1>2, <1>6, <1>7, <1>10, <1>11, GivenStays DEF IInv
---------------------------------------------------------------------------
(* A step of nobody, the start, and all steps together.                    *)
LEMMA StaysSound ==
  ASSUME IInv, UNCHANGED vars
  PROVE  IInv'
<1> USE DEF vars, given
<1>1. UNCHANGED given OBVIOUS
<1>2. Given /\ Labels /\ Positions /\ Messages /\ Kept BY DEF IInv
<1>3. Given' BY <1>1, <1>2, GivenStays
<1>4. Labels' BY <1>2 DEF Labels
<1>5. \A p \in Parties : /\ PositionOf(p)' = PositionOf(p) /\ OpenedOf(p)' = OpenedOf(p)
                         /\ LocalOf(p)' = LocalOf(p) /\ ResultOf(p)' = ResultOf(p)
  BY <1>1, <1>2, OthersStay
<1>6. Positions' BY <1>2, <1>5 DEF Positions
<1>7. Kept' BY <1>2, <1>5 DEF Kept
<1>8. \A r, s : NetOf(r, s)' = NetOf(r, s)
  BY <1>1, <1>2, GivenStays DEF NetOf, Net01, Net02, Net12, Net20, Net21
<1>9. Messages' BY <1>2, <1>8 DEF Messages, IsTable
<1> QED BY <1>3, <1>4, <1>6, <1>7, <1>9 DEF IInv

LEMMA InitSound == Init => IInv
<1> SUFFICES ASSUME Init PROVE IInv OBVIOUS
<1> USE DEF Init
<1>1. Given BY DEF Given
<1>2. Labels BY ThreeParties DEF Labels, AllLabels
<1>3. \A p \in Parties : pc[p] = "reveal" OBVIOUS
<1>4. \A p \in Parties : PositionOf(p) = [own |-> 0, other |-> 0]
  BY <1>3, ThreeParties DEF PositionOf
<1>5. Positions BY <1>4 DEF Positions
<1>6. \A p, q \in Parties : NetOf(p, q) = <<>>
  BY <1>3, ThreeParties DEF NetOf, Net01, Net02, Net12, Net20, Net21
<1>7. Messages BY <1>6 DEF Messages, IsTable
<1>8. \A p \in Parties : OpenedOf(p) = None /\ LocalOf(p) = None /\ ResultOf(p) = None
  BY <1>3 DEF OpenedOf, LocalOf, ResultOf
<1>9. Kept BY <1>8 DEF Kept
<1> QED BY <1>1, <1>2, <1>5, <1>7, <1>9 DEF IInv

(* In whatever order the parties' steps come, what each has drawn, sent,   *)
(* opened and kept is a function of how far the three are: no message is   *)
(* taken for another, and none is answered from the wrong place of a       *)
(* stream.                                                                 *)
THEOREM SortInvariant == Spec => []IInv
<1>1. IInv /\ [Next]_vars => IInv'
  <2> SUFFICES ASSUME IInv, [Next]_vars PROVE IInv' OBVIOUS
  <2>1. CASE RevealPerm0 \/ RevealPerm1 \/ RevealPerm2
    BY <2>1, RevealPerm0Step, RevealPerm1Step, RevealPerm2Step
  <2>2. CASE Opened(0) \/ Opened(1) BY <2>2, Opened0Step, Opened1Step
  <2>3. CASE ShuffleRows0 \/ ShuffleRows1Send \/ ShuffleRows1 \/ ShuffleRows2
    BY <2>3, ShuffleRows0Step, ShuffleRows1SendStep, ShuffleRows1Step, ShuffleRows2Step
  <2>4. CASE Exchange(1, 2) \/ Exchange(2, 1) BY <2>4, Exchange1Step, Exchange2Step
  <2>5. CASE \E p \in Parties : Place(p)
    BY <2>5, ThreeParties, Place0Step, Place1Step, Place2Step
  <2>6. CASE Done BY <2>6, StaysSound DEF Done
  <2>7. CASE UNCHANGED vars BY <2>7, StaysSound
  <2> QED BY <2>1, <2>2, <2>3, <2>4, <2>5, <2>6, <2>7 DEF Next
<1> QED BY <1>1, InitSound, PTL DEF Spec

---------------------------------------------------------------------------
(* Two parties that share a stream have drawn equally much of it in the    *)
(* end, and no message is left, however many rows and columns there are.   *)
THEOREM StreamsStayAligned == Spec => []StreamsAligned
<1>1. IInv => StreamsAligned
  <2> SUFFICES ASSUME IInv, \A p \in Parties : pc[p] = "done"
               PROVE  \A p \in Parties : /\ position[p].own = position[NextId(p)].other
                                         /\ \A q \in Parties : net[p][q] = <<>>
    BY DEF StreamsAligned
  <2>1. Positions /\ Messages BY DEF IInv
  <2>2. /\ PositionOf(0) = [own |-> Length + (2 * CellsDrawn), other |-> 2 * CellsDrawn]
        /\ PositionOf(1) = [own |-> 0, other |-> Length + (2 * CellsDrawn)]
        /\ PositionOf(2) = [own |-> 2 * CellsDrawn, other |-> 0]
    BY ThreeParties DEF PositionOf
  <2>3. /\ position[0] = PositionOf(0) /\ position[1] = PositionOf(1)
        /\ position[2] = PositionOf(2)
    BY <2>1, ThreeParties DEF Positions
  <2>4. NextId(0) = 1 /\ NextId(1) = 2 /\ NextId(2) = 0 BY DEF NextId
  <2>5. \A p \in Parties : position[p].own = position[NextId(p)].other
    BY <2>2, <2>3, <2>4, ThreeParties
  <2>6. \A p, q \in Parties : NetOf(p, q) = <<>>
    BY ThreeParties DEF NetOf, Net01, Net02, Net12, Net20, Net21
  <2>7. \A p, q \in Parties : net[p][q] = <<>> BY <2>1, <2>6 DEF Messages
  <2> QED BY <2>5, <2>7
<1> QED BY <1>1, SortInvariant, PTL

(* Every party sees the places in the order of the three permutations, and *)
(* all see the same.                                                       *)
THEOREM PlacesOpenedShuffled == Spec => []OpenedShuffled
<1>1. IInv => OpenedShuffled
  <2> SUFFICES ASSUME IInv, NEW p \in Parties, opened[p] # None
               PROVE  opened[p] = [i \in Indices |->
                                     BitPerm(flags)[perm[0][perm[2][perm[1][i]]]]]
    BY DEF OpenedShuffled
  <2>1. opened[p] = OpenedOf(p) BY DEF IInv, Kept
  <2>2. opened[p] = Places BY <2>1 DEF OpenedOf
  <2> QED BY <2>2 DEF Places, Source
<1> QED BY <1>1, SortInvariant, PTL

(* The row i is at the place the rows before it leave it: the share there  *)
(* is made from the shuffled one whose source is i.                        *)
LEMMA RowAtItsPlace ==
  ASSUME Given, NEW c \in Columns, NEW i \in Indices
  PROVE  \E x \in Cells :
           /\ x[1] = c /\ Source(x[2]) = i
           /\ \A p \in Parties : Sorted(p)[<<c, Cardinality(Before(i))>>] = Shuffled(p)[x]
<1> DEFINE place == Cardinality(Before(i))
           k == CHOOSE k \in Indices : Places[k] - 1 = place
<1>1. \A p \in Parties : perm[p] \in Bijection(Indices, Indices) BY DEF Given
<1>2. \A p \in Parties : /\ perm[p] \in [Indices -> Indices]
                         /\ \A t \in Indices : \E s \in Indices : perm[p][s] = t
  BY <1>1 DEF Bijection, Injection, Surjection
<1>3. PICK s0 \in Indices : perm[0][s0] = i BY <1>2, ThreeParties
<1>4. PICK s2 \in Indices : perm[2][s2] = s0 BY <1>2, ThreeParties
<1>5. PICK s1 \in Indices : perm[1][s1] = s2 BY <1>2, ThreeParties
<1>6. Source(s1) = i BY <1>3, <1>4, <1>5 DEF Source
<1>7. place \in Indices /\ place \in Nat BY PlaceIsRank, LengthAssumption DEF Indices
<1>8. Places[s1] = place + 1 BY <1>6, PlaceIsRank DEF Places
<1>9. Places[s1] - 1 = place BY <1>7, <1>8
<1>10. k \in Indices /\ Places[k] - 1 = place BY <1>9
<1>11. Source(k) \in Indices BY <1>10, <1>2, ThreeParties DEF Source
<1>12. Places[k] = Cardinality(Before(Source(k))) + 1 /\ Cardinality(Before(Source(k))) \in Nat
  <2>1. Places[k] = BitPerm(flags)[Source(k)] BY <1>10 DEF Places
  <2> HIDE DEF k
  <2>2. Cardinality(Before(Source(k))) \in Indices
        /\ BitPerm(flags)[Source(k)] = Cardinality(Before(Source(k))) + 1
    BY <1>11, PlaceIsRank
  <2> QED BY <2>1, <2>2, LengthAssumption DEF Indices
<1>13. Cardinality(Before(Source(k))) = place BY <1>10, <1>12, <1>7
<1>14. Source(k) = i BY <1>11, <1>13, RanksDiffer
<1> DEFINE x == <<c, k>>
           y == <<c, place>>
<1>15. x \in Cells /\ y \in Cells BY <1>7, <1>10 DEF Cells
<1>16. \A p \in Parties : Sorted(p)[y] = Shuffled(p)[x]
  <2>1. y[1] = c /\ y[2] = place OBVIOUS
  <2> HIDE DEF y
  <2> QED BY <1>15, <2>1 DEF Sorted
<1>17. x[1] = c /\ x[2] = k OBVIOUS
<1> QED BY <1>14, <1>15, <1>16, <1>17

(* Whatever the flags, the permutations and the masks: in the end every    *)
(* column is sorted stably, and shared by the three.                       *)
THEOREM RowsSortedStably == Spec => []SortedStably
<1>1. IInv => SortedStably
  <2> SUFFICES ASSUME IInv, \A p \in Parties : pc[p] = "done",
                        NEW c \in Columns, NEW i \in Indices
               PROVE  LET share == [p \in Parties |-> result[p][<<c, Cardinality(Before(i))>>]]
                      IN  Replicated(share) /\ RevealTo(0, share) = rows[c][i]
    BY DEF SortedStably
  <2> DEFINE share == [p \in Parties |-> result[p][<<c, Cardinality(Before(i))>>]]
  <2>1. Given /\ Kept BY DEF IInv
  <2>2. \A p \in Parties : result[p] = Sorted(p)
    BY <2>1 DEF Kept, ResultOf
  <2>3. PICK x \in Cells :
          /\ x[1] = c /\ Source(x[2]) = i
          /\ \A p \in Parties : Sorted(p)[<<c, Cardinality(Before(i))>>] = Shuffled(p)[x]
    BY <2>1, RowAtItsPlace
  <2>4. \A p \in Parties : share[p] = Shuffled(p)[x] BY <2>2, <2>3
  <2> HIDE DEF share
  <2> DEFINE f0 == FreshFrom0(x)
             f2 == FreshFrom2(x)
  <2>5. /\ share[0] = [a |-> f0, b |-> f2]
        /\ share[1] = [a |-> Both[x], b |-> f0]
        /\ share[2] = [a |-> f2, b |-> Both[x]]
    BY <2>4, ThreeParties DEF Shuffled
  <2>6. PrevId(0) = 2 /\ PrevId(1) = 0 /\ PrevId(2) = 1 BY DEF PrevId
  <2>7. Replicated(share) BY <2>5, <2>6, ThreeParties DEF Replicated
  <2>8. Both[x] = Xor(rows[c][i], Xor(f0, f2)) BY <2>1, <2>3, RowsShuffled
  <2>9. RevealTo(0, share) = Xor(Xor(f0, f2), Both[x]) BY <2>5, <2>6 DEF RevealTo
  <2> HIDE DEF f0, f2
  <2>10. RevealTo(0, share) = rows[c][i] BY <2>8, <2>9, XorOpens
  <2> QED BY <2>7, <2>10 DEF share
<1> QED BY <1>1, SortInvariant, PTL
=============================================================================
