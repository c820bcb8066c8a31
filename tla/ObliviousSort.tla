--------------------------- MODULE ObliviousSort ---------------------------
(***************************************************************************)
(* The stable sort of shared rows by a shared bit                          *)
(* (circuits/src/oblivious_sort.rs).  The place of every row is computed   *)
(* on shares; then rows and places are shuffled alike by three             *)
(* permutations, each unknown to one party, the shuffled places are opened *)
(* and the shuffled rows put there.  There are several arrays of rows (the *)
(* columns of a record), which must stay aligned.                          *)
(*                                                                         *)
(* Permutation and stream p are shared by party p and its successor.  Rows *)
(* are sets of bits, places numbers modulo Ring.                           *)
(***************************************************************************)
EXTENDS Rep3

CONSTANTS
  Length, Columns, (* the size of the arrays and their number              *)
  Ring,            (* 2^32 in the code                                     *)
  Flags,           (* the bits to sort by: arrays of 0 and 1               *)
  Rows,            (* the columns: arrays of rows                          *)
  Masks,           (* the streams: sequences of numbers, for each party    *)
  None

Indices == 0 .. Length - 1

(* Rows are taken apart in chunks of Length, of which there must be some.  *)
ASSUME LengthAssumption ==
  Length \in Nat \ {0} /\ Columns \in SUBSET Nat /\ IsFiniteSet(Columns)

ASSUME RingAssumption == Ring \in Nat /\ Length < Ring

ASSUME InputsAssumption ==
  /\ Flags \subseteq [Indices -> {0, 1}]
  /\ \A masks \in Masks, n \in 1 .. Length : masks[0][n] \in 0 .. Ring - 1

VARIABLES
  flags, rows,     (* what is sorted                                       *)
  perm,            (* what random_perm gave the pairs                      *)
  stream,
  position,        (* of each party in its own stream and in the other     *)
  rho,             (* the shares of the places                             *)
  input,           (* the shares of the rows                               *)
  pc, net,
  opened,          (* the places after the shuffle, as each party sees them*)
  local,           (* rand_all of parties 1 and 2                          *)
  result           (* the shares of the sorted rows                        *)

vars == <<flags, rows, perm, stream, position, rho, input, pc, net, opened, local, result>>
given == <<flags, rows, perm, stream, rho, input>>

---------------------------------------------------------------------------
(* gen_bit_perm on values: the rows flagged 0 are counted first, those     *)
(* flagged 1 after them.                                                   *)
ZeroCount(f, i) == Cardinality({j \in 0 .. i : f[j] = 0})

(* Faulty variant of OneCount: the ones are counted from the end.          *)
OneCountFromEnd(f, i) ==
  ZeroCount(f, Length - 1) + Cardinality({j \in i .. Length - 1 : f[j] = 1})

OneCount(f, i) == ZeroCount(f, Length - 1) + Cardinality({j \in 0 .. i : f[j] = 1})

BitPerm(f) ==
  [i \in Indices |-> ((1 - f[i]) * ZeroCount(f, i) + f[i] * OneCount(f, i)) % Ring]

(* Additive shares with these first components.                            *)
AdditiveShare(value, x0, x1, p) ==
  ShareOf([q \in Parties |-> CASE q = 0 -> x0
                               [] q = 1 -> x1
                               [] q = 2 -> (value - x0 - x1) % Ring], p)

XorShare(value, x0, x1, p) ==
  ShareOf([q \in Parties |-> CASE q = 0 -> x0
                               [] q = 1 -> x1
                               [] q = 2 -> Xor(value, Xor(x0, x1))], p)

(* The n-th element from now of p's own stream and of its predecessor's.   *)
Own(p, n)   == stream[p][position[p].own + n]
Other(p, n) == stream[PrevId(p)][position[p].other + n]

(* Faulty variant of Drew: random_elements where one stream is meant.      *)
DrewBoth(p, own, other) ==
  position' = [position EXCEPT ![p] = [own   |-> @.own + Max({own, other}),
                                       other |-> @.other + Max({own, other})]]

Drew(p, own, other) ==
  position' = [position EXCEPT ![p] = [own |-> @.own + own, other |-> @.other + other]]

(* random_perm's permutations, p's own and its predecessor's.              *)
PermA(p) == perm[p]
PermB(p) == perm[PrevId(p)]

Cells == Columns \X Indices
Nth(c, i) == (c - 1) * Length + i + 1     (* of a column's element, row by row *)

Init ==
  /\ flags \in Flags
  /\ rows \in Rows
  /\ perm \in [Parties -> Bijection(Indices, Indices)]
  /\ stream \in Masks
  /\ position = [p \in Parties |-> [own |-> 0, other |-> 0]]
  /\ rho = [p \in Parties |-> [i \in Indices |->
              AdditiveShare(BitPerm(flags)[i], i % Ring, (3 * i + 1) % Ring, p)]]
  /\ input = [p \in Parties |-> [x \in Cells |->
                XorShare(rows[x[1]][x[2]], BitsOf(x[2]), BitsOf(x[1]), p)]]
  /\ pc = [p \in Parties |-> "reveal"]
  /\ net = [p \in Parties |-> [q \in Parties |-> <<>>]]
  /\ opened = [p \in Parties |-> None]
  /\ local = [p \in Parties |-> None]
  /\ result = [p \in Parties |-> None]

Goto(p, label) == pc' = [pc EXCEPT ![p] = label]

SendTo(p, q, m) == net' = [net EXCEPT ![p][q] = Append(@, m)]

Arrived(p, q) == Head(net[p][q])

---------------------------------------------------------------------------
(* shuffle_reveal_perm.  Parties 0 and 1 send party 2 what they hold of    *)
(* the places, permuted by the permutation party 2 lacks.                  *)

RevealPerm0 ==
  /\ pc[0] = "reveal"
  /\ SendTo(0, 2, [i \in Indices |->
       (rho[0][PermA(0)[i]].a + rho[0][PermA(0)[i]].b - Own(0, i + 1)) % Ring])
  /\ Drew(0, Length, 0)
  /\ Goto(0, "opened")
  /\ UNCHANGED <<given, opened, local, result>>

RevealPerm1 ==
  /\ pc[1] = "reveal"
  /\ SendTo(1, 2, [i \in Indices |->
       (rho[1][PermB(1)[i]].a + Other(1, i + 1)) % Ring])
  /\ Drew(1, 0, Length)
  /\ Goto(1, "opened")
  /\ UNCHANGED <<given, opened, local, result>>

(* Faulty variant of PlacesAt2: the other two permutations in the wrong    *)
(* order.                                                                  *)
PlacesAt2Swapped(delta, gamma) ==
  [i \in Indices |->
     LET index == PermB(2)[PermA(2)[i]] IN (gamma[index] + delta[index]) % Ring]

PlacesAt2(delta, gamma) ==
  [i \in Indices |->
     LET index == PermA(2)[PermB(2)[i]] IN (gamma[index] + delta[index]) % Ring]

RevealPerm2 ==
  /\ pc[2] = "reveal" /\ net[0][2] # <<>> /\ net[1][2] # <<>>
  /\ LET shuffled == PlacesAt2(Arrived(0, 2), Arrived(1, 2))
     IN  /\ opened' = [opened EXCEPT ![2] = shuffled]
         /\ net' = [net EXCEPT ![0][2] = Tail(@), ![1][2] = Tail(@),
                               ![2][0] = Append(@, shuffled), ![2][1] = Append(@, shuffled)]
  /\ Goto(2, "shuffle")
  /\ UNCHANGED <<given, position, local, result>>

Opened(p) ==
  /\ pc[p] = "opened" /\ net[2][p] # <<>>
  /\ opened' = [opened EXCEPT ![p] = Arrived(2, p)]
  /\ net' = [net EXCEPT ![2][p] = Tail(@)]
  /\ Goto(p, "shuffle")
  /\ UNCHANGED <<given, position, local, result>>

---------------------------------------------------------------------------
(* shuffle_rows_many.                                                      *)

CellsDrawn == Cardinality(Cells)

(* Party 0 applies the permutations it knows to two thirds of the rows and *)
(* leaves the last one to party 1; its new shares are random.              *)
ShuffleRows0 ==
  LET beta == [x \in Cells |-> Xor(input[0][x].a, input[0][x].b)]
      shuffled1 == [x \in Cells |->
        Xor(beta[<<x[1], PermA(0)[x[2]]>>], BitsOf(Own(0, Nth(x[1], x[2]))))]
      shuffled3 == [x \in Cells |->
        Xor(shuffled1[<<x[1], PermB(0)[x[2]]>>], BitsOf(Other(0, Nth(x[1], x[2]))))]
  IN  /\ pc[0] = "shuffle"
      /\ SendTo(0, 1, shuffled3)
      /\ result' = [result EXCEPT ![0] = [x \in Cells |->
           [a |-> BitsOf(Own(0, CellsDrawn + Nth(x[1], x[2]))),
            b |-> BitsOf(Other(0, CellsDrawn + Nth(x[1], x[2])))]]]
      /\ Drew(0, 2 * CellsDrawn, 2 * CellsDrawn)
      /\ Goto(0, "place")
      /\ UNCHANGED <<given, opened, local>>

ShuffleRows1Send ==
  /\ pc[1] = "shuffle"
  /\ SendTo(1, 2, [x \in Cells |->
       Xor(input[1][<<x[1], PermB(1)[x[2]]>>].a, BitsOf(Other(1, Nth(x[1], x[2]))))])
  /\ Drew(1, 0, CellsDrawn)
  /\ Goto(1, "reshare")
  /\ UNCHANGED <<given, opened, local, result>>

ShuffleRows1 ==
  /\ pc[1] = "reshare" /\ net[0][1] # <<>>
  /\ LET fresh == [x \in Cells |-> BitsOf(Other(1, Nth(x[1], x[2])))]
         rand == [x \in Cells |->
                    Xor(Arrived(0, 1)[<<x[1], PermA(1)[x[2]]>>], fresh[x])]
     IN  /\ net' = [net EXCEPT ![0][1] = Tail(@), ![1][2] = Append(@, rand)]
         /\ local' = [local EXCEPT ![1] = rand]
         /\ result' = [result EXCEPT ![1] = [x \in Cells |-> [a |-> {}, b |-> fresh[x]]]]
  /\ Drew(1, 0, CellsDrawn)
  /\ Goto(1, "exchange")
  /\ UNCHANGED <<given, opened>>

ShuffleRows2 ==
  /\ pc[2] = "shuffle" /\ net[1][2] # <<>>
  /\ LET gamma == Arrived(1, 2)
         shuffled1 == [x \in Cells |->
           Xor(gamma[<<x[1], PermA(2)[x[2]]>>], BitsOf(Own(2, Nth(x[1], x[2]))))]
         fresh == [x \in Cells |-> BitsOf(Own(2, CellsDrawn + Nth(x[1], x[2])))]
         rand == [x \in Cells |-> Xor(shuffled1[<<x[1], PermB(2)[x[2]]>>], fresh[x])]
     IN  /\ net' = [net EXCEPT ![1][2] = Tail(@), ![2][1] = Append(@, rand)]
         /\ local' = [local EXCEPT ![2] = rand]
         /\ result' = [result EXCEPT ![2] = [x \in Cells |-> [a |-> fresh[x], b |-> {}]]]
  /\ Drew(2, 2 * CellsDrawn, 0)
  /\ Goto(2, "exchange")
  /\ UNCHANGED <<given, opened>>

(* Parties 1 and 2 exchange what they hold: together the component both    *)
(* keep.                                                                   *)
Exchange(p, peer) ==
  /\ pc[p] = "exchange" /\ net[peer][p] # <<>>
  /\ LET both == [x \in Cells |-> Xor(Arrived(peer, p)[x], local[p][x])]
     IN  result' = [result EXCEPT ![p] = [x \in Cells |->
           IF p = 1 THEN [@[x] EXCEPT !.a = both[x]] ELSE [@[x] EXCEPT !.b = both[x]]]]
  /\ net' = [net EXCEPT ![peer][p] = Tail(@)]
  /\ Goto(p, "place")
  /\ UNCHANGED <<given, position, opened, local>>

(* Each shuffled row goes to the place opened for it.                      *)
Place(p) ==
  /\ pc[p] = "place"
  /\ result' = [result EXCEPT ![p] = [x \in Cells |->
       LET i == CHOOSE i \in Indices : opened[p][i] - 1 = x[2] IN @[<<x[1], i>>]]]
  /\ Goto(p, "done")
  /\ UNCHANGED <<given, position, net, opened, local>>

Done == (\A p \in Parties : pc[p] = "done") /\ UNCHANGED vars

Next ==
  \/ RevealPerm0 \/ RevealPerm1 \/ RevealPerm2
  \/ Opened(0) \/ Opened(1)
  \/ ShuffleRows0 \/ ShuffleRows1Send \/ ShuffleRows1 \/ ShuffleRows2
  \/ Exchange(1, 2) \/ Exchange(2, 1)
  \/ \E p \in Parties : Place(p)
  \/ Done

Spec == Init /\ [][Next]_vars

---------------------------------------------------------------------------
(* When all three are done, the pairs have drawn equally much from their   *)
(* streams, and no message is left over.                                   *)
StreamsAligned ==
  (\A p \in Parties : pc[p] = "done") =>
    \A p \in Parties :
      /\ position[p].own = position[NextId(p)].other
      /\ \A q \in Parties : net[p][q] = <<>>

(* "Oblivious stable sort that moves dummy rows to the end": every row is  *)
(* behind exactly those that the order puts before it, the unflagged ones  *)
(* first and each kind in its old order, in every column, and all parties  *)
(* hold shares of it.                                                      *)
Before(i) ==
  {j \in Indices : flags[j] < flags[i] \/ (flags[j] = flags[i] /\ j < i)}

SortedStably ==
  (\A p \in Parties : pc[p] = "done") =>
    \A c \in Columns, i \in Indices :
      LET share == [p \in Parties |-> result[p][<<c, Cardinality(Before(i))>>]]
      IN  Replicated(share) /\ RevealTo(0, share) = rows[c][i]

(* What is opened does not depend on the bits alone: every party sees the  *)
(* places in an order that a permutation it does not know has changed, and *)
(* all see the same.                                                       *)
OpenedShuffled ==
  \A p \in Parties : opened[p] # None =>
    opened[p] = [i \in Indices |-> BitPerm(flags)[perm[0][perm[2][perm[1][i]]]]]
=============================================================================
