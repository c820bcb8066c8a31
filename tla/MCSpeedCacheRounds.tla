------------------------- MODULE MCSpeedCacheRounds -------------------------
(* An instance of SpeedCacheRounds for TLC: addresses of 16 bits, four     *)
(* lanes to a group, the cipher with two S-boxes and ten bits beside them, *)
(* values of five bits in three limbs, that is in two blocks.              *)
EXTENDS SpeedCacheRounds

(* Any masks will do for the properties, invertible or not.                *)
SomeMasks ==
  [r \in 0 .. Rounds - 1 |-> [window \in Windows |-> [bit \in Block |->
     (bit * (window + 1) + bit \div 3 + r) % (2 ^ WindowSize)]]]

Bytes(n) == {b \in Block : (n \div 2 ^ b) % 2 = 1}

SomeRoundConstants == [r \in 0 .. Rounds - 1 |-> Bytes(91 * r + 37)]

SomeKeys ==
  [level \in 1 .. 3 |-> [r \in 1 .. Rounds + 1 |-> Bytes(73 * r + 29 * level)]]

SomeElement(p, r, g) == {j \in Word : (p * 11 + r * 5 + g * g * 3 + 2 * p * g + j * (p + g + 1)) % 3 = 0}

Item(x, y, alibi) == [x |-> x, y |-> BitsOf(y), alibi |-> BitsOf(alibi)]

(* Empty; entries alone and together; the sentinel; labels of dummies with *)
(* values left over.                                                       *)
SomeCaches ==
  {<<>>,
   <<Item({0}, 19, 0)>>,
   <<Item({Sentinel}, 22, 0), Item({1, 8}, 13, 2)>>,
   <<Item({0}, 17, 0), Item({1}, 30, 1), Item({1, Sentinel}, 7, 0)>>}

(* Some match, and some differ from an entry in one bit: in the last shift *)
(* of a chunk, in the one before, in another chunk.                        *)
UpToThree ==
  {<<{0}>>, <<{1, 8}>>, <<{0}, {1, 8}>>, <<{0, 3}, {0, 1}>>, <<{0, 2}, {}>>,
   <<{0}, {1}, {0, 3}>>}
=============================================================================
