-------------------------------- MODULE Rep3 --------------------------------
(***************************************************************************)
(* Replicated XOR shares among three parties (primitives/src/types.rs,     *)
(* utils.rs).  A value is the XOR of three components; party p holds its   *)
(* own component, a, and its predecessor's, b.  Values are sets of bits.   *)
(***************************************************************************)
EXTENDS Integers, FiniteSetsExt, SequencesExt

Parties == 0 .. 2
NextId(p) == (p + 1) % 3
PrevId(p) == (p + 2) % 3

Xor(x, y) == (x \ y) \cup (y \ x)

(* The bits of a number.                                                   *)
BitsOf(n) == {b \in 0 .. n : (n \div 2 ^ b) % 2 = 1}

(* What party p holds of a value with these components.                    *)
ShareOf(components, p) == [a |-> components[p], b |-> components[PrevId(p)]]

(* A public value as a share: the first component.                         *)
PromotePublic(id, value) ==
  CASE id = 0 -> [a |-> value, b |-> {}]
    [] id = 1 -> [a |-> {}, b |-> value]
    [] id = 2 -> [a |-> {}, b |-> {}]

(* Bitwise operations on shares.                                           *)
XorShares(s, t) == [a |-> Xor(s.a, t.a), b |-> Xor(s.b, t.b)]

(* set_alibi_bit: whatever shares the bit had, it is the public one now.   *)
SetAlibiBit(s, level, p) ==
  [a |-> IF p = 0 THEN s.a \cup {level} ELSE s.a \ {level},
   b |-> IF p = 1 THEN s.b \cup {level} ELSE s.b \ {level}]

(* get_alibi_bits, of one level.                                           *)
GetAlibiBit(s, level) ==
  [a |-> IF level \in s.a THEN {0} ELSE {}, b |-> IF level \in s.b THEN {0} ELSE {}]

(* A linear operation, applied to both components.                         *)
OnShare(F(_), s) == [a |-> F(s.a), b |-> F(s.b)]

(* A party's part of the AND of two shared values, masked with the         *)
(* elements of its two streams.                                            *)
LocalAnd(s, t, rand1, rand2) ==
  Xor(Xor(rand1, rand2), Xor(Xor(s.a \cap t.a, s.a \cap t.b), s.b \cap t.a))

(* bit_to_binary_mask: every bit of a word, if the shared bit 0 is set.    *)
BitToMask(s, word) == OnShare(LAMBDA c : IF 0 \in c THEN word ELSE {}, s)

(* The value target finds with the b of its predecessor.                   *)
RevealTo(target, share) ==
  Xor(Xor(share[target].a, share[target].b), share[PrevId(target)].b)

(* The parties' shares belong to one value.                                *)
Replicated(share) == \A p \in Parties : share[p].b = share[PrevId(p)].a

(* reshare_3_to_2: the share split between two parties.                    *)
TwoShare(id, share, to1, to2) ==
  CASE id = to1 -> Xor(share.a, share.b)
    [] id = to2 -> IF to2 = PrevId(to1) THEN share.b ELSE share.a
    [] OTHER -> {}

(* Faulty variant of LocalComponent: only one random element is added.     *)
LocalComponentOneMask(id, twoShare, from1, from2, rand1, rand2) ==
  Xor(rand1, IF id \in {from1, from2} THEN twoShare ELSE {})

(* from_2_shares before its round: the parties' random elements cancel     *)
(* out over the three.                                                     *)
LocalComponent(id, twoShare, from1, from2, rand1, rand2) ==
  Xor(Xor(rand1, rand2), IF id \in {from1, from2} THEN twoShare ELSE {})

(* ring_recombine.                                                         *)
Recombine(local, fromPrev) == [a |-> local, b |-> fromPrev]
=============================================================================
