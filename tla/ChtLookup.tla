----------------------------- MODULE ChtLookup -----------------------------
(***************************************************************************)
(* A lookup in the cuckoo hash table, on shares (circuits/src/             *)
(* cht_lookup.rs and the lookups of data-structures/src/cht.rs).  A block  *)
(* is a set of bits, its tag above its index.  The receivers hold the      *)
(* table as XOR shares between the two of them; the garblers, ID1 and ID2, *)
(* enter the components of three packed words into a circuit that the      *)
(* evaluator, ID0, evaluates.  Garbling itself is external: the circuit is *)
(* taken for what its gates compute.                                       *)
(*                                                                         *)
(* `rand` is the randomness of one lookup: what the stream each party      *)
(* shares with its successor yields for each word.                         *)
(***************************************************************************)
EXTENDS Rep3

CONSTANTS
  KeyTagBits,   (* 96                                                      *)
  IndexBits     (* 32                                                      *)

Builder == 0
Receivers == {NextId(Builder), PrevId(Builder)}

(* A word split between the receivers becomes a replicated share: the      *)
(* parties send what they hold, blinded, to their successors.              *)
From2Shares(half, stream) ==
  LET component(p) == LocalComponent(p, half[p], PrevId(Builder),
                        NextId(Builder), stream[p], stream[PrevId(p)])
  IN  [p \in Parties |-> Recombine(component(p), component(PrevId(p)))]

(* lookup_from_2shares up to the circuit: the builder's successor supplies *)
(* the tag, both receivers their halves of the tag's two cells.            *)
LookupWords(key, cell0, cell1, rand) ==
  LET halves == << [p \in Parties |-> IF p = NextId(Builder) THEN key ELSE {}],
                   cell0, cell1 >>
  IN  [i \in 1 .. 3 |-> From2Shares(halves[i], rand[i])]

(* A word's tag, moved down, below an index.                               *)
Packed(tag, index) ==
  {bit - IndexBits : bit \in {t \in tag : t >= IndexBits}}
    \cup {KeyTagBits + bit : bit \in index \cap (0 .. IndexBits - 1)}

PackTagAndIndex(tag, index) ==
  [a |-> Packed(tag.a, index.a), b |-> Packed(tag.b, index.b)]

PackLookupInputs(key, b0, b1, dummyIndex) ==
  << PackTagAndIndex(key, b0), PackTagAndIndex(b0, b1),
     PackTagAndIndex(b1, dummyIndex) >>

(* Faulty variant: each garbler enters the component of its own.           *)
GarblerInputOwn(id, share) == share.a

(* What a garbler enters: ID1 two components, its own and the evaluator's, *)
(* and ID2 the third.                                                      *)
GarblerInput(id, share) == IF id = 1 THEN Xor(share.a, share.b) ELSE share.a

TagOf(word) == word \cap (0 .. KeyTagBits - 1)
IndexOf(word) == {bit - KeyTagBits : bit \in {t \in word : t >= KeyTagBits}}

(* evaluate_lookup_circuit: the index, and the found bit above it.         *)
EvaluateLookupCircuit(x01, x2) ==
  LET inputs == [i \in 1 .. 3 |-> Xor(x01[i], x2[i])]
      equals0 == TagOf(inputs[1]) = TagOf(inputs[2])
      equals1 == TagOf(inputs[1]) = TagOf(inputs[3])
      b1OrDummy == IF equals1 THEN IndexOf(inputs[2]) ELSE IndexOf(inputs[3])
      selected == IF equals0 THEN IndexOf(inputs[1]) ELSE b1OrDummy
  IN  selected \cup (IF equals0 # equals1 THEN {IndexBits} ELSE {})

(* The circuit's output as a replicated share.                             *)
Y2B(output, rand) ==
  LET components == <<rand[0], rand[1], Xor(output, Xor(rand[0], rand[1]))>>
  IN  [p \in Parties |-> [a |-> components[p + 1], b |-> components[PrevId(p) + 1]]]

Compute(words, dummyIndex, rand) ==
  LET inputs == [p \in Parties |-> PackLookupInputs(words[1][p], words[2][p],
                                     words[3][p], dummyIndex[p])]
      entered(p) == [i \in 1 .. 3 |-> GarblerInput(p, inputs[p][i])]
      output == Y2B(EvaluateLookupCircuit(entered(1), entered(2)), rand)
  IN  [p \in Parties |->
         [index |-> OnShare(LAMBDA c : c \cap (0 .. IndexBits - 1), output[p]),
          found |-> OnShare(LAMBDA c : IF IndexBits \in c THEN {0} ELSE {},
                            output[p])]]

(* lookup_from_2shares: the index in the clear at the receivers, the found *)
(* bit shared.  Cells are functions from the parties, the builder's empty; *)
(* the dummy index is shared.                                              *)
LookupFrom2Shares(key, cell0, cell1, dummyIndex, rand) ==
  LET result == Compute(LookupWords(key, cell0, cell1, rand), dummyIndex, rand[4])
      indices == [p \in Parties |-> result[p].index]
  IN  [index |-> [p \in Receivers |-> RevealTo(p, indices)],
       found |-> [p \in Parties |-> result[p].found]]
=============================================================================
