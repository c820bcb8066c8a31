------------------------------- MODULE LowMC -------------------------------
(***************************************************************************)
(* The LowMC cipher on shares, in its three layouts                        *)
(* (circuits/src/lowmc): packed_u64 holds a block of one tag in a share,   *)
(* and tags the entries of a table; packed_u8_lanes spreads the blocks of  *)
(* a group of tags over the bits of bytes, and tags the queries;           *)
(* bit_sliced does so for many blocks and is what the tests compare the    *)
(* others with.  A block is the set of its bits, a wire the set of the     *)
(* lanes whose block has its bit.                                          *)
(***************************************************************************)
EXTENDS Rep3

CONSTANTS
  Rounds, Sboxes, BlockSize,   (* N_ROUNDS, N_SBOXES, BLOCK_SIZE           *)
  WindowSize,                  (* M4R_WINDOW_SIZE                          *)
  Masks,                       (* M4R_MASKS[round][window][bit]            *)
  RoundConstants,              (* the bits set, by round                   *)
  Element(_, _, _)             (* of a party's stream, in a round, for a gate *)

Block == 0 .. BlockSize - 1
SboxBits == 0 .. 3 * Sboxes - 1
Windows == 0 .. BlockSize \div WindowSize - 1
Selectors == 0 .. 2 ^ WindowSize - 1

ASSUME ShapeAssumption ==
  /\ 3 * Sboxes <= BlockSize /\ BlockSize % WindowSize = 0
  /\ Masks \in [0 .. Rounds - 1 -> [Windows -> [Block -> Selectors]]]
  /\ RoundConstants \in [0 .. Rounds - 1 -> SUBSET Block]

---------------------------------------------------------------------------
(* The linear layer, by the method of the four Russians.                   *)

TrailingZeros(n) == CHOOSE z \in 0 .. n : n % 2 ^ z = 0 /\ n % 2 ^ (z + 1) # 0

(* m4r_lut and fill_out_lut: the sums of the subsets of a window's inputs, *)
(* each from the one before by a single input.                             *)
Subsums(input) ==
  LET sum[i \in Selectors] == IF i = 0 THEN {} ELSE Xor(sum[i - 1], input[TrailingZeros(i)])
  IN  sum

(* build_linear_tables: what the inputs of a window, each the bit 0 or     *)
(* nothing, add to the output.                                             *)
LinearTables ==
  [round \in 0 .. Rounds - 1 |-> [window \in Windows |-> [bits \in SUBSET (0 .. WindowSize - 1) |->
     LET lut == Subsums([i \in 0 .. WindowSize - 1 |-> IF i \in bits THEN {0} ELSE {}])
     IN  {bit \in Block : 0 \in lut[Masks[round][window][bit]]}]]]

(* mpc_linear_layer, on a component.                                       *)
LinearLayer(round, block) ==
  FoldSet(LAMBDA window, output :
            Xor(output, LinearTables[round][window]
                          [{i \in 0 .. WindowSize - 1 : window * WindowSize + i \in block}]),
          {}, Windows)

---------------------------------------------------------------------------
(* Blocks as wires: the bits that are set, each with its lane.             *)

LaneMask(len) == 0 .. len - 1

(* bit_slice and bit_slice_blocks: each block in a lane of its own.        *)
BitSlice(blocks) ==
  LET component(C(_)) ==
        UNION {{<<bit, lane - 1>> : bit \in C(blocks[lane])} : lane \in DOMAIN blocks}
  IN  [a |-> component(LAMBDA s : s.a), b |-> component(LAMBDA s : s.b)]

Wire(component, bit) == {w[2] : w \in {v \in component : v[1] = bit}}
BlockIn(component, lane) == {w[1] : w \in {v \in component : v[2] = lane}}

WireShare(wires, bit) == OnShare(LAMBDA c : Wire(c, bit), wires)

(* pack_lanes.                                                             *)
PackLanes(wires, len) == [lane \in 1 .. len |-> OnShare(LAMBDA c : BlockIn(c, lane - 1), wires)]

(* four_russians_into: the lanes out of the wires, the layer on those in   *)
(* use, and back.                                                          *)
LinearLanes(round, wires, numLanes) ==
  OnShare(LAMBDA c :
            {w \in c : w[2] >= numLanes} \cup
            UNION {{<<bit, lane>> : bit \in LinearLayer(round, BlockIn(c, lane))} :
                     lane \in LaneMask(numLanes)},
          wires)

(* four_russians_matrix_mult: on the wires themselves.                     *)
LinearWires(round, wires) ==
  LET selected(c, window, bit) ==
        Subsums([i \in 0 .. WindowSize - 1 |-> Wire(c, window * WindowSize + i)])
          [Masks[round][window][bit]]
      output(c, bit) == FoldSet(LAMBDA window, sum : Xor(sum, selected(c, window, bit)), {}, Windows)
  IN  OnShare(LAMBDA c : UNION {{<<bit, lane>> : lane \in output(c, bit)} : bit \in Block}, wires)

(* collect_sbox_ands: of the bits a, b, c of an S-box bc, ca and ab.       *)
SboxAnds(wires, lanes) ==
  [i \in 1 .. 3 * Sboxes |->
     LET s == 3 * ((i - 1) \div 3)
         k == (i - 1) % 3
     IN  <<WireShare(wires, s + ((k + 1) % 3)), WireShare(wires, s + ((k + 2) % 3)), lanes>>]

(* apply_sbox_ands: a ^ bc, a ^ b ^ ca, a ^ b ^ c ^ ab.                    *)
ApplySboxAnds(wires, ands) ==
  LET component(c, products(_)) ==
        {w \in c : w[1] \notin SboxBits} \cup
        UNION {{<<bit, lane>> :
                  lane \in FoldSet(LAMBDA j, sum : Xor(sum, Wire(c, j)), products(bit + 1),
                                   (bit - (bit % 3)) .. bit)} : bit \in SboxBits}
  IN  [a |-> component(wires.a, LAMBDA i : ands[i].a),
       b |-> component(wires.b, LAMBDA i : ands[i].b)]

(* xor_constants: in the lanes in use only.                                *)
XorConstants(p, round, wires, lanes) ==
  XorShares(wires, PromotePublic(p, RoundConstants[round] \X lanes))

(* A party's part of a gate <<lhs, rhs, bits of its type>>, masked.        *)
LocalGate(p, round, gates, g) ==
  LocalAnd(gates[g][1], gates[g][2],
           Element(p, round, g) \cap gates[g][3], Element(PrevId(p), round, g) \cap gates[g][3])

---------------------------------------------------------------------------
(* The other two layouts, all three parties a round at a time.             *)

OfParties(F(_)) == 0 :> F(0) @@ 1 :> F(1) @@ 2 :> F(2)

RoundNumbers == [n \in 1 .. Rounds |-> n - 1]

(* mpc_sbox_local: the neighbours come under each bit by shifts and masks. *)
SboxLocal(p, round, s, i) ==
  LET rotated(c) == {j \in Block : (IF j % 3 = 0 THEN j + 2 ELSE j - 1) \in c}
      cab == OnShare(rotated, s)
      bca == OnShare(rotated, cab)
      and == LocalAnd(bca, cab, Element(p, round, i) \cap Block, Element(PrevId(p), round, i) \cap Block)
      at(k) == {j \in SboxBits : j % 3 = k}
  IN  UNION {Xor(s.a, and) \cap at(0),
             Xor(Xor(s.a, cab.a), and) \cap at(1),
             Xor(Xor(Xor(s.a, bca.a), cab.a), and) \cap at(2),
             s.a \ SboxBits}

(* The rest of a round, with both parts of the S-boxes and a round key.    *)
PackedRound(p, round, local, fromPrev, key) ==
  LET linear == OnShare(LAMBDA c : LinearLayer(round, c), Recombine(local, fromPrev))
  IN  XorShares(XorShares(linear, PromotePublic(p, RoundConstants[round])), key)

(* mpc_encrypt_with_roundkeys for the i-th block of a call: input[p] is    *)
(* p's share of it, and Key(p, round) of the round keys.                   *)
PackedEncrypt(input, Key(_, _), i) ==
  FoldLeft(
    LAMBDA state, round :
      LET local == OfParties(LAMBDA p : SboxLocal(p, round, state[p], i))
      IN  OfParties(LAMBDA p : PackedRound(p, round, local[p], local[PrevId(p)], Key(p, round + 1))),
    OfParties(LAMBDA p : XorShares(input[p], Key(p, 0))), RoundNumbers)

(* sbox_layer_many before its round, for one chunk of blocks.              *)
SlicedLocal(p, round, wires, len) ==
  LET gates == SboxAnds(wires, LaneMask(len))
  IN  [g \in DOMAIN gates |-> LocalGate(p, round, gates, g)]

(* The rest of a round of encrypt_many_inner.                              *)
SlicedRound(p, round, wires, local, fromPrev, len, key) ==
  LET ands == [g \in DOMAIN local |-> Recombine(local[g], fromPrev[g])]
      linear == LinearWires(round, ApplySboxAnds(wires, ands))
  IN  XorShares(XorConstants(p, round, linear, LaneMask(len)), key)

(* encrypt_many_inner on one chunk: inputs[p] is p's shares, and           *)
(* Key(p, i, round) of the round keys of the i-th.                         *)
SlicedEncrypt(inputs, Key(_, _, _)) ==
  LET len == Len(inputs[0])
      keys(p, round) == BitSlice([i \in 1 .. len |-> Key(p, i, round)])
      final ==
        FoldLeft(
          LAMBDA state, round :
            LET local == OfParties(LAMBDA p : SlicedLocal(p, round, state[p], len))
            IN  OfParties(LAMBDA p : SlicedRound(p, round, state[p], local[p], local[PrevId(p)],
                                                 len, keys(p, round + 1))),
          OfParties(LAMBDA p : XorShares(BitSlice(inputs[p]), keys(p, 0))), RoundNumbers)
  IN  OfParties(LAMBDA p : PackLanes(final[p], len))
=============================================================================
