---------------------------- MODULE RecordValues ----------------------------
(***************************************************************************)
(* The values of records as the shuffles and circuits see them             *)
(* (primitives/src/value.rs, bigintshare.rs, cast.rs).  A field value is a *)
(* BigInt of Limbs limbs of which ModulusBits bits are used; two limbs fit *)
(* a block.  Values of one, two or four bytes and addresses are narrower   *)
(* than a block and are widened and cut as the alibi byte is.  The         *)
(* components of a share may have bits that the value has no room for, as  *)
(* long as they cancel out.                                                *)
(***************************************************************************)
EXTENDS Rep3

CONSTANTS
  LimbBits,      (* 64                                                     *)
  Limbs,         (* of F::BigInt                                           *)
  ModulusBits    (* F::MODULUS_BIT_SIZE                                    *)

ASSUME LimbsAssumption ==
  LimbBits \in Nat \ {0} /\ ModulusBits \in 1 .. Limbs * LimbBits

BlockBits == 0 .. 2 * LimbBits - 1

NumBlocks == (ModulusBits + 2 * LimbBits - 1) \div (2 * LimbBits)

GetLimb(value, index) ==
  IF index < Limbs THEN {b \in 0 .. LimbBits - 1 : index * LimbBits + b \in value} ELSE {}

(* The bits a limb puts into a value.                                      *)
SetLimb(index, limb) ==
  IF index < Limbs THEN {index * LimbBits + b : b \in limb} ELSE {}

(* to_blocks, on a component.                                              *)
ToBlocks(value) ==
  [k \in 1 .. NumBlocks |->
     GetLimb(value, 2 * k - 2) \cup {LimbBits + b : b \in GetLimb(value, 2 * k - 1)}]

FromBlocks(blocks) ==
  UNION {SetLimb(2 * k - 2, blocks[k] \cap (0 .. LimbBits - 1))
           \cup SetLimb(2 * k - 1, {b - LimbBits : b \in {t \in blocks[k] : t >= LimbBits}}) :
         k \in 1 .. NumBlocks}

(* The bits of a value that bit_to_mask sets, limb by limb.                *)
AllOnes ==
  UNION {LET covered == limb * LimbBits
         IN  IF ModulusBits >= covered + LimbBits THEN covered .. covered + LimbBits - 1
             ELSE IF ModulusBits > covered THEN covered .. ModulusBits - 1 ELSE {} :
         limb \in 0 .. Limbs - 1}

(* The bits of a value that sample_bigint draws: whole limbs, and of the   *)
(* last one what the modulus leaves.                                       *)
SampledBits ==
  LET limbsize == (ModulusBits + LimbBits - 1) \div LimbBits
      last == IF ModulusBits % LimbBits = 0 THEN LimbBits ELSE ModulusBits % LimbBits
  IN  0 .. (limbsize - 1) * LimbBits + last - 1
=============================================================================
