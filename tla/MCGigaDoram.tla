---------------------------- MODULE MCGigaDoram ----------------------------
(* Instances of GigaDoram for TLC.                                         *)
EXTENDS GigaDoramProperties

CONSTANTS
  MaxBatch,   (* operations in one batch                                   *)
  Users       (* the addresses callers use                                 *)

(* Reads, and writes of a value that differs from the default.             *)
Op == [x: Users, y: {Bits, NoWrite}]

Single == [1 .. 1 -> Op]

(* Writes of address 0, reads of the others; in a batch the other way.     *)
SingleWritesZero == {ops \in Single : ops[1].y # NoWrite <=> ops[1].x = 0}

(* Reads of every address, and writes of address 0.                        *)
SingleReadsAll == {ops \in Single : ops[1].y # NoWrite => ops[1].x = 0}

(* Batches whose operations have pairwise distinct addresses.              *)
Distinct ==
  UNION {{ops \in [1 .. n -> Op] : \A i, j \in 1 .. n :
            ops[i].x = ops[j].x => i = j} : n \in 2 .. MaxBatch}

(* Batches of every user's address, in increasing order.                   *)
EveryUser ==
  {ops \in [1 .. Cardinality(Users) -> Op] :
     \A i, j \in DOMAIN ops : i < j => ops[i].x < ops[j].x}

(* The batch of these that reads address 0 and writes the others.          *)
BatchReadsZero ==
  {ops \in EveryUser : \A i \in DOMAIN ops : ops[i].y = NoWrite <=> ops[i].x = 0}

(* Batches that name one address twice.                                    *)
Repeated == {ops \in [1 .. 2 -> Op] : ops[1].x = ops[2].x}

(* The stashes, up to the names of entries no caller asks for, which are   *)
(* not observed: any of the entries callers ask for, and the last others.  *)
UserStash(n, S) ==
  LET asked  == {e \in S : e.x \in Users}
      others == S \ asked
      LastOf(k) == {e \in others : Cardinality({f \in others : f.x > e.x}) < k}
  IN  {A \cup LastOf(n - Cardinality(A)) :
         A \in {B \in SUBSET asked : /\ Cardinality(B) <= n
                                    /\ n - Cardinality(B) <= Cardinality(others)}}

(* Cache of 4, of which 2 are stash; the bottom holds 8 addresses.         *)
Wide == {WithStashSize(3, 2, 1, 2)}

(* Cache of 2; tables of 2, 4 and 8 entries.                               *)
Deep == {WithStashSize(3, 3, 1, 1)}

(* One of the two.  Neither can grow into the other.                       *)
WideOrDeep == Wide \cup Deep

(* Cache of 2, 4 addresses: a batch of three spans at least two rebuilds.  *)
Small == {WithStashSize(2, 2, 1, 1)}

(* Cache of 2, 4 addresses; it can grow to a cache of 4 and 8 addresses.   *)
Growing == {WithStashSize(2, 2, 1, 1), WithStashSize(3, 2, 1, 1)}

(* All-zero contents, and contents with one address written.               *)
SomeContents ==
  UNION {{[x \in Addresses(c) |-> Zero],
          [x \in Addresses(c) |-> IF x = 0 THEN Bits ELSE Zero]} : c \in Configs}
=============================================================================
