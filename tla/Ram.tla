-------------------------------- MODULE Ram --------------------------------
(***************************************************************************)
(* What a GigaDoram promises its caller: a memory.  A call hands in a      *)
(* sequence of reads and writes; each returns the value its address had    *)
(* just before, as if the operations ran one after the other, and the      *)
(* memory may double, the new half holding the default value.              *)
(***************************************************************************)
EXTENDS Integers, SequencesExt

CONSTANTS
  Calls,     (* the sequences of operations a caller may submit            *)
  Contents,  (* the memories a DORAM may be created with                   *)
  Default,   (* the value of an address nobody wrote                       *)
  NoWrite    (* the `y` of an operation that only reads                    *)

VARIABLES
  mem,       (* the value of every address                                 *)
  pending,   (* the operations of the current call not yet performed       *)
  results    (* the values it has returned so far                          *)

vars == <<mem, pending, results>>

Idle == pending = <<>> /\ results = <<>>

Init == mem \in Contents /\ Idle

InRange(ops) == \A i \in DOMAIN ops : ops[i].x \in DOMAIN mem

(* The memory m after ops: an address has the value last written to it.    *)
PerformAll(m, ops) ==
  [x \in DOMAIN m |->
     LET writes == {i \in DOMAIN ops : ops[i].x = x /\ ops[i].y # NoWrite}
     IN  IF writes = {} THEN m[x] ELSE ops[Max(writes)].y]

Call(ops) ==
  /\ Idle /\ InRange(ops)
  /\ pending' = ops
  /\ UNCHANGED <<mem, results>>

(* The first n pending operations, in order.                               *)
Serve(n) ==
  LET ops == SubSeq(pending, 1, n)
      Before(i) == PerformAll(mem, SubSeq(ops, 1, i - 1))
  IN  /\ n \in 1 .. Len(pending)
      /\ mem' = PerformAll(mem, ops)
      /\ results' = results \o [i \in 1 .. n |-> Before(i)[ops[i].x]]
      /\ pending' = SubSeq(pending, n + 1, Len(pending))

Return ==
  /\ pending = <<>> /\ results # <<>>
  /\ results' = <<>>
  /\ UNCHANGED <<mem, pending>>

Grow ==
  LET size == Cardinality(DOMAIN mem)
  IN  /\ Idle
      /\ mem' = [x \in 0 .. 2 * size - 1 |->
                   IF x \in DOMAIN mem THEN mem[x] ELSE Default]
      /\ UNCHANGED <<pending, results>>

Next ==
  \/ \E ops \in Calls : Call(ops)
  \/ \E n \in 1 .. Len(pending) : Serve(n)
  \/ Return
  \/ Grow

Spec == Init /\ [][Next]_vars
=============================================================================
