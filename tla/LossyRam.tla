------------------------------ MODULE LossyRam ------------------------------
(***************************************************************************)
(* What is left of Ram when the network phases of a DORAM may fail: a call *)
(* may end with an error, and what the failed step had in hand may be      *)
(* lost, that is, fall back to the default value.  Nothing else changes,   *)
(* and no address ever takes a value it did not have.                      *)
(***************************************************************************)
EXTENDS Ram

VARIABLE recent   (* the addresses a failing rebuild may lose; how it      *)
                  (* evolves is left open                                  *)

(* The call under way ends without results; the addresses `lost` forget    *)
(* their values, the rest of the memory keeps what was performed so far.   *)
EndCallLosing(lost) ==
  /\ mem' = [x \in DOMAIN mem |-> IF x \in lost THEN Default ELSE mem[x]]
  /\ pending' = <<>> /\ results' = <<>>

(* An access fails: only addresses it asked for are at risk.               *)
FailAccess ==
  \E lost \in SUBSET {pending[i].x : i \in DOMAIN pending} : EndCallLosing(lost)

FailRebuild == pending # <<>> /\ \E lost \in SUBSET recent : EndCallLosing(lost)

LossyNext == Next \/ FailAccess \/ FailRebuild

LossySpec == Init /\ [][LossyNext]_vars
=============================================================================
