------------------------- MODULE MCRebuildSchedule -------------------------
(* An instance of RebuildSchedule for TLC.                                 *)
EXTENDS RebuildSchedule

(* Three levels of amplification 4, whose counters reach 3 before they     *)
(* carry, with and without a stash; amplification 8; one level only;       *)
(* amplification 1; and chains of configurations a DORAM can grow along.   *)
Shapes == {WithStashSize(5, 3, 2, 0), WithStashSize(5, 3, 2, 1),
           WithStashSize(6, 3, 2, 1), WithStashSize(3, 1, 1, 3),
           WithStashSize(2, 3, 0, 1), WithStashSize(2, 2, 1, 1),
           WithStashSize(3, 3, 1, 1), WithStashSize(3, 2, 1, 1),
           WithStashSize(4, 2, 2, 2), WithStashSize(5, 5, 1, 0),
           WithStashSize(5, 1, 3, 7), WithStashSize(4, 2, 3, 1)}
=============================================================================
