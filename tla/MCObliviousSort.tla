-------------------------- MODULE MCObliviousSort --------------------------
(* An instance of ObliviousSort for TLC: every array of three bits, every  *)
(* triple of permutations, two columns.                                    *)
EXTENDS ObliviousSort

AllFlags == [Indices -> {0, 1}]

TwoColumns == {<<[i \in Indices |-> BitsOf(i + 1)], [i \in Indices |-> BitsOf(3 - i)]>>}

OneMask ==
  {[p \in Parties |-> [n \in 1 .. 5 * CellsDrawn |-> (n * n + (p + 1) * n + 1) % Ring]]}

Two == {1, 2}
=============================================================================
