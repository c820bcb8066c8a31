-------------------------- MODULE LocalPermutation --------------------------
(***************************************************************************)
(* Permutations as Fisher-Yates choices (primitives/src/permutation.rs):   *)
(* fy[i] is the index exchanged with i.  Arrays are functions on 0 .. n-1. *)
(***************************************************************************)
EXTENDS Integers, FiniteSetsExt, SequencesExt

(* The choices from_fisher_yates may be given for an array of length n.    *)
FisherYates(n) == {fy \in [0 .. n - 1 -> 0 .. n - 1] : \A i \in 0 .. n - 1 : fy[i] <= i}

Swap(values, i, j) == [values EXCEPT ![i] = values[j], ![j] = values[i]]

(* One exchange after another.                                             *)
SwapAll(values, fy, order) ==
  LET after[k \in 0 .. Len(order)] ==
        IF k = 0 THEN values ELSE Swap(after[k - 1], order[k], fy[order[k]])
  IN  after[Len(order)]

Size(fy) == Cardinality(DOMAIN fy)

(* From the last index down to 1.                                          *)
Shuffle(fy, values) == SwapAll(values, fy, [k \in 1 .. Size(fy) - 1 |-> Size(fy) - k])

(* From index 1 up to the last.                                            *)
InverseShuffle(fy, values) == SwapAll(values, fy, [k \in 1 .. Size(fy) - 1 |-> k])

(* Faulty variant of EvaluateAt: the identity is shuffled forwards.        *)
EvaluateAtForward(fy, i) == Shuffle(fy, [k \in DOMAIN fy |-> k])[i]

(* evaluate_at: where a shuffle puts the element at index i.               *)
EvaluateAt(fy, i) == InverseShuffle(fy, [k \in DOMAIN fy |-> k])[i]
=============================================================================
