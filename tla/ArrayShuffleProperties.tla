----------------------- MODULE ArrayShuffleProperties -----------------------
(***************************************************************************)
(* What the callers of the array shuffle rely on: OhTable for the order of *)
(* its rows and the indices of its dummies, the hierarchy for the bottom   *)
(* level.                                                                  *)
(***************************************************************************)
EXTENDS ArrayShuffle

(* The arrays the parties' shares stand for.                               *)
Opened(array, target) ==
  [i \in Indices |-> RevealTo(target, [p \in Parties |-> array[p][i]])]

AllAt(n) == \A p \in Parties : shuffler[p] # None /\ local[p] = <<>> /\ step[p] = n

Inverts == steps[1][2] # None

(* Two parties that share a stream have drawn the same number of elements  *)
(* of it whenever they have come equally far: every later use of the       *)
(* stream, here or elsewhere, depends on it.                               *)
StreamsAligned ==
  \A p \in Parties :
    (shuffler[p] = None <=> shuffler[NextId(p)] = None) /\ step[p] = step[NextId(p)] =>
      position[p].own = position[NextId(p)].other

(* After every step all three hold shares of the same values, which every  *)
(* party would open alike: the array reordered, and at last the array      *)
(* shuffled by the pairs' permutations, one after another.                 *)
ShuffledBySteps ==
  LET after[n \in 0 .. Len(steps)] ==
        IF n = 0 THEN secret ELSE Shuffle(shuffler[steps[n][1]].next, after[n - 1])
  IN  \A n \in 0 .. Len(steps) : AllAt(n) =>
        /\ \A i \in Indices : Replicated([p \in Parties |-> forward[p][i]])
        /\ \A target \in Parties : Opened(forward, target) = after[n]

(* The index array ends up telling where each element went, although no    *)
(* party knows: this is what dummy_indices are.                            *)
InverseTellsPlaces ==
  AllAt(Len(steps)) /\ Inverts =>
    \A i \in Indices : \E place \in Indices :
      Opened(inverse, 0)[i] = BitsOf(place) /\ Opened(forward, 0)[place] = secret[i]

(* A shuffle known to p and its successor: both find where an element      *)
(* went, and find the same (the receivers' evaluate_at in OhTable).        *)
KnownToTwo ==
  AllAt(Len(steps)) /\ Len(steps) = 1 =>
    LET p == steps[1][1]
    IN  \A i \in Indices :
          /\ EvaluateAt(shuffler[p].next, i) = EvaluateAt(shuffler[NextId(p)].prev, i)
          /\ Opened(forward, 0)[EvaluateAt(shuffler[p].next, i)] = secret[i]
=============================================================================
