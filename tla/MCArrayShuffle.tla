--------------------------- MODULE MCArrayShuffle ---------------------------
(* An instance of ArrayShuffle for TLC: every triple of permutations of    *)
(* three elements, masks that differ from stream to stream.                *)
EXTENDS ArrayShuffleProperties

(* The choices, then masks enough for three steps on two arrays.           *)
AllChoices ==
  {<<c[1], c[2]>> \o [n \in 1 .. 6 * Length |-> (n * n + c[1] + 2 * c[2]) % 4] :
     c \in (2 .. 3) \X (3 .. 5)}

(* The same, but the first element of a stream may be above the zone, so   *)
(* that those who see it draw again.                                       *)
SomeRejected ==
  {<<first>> \o [n \in 1 .. 7 * Length |-> (n * n) % 4] : first \in {2, ElementMax}}

OneArray == {[i \in Indices |-> BitsOf(i + 1)]}

SomeComponents == {<<{}, {}>>, <<{0}, {0, 1}>>}

ZeroBased == {[q \in {0, 1} |-> c[q + 1]] : c \in SomeComponents}
=============================================================================
