------------------------------- MODULE MCCht -------------------------------
(* An instance of Cht for TLC: every input of up to MaxEntries entries.    *)
EXTENDS Cht

CONSTANT MaxEntries

AllInputs == UNION {[1 .. n -> Entry] : n \in StashSize .. MaxEntries}

(* Two lookups' randomness: words that differ from each other and between  *)
(* the parties, in which every bit is set somewhere.                       *)
SomeRands ==
  LET word(k) == {b \in 0 .. KeyTagBits + IndexBits - 1 : (k \div 2 ^ b) % 2 = 1}
      streams(k) == [p \in Parties |-> word(k * (p + 1))]
  IN  { << streams(k), streams(k + 3), streams(k + 9), streams(k + 20),
           word(k) \cap (0 .. IndexBits - 1), word(k + 5), word(k + 17),
           [p \in Parties |-> word(k * (p + 2)) \cap (0 .. IndexBits - 1)] >> :
           k \in {13, 43} }
=============================================================================
