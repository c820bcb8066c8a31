----------------------------- MODULE MCOhTable -----------------------------
(* Instances of OhTable for TLC.                                           *)
EXTENDS OhTableProperties

Total == NumElements + NumDummies

(* Orders of the rows: the dummies first, and between the entries.         *)
SomeOrders ==
  {[s \in Rows |-> Total - 1 - s],
   [s \in Rows |-> (s \div 2) + (IF s % 2 = 0 THEN 0 ELSE Total - Total \div 2)]}

OneShuffle == {[s \in Rows |-> (s + 2) % Total]}
=============================================================================
