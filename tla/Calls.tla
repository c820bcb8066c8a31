------------------------------- MODULE Calls -------------------------------
(***************************************************************************)
(* Calls of query_many: each is a sequence of queries.                     *)
(***************************************************************************)
EXTENDS Integers, Sequences

(* How many queries the first n calls make.                                *)
Asked(calls, n) ==
  LET asked[k \in Nat] == IF k = 0 THEN 0 ELSE asked[k - 1] + Len(calls[k])
  IN  asked[n]
=============================================================================
