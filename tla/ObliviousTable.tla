--------------------------- MODULE ObliviousTable ---------------------------
(***************************************************************************)
(* What an oblivious hash table promises to the level that holds it        *)
(* (data-structures/src/ohtable.rs), whoever the parties are: it sets some *)
(* entries aside as its stash, answers a query for any other with that     *)
(* entry, once, and a query that misses with one of its dummies, and       *)
(* serves as many queries as it has dummies.                               *)
(***************************************************************************)
EXTENDS Calls, FiniteSetsExt, SequencesExt, Functions

CONSTANTS
  NumElements, NumDummies, StashSize,
  Miss            (* a query for an address the table does not hold, or    *)
                  (* under a random tag                                    *)

Entries == 0 .. NumElements - 1
Dummies == NumElements .. NumElements + NumDummies - 1

VARIABLES
  left,        (* the rows an extraction would return                      *)
  requests,    (* of the queries served                                    *)
  answers      (* the rows returned for them                               *)

tableVars == <<left, requests, answers>>

Init ==
  /\ \E stash \in kSubset(StashSize, Entries) : left = (Entries \ stash) \cup Dummies
  /\ requests = <<>>
  /\ answers = <<>>

(* The rows that may answer one of the queries of a call.                  *)
AnswersTo(request) ==
  IF request = Miss THEN left \cap Dummies ELSE left \cap {request}

(* A call of query or query_many.                                          *)
Query(asked) ==
  /\ requests' = Append(requests, asked)
  /\ Asked(requests', Len(requests')) <= NumDummies
  /\ \E returned \in [DOMAIN asked -> left] :
       /\ \A i \in DOMAIN asked : returned[i] \in AnswersTo(asked[i])
       /\ IsInjective(returned)
       /\ left' = left \ ToSet(returned)
       /\ answers' = Append(answers, returned)

Next ==
  \E n \in 1 .. NumDummies : \E asked \in [1 .. n -> Entries \cup {Miss}] : Query(asked)

Spec == Init /\ [][Next]_tableVars
=============================================================================
