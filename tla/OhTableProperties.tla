------------------------- MODULE OhTableProperties -------------------------
(***************************************************************************)
(* What the three parties of a table must agree on, and that together they *)
(* keep the promise of ObliviousTable.                                     *)
(***************************************************************************)
EXTENDS OhTable

RowsAt(S) == {RowAt(s) : s \in S}

Idle(p) == script[p] = <<>>

(* The calls p has finished.                                               *)
Finished(p) == IF Idle(p) THEN call[p] ELSE call[p] - 1

(* The rows extract returns at p, in order.                                *)
Extracted(p) ==
  LET untouched == Slots \ touched[p]
  IN  [i \in 1 .. Cardinality(untouched) |->
         RowAt(CHOOSE s \in untouched : Cardinality({t \in untouched : t < s}) = i - 1)]

(* Every variable has its type.                                            *)
TypeOK ==
  /\ builderOrder \in Bijection(Slots, Rows) /\ receiverShuffle \in Bijection(Slots, Slots)
  /\ stashed \in [1 .. StashSize -> Slots]
  /\ calls \in Seq(Seq(Entries \cup {Miss}))
  /\ \A p, q \in Parties : \A i \in DOMAIN net[p][q] :
       /\ net[p][q][i].call \in 0 .. Len(calls)
       /\ net[p][q][i].body \in Seq(Slots)
  /\ \A p \in Parties :
       /\ slots[p] \in Seq(Slots) /\ stashSlots[p] \in Seq(Slots)
       /\ touched[p] \subseteq Slots
       /\ queryCount[p] \in 0 .. NumDummies
       /\ call[p] \in 0 .. Len(calls)

(* The assertion of the bookkeeping, at every party: the slots a query     *)
(* touches were not touched before, nor do two queries of a batch meet.    *)
SlotsFresh ==
  \A p \in Parties :
    /\ At(p, "touch") =>
         /\ Len(slots[p]) = Len(calls[call[p]])
         /\ IsInjective(slots[p])
         /\ ToSet(slots[p]) \cap touched[p] = {}
    /\ At(p, "placeStash") => Len(slots[p]) = StashSize

(* A party that waits for a message of some phase of some call finds no    *)
(* other at the head of the channel (reveal_to_party, cht.rs and           *)
(* place_stash do not say what they send).                                 *)
MessagesMeant ==
  \A p \in Parties :
    At(p, "receive") =>
      LET op == Head(script[p])
          channel == net[op.peer][p]
      IN  channel # <<>> =>
            Head(channel).what = op.what /\ Head(channel).call = call[p]

(* Between calls nothing is under way that a later receive could take, and *)
(* no two parties are more than one call apart.                            *)
NothingLeftOver ==
  /\ (\A p \in Parties : Idle(p) /\ call[p] = call[Builder]) =>
       \A p, q \in Parties : net[p][q] = <<>>
  /\ \A p, q \in Parties : call[p] <= call[q] + 1

(* Parties that have finished the same calls hold the same table: they     *)
(* count alike, and an extraction takes the same rows in the same order,   *)
(* the entries not returned and the dummies not spent.  A spent table      *)
(* yields as many rows as extract expects.                                 *)
PartiesAgree ==
  \A p, q \in Parties :
    Idle(p) /\ Idle(q) /\ call[p] = call[q] =>
      /\ queryCount[p] = queryCount[q]
      /\ answers[p] = answers[q]
      /\ Extracted(p) = Extracted(q)
      /\ stashSlots[p] = stashSlots[q]
      /\ RowsAt(ToSet(stashSlots[p])) = {builderOrder[s] : s \in ToSet(stashed)}
      /\ queryCount[p] = NumDummies => Len(Extracted(p)) = NumElements - StashSize

(* Every query a caller has made is finished by all three parties: none    *)
(* waits for a message that is never sent.                                 *)
CallsFinish ==
  \A n \in 1 .. NumDummies :
    Len(calls) >= n ~> \A p \in Parties : Finished(p) >= n

---------------------------------------------------------------------------
(* A party that has finished no more calls than the others.               *)
Slowest ==
  CHOOSE p \in Parties : \A q \in Parties : Len(answers[p]) <= Len(answers[q])

Table == INSTANCE ObliviousTable WITH
  left     <- {r \in Rows : (r \in Entries => Placed(r))
                             /\ r \notin RowsAt(touched[Slowest])},
  requests <- SubSeq(calls, 1, Len(answers[Slowest])),
  answers  <- answers[Slowest]

(* A call is served when the last of the parties has finished it, and then *)
(* as ObliviousTable says: every query for an entry that is not stashed    *)
(* returns that entry, every miss a dummy of its own, in the order asked,  *)
(* and nothing else leaves the table.                                      *)
IsTable == Table!Spec
=============================================================================
