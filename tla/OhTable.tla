------------------------------- MODULE OhTable -------------------------------
(***************************************************************************)
(* One oblivious hash table and its three parties                          *)
(* (data-structures/src/ohtable.rs, the messages of cht.rs with it).  The  *)
(* rows are entries and dummies.  A first shuffle, known to nobody, puts   *)
(* them into builder order; a second one, known to the two receivers, into *)
(* receiver order.  The builder learns the slots of receiver order that    *)
(* queries touch, the receivers the slots of builder order.                *)
(*                                                                         *)
(* Each party runs through its own script of sends and blocking receives;  *)
(* channels keep their order.  A message that carries a share stands for   *)
(* the value it lets the receiver reconstruct; messages that only take     *)
(* part in a computation on shares have no body.                           *)
(***************************************************************************)
EXTENDS Rep3, Calls

CONSTANTS
  NumElements, NumDummies, StashSize, Miss,
  MaxBatch,          (* queries in one query_many                          *)
  BuilderOrders,     (* the row in each slot, as the first shuffle may     *)
                     (* leave them                                         *)
  ReceiverShuffles   (* the slot of receiver order for each slot of        *)
                     (* builder order                                      *)

ASSUME SizesAssumption ==
  /\ NumElements \in Nat /\ NumDummies \in Nat /\ MaxBatch \in Nat
  /\ StashSize \in 0 .. NumElements
  /\ Miss \notin Nat

Rows == 0 .. NumElements + NumDummies - 1
Entries == 0 .. NumElements - 1
Slots == Rows

ASSUME OrdersAssumption ==
  BuilderOrders \cup ReceiverShuffles \subseteq Bijection(Rows, Slots)

Builder == 0
BuilderNext == NextId(Builder)
BuilderPrev == PrevId(Builder)

VARIABLES
  builderOrder,      (* shared among the three                             *)
  receiverShuffle,   (* held by the receivers                              *)
  stashed,           (* slots of builder order that did not fit            *)
  calls,             (* the queries made, the same by all three callers    *)
  net,               (* net[p][q]: what p has sent to q                    *)
  script,            (* what is left of the operation a party is in        *)
  call,              (* number of the call a party is in or has finished   *)
  slots,             (* slots of receiver order the operation is about     *)
  stashSlots,        (* where stash_xs and stash_ys were taken from        *)
  touched,
  queryCount,
  answers            (* the rows query_many has returned, call by call     *)

vars == <<builderOrder, receiverShuffle, stashed, calls, net, script, call,
          slots, stashSlots, touched, queryCount, answers>>
dealt == <<builderOrder, receiverShuffle, stashed>>

---------------------------------------------------------------------------
(* Scripts.                                                                *)

Sends(q, what)    == <<[do |-> "send", peer |-> q, what |-> what]>>
Receives(q, what) == <<[do |-> "receive", peer |-> q, what |-> what]>>

(* A round in which every party passes a share on: reshare_many.           *)
Reshare(p, what) == Sends(NextId(p), what) \o Receives(PrevId(p), what)

(* reveal_to_party: the share target lacks is sent by its predecessor.     *)
RevealToParty(p, target, what) ==
  IF p = target THEN Receives(PrevId(target), what)
  ELSE IF p = PrevId(target) THEN Sends(target, what)
  ELSE <<>>

(* Faulty variant of PlaceStash: the receivers' slots go to the wrong      *)
(* neighbour.                                                              *)
PlaceStashMisdirected(p) ==
  CASE p = Builder -> Sends(BuilderPrev, "stash") \o Sends(BuilderNext, "stash")
                      \o Receives(BuilderPrev, "stashSlots")
    [] p = BuilderPrev -> Receives(Builder, "stash") \o Sends(BuilderNext, "stashSlots")
    [] p = BuilderNext -> Receives(Builder, "stash")

(* The builder tells the receivers the slots; they tell it where these are *)
(* in receiver order.                                                      *)
PlaceStash(p) ==
  CASE p = Builder -> Sends(BuilderPrev, "stash") \o Sends(BuilderNext, "stash")
                      \o Receives(BuilderPrev, "stashSlots")
    [] p = BuilderPrev -> Receives(Builder, "stash") \o Sends(Builder, "stashSlots")
    [] p = BuilderNext -> Receives(Builder, "stash")

(* Three steps of the shuffle into builder order, the tags revealed to the *)
(* builder, the cuckoo table shared, the shuffle into receiver order.      *)
BuildScript(p) ==
  Reshare(p, "order") \o Reshare(p, "order") \o Reshare(p, "order")
  \o RevealToParty(p, Builder, "tags")
  \o Reshare(p, "cuckooTable")
  \o Reshare(p, "receiverOrder")
  \o PlaceStash(p)
  \o <<[do |-> "placeStash"]>>

(* Faulty variant of LookupCircuit: the evaluator takes one garbler's.     *)
LookupCircuitOneGarbler(p) ==
  IF p = 0 THEN Receives(1, "wires") ELSE Sends(0, "wires")

(* The garblers send their encoded inputs to the evaluator.                *)
LookupCircuit(p) ==
  IF p = 0 THEN Receives(1, "wires") \o Receives(2, "wires") ELSE Sends(0, "wires")

(* reveal_index_to_receivers.                                              *)
RevealIndex(p) ==
  CASE p = Builder -> Sends(BuilderNext, "index")
    [] p = BuilderNext -> Sends(BuilderPrev, "index") \o Receives(Builder, "index")
    [] p = BuilderPrev -> Receives(BuilderNext, "index")

ReceiverIndex(p) ==
  CASE p = Builder -> Receives(BuilderPrev, "slots")
    [] p = BuilderPrev -> Sends(Builder, "slots")
    [] p = BuilderNext -> <<>>

(* Faulty variant of QueryScript: the builder shares the lookup inputs     *)
(* before it reveals its part of the tag.                                  *)
QueryScriptCrossed(p) ==
  Reshare(p, "selectedTag")
  \o RevealToParty(p, BuilderPrev, "tag")
  \o (IF p = Builder
      THEN Reshare(p, "lookupInputs") \o RevealToParty(p, BuilderNext, "tag")
      ELSE RevealToParty(p, BuilderNext, "tag") \o Reshare(p, "lookupInputs"))
  \o LookupCircuit(p)
  \o RevealIndex(p)
  \o ReceiverIndex(p)
  \o <<[do |-> "touch"]>>

(* The tag is chosen, revealed to both receivers and looked up; the index  *)
(* is revealed to the receivers and its slot sent to the builder.          *)
QueryScript(p) ==
  Reshare(p, "selectedTag")
  \o RevealToParty(p, BuilderPrev, "tag") \o RevealToParty(p, BuilderNext, "tag")
  \o Reshare(p, "lookupInputs")
  \o LookupCircuit(p)
  \o RevealIndex(p)
  \o ReceiverIndex(p)
  \o <<[do |-> "touch"]>>

---------------------------------------------------------------------------
(* Values.                                                                 *)

SlotOf(row) == CHOOSE s \in Slots : builderOrder[s] = row

Placed(row) == SlotOf(row) \notin ToSet(stashed)

(* The row a slot of receiver order holds.                                 *)
RowAt(s) == builderOrder[CHOOSE b \in Slots : receiverShuffle[b] = s]

(* query_count when call n starts.                                         *)
OldQueryCount(n) == Asked(calls, n - 1)

(* Faulty variant of DummyIndex: a batch uses one dummy for all its misses.*)
DummyIndexOfCall(n, i) == SlotOf(NumElements + OldQueryCount(n))

(* The dummy set aside for the i-th query of call n.                       *)
DummyIndex(n, i) == SlotOf(NumElements + OldQueryCount(n) + i - 1)

(* Faulty variant of LookupIndices: one hit among the queries of a call    *)
(* and every other gets its dummy.                                         *)
LookupIndicesFirstHit(n) ==
  [i \in DOMAIN calls[n] |->
     IF calls[n][i] # Miss /\ Placed(calls[n][i]) /\ \A j \in 1 .. i - 1 : calls[n][j] = Miss
     THEN SlotOf(calls[n][i])
     ELSE DummyIndex(n, i)]

(* What the lookup circuit returns for call n, in builder order.           *)
LookupIndices(n) ==
  [i \in DOMAIN calls[n] |->
     IF calls[n][i] # Miss /\ Placed(calls[n][i])
     THEN SlotOf(calls[n][i])
     ELSE DummyIndex(n, i)]

(* Faulty variant of Body: the builder is told slots of builder order.     *)
BodyUnshuffled(p, what) ==
  CASE what = "stash" -> stashed
    [] what = "stashSlots" -> slots[p]
    [] what \in {"index", "slots"} -> LookupIndices(call[p])
    [] OTHER -> <<>>

(* What a message p sends carries, and what q makes of it.                 *)
Body(p, what) ==
  CASE what = "stash" -> stashed
    [] what = "index" -> LookupIndices(call[p])
    [] what \in {"stashSlots", "slots"} -> slots[p]
    [] OTHER -> <<>>

SlotsFrom(q, what, body) ==
  CASE what \in {"stash", "index"} -> [i \in DOMAIN body |-> receiverShuffle[body[i]]]
    [] what \in {"stashSlots", "slots"} -> body
    [] OTHER -> slots[q]

---------------------------------------------------------------------------
Init ==
  /\ builderOrder \in BuilderOrders
  /\ receiverShuffle \in ReceiverShuffles
  /\ \E S \in kSubset(StashSize, {SlotOf(e) : e \in Entries}) :
       stashed = SetToSeq(S)
  /\ calls = <<>>
  /\ net = [p \in Parties |-> [q \in Parties |-> <<>>]]
  /\ script = [p \in Parties |-> BuildScript(p)]
  /\ call = [p \in Parties |-> 0]
  /\ slots = [p \in Parties |-> <<>>]
  /\ stashSlots = [p \in Parties |-> <<>>]
  /\ touched = [p \in Parties |-> {}]
  /\ queryCount = [p \in Parties |-> 0]
  /\ answers = [p \in Parties |-> <<>>]

(* The party's next step is of this kind.                                  *)
At(p, do) == script[p] # <<>> /\ Head(script[p]).do = do

Advance(p) == script' = [script EXCEPT ![p] = Tail(@)]

Send(p) ==
  /\ At(p, "send")
  /\ LET op == Head(script[p])
     IN  net' = [net EXCEPT ![p][op.peer] =
                   Append(@, [what |-> op.what, call |-> call[p], body |-> Body(p, op.what)])]
  /\ Advance(p)
  /\ UNCHANGED <<dealt, calls, call, slots, stashSlots, touched, queryCount, answers>>

Receive(p) ==
  /\ At(p, "receive")
  /\ LET op == Head(script[p])
     IN  /\ net[op.peer][p] # <<>>
         /\ net' = [net EXCEPT ![op.peer][p] = Tail(@)]
         /\ slots' = [slots EXCEPT
                        ![p] = SlotsFrom(p, op.what, Head(net[op.peer][p]).body)]
  /\ Advance(p)
  /\ UNCHANGED <<dealt, calls, call, stashSlots, touched, queryCount, answers>>

(* The end of place_stash.                                                 *)
FinishBuild(p) ==
  /\ At(p, "placeStash")
  /\ touched' = [touched EXCEPT ![p] = @ \cup ToSet(slots[p])]
  /\ stashSlots' = [stashSlots EXCEPT ![p] = slots[p]]
  /\ Advance(p)
  /\ UNCHANGED <<dealt, calls, net, call, slots, queryCount, answers>>

(* The three callers make the same calls: they ask for no entry twice, for *)
(* none that is stashed (its alibi tells), and within the budget.          *)
Request ==
  \E n \in 1 .. MaxBatch : \E requests \in [1 .. n -> Entries \cup {Miss}] :
    /\ OldQueryCount(Len(calls) + 1) + n <= NumDummies
    /\ \A i \in 1 .. n : requests[i] # Miss =>
         /\ Placed(requests[i])
         /\ \A c \in ToSet(calls) : requests[i] \notin ToSet(c)
         /\ \A j \in 1 .. n : i # j => requests[i] # requests[j]
    /\ calls' = Append(calls, requests)
    /\ UNCHANGED <<dealt, net, script, call, slots, stashSlots, touched, queryCount, answers>>

StartQuery(p) ==
  /\ script[p] = <<>>
  /\ call[p] < Len(calls)
  /\ queryCount[p] + Len(calls[call[p] + 1]) <= NumDummies
  /\ call' = [call EXCEPT ![p] = @ + 1]
  /\ script' = [script EXCEPT ![p] = QueryScript(p)]
  /\ UNCHANGED <<dealt, calls, net, slots, stashSlots, touched, queryCount, answers>>

(* Faulty variant of Counted: query_count moves with every slot and again  *)
(* at the end.                                                             *)
CountedTwice(p) == queryCount[p] + 2 * Len(calls[call[p]])

(* query_count after the queries of the call p is in.                      *)
Counted(p) == queryCount[p] + Len(calls[call[p]])

(* The bookkeeping of query_many; its assertion is SlotsFresh.             *)
Touch(p) ==
  /\ At(p, "touch")
  /\ touched' = [touched EXCEPT ![p] = @ \cup ToSet(slots[p])]
  /\ queryCount' = [queryCount EXCEPT ![p] = Counted(p)]
  /\ answers' = [answers EXCEPT
                   ![p] = Append(@, [i \in DOMAIN slots[p] |-> RowAt(slots[p][i])])]
  /\ Advance(p)
  /\ UNCHANGED <<dealt, calls, net, call, slots, stashSlots>>

(* The budget is spent: the callers ask no more and collapse the table.    *)
Spent ==
  /\ OldQueryCount(Len(calls) + 1) = NumDummies
  /\ UNCHANGED vars

Step(p) ==
  \/ Send(p)
  \/ Receive(p)
  \/ FinishBuild(p)
  \/ StartQuery(p)
  \/ Touch(p)

Next ==
  \/ \E p \in Parties : Step(p)
  \/ Request
  \/ Spent

Spec == Init /\ [][Next]_vars

(* A party that can go on goes on; no caller has to make a query.          *)
FairSpec == Spec /\ \A p \in Parties : WF_vars(Step(p))
=============================================================================
