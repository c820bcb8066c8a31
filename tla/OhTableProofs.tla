--------------------------- MODULE OhTableProofs ---------------------------
(***************************************************************************)
(* Proofs about OhTable, for every number of elements and dummies, every   *)
(* stash, order of the rows and sequence of calls: each message is taken   *)
(* by the receive it was meant for, whatever the parties' interleaving;    *)
(* they hold the same table; no slot is touched twice; and what the table  *)
(* answers is what ObliviousTable promises.                                *)
(***************************************************************************)
EXTENDS OhTableProperties, SequenceTheorems, FiniteSetTheorems, WellFoundedInduction,
        TLAPS

---------------------------------------------------------------------------
(* The scripts written out.  Phase 0 is the build, phase n the n-th call.  *)
Whats == {"order", "tags", "cuckooTable", "receiverOrder", "stash", "stashSlots",
          "selectedTag", "tag", "lookupInputs", "wires", "index", "slots"}

S(q, what) == [do |-> "send", peer |-> q, what |-> what]
R(q, what) == [do |-> "receive", peer |-> q, what |-> what]

BuildLine(p) ==
  CASE p = 0 -> <<S(1, "order"), R(2, "order"), S(1, "order"), R(2, "order"),
                  S(1, "order"), R(2, "order"), R(2, "tags"),
                  S(1, "cuckooTable"), R(2, "cuckooTable"),
                  S(1, "receiverOrder"), R(2, "receiverOrder"),
                  S(2, "stash"), S(1, "stash"), R(2, "stashSlots"),
                  [do |-> "placeStash"]>>
    [] p = 1 -> <<S(2, "order"), R(0, "order"), S(2, "order"), R(0, "order"),
                  S(2, "order"), R(0, "order"),
                  S(2, "cuckooTable"), R(0, "cuckooTable"),
                  S(2, "receiverOrder"), R(0, "receiverOrder"),
                  R(0, "stash"), [do |-> "placeStash"]>>
    [] p = 2 -> <<S(0, "order"), R(1, "order"), S(0, "order"), R(1, "order"),
                  S(0, "order"), R(1, "order"), S(0, "tags"),
                  S(0, "cuckooTable"), R(1, "cuckooTable"),
                  S(0, "receiverOrder"), R(1, "receiverOrder"),
                  R(0, "stash"), S(0, "stashSlots"), [do |-> "placeStash"]>>

QueryLine(p) ==
  CASE p = 0 -> <<S(1, "selectedTag"), R(2, "selectedTag"), S(1, "tag"),
                  S(1, "lookupInputs"), R(2, "lookupInputs"),
                  R(1, "wires"), R(2, "wires"), S(1, "index"), R(2, "slots"),
                  [do |-> "touch"]>>
    [] p = 1 -> <<S(2, "selectedTag"), R(0, "selectedTag"), S(2, "tag"), R(0, "tag"),
                  S(2, "lookupInputs"), R(0, "lookupInputs"), S(0, "wires"),
                  S(2, "index"), R(0, "index"), [do |-> "touch"]>>
    [] p = 2 -> <<S(0, "selectedTag"), R(1, "selectedTag"), R(1, "tag"),
                  S(0, "lookupInputs"), R(1, "lookupInputs"), S(0, "wires"),
                  R(1, "index"), S(0, "slots"), [do |-> "touch"]>>

Line(p, n) == IF n = 0 THEN BuildLine(p) ELSE QueryLine(p)

LineLength(p, n) ==
  IF n = 0 THEN CASE p = 0 -> 15 [] p = 1 -> 12 [] p = 2 -> 14
  ELSE CASE p = 0 -> 10 [] p = 1 -> 10 [] p = 2 -> 9

(* The step in which p learns the slots the phase is about.                *)
Learns(p, n) ==
  IF n = 0 THEN CASE p = 0 -> 14 [] p = 1 -> 11 [] p = 2 -> 12
  ELSE CASE p = 0 -> 9 [] p = 1 -> 9 [] p = 2 -> 7

---------------------------------------------------------------------------
(* The channels: what p sends to q in a phase, and how many of these have  *)
(* been sent, and received, when k steps are done.                         *)
Contents(p, q, n) ==
  CASE p = 0 /\ q = 1 ->
         IF n = 0 THEN <<"order", "order", "order", "cuckooTable", "receiverOrder", "stash">>
         ELSE <<"selectedTag", "tag", "lookupInputs", "index">>
    [] p = 1 /\ q = 2 ->
         IF n = 0 THEN <<"order", "order", "order", "cuckooTable", "receiverOrder">>
         ELSE <<"selectedTag", "tag", "lookupInputs", "index">>
    [] p = 2 /\ q = 0 ->
         IF n = 0
         THEN <<"order", "order", "order", "tags", "cuckooTable", "receiverOrder", "stashSlots">>
         ELSE <<"selectedTag", "lookupInputs", "wires", "slots">>
    [] p = 0 /\ q = 2 -> IF n = 0 THEN <<"stash">> ELSE <<>>
    [] p = 1 /\ q = 0 -> IF n = 0 THEN <<>> ELSE <<"wires">>
    [] OTHER -> <<>>

TotalIn(p, q, n) ==
  CASE p = 0 /\ q = 1 -> IF n = 0 THEN 6 ELSE 4
    [] p = 1 /\ q = 2 -> IF n = 0 THEN 5 ELSE 4
    [] p = 2 /\ q = 0 -> IF n = 0 THEN 7 ELSE 4
    [] p = 0 /\ q = 2 -> IF n = 0 THEN 1 ELSE 0
    [] p = 1 /\ q = 0 -> IF n = 0 THEN 0 ELSE 1
    [] OTHER -> 0

(* One if k steps include the given one.                                   *)
Past(step, k) == IF step <= k THEN 1 ELSE 0

SentIn(p, q, n, k) ==
  CASE p = 0 /\ q = 1 ->
         IF n = 0
         THEN Past(1, k) + Past(3, k) + Past(5, k) + Past(8, k) + Past(10, k) + Past(13, k)
         ELSE Past(1, k) + Past(3, k) + Past(4, k) + Past(8, k)
    [] p = 1 /\ q = 2 ->
         IF n = 0 THEN Past(1, k) + Past(3, k) + Past(5, k) + Past(7, k) + Past(9, k)
         ELSE Past(1, k) + Past(3, k) + Past(5, k) + Past(8, k)
    [] p = 2 /\ q = 0 ->
         IF n = 0
         THEN Past(1, k) + Past(3, k) + Past(5, k) + Past(7, k) + Past(8, k) + Past(10, k)
              + Past(13, k)
         ELSE Past(1, k) + Past(4, k) + Past(6, k) + Past(8, k)
    [] p = 0 /\ q = 2 -> IF n = 0 THEN Past(12, k) ELSE 0
    [] p = 1 /\ q = 0 -> IF n = 0 THEN 0 ELSE Past(7, k)
    [] OTHER -> 0

ReceivedIn(p, q, n, k) ==
  CASE p = 0 /\ q = 1 ->
         IF n = 0
         THEN Past(2, k) + Past(4, k) + Past(6, k) + Past(8, k) + Past(10, k) + Past(11, k)
         ELSE Past(2, k) + Past(4, k) + Past(6, k) + Past(9, k)
    [] p = 1 /\ q = 2 ->
         IF n = 0 THEN Past(2, k) + Past(4, k) + Past(6, k) + Past(9, k) + Past(11, k)
         ELSE Past(2, k) + Past(3, k) + Past(5, k) + Past(7, k)
    [] p = 2 /\ q = 0 ->
         IF n = 0
         THEN Past(2, k) + Past(4, k) + Past(6, k) + Past(7, k) + Past(9, k) + Past(11, k)
              + Past(14, k)
         ELSE Past(2, k) + Past(5, k) + Past(7, k) + Past(9, k)
    [] p = 0 /\ q = 2 -> IF n = 0 THEN Past(12, k) ELSE 0
    [] p = 1 /\ q = 0 -> IF n = 0 THEN 0 ELSE Past(6, k)
    [] OTHER -> 0

(* The messages of all phases before n.                                    *)
Before(p, q, n) ==
  IF n = 0 THEN 0
  ELSE CASE p = 0 /\ q = 1 -> 6 + (n - 1) * 4
         [] p = 1 /\ q = 2 -> 5 + (n - 1) * 4
         [] p = 2 /\ q = 0 -> 7 + (n - 1) * 4
         [] p = 0 /\ q = 2 -> 1
         [] p = 1 /\ q = 0 -> n - 1
         [] OTHER -> 0

---------------------------------------------------------------------------
(* What the messages carry.                                                *)
InReceiverOrder(s) == [i \in DOMAIN s |-> receiverShuffle[s[i]]]

(* The slots phase n is about: of the stash, then those the call touches.  *)
About(n) == InReceiverOrder(IF n = 0 THEN stashed ELSE LookupIndices(n))

BodyOf(n, what) ==
  CASE what = "stash" -> stashed
    [] what = "index" -> LookupIndices(n)
    [] what \in {"stashSlots", "slots"} -> About(n)
    [] OTHER -> <<>>

Message(p, q, n, j) ==
  LET what == Contents(p, q, n)[j]
  IN  [what |-> what, call |-> n, body |-> BodyOf(n, what)]

(* The rows in the slots of call n: what is asked for, or the next dummy.  *)
RowsOf(n) ==
  [i \in DOMAIN calls[n] |-> IF calls[n][i] # Miss THEN calls[n][i]
                             ELSE NumElements + Asked(calls, n - 1) + i - 1]

---------------------------------------------------------------------------
(* The inductive invariant.                                                *)

(* What the build shuffles give.                                           *)
Dealt ==
  /\ builderOrder \in Bijection(Slots, Rows) /\ receiverShuffle \in Bijection(Slots, Slots)
  /\ stashed \in [1 .. StashSize -> Slots] /\ IsInjective(stashed)
  /\ \A i \in 1 .. StashSize : \E e \in Entries : stashed[i] = SlotOf(e)

(* No entry is asked for twice or while it is stashed, and there is a      *)
(* dummy for every query.                                                  *)
CallsMade ==
  /\ calls \in Seq(Seq(Entries \cup {Miss}))
  /\ \A n \in DOMAIN calls :
       /\ Len(calls[n]) > 0
       /\ \A i \in DOMAIN calls[n] : calls[n][i] # Miss =>
            /\ Placed(calls[n][i])
            /\ \A m \in DOMAIN calls : \A j \in DOMAIN calls[m] :
                 calls[m][j] = calls[n][i] => m = n /\ j = i
  /\ Asked(calls, Len(calls)) <= NumDummies

(* The steps of its phase that p has done.                                 *)
DoneSteps(p) == LineLength(p, call[p]) - Len(script[p])

Operations ==
  [do : {"send", "receive"}, peer : Parties, what : Whats]
  \cup {[do |-> "placeStash"], [do |-> "touch"]}

(* Each party has the rest of a script before it.                          *)
Scripts ==
  /\ script \in [Parties -> Seq(Operations)]
  /\ call \in [Parties -> 0 .. Len(calls)]
  /\ \A p \in Parties :
       /\ Len(script[p]) <= LineLength(p, call[p])
       /\ \A i \in 1 .. Len(script[p]) : script[p][i] = Line(p, call[p])[DoneSteps(p) + i]

Sent(p, q)     == Before(p, q, call[p]) + SentIn(p, q, call[p], DoneSteps(p))
Received(p, q) == Before(p, q, call[q]) + ReceivedIn(p, q, call[q], DoneSteps(q))

Messages == [what : Whats, call : Nat, body : Seq(Slots)]

IsTableOfQueues(table) ==
  DOMAIN table = Parties /\ \A p \in Parties : table[p] \in [Parties -> Seq(Messages)]

(* A channel holds the messages sent and not yet received, in the order of *)
(* the sender's script.                                                    *)
InOrder(p, q) ==
  /\ Len(net[p][q]) = Sent(p, q) - Received(p, q)
  /\ \A i \in DOMAIN net[p][q] :
       \E n \in 0 .. call[p] : \E j \in 1 .. TotalIn(p, q, n) :
         /\ Received(p, q) + i = Before(p, q, n) + j
         /\ net[p][q][i] = Message(p, q, n, j)

Channels ==
  /\ IsTableOfQueues(net)
  /\ \A p, q \in Parties : InOrder(p, q)

(* What a party keeps: the slots of the phase it is in, once it has them,  *)
(* and what its finished calls have come to.                               *)
Learned(p) == Learns(p, call[p]) <= DoneSteps(p) => slots[p] = About(call[p])

Kept(p) ==
  /\ touched[p] = UNION {ToSet(About(m)) : m \in 0 .. Finished(p)}
  /\ queryCount[p] = IF Finished(p) < 0 THEN 0 ELSE Asked(calls, Finished(p))
  /\ Cardinality(touched[p]) = IF Finished(p) < 0 THEN 0 ELSE StashSize + queryCount[p]
  /\ stashSlots[p] = IF Finished(p) < 0 THEN <<>> ELSE About(0)
  /\ answers[p] = [m \in 1 .. Finished(p) |-> RowsOf(m)]

Books ==
  /\ slots \in [Parties -> Seq(Slots)]
  /\ DOMAIN stashSlots = Parties /\ DOMAIN touched = Parties
  /\ DOMAIN queryCount = Parties /\ DOMAIN answers = Parties
  /\ \A p \in Parties : Learned(p) /\ Kept(p)

IInv == Dealt /\ CallsMade /\ Scripts /\ Channels /\ Books
---------------------------------------------------------------------------
(* The scripts are what is written out above.                              *)
LEMMA Roles ==
  /\ Parties = {0, 1, 2}
  /\ NextId(0) = 1 /\ NextId(1) = 2 /\ NextId(2) = 0
  /\ PrevId(0) = 2 /\ PrevId(1) = 0 /\ PrevId(2) = 1
  /\ Builder = 0 /\ BuilderNext = 1 /\ BuilderPrev = 2
  /\ "order" \in Whats /\ "tags" \in Whats /\ "cuckooTable" \in Whats
  /\ "receiverOrder" \in Whats /\ "stash" \in Whats /\ "stashSlots" \in Whats
  /\ "selectedTag" \in Whats /\ "tag" \in Whats /\ "lookupInputs" \in Whats
  /\ "wires" \in Whats /\ "index" \in Whats /\ "slots" \in Whats
BY DEF Whats, Parties, NextId, PrevId, Builder, BuilderNext, BuilderPrev

(* c is the part of t from m up to n.                                      *)
Part(c, t, m, n) ==
  /\ m \in Nat /\ n \in Nat /\ m <= n
  /\ c \in Seq(Operations) /\ Len(c) = n - m
  /\ \A i \in 1 .. n - m : c[i] = t[m + i]

LEMMA PartsJoin ==
  ASSUME NEW a, NEW b, NEW t, NEW l, NEW m, NEW n, Part(a, t, l, m), Part(b, t, m, n)
  PROVE  Part(a \o b, t, l, n)
<1> USE DEF Part
<1>1. a \o b \in Seq(Operations)
  <2>1. a \in Seq(Operations) /\ b \in Seq(Operations) OBVIOUS
  <2> QED BY <2>1, ConcatProperties
<1>3. Len(a \o b) = n - l
  <2>1. a \in Seq(Operations) /\ b \in Seq(Operations) OBVIOUS
  <2>2. Len(a \o b) = Len(a) + Len(b) BY <2>1, ConcatProperties
  <2> QED BY <2>2
<1>2. ASSUME NEW i \in 1 .. n - l PROVE (a \o b)[i] = t[l + i]
  <2>1. (a \o b)[i] = IF i <= m - l THEN a[i] ELSE b[i - (m - l)]
    <3>1. i \in 1 .. Len(a) + Len(b) /\ Len(a) = m - l OBVIOUS
    <3>2. a \in Seq(Operations) /\ b \in Seq(Operations) OBVIOUS
    <3>3. (a \o b)[i] = IF i <= Len(a) THEN a[i] ELSE b[i - Len(a)]
      BY <3>1, <3>2, ConcatProperties
    <3> QED BY <3>1, <3>3
  <2>2. CASE i <= m - l BY <2>1, <2>2
  <2>3. CASE i > m - l
    <3> DEFINE k == i - (m - l)
    <3>1. k \in 1 .. n - m /\ m + k = l + i BY <2>3
    <3> HIDE DEF k
    <3>2. b[k] = t[m + k] BY <3>1
    <3> QED BY <2>1, <2>3, <3>1, <3>2 DEF k
  <2> QED BY <2>2, <2>3
<1> QED BY <1>1, <1>2, <1>3

LEMMA PartOfNone ==
  ASSUME NEW t, NEW m \in Nat
  PROVE  Part(<<>>, t, m, m)
BY DEF Part

LEMMA PartOfOne ==
  ASSUME NEW t, NEW m \in Nat, NEW n \in Nat, n = m + 1, NEW op \in Operations, t[n] = op
  PROVE  Part(<<op>>, t, m, n)
<1> DEFINE c == <<op>>
<1>1. c \in Seq(Operations) /\ Len(c) = 1 /\ c[1] = op OBVIOUS
<1> HIDE DEF c
<1>2. Part(c, t, m, n) BY <1>1 DEF Part
<1> QED BY <1>2 DEF c

(* The parts scripts are made of.                                          *)
LEMMA PartSends ==
  ASSUME NEW t, NEW m \in Nat, NEW n \in Nat, n = m + 1,
         NEW q \in Parties, NEW what \in Whats, t[n] = S(q, what)
  PROVE  Part(Sends(q, what), t, m, n)
<1>1. S(q, what) \in Operations BY DEF S, Operations
<1>2. Sends(q, what) = <<S(q, what)>> BY DEF S, Sends
<1> QED BY <1>1, <1>2, PartOfOne

LEMMA PartReceives ==
  ASSUME NEW t, NEW m \in Nat, NEW n \in Nat, n = m + 1,
         NEW q \in Parties, NEW what \in Whats, t[n] = R(q, what)
  PROVE  Part(Receives(q, what), t, m, n)
<1>1. R(q, what) \in Operations BY DEF R, Operations
<1>2. Receives(q, what) = <<R(q, what)>> BY DEF R, Receives
<1> QED BY <1>1, <1>2, PartOfOne

LEMMA PartReshare ==
  ASSUME NEW t, NEW m \in Nat, NEW i \in Nat, NEW n \in Nat, i = m + 1, n = m + 2,
         NEW p \in Parties, NEW what \in Whats,
         t[i] = S(NextId(p), what), t[n] = R(PrevId(p), what)
  PROVE  Part(Reshare(p, what), t, m, n)
<1>1. NextId(p) \in Parties /\ PrevId(p) \in Parties BY Roles
<1>2. Part(Sends(NextId(p), what), t, m, i) BY <1>1, PartSends
<1>3. n = i + 1 OBVIOUS
<1>4. Part(Receives(PrevId(p), what), t, i, n) BY <1>1, <1>3, PartReceives
<1> QED BY <1>2, <1>4, PartsJoin DEF Reshare

LEMMA BuildScripts ==
  ASSUME NEW p \in Parties
  PROVE  BuildScript(p) \in Seq(Operations) /\ Len(BuildScript(p)) = LineLength(p, 0)
         /\ \A i \in 1 .. LineLength(p, 0) : BuildScript(p)[i] = BuildLine(p)[i]
<1> DEFINE t == BuildLine(p)
           l == IF p = 0 THEN 7 ELSE IF p = 1 THEN 6 ELSE 7
           end == LineLength(p, 0)
<1>1. p = 0 \/ p = 1 \/ p = 2 BY Roles
<1>2. /\ t[1] = S(NextId(p), "order") /\ t[2] = R(PrevId(p), "order")
      /\ t[3] = S(NextId(p), "order") /\ t[4] = R(PrevId(p), "order")
      /\ t[5] = S(NextId(p), "order") /\ t[6] = R(PrevId(p), "order")
  BY <1>1, Roles DEF BuildLine
<1>3. /\ t[l + 1] = S(NextId(p), "cuckooTable") /\ t[l + 2] = R(PrevId(p), "cuckooTable")
      /\ t[l + 3] = S(NextId(p), "receiverOrder") /\ t[l + 4] = R(PrevId(p), "receiverOrder")
  BY <1>1, Roles DEF BuildLine
<1>4. t[end] = [do |-> "placeStash"] /\ end \in Nat
  BY <1>1, Roles DEF BuildLine, LineLength
<1>5. /\ p = 0 => t[7] = R(2, "tags") /\ t[12] = S(2, "stash") /\ t[13] = S(1, "stash")
                  /\ t[14] = R(2, "stashSlots")
      /\ p = 1 => t[11] = R(0, "stash")
      /\ p = 2 => t[7] = S(0, "tags") /\ t[12] = R(0, "stash") /\ t[13] = S(0, "stashSlots")
  BY <1>1, Roles DEF BuildLine
<1> HIDE DEF t
<1>6. Part(RevealToParty(p, Builder, "tags"), t, 6, l)
  <2>1. CASE p = 0 BY <1>5, <2>1, Roles, PartSends, PartReceives DEF RevealToParty
  <2>2. CASE p = 1 BY <2>2, Roles, PartOfNone DEF RevealToParty
  <2>3. CASE p = 2 BY <1>5, <2>3, Roles, PartSends, PartReceives DEF RevealToParty
  <2> QED BY <1>1, <2>1, <2>2, <2>3
<1>7. Part(PlaceStash(p), t, l + 4, end - 1)
  <2>1. CASE p = 0
    <3>1. /\ Part(Sends(2, "stash"), t, 11, 12) /\ Part(Sends(1, "stash"), t, 12, 13)
          /\ Part(Receives(2, "stashSlots"), t, 13, 14)
      BY <1>5, <2>1, Roles, PartSends, PartReceives
    <3>2. Part(Sends(2, "stash") \o Sends(1, "stash"), t, 11, 13) BY <3>1, PartsJoin
    <3>3. Part((Sends(2, "stash") \o Sends(1, "stash")) \o Receives(2, "stashSlots"), t, 11, 14)
      BY <3>1, <3>2, PartsJoin
    <3>4. l + 4 = 11 /\ end - 1 = 14 BY <2>1 DEF LineLength
    <3> QED BY <2>1, <3>3, <3>4, Roles DEF PlaceStash
  <2>2. CASE p = 1
    <3>1. Part(Receives(0, "stash"), t, 10, 11) BY <1>5, <2>2, Roles, PartSends, PartReceives
    <3>2. l + 4 = 10 /\ end - 1 = 11 BY <2>2 DEF LineLength
    <3> QED BY <2>2, <3>1, <3>2, Roles DEF PlaceStash
  <2>3. CASE p = 2
    <3>1. Part(Receives(0, "stash"), t, 11, 12) /\ Part(Sends(0, "stashSlots"), t, 12, 13)
      BY <1>5, <2>3, Roles, PartSends, PartReceives
    <3>2. Part(Receives(0, "stash") \o Sends(0, "stashSlots"), t, 11, 13) BY <3>1, PartsJoin
    <3>3. l + 4 = 11 /\ end - 1 = 13 BY <2>3 DEF LineLength
    <3> QED BY <2>3, <3>2, <3>3, Roles DEF PlaceStash
  <2> QED BY <1>1, <2>1, <2>2, <2>3
<1>8. /\ Part(Reshare(p, "order"), t, 0, 2) /\ Part(Reshare(p, "order"), t, 2, 4)
      /\ Part(Reshare(p, "order"), t, 4, 6)
  BY <1>2, Roles, PartReshare
<1>9. l \in Nat BY <1>1
<1>10. Part(Reshare(p, "cuckooTable"), t, l, l + 2)
  BY <1>3, <1>9, Roles, PartReshare
<1>11. Part(Reshare(p, "receiverOrder"), t, l + 2, l + 4)
  <2> DEFINE m == l + 2
  <2>1. m \in Nat /\ m + 1 = l + 3 /\ m + 2 = l + 4 BY <1>9
  <2> HIDE DEF m, l
  <2>2. Part(Reshare(p, "receiverOrder"), t, m, m + 2) BY <1>3, <2>1, Roles, PartReshare
  <2> QED BY <2>1, <2>2 DEF m
<1>12. Part(<<[do |-> "placeStash"]>>, t, end - 1, end)
  <2>1. [do |-> "placeStash"] \in Operations BY DEF Operations
  <2> DEFINE m == end - 1
  <2>2. m \in Nat /\ m + 1 = end BY <1>1 DEF LineLength
  <2> HIDE DEF m, end
  <2>3. Part(<<[do |-> "placeStash"]>>, t, m, m + 1) BY <1>4, <2>1, <2>2, PartOfOne
  <2> QED BY <2>2, <2>3 DEF m
<1> HIDE DEF l, end
<1>13. Part(BuildScript(p), t, 0, end)
  BY <1>6, <1>7, <1>8, <1>10, <1>11, <1>12, PartsJoin DEF BuildScript
<1> QED BY <1>13 DEF Part, t, end

LEMMA QueryScripts ==
  ASSUME NEW p \in Parties
  PROVE  QueryScript(p) \in Seq(Operations) /\ Len(QueryScript(p)) = LineLength(p, 1)
         /\ \A i \in 1 .. LineLength(p, 1) : QueryScript(p)[i] = QueryLine(p)[i]
<1> DEFINE t == QueryLine(p)
           touch == [do |-> "touch"]
<1>1. CASE p = 0
  <2>1. /\ t[1] = S(1, "selectedTag") /\ t[2] = R(2, "selectedTag") /\ t[3] = S(1, "tag")
        /\ t[4] = S(1, "lookupInputs") /\ t[5] = R(2, "lookupInputs")
        /\ t[6] = R(1, "wires") /\ t[7] = R(2, "wires") /\ t[8] = S(1, "index")
        /\ t[9] = R(2, "slots") /\ t[10] = touch
    BY <1>1 DEF QueryLine
  <2> HIDE DEF t
  <2>2. /\ Part(Reshare(p, "selectedTag"), t, 0, 2)
        /\ Part(RevealToParty(p, BuilderPrev, "tag"), t, 2, 2)
        /\ Part(RevealToParty(p, BuilderNext, "tag"), t, 2, 3)
        /\ Part(Reshare(p, "lookupInputs"), t, 3, 5)
    BY <1>1, <2>1, Roles, PartReshare, PartSends, PartReceives, PartOfNone DEF RevealToParty
  <2>3. Part(LookupCircuit(p), t, 5, 7)
    <3>1. Part(Receives(1, "wires"), t, 5, 6) /\ Part(Receives(2, "wires"), t, 6, 7)
      BY <2>1, Roles, PartSends, PartReceives
    <3> QED BY <1>1, <3>1, PartsJoin DEF LookupCircuit
  <2>4. Part(RevealIndex(p), t, 7, 8) /\ Part(ReceiverIndex(p), t, 8, 9)
    <3>1. RevealIndex(p) = Sends(1, "index") /\ ReceiverIndex(p) = Receives(2, "slots")
      BY <1>1, Roles DEF RevealIndex, ReceiverIndex
    <3> QED BY <2>1, <3>1, Roles, PartSends, PartReceives
  <2>5. Part(<<touch>>, t, 9, 10)
    BY <2>1, PartOfOne DEF Operations
  <2>6. Part(QueryScript(p), t, 0, 10)
    BY <2>2, <2>3, <2>4, <2>5, PartsJoin DEF QueryScript
  <2> QED BY <1>1, <2>6 DEF Part, LineLength, t
<1>2. CASE p = 1
  <2>1. /\ t[1] = S(2, "selectedTag") /\ t[2] = R(0, "selectedTag") /\ t[3] = S(2, "tag")
        /\ t[4] = R(0, "tag") /\ t[5] = S(2, "lookupInputs") /\ t[6] = R(0, "lookupInputs")
        /\ t[7] = S(0, "wires") /\ t[8] = S(2, "index") /\ t[9] = R(0, "index")
        /\ t[10] = touch
    BY <1>2 DEF QueryLine
  <2> HIDE DEF t
  <2>2. /\ Part(Reshare(p, "selectedTag"), t, 0, 2)
        /\ Part(RevealToParty(p, BuilderPrev, "tag"), t, 2, 3)
        /\ Part(RevealToParty(p, BuilderNext, "tag"), t, 3, 4)
        /\ Part(Reshare(p, "lookupInputs"), t, 4, 6)
    BY <1>2, <2>1, Roles, PartReshare, PartSends, PartReceives DEF RevealToParty
  <2>3. Part(LookupCircuit(p), t, 6, 7) /\ Part(ReceiverIndex(p), t, 9, 9)
    <3>1. LookupCircuit(p) = Sends(0, "wires") BY <1>2 DEF LookupCircuit
    <3>2. ReceiverIndex(p) = <<>> BY <1>2, Roles DEF ReceiverIndex
    <3> QED BY <2>1, <3>1, <3>2, Roles, PartSends, PartOfNone
  <2>4. Part(RevealIndex(p), t, 7, 9)
    <3>1. Part(Sends(2, "index"), t, 7, 8) /\ Part(Receives(0, "index"), t, 8, 9)
      BY <2>1, Roles, PartSends, PartReceives
    <3> QED BY <1>2, <3>1, Roles, PartsJoin DEF RevealIndex
  <2>5. Part(<<touch>>, t, 9, 10)
    BY <2>1, PartOfOne DEF Operations
  <2>6. Part(QueryScript(p), t, 0, 10)
    BY <2>2, <2>3, <2>4, <2>5, PartsJoin DEF QueryScript
  <2> QED BY <1>2, <2>6 DEF Part, LineLength, t
<1>3. CASE p = 2
  <2>1. /\ t[1] = S(0, "selectedTag") /\ t[2] = R(1, "selectedTag") /\ t[3] = R(1, "tag")
        /\ t[4] = S(0, "lookupInputs") /\ t[5] = R(1, "lookupInputs") /\ t[6] = S(0, "wires")
        /\ t[7] = R(1, "index") /\ t[8] = S(0, "slots") /\ t[9] = touch
    BY <1>3 DEF QueryLine
  <2> HIDE DEF t
  <2>2. /\ Part(Reshare(p, "selectedTag"), t, 0, 2)
        /\ Part(RevealToParty(p, BuilderPrev, "tag"), t, 2, 3)
        /\ Part(RevealToParty(p, BuilderNext, "tag"), t, 3, 3)
        /\ Part(Reshare(p, "lookupInputs"), t, 3, 5)
    <3>1. /\ RevealToParty(p, BuilderPrev, "tag") = Receives(1, "tag")
          /\ RevealToParty(p, BuilderNext, "tag") = <<>>
      BY <1>3, Roles DEF RevealToParty
    <3>2. /\ Part(Reshare(p, "selectedTag"), t, 0, 2) /\ Part(Reshare(p, "lookupInputs"), t, 3, 5)
      BY <1>3, <2>1, Roles, PartReshare
    <3> QED BY <2>1, <3>1, <3>2, Roles, PartReceives, PartOfNone
  <2>3. /\ Part(LookupCircuit(p), t, 5, 6) /\ Part(RevealIndex(p), t, 6, 7)
        /\ Part(ReceiverIndex(p), t, 7, 8)
    <3>1. LookupCircuit(p) = Sends(0, "wires") BY <1>3 DEF LookupCircuit
    <3>2. RevealIndex(p) = Receives(1, "index") BY <1>3, Roles DEF RevealIndex
    <3>3. ReceiverIndex(p) = Sends(0, "slots") BY <1>3, Roles DEF ReceiverIndex
    <3> QED BY <2>1, <3>1, <3>2, <3>3, Roles, PartSends, PartReceives
  <2>4. Part(<<touch>>, t, 8, 9)
    BY <2>1, PartOfOne DEF Operations
  <2>5. Part(QueryScript(p), t, 0, 9)
    BY <2>2, <2>3, <2>4, PartsJoin DEF QueryScript
  <2> QED BY <1>3, <2>5 DEF Part, LineLength, t
<1> QED BY <1>1, <1>2, <1>3, Roles

---------------------------------------------------------------------------
(* The scripts and the channels fit.                                       *)

(* What the step after k steps of phase n of p's script does.              *)
StepFits(p, n, k, op) ==
  /\ \A q \in Parties :
       /\ SentIn(p, q, n, k + 1) =
            SentIn(p, q, n, k) + (IF op.do = "send" /\ op.peer = q THEN 1 ELSE 0)
       /\ ReceivedIn(q, p, n, k + 1) =
            ReceivedIn(q, p, n, k) + (IF op.do = "receive" /\ op.peer = q THEN 1 ELSE 0)
  /\ op.do = "send" =>
       /\ op.peer \in Parties /\ op.what \in Whats /\ k + 1 < LineLength(p, n)
       /\ SentIn(p, op.peer, n, k) + 1 <= TotalIn(p, op.peer, n)
       /\ Contents(p, op.peer, n)[SentIn(p, op.peer, n, k) + 1] = op.what
       /\ op.what = "index" => n # 0
       /\ op.what \in {"stashSlots", "slots"} => Learns(p, n) <= k
       /\ Learns(p, n) # k + 1
  /\ op.do = "receive" =>
       /\ op.peer \in Parties /\ op.what \in Whats /\ k + 1 < LineLength(p, n)
       /\ ReceivedIn(op.peer, p, n, k) + 1 <= TotalIn(op.peer, p, n)
       /\ Contents(op.peer, p, n)[ReceivedIn(op.peer, p, n, k) + 1] = op.what
       /\ op.what \in {"stash", "stashSlots"} => n = 0
       /\ op.what \in {"index", "slots"} => n # 0
       /\ op.what \notin {"stash", "stashSlots", "index", "slots"} => Learns(p, n) # k + 1
  /\ op.do \in {"placeStash", "touch"} =>
       /\ k + 1 = LineLength(p, n) /\ Learns(p, n) <= k
       /\ op.do = "placeStash" <=> n = 0
  /\ op.do \in {"send", "receive", "placeStash", "touch"}

LEMMA BuildFits0 ==
  ASSUME NEW k \in 0 .. 14
  PROVE  StepFits(0, 0, k, BuildLine(0)[k + 1])
<1> USE Roles DEF StepFits, BuildLine, S, R, SentIn, ReceivedIn, Past, LineLength,
                TotalIn, Contents, Learns, Whats
<1>0. CASE k = 0 BY <1>0
<1>1. CASE k = 1 BY <1>1
<1>2. CASE k = 2 BY <1>2
<1>3. CASE k = 3 BY <1>3
<1>4. CASE k = 4 BY <1>4
<1>5. CASE k = 5 BY <1>5
<1>6. CASE k = 6 BY <1>6
<1>7. CASE k = 7 BY <1>7
<1>8. CASE k = 8 BY <1>8
<1>9. CASE k = 9 BY <1>9
<1>10. CASE k = 10 BY <1>10
<1>11. CASE k = 11 BY <1>11
<1>12. CASE k = 12 BY <1>12
<1>13. CASE k = 13 BY <1>13
<1>14. CASE k = 14 BY <1>14
<1> HIDE DEF StepFits
<1> QED BY <1>0, <1>1, <1>2, <1>3, <1>4, <1>5, <1>6, <1>7, <1>8, <1>9, <1>10, <1>11,
           <1>12, <1>13, <1>14

LEMMA QueryFits0 ==
  ASSUME NEW k \in 0 .. 9, NEW n \in Nat, n # 0
  PROVE  StepFits(0, n, k, QueryLine(0)[k + 1])
<1> USE Roles DEF StepFits, QueryLine, S, R, SentIn, ReceivedIn, Past, LineLength,
                TotalIn, Contents, Learns, Whats
<1>0. CASE k = 0 BY <1>0
<1>1. CASE k = 1 BY <1>1
<1>2. CASE k = 2 BY <1>2
<1>3. CASE k = 3 BY <1>3
<1>4. CASE k = 4 BY <1>4
<1>5. CASE k = 5 BY <1>5
<1>6. CASE k = 6 BY <1>6
<1>7. CASE k = 7 BY <1>7
<1>8. CASE k = 8 BY <1>8
<1>9. CASE k = 9 BY <1>9
<1> HIDE DEF StepFits
<1> QED BY <1>0, <1>1, <1>2, <1>3, <1>4, <1>5, <1>6, <1>7, <1>8, <1>9

LEMMA BuildFits1 ==
  ASSUME NEW k \in 0 .. 11
  PROVE  StepFits(1, 0, k, BuildLine(1)[k + 1])
<1> USE Roles DEF StepFits, BuildLine, S, R, SentIn, ReceivedIn, Past, LineLength,
                TotalIn, Contents, Learns, Whats
<1>0. CASE k = 0 BY <1>0
<1>1. CASE k = 1 BY <1>1
<1>2. CASE k = 2 BY <1>2
<1>3. CASE k = 3 BY <1>3
<1>4. CASE k = 4 BY <1>4
<1>5. CASE k = 5 BY <1>5
<1>6. CASE k = 6 BY <1>6
<1>7. CASE k = 7 BY <1>7
<1>8. CASE k = 8 BY <1>8
<1>9. CASE k = 9 BY <1>9
<1>10. CASE k = 10 BY <1>10
<1>11. CASE k = 11 BY <1>11
<1> HIDE DEF StepFits
<1> QED BY <1>0, <1>1, <1>2, <1>3, <1>4, <1>5, <1>6, <1>7, <1>8, <1>9, <1>10, <1>11

LEMMA QueryFits1 ==
  ASSUME NEW k \in 0 .. 9, NEW n \in Nat, n # 0
  PROVE  StepFits(1, n, k, QueryLine(1)[k + 1])
<1> USE Roles DEF StepFits, QueryLine, S, R, SentIn, ReceivedIn, Past, LineLength,
                TotalIn, Contents, Learns, Whats
<1>0. CASE k = 0 BY <1>0
<1>1. CASE k = 1 BY <1>1
<1>2. CASE k = 2 BY <1>2
<1>3. CASE k = 3 BY <1>3
<1>4. CASE k = 4 BY <1>4
<1>5. CASE k = 5 BY <1>5
<1>6. CASE k = 6 BY <1>6
<1>7. CASE k = 7 BY <1>7
<1>8. CASE k = 8 BY <1>8
<1>9. CASE k = 9 BY <1>9
<1> HIDE DEF StepFits
<1> QED BY <1>0, <1>1, <1>2, <1>3, <1>4, <1>5, <1>6, <1>7, <1>8, <1>9

LEMMA BuildFits2 ==
  ASSUME NEW k \in 0 .. 13
  PROVE  StepFits(2, 0, k, BuildLine(2)[k + 1])
<1> USE Roles DEF StepFits, BuildLine, S, R, SentIn, ReceivedIn, Past, LineLength,
                TotalIn, Contents, Learns, Whats
<1>0. CASE k = 0 BY <1>0
<1>1. CASE k = 1 BY <1>1
<1>2. CASE k = 2 BY <1>2
<1>3. CASE k = 3 BY <1>3
<1>4. CASE k = 4 BY <1>4
<1>5. CASE k = 5 BY <1>5
<1>6. CASE k = 6 BY <1>6
<1>7. CASE k = 7 BY <1>7
<1>8. CASE k = 8 BY <1>8
<1>9. CASE k = 9 BY <1>9
<1>10. CASE k = 10 BY <1>10
<1>11. CASE k = 11 BY <1>11
<1>12. CASE k = 12 BY <1>12
<1>13. CASE k = 13 BY <1>13
<1> HIDE DEF StepFits
<1> QED BY <1>0, <1>1, <1>2, <1>3, <1>4, <1>5, <1>6, <1>7, <1>8, <1>9, <1>10, <1>11,
           <1>12, <1>13

LEMMA QueryFits2 ==
  ASSUME NEW k \in 0 .. 8, NEW n \in Nat, n # 0
  PROVE  StepFits(2, n, k, QueryLine(2)[k + 1])
<1> USE Roles DEF StepFits, QueryLine, S, R, SentIn, ReceivedIn, Past, LineLength,
                TotalIn, Contents, Learns, Whats
<1>0. CASE k = 0 BY <1>0
<1>1. CASE k = 1 BY <1>1
<1>2. CASE k = 2 BY <1>2
<1>3. CASE k = 3 BY <1>3
<1>4. CASE k = 4 BY <1>4
<1>5. CASE k = 5 BY <1>5
<1>6. CASE k = 6 BY <1>6
<1>7. CASE k = 7 BY <1>7
<1>8. CASE k = 8 BY <1>8
<1> HIDE DEF StepFits
<1> QED BY <1>0, <1>1, <1>2, <1>3, <1>4, <1>5, <1>6, <1>7, <1>8

LEMMA ScriptsFit ==
  ASSUME NEW p \in Parties, NEW n \in Nat, NEW k \in Nat, k < LineLength(p, n)
  PROVE  StepFits(p, n, k, Line(p, n)[k + 1])
<1>1. p = 0 \/ p = 1 \/ p = 2 BY Roles
<1>2. CASE n = 0
  <2>1. /\ p = 0 => k \in 0 .. 14
        /\ p = 1 => k \in 0 .. 11
        /\ p = 2 => k \in 0 .. 13
    BY <1>1, <1>2 DEF LineLength
  <2>2. Line(p, n) = BuildLine(p) BY <1>2 DEF Line
  <2> QED BY <1>1, <1>2, <2>1, <2>2, BuildFits0, BuildFits1, BuildFits2
<1>3. CASE n # 0
  <2>1. /\ p = 0 => k \in 0 .. 9
        /\ p = 1 => k \in 0 .. 9
        /\ p = 2 => k \in 0 .. 8
    BY <1>1, <1>3 DEF LineLength
  <2>2. Line(p, n) = QueryLine(p) BY <1>3 DEF Line
  <2> QED BY <1>1, <1>3, <2>1, <2>2, QueryFits0, QueryFits1, QueryFits2
<1> QED BY <1>2, <1>3

(* How far the counts go.                                                  *)
LEMMA CountsBounded ==
  ASSUME NEW p \in Parties, NEW q \in Parties, NEW n \in Nat, NEW k \in Nat
  PROVE  /\ SentIn(p, q, n, k) \in 0 .. TotalIn(p, q, n)
         /\ ReceivedIn(p, q, n, k) \in 0 .. TotalIn(p, q, n)
         /\ SentIn(p, q, n, 0) = 0 /\ ReceivedIn(p, q, n, 0) = 0
         /\ SentIn(p, q, n, LineLength(p, n)) = TotalIn(p, q, n)
         /\ ReceivedIn(p, q, n, LineLength(q, n)) = TotalIn(p, q, n)
         /\ TotalIn(p, q, n) \in Nat
         /\ LineLength(p, n) \in Nat /\ LineLength(p, n) > 0
         /\ Learns(p, n) \in 1 .. LineLength(p, n) - 1
<1>1. p \in {0, 1, 2} /\ q \in {0, 1, 2} BY Roles
<1> QED BY <1>1 DEF SentIn, ReceivedIn, Past, TotalIn, LineLength, Learns

LEMMA BeforeNext ==
  ASSUME NEW p \in Parties, NEW q \in Parties, NEW n \in Nat
  PROVE  /\ Before(p, q, n) \in Nat
         /\ Before(p, q, n + 1) = Before(p, q, n) + TotalIn(p, q, n)
<1>1. p \in {0, 1, 2} /\ q \in {0, 1, 2} BY Roles
<1> QED BY <1>1 DEF Before, TotalIn

LEMMA BeforeGrows ==
  ASSUME NEW p \in Parties, NEW q \in Parties, NEW m \in Nat, NEW n \in Nat, m < n
  PROVE  Before(p, q, m) + TotalIn(p, q, m) <= Before(p, q, n)
<1>1. p \in {0, 1, 2} /\ q \in {0, 1, 2} BY Roles
<1> QED BY <1>1 DEF Before, TotalIn

(* A message has one place in the order of its channel.                    *)
LEMMA PlaceUnique ==
  ASSUME NEW p \in Parties, NEW q \in Parties, NEW m \in Nat, NEW n \in Nat,
         NEW i \in 1 .. TotalIn(p, q, m), NEW j \in 1 .. TotalIn(p, q, n),
         Before(p, q, m) + i = Before(p, q, n) + j
  PROVE  m = n /\ i = j
<1>1. Before(p, q, m) \in Nat /\ Before(p, q, n) \in Nat BY BeforeNext
<1>2. TotalIn(p, q, m) \in Nat /\ TotalIn(p, q, n) \in Nat BY CountsBounded
<1>3. ~(m < n)
  <2> SUFFICES ASSUME m < n PROVE FALSE OBVIOUS
  <2>1. Before(p, q, m) + TotalIn(p, q, m) <= Before(p, q, n) BY BeforeGrows
  <2> QED BY <1>1, <1>2, <2>1
<1>4. ~(n < m)
  <2> SUFFICES ASSUME n < m PROVE FALSE OBVIOUS
  <2>1. Before(p, q, n) + TotalIn(p, q, n) <= Before(p, q, m) BY BeforeGrows
  <2> QED BY <1>1, <1>2, <2>1
<1>5. m = n BY <1>3, <1>4
<1> QED BY <1>1, <1>5

(* If nobody has received more than was sent, a party that needs another's *)
(* messages is no more than one call ahead of it.                          *)
LEMMA DoneBounded ==
  ASSUME Scripts, NEW p \in Parties
  PROVE  /\ DoneSteps(p) \in 0 .. LineLength(p, call[p])
         /\ call[p] \in Nat /\ Len(script[p]) \in Nat
<1>1. call[p] \in 0 .. Len(calls) /\ Len(script[p]) <= LineLength(p, call[p])
      /\ script[p] \in Seq(Operations)
  BY DEF Scripts
<1>2. call[p] \in Nat BY <1>1
<1>3. LineLength(p, call[p]) \in Nat BY <1>2, CountsBounded
<1>4. Len(script[p]) \in Nat BY <1>1, LenProperties
<1> QED BY <1>1, <1>2, <1>3, <1>4 DEF DoneSteps

LEMMA SentBetween ==
  ASSUME Scripts, NEW p \in Parties, NEW q \in Parties
  PROVE  /\ Sent(p, q) \in Nat /\ Received(p, q) \in Nat
         /\ Before(p, q, call[p]) <= Sent(p, q)
         /\ Sent(p, q) <= Before(p, q, call[p] + 1)
         /\ Before(p, q, call[q]) <= Received(p, q)
         /\ Received(p, q) <= Before(p, q, call[q] + 1)
<1>1. call[p] \in Nat /\ DoneSteps(p) \in Nat BY DoneBounded
<1>2. call[q] \in Nat /\ DoneSteps(q) \in Nat BY DoneBounded
<1>3. SentIn(p, q, call[p], DoneSteps(p)) \in 0 .. TotalIn(p, q, call[p])
      /\ TotalIn(p, q, call[p]) \in Nat
  BY <1>1, CountsBounded
<1>4. ReceivedIn(p, q, call[q], DoneSteps(q)) \in 0 .. TotalIn(p, q, call[q])
      /\ TotalIn(p, q, call[q]) \in Nat
  BY <1>2, CountsBounded
<1>5. Before(p, q, call[p]) \in Nat
      /\ Before(p, q, call[p] + 1) = Before(p, q, call[p]) + TotalIn(p, q, call[p])
  BY <1>1, BeforeNext
<1>6. Before(p, q, call[q]) \in Nat
      /\ Before(p, q, call[q] + 1) = Before(p, q, call[q]) + TotalIn(p, q, call[q])
  BY <1>2, BeforeNext
<1> QED BY <1>3, <1>4, <1>5, <1>6 DEF Sent, Received

LEMMA ReceiverClose ==
  ASSUME Scripts, NEW p \in Parties, NEW q \in Parties, Received(p, q) <= Sent(p, q),
         <<p, q>> \in {<<0, 1>>, <<1, 2>>, <<2, 0>>, <<1, 0>>}
  PROVE  call[q] <= call[p] + 1
<1>1. call[p] \in Nat /\ call[q] \in Nat BY DoneBounded
<1> DEFINE n == call[p] + 1
<1> SUFFICES ASSUME n < call[q] PROVE FALSE BY <1>1
<1>2. n \in Nat /\ n # 0 BY <1>1
<1>3. TotalIn(p, q, n) > 0 /\ TotalIn(p, q, n) \in Nat BY <1>2 DEF TotalIn
<1>4. Sent(p, q) <= Before(p, q, n) BY SentBetween
<1>5. Before(p, q, n) + TotalIn(p, q, n) <= Before(p, q, call[q])
  BY <1>1, <1>2, BeforeGrows
<1>6. Before(p, q, n) \in Nat /\ Before(p, q, call[q]) \in Nat BY <1>1, <1>2, BeforeNext
<1>7. Before(p, q, call[q]) <= Received(p, q) BY SentBetween
<1>8. Sent(p, q) \in Nat /\ Received(p, q) \in Nat BY SentBetween
<1> QED BY <1>3, <1>4, <1>5, <1>6, <1>7, <1>8

(* b sends its last message to a only after it has had one from c.         *)
LEMMA SenderClose ==
  ASSUME Scripts, \A p, q \in Parties : Received(p, q) <= Sent(p, q),
         NEW a, NEW b, NEW c, <<a, b, c>> \in {<<2, 1, 0>>, <<1, 0, 2>>}
  PROVE  call[a] <= call[c] + 1
<1>1. a \in Parties /\ b \in Parties /\ c \in Parties BY Roles
<1>2. call[a] \in Nat /\ call[b] \in Nat /\ call[c] \in Nat BY <1>1, DoneBounded
<1>3. call[a] <= call[b] + 1 BY <1>1, ReceiverClose
<1>4. call[b] <= call[c] + 1 BY <1>1, ReceiverClose
<1> SUFFICES ASSUME call[c] + 1 < call[a] PROVE FALSE BY <1>2
<1> DEFINE n == call[b]
           k == DoneSteps(b)
<1>5. call[a] = n + 1 /\ n = call[c] + 1 /\ n # 0 BY <1>2, <1>3, <1>4
<1>6. k \in Nat BY <1>1, DoneBounded
<1>7. Before(b, a, n + 1) <= Sent(b, a)
  <2>1. Before(b, a, call[a]) <= Received(b, a) BY <1>1, SentBetween
  <2>2. Sent(b, a) \in Nat /\ Received(b, a) \in Nat /\ Received(b, a) <= Sent(b, a)
    BY <1>1, SentBetween
  <2>3. Before(b, a, call[a]) \in Nat BY <1>1, <1>2, BeforeNext
  <2> QED BY <1>5, <2>1, <2>2, <2>3
<1>8. SentIn(b, a, n, k) = TotalIn(b, a, n)
  <2>1. Before(b, a, n) \in Nat /\ Before(b, a, n + 1) = Before(b, a, n) + TotalIn(b, a, n)
    BY <1>1, <1>2, BeforeNext
  <2>2. SentIn(b, a, n, k) \in 0 .. TotalIn(b, a, n) /\ TotalIn(b, a, n) \in Nat
    BY <1>1, <1>2, <1>6, CountsBounded
  <2>3. Sent(b, a) = Before(b, a, n) + SentIn(b, a, n, k) BY DEF Sent
  <2> QED BY <1>7, <2>1, <2>2, <2>3
<1>9. ReceivedIn(c, b, n, k) >= 1
  <2> HIDE DEF k, n
  <2>1. CASE a = 2 /\ b = 1 /\ c = 0
    BY <1>5, <1>6, <1>8, <2>1 DEF SentIn, TotalIn, ReceivedIn, Past
  <2>2. CASE a = 1 /\ b = 0 /\ c = 2
    BY <1>5, <1>6, <1>8, <2>2 DEF SentIn, TotalIn, ReceivedIn, Past
  <2> QED BY <2>1, <2>2
<1>10. Sent(c, b) <= Before(c, b, n) BY <1>1, <1>5, SentBetween
<1>11. Received(c, b) = Before(c, b, n) + ReceivedIn(c, b, n, k) BY DEF Received
<1>12. Before(c, b, n) \in Nat /\ ReceivedIn(c, b, n, k) \in 0 .. TotalIn(c, b, n)
       /\ TotalIn(c, b, n) \in Nat
  BY <1>1, <1>2, <1>6, BeforeNext, CountsBounded
<1>13. Sent(c, b) \in Nat /\ Received(c, b) <= Sent(c, b) BY <1>1, SentBetween
<1> HIDE DEF n, k
<1> QED BY <1>9, <1>10, <1>11, <1>12, <1>13

LEMMA OneCallApart ==
  ASSUME Scripts, \A p, q \in Parties : Received(p, q) <= Sent(p, q),
         NEW p \in Parties, NEW q \in Parties
  PROVE  call[p] <= call[q] + 1
<1>1. p \in {0, 1, 2} /\ q \in {0, 1, 2} BY Roles
<1>2. call[p] \in Nat /\ call[q] \in Nat BY DoneBounded
<1>3. CASE p = q BY <1>2, <1>3
<1>4. CASE <<q, p>> \in {<<0, 1>>, <<1, 2>>, <<2, 0>>, <<1, 0>>} BY <1>4, ReceiverClose
<1>5. CASE p = 2 /\ q = 0
  <2>1. <<2, 1, 0>> \in {<<2, 1, 0>>, <<1, 0, 2>>} OBVIOUS
  <2> QED BY <1>5, <2>1, SenderClose
<1>6. CASE p = 1 /\ q = 2
  <2>1. <<1, 0, 2>> \in {<<2, 1, 0>>, <<1, 0, 2>>} OBVIOUS
  <2> QED BY <1>6, <2>1, SenderClose
<1> QED BY <1>1, <1>3, <1>4, <1>5, <1>6

---------------------------------------------------------------------------
(* Counting queries.                                                       *)
LEMMA LeastNatural ==
  ASSUME NEW T, T \subseteq Nat, T # {}
  PROVE  \E m \in T : \A n \in T : m <= n
<1>1. IsWellFoundedOn(OpToRel(<, Nat), Nat)
  BY NatLessThanWellFounded
<1>2. PICK m \in T : \A n \in T : ~ (<<n, m>> \in OpToRel(<, Nat))
  BY <1>1, WFMin, Zenon
<1>3. \A n \in T : ~ (n < m)
  BY <1>2 DEF OpToRel
<1> QED BY <1>3

(* g counts the queries of the first n calls.                              *)
CountsTo(c, n, g) ==
  g = [k \in 0 .. n |-> IF k = 0 THEN 0 ELSE g[k - 1] + Len(c[k])]

LEMMA CountsExist ==
  ASSUME NEW c, NEW n \in Nat
  PROVE  \E g : CountsTo(c, n, g)
<1> DEFINE T == {m \in Nat : ~ \E g : CountsTo(c, m, g)}
<1> SUFFICES ASSUME T # {} PROVE FALSE OBVIOUS
<1>1. PICK m \in T : \A i \in T : m <= i
  BY LeastNatural
<1>2. CASE m = 0
  <2> DEFINE g == [k \in 0 .. 0 |-> 0]
  <2>1. CountsTo(c, 0, g) BY DEF CountsTo
  <2> QED BY <1>1, <1>2, <2>1
<1>3. CASE m # 0
  <2>1. m - 1 \in Nat /\ m - 1 \notin T BY <1>1, <1>3
  <2>2. PICK h : CountsTo(c, m - 1, h) BY <2>1
  <2> DEFINE g == [k \in 0 .. m |-> IF k < m THEN h[k] ELSE h[m - 1] + Len(c[m])]
  <2>3. ASSUME NEW k \in 0 .. m
        PROVE  g[k] = IF k = 0 THEN 0 ELSE g[k - 1] + Len(c[k])
    <3>1. CASE k = 0 BY <3>1, <2>2, <1>3 DEF CountsTo
    <3>2. CASE k # 0 /\ k < m
      <4>1. k - 1 \in 0 .. m /\ k - 1 < m /\ k \in 0 .. m - 1 BY <3>2
      <4>2. h[k] = h[k - 1] + Len(c[k]) BY <4>1, <3>2, <2>2 DEF CountsTo
      <4> QED BY <3>2, <4>1, <4>2
    <3>3. CASE k = m
      <4>1. m - 1 \in 0 .. m /\ m - 1 < m BY <1>3, <2>1
      <4> QED BY <1>3, <3>3, <4>1
    <3> QED BY <3>1, <3>2, <3>3
  <2>4. CountsTo(c, m, g)
    <3>1. g = [k \in 0 .. m |-> g[k]] OBVIOUS
    <3> HIDE DEF g
    <3> QED BY <2>3, <3>1 DEF CountsTo
  <2> QED BY <1>1, <2>4
<1> QED BY <1>2, <1>3

LEMMA CountsUnique ==
  ASSUME NEW c, NEW m \in Nat, NEW n \in Nat, NEW g, NEW h,
         CountsTo(c, m, g), CountsTo(c, n, h), NEW k \in Nat, k <= m, k <= n
  PROVE  g[k] = h[k]
<1> DEFINE T == {i \in 0 .. k : g[i] # h[i]}
<1> SUFFICES ASSUME T # {} PROVE FALSE OBVIOUS
<1>1. PICK i \in T : \A j \in T : i <= j
  <2>1. T \subseteq Nat OBVIOUS
  <2> QED BY <2>1, LeastNatural
<1>2. i \in 0 .. m /\ i \in 0 .. n BY <1>1
<1>3. /\ g[i] = (IF i = 0 THEN 0 ELSE g[i - 1] + Len(c[i]))
      /\ h[i] = (IF i = 0 THEN 0 ELSE h[i - 1] + Len(c[i]))
  BY <1>2 DEF CountsTo
<1>4. i # 0 BY <1>1, <1>3
<1>5. i - 1 \in 0 .. k /\ i - 1 \notin T BY <1>1, <1>4
<1>6. g[i - 1] = h[i - 1] BY <1>5
<1> QED BY <1>1, <1>3, <1>4, <1>6

(* Asked is what its definition says.                                      *)
LEMMA AskedSteps ==
  ASSUME NEW c, NEW n \in Nat
  PROVE  Asked(c, 0) = 0 /\ Asked(c, n + 1) = Asked(c, n) + Len(c[n + 1])
<1> DEFINE counts(k) == CHOOSE g : CountsTo(c, k, g)
           whole == [k \in Nat |-> counts(k)[k]]
           Is(f) == f = [k \in Nat |-> IF k = 0 THEN 0 ELSE f[k - 1] + Len(c[k])]
           asked == CHOOSE f : Is(f)
<1>1. ASSUME NEW k \in Nat PROVE CountsTo(c, k, counts(k)) BY CountsExist
<1> HIDE DEF counts
<1>2. ASSUME NEW k \in Nat
      PROVE  whole[k] = IF k = 0 THEN 0 ELSE whole[k - 1] + Len(c[k])
  <2>1. k \in 0 .. k OBVIOUS
  <2>2. CountsTo(c, k, counts(k)) BY <1>1
  <2>3. counts(k)[k] = IF k = 0 THEN 0 ELSE counts(k)[k - 1] + Len(c[k])
    BY <2>1, <2>2 DEF CountsTo
  <2>4. CASE k = 0 BY <2>3, <2>4
  <2>5. CASE k # 0
    <3>1. k - 1 \in Nat /\ k - 1 <= k BY <2>5
    <3>2. CountsTo(c, k - 1, counts(k - 1)) BY <1>1, <3>1
    <3>3. counts(k)[k - 1] = counts(k - 1)[k - 1]
      BY <3>1, <3>2, <2>2, CountsUnique
    <3>4. whole[k] = counts(k)[k] /\ whole[k - 1] = counts(k - 1)[k - 1] BY <3>1
    <3> QED BY <2>3, <2>5, <3>3, <3>4
  <2> QED BY <2>4, <2>5
<1>3. Is(whole)
  <2>1. whole = [k \in Nat |-> whole[k]] OBVIOUS
  <2> HIDE DEF whole
  <2> QED BY <1>2, <2>1
<1>4. Is(asked)
  <2> HIDE DEF whole, Is
  <2> QED BY <1>3
<1>5. \A k \in Nat : Asked(c, k) = asked[k] BY DEF Asked
<1>6. \A k \in Nat : asked[k] = IF k = 0 THEN 0 ELSE asked[k - 1] + Len(c[k])
  <2> HIDE DEF asked
  <2> QED BY <1>4
<1> HIDE DEF asked, whole, Is
<1>7. 0 \in Nat /\ n + 1 \in Nat /\ n + 1 # 0 /\ (n + 1) - 1 = n OBVIOUS
<1>8. asked[n + 1] = asked[n] + Len(c[n + 1]) BY <1>6, <1>7
<1>9. asked[0] = 0 BY <1>6
<1> QED BY <1>5, <1>7, <1>8, <1>9

LEMMA AskedNatural ==
  ASSUME NEW Q, NEW c \in Seq(Seq(Q)), NEW n \in 0 .. Len(c)
  PROVE  Asked(c, n) \in Nat
<1> DEFINE T == {m \in 0 .. Len(c) : Asked(c, m) \notin Nat}
<1> SUFFICES ASSUME T # {} PROVE FALSE OBVIOUS
<1>1. PICK m \in T : \A i \in T : m <= i
  <2>1. T \subseteq Nat BY LenProperties
  <2> QED BY <2>1, LeastNatural
<1>2. m # 0 BY <1>1, AskedSteps
<1>3. m - 1 \in Nat /\ m - 1 \in 0 .. Len(c) /\ m - 1 \notin T
  BY <1>1, <1>2, LenProperties
<1>4. Asked(c, m) = Asked(c, m - 1) + Len(c[m])
  <2>1. (m - 1) + 1 = m BY <1>1
  <2> QED BY <1>3, <2>1, AskedSteps
<1>5. Len(c[m]) \in Nat
  <2>1. m \in 1 .. Len(c) BY <1>1, <1>2
  <2>2. c[m] \in Seq(Q) BY <2>1, ElementOfSeq
  <2> QED BY <2>2, LenProperties
<1> QED BY <1>1, <1>3, <1>4, <1>5

(* Calls made later do not change what was asked before.                   *)
LEMMA AskedSame ==
  ASSUME NEW c, NEW d, NEW n \in Nat, \A k \in 1 .. n : c[k] = d[k]
  PROVE  Asked(c, n) = Asked(d, n)
<1> DEFINE T == {m \in 0 .. n : Asked(c, m) # Asked(d, m)}
<1> SUFFICES ASSUME T # {} PROVE FALSE OBVIOUS
<1>1. PICK m \in T : \A i \in T : m <= i
  <2>1. T \subseteq Nat OBVIOUS
  <2> QED BY <2>1, LeastNatural
<1>2. m # 0 BY <1>1, AskedSteps
<1>3. m - 1 \in Nat /\ m - 1 \in 0 .. n /\ m - 1 \notin T /\ m \in 1 .. n BY <1>1, <1>2
<1>4. (m - 1) + 1 = m BY <1>1
<1>5. Asked(c, m) = Asked(c, m - 1) + Len(c[m]) BY <1>3, <1>4, AskedSteps
<1>6. Asked(d, m) = Asked(d, m - 1) + Len(d[m]) BY <1>3, <1>4, AskedSteps
<1>7. c[m] = d[m] BY <1>3
<1> QED BY <1>1, <1>3, <1>5, <1>6, <1>7

LEMMA AskedGrows ==
  ASSUME NEW Q, NEW c \in Seq(Seq(Q)), NEW m \in 0 .. Len(c), NEW n \in 0 .. Len(c), m <= n
  PROVE  Asked(c, m) <= Asked(c, n)
<1> DEFINE T == {k \in 0 .. Len(c) : m <= k /\ ~(Asked(c, m) <= Asked(c, k))}
<1> SUFFICES ASSUME T # {} PROVE FALSE OBVIOUS
<1>1. PICK k \in T : \A i \in T : k <= i
  <2>1. T \subseteq Nat BY LenProperties
  <2> QED BY <2>1, LeastNatural
<1>2. Asked(c, m) \in Nat /\ Asked(c, k) \in Nat BY <1>1, AskedNatural
<1>3. k # m BY <1>1, <1>2
<1>4. k - 1 \in Nat /\ k - 1 \in 0 .. Len(c) /\ m <= k - 1 /\ k - 1 \notin T
  BY <1>1, <1>3, LenProperties
<1>5. (k - 1) + 1 = k BY <1>1
<1>6. Asked(c, k) = Asked(c, k - 1) + Len(c[k]) BY <1>4, <1>5, AskedSteps
<1>7. Len(c[k]) \in Nat
  <2>1. k \in 1 .. Len(c) BY <1>4, <1>1
  <2>2. c[k] \in Seq(Q) BY <2>1, ElementOfSeq
  <2> QED BY <2>2, LenProperties
<1>8. Asked(c, k - 1) \in Nat BY <1>4, AskedNatural
<1> QED BY <1>1, <1>2, <1>4, <1>6, <1>7, <1>8

---------------------------------------------------------------------------
(* Rows and slots.                                                         *)
LEMMA FunctionIsSeq ==
  ASSUME NEW T, NEW n \in Nat, NEW f \in [1 .. n -> T]
  PROVE  f \in Seq(T) /\ Len(f) = n /\ DOMAIN f = 1 .. n
<1>1. f \in Seq(T) BY SeqDef
<1>2. DOMAIN f = 1 .. Len(f) /\ Len(f) \in Nat BY <1>1, LenProperties
<1> QED BY <1>1, <1>2

(* The shuffles are one to one, so a row is in one slot.                   *)
LEMMA RowsAndSlots ==
  ASSUME Dealt
  PROVE  /\ Slots = Rows
         /\ \A r \in Rows : SlotOf(r) \in Slots /\ builderOrder[SlotOf(r)] = r
         /\ \A b \in Slots : /\ builderOrder[b] \in Rows /\ SlotOf(builderOrder[b]) = b
                             /\ receiverShuffle[b] \in Slots
                             /\ RowAt(receiverShuffle[b]) = builderOrder[b]
         /\ \A s \in Slots : RowAt(s) \in Rows
         /\ \A s, t \in Slots : RowAt(s) = RowAt(t) => s = t
<1>1. /\ builderOrder \in [Slots -> Rows] /\ IsInjective(builderOrder)
      /\ \A r \in Rows : \E b \in Slots : builderOrder[b] = r
      /\ receiverShuffle \in [Slots -> Slots] /\ IsInjective(receiverShuffle)
      /\ \A s \in Slots : \E b \in Slots : receiverShuffle[b] = s
  BY DEF Dealt, Bijection, Injection, Surjection
<1>2. \A a, b \in Slots : /\ builderOrder[a] = builderOrder[b] => a = b
                          /\ receiverShuffle[a] = receiverShuffle[b] => a = b
  BY <1>1 DEF IsInjective
<1>3. ASSUME NEW r \in Rows PROVE SlotOf(r) \in Slots /\ builderOrder[SlotOf(r)] = r
  BY <1>1 DEF SlotOf
<1>4. ASSUME NEW b \in Slots
      PROVE  builderOrder[b] \in Rows /\ SlotOf(builderOrder[b]) = b
  BY <1>1, <1>2, <1>3
<1> DEFINE from(s) == CHOOSE b \in Slots : receiverShuffle[b] = s
<1>5. ASSUME NEW s \in Slots PROVE from(s) \in Slots /\ receiverShuffle[from(s)] = s
  BY <1>1
<1>6. ASSUME NEW b \in Slots PROVE receiverShuffle[b] \in Slots /\ from(receiverShuffle[b]) = b
  <2>1. receiverShuffle[b] \in Slots BY <1>1
  <2>2. from(receiverShuffle[b]) \in Slots
        /\ receiverShuffle[from(receiverShuffle[b])] = receiverShuffle[b]
    BY <2>1, <1>5
  <2> HIDE DEF from
  <2> QED BY <2>1, <2>2, <1>2
<1>7. \A s : RowAt(s) = builderOrder[from(s)] BY DEF RowAt
<1> HIDE DEF from
<1>8. \A s \in Slots : RowAt(s) \in Rows BY <1>5, <1>7, <1>1
<1>9. ASSUME NEW s \in Slots, NEW t \in Slots, RowAt(s) = RowAt(t) PROVE s = t
  <2>1. from(s) = from(t) BY <1>2, <1>5, <1>7, <1>9
  <2> QED BY <1>5, <2>1
<1>10. Slots = Rows BY DEF Slots
<1> QED BY <1>3, <1>4, <1>6, <1>7, <1>8, <1>9, <1>10

(* The rows a call takes out: what it asks for, and dummies by number.     *)
LEMMA CallRows ==
  ASSUME Dealt, CallsMade, NEW n \in 1 .. Len(calls)
  PROVE  /\ calls[n] \in Seq(Entries \cup {Miss}) /\ Len(calls[n]) \in Nat
         /\ DOMAIN calls[n] = 1 .. Len(calls[n])
         /\ RowsOf(n) \in [1 .. Len(calls[n]) -> Rows]
         /\ \A i \in 1 .. Len(calls[n]) :
              /\ calls[n][i] # Miss => RowsOf(n)[i] = calls[n][i] /\ RowsOf(n)[i] \in Entries
              /\ calls[n][i] = Miss =>
                   /\ RowsOf(n)[i] = NumElements + Asked(calls, n - 1) + i - 1
                   /\ RowsOf(n)[i] \notin Entries
         /\ LookupIndices(n) = [i \in 1 .. Len(calls[n]) |-> SlotOf(RowsOf(n)[i])]
         /\ Asked(calls, n - 1) \in Nat
         /\ Asked(calls, n) = Asked(calls, n - 1) + Len(calls[n])
         /\ Asked(calls, n) <= NumDummies
<1> DEFINE Q == Entries \cup {Miss}
<1>1. calls \in Seq(Seq(Q)) BY DEF CallsMade
<1>2. calls[n] \in Seq(Q) BY <1>1, ElementOfSeq
<1>3. Len(calls[n]) \in Nat /\ DOMAIN calls[n] = 1 .. Len(calls[n]) BY <1>2, LenProperties
<1>4. n - 1 \in 0 .. Len(calls) /\ n \in 0 .. Len(calls) /\ Len(calls) \in 0 .. Len(calls)
      /\ n - 1 \in Nat /\ Len(calls) \in Nat
  BY <1>1, LenProperties
<1>5. Asked(calls, n) = Asked(calls, n - 1) + Len(calls[n])
  <2>1. (n - 1) + 1 = n OBVIOUS
  <2> QED BY <1>4, <2>1, AskedSteps
<1>6. Asked(calls, n - 1) \in Nat BY <1>1, <1>4, AskedNatural
<1>7. Asked(calls, n) <= NumDummies
  <2>1. Asked(calls, n) \in Nat /\ Asked(calls, Len(calls)) \in Nat
    BY <1>1, <1>4, AskedNatural
  <2>2. Asked(calls, n) <= Asked(calls, Len(calls)) BY <1>1, <1>4, AskedGrows
  <2>3. Asked(calls, Len(calls)) <= NumDummies BY DEF CallsMade
  <2> QED BY <2>1, <2>2, <2>3, SizesAssumption
<1>8. ASSUME NEW i \in 1 .. Len(calls[n])
      PROVE  /\ RowsOf(n)[i] \in Rows
             /\ calls[n][i] # Miss => RowsOf(n)[i] = calls[n][i] /\ RowsOf(n)[i] \in Entries
             /\ calls[n][i] = Miss =>
                   /\ RowsOf(n)[i] = NumElements + Asked(calls, n - 1) + i - 1
                   /\ RowsOf(n)[i] \notin Entries
  <2>1. RowsOf(n)[i] = IF calls[n][i] # Miss THEN calls[n][i]
                       ELSE NumElements + Asked(calls, n - 1) + i - 1
    BY <1>3 DEF RowsOf
  <2>2. CASE calls[n][i] # Miss
    <3>1. calls[n][i] \in Entries BY <1>2, <1>3, <2>2, ElementOfSeq
    <3> QED BY <2>1, <2>2, <3>1, SizesAssumption DEF Entries, Rows
  <2>3. CASE calls[n][i] = Miss
    <3> DEFINE a == Asked(calls, n - 1)
               l == Len(calls[n])
    <3>1. a \in Nat /\ l \in Nat /\ a + l <= NumDummies /\ i \in 1 .. l BY <1>3, <1>5, <1>6, <1>7
    <3> HIDE DEF a, l
    <3>2. NumElements + a + i - 1 \in Rows /\ NumElements + a + i - 1 \notin Entries
      BY <3>1, SizesAssumption DEF Rows, Entries
    <3> QED BY <2>1, <2>3, <3>2 DEF a
  <2> QED BY <2>2, <2>3
<1>9. RowsOf(n) \in [1 .. Len(calls[n]) -> Rows]
  <2>1. RowsOf(n) = [i \in 1 .. Len(calls[n]) |-> RowsOf(n)[i]] BY <1>3 DEF RowsOf
  <2> QED BY <1>8, <2>1
<1>10. LookupIndices(n) = [i \in 1 .. Len(calls[n]) |-> SlotOf(RowsOf(n)[i])]
  <2>1. ASSUME NEW i \in 1 .. Len(calls[n])
        PROVE  (IF calls[n][i] # Miss /\ Placed(calls[n][i])
                THEN SlotOf(calls[n][i]) ELSE DummyIndex(n, i)) = SlotOf(RowsOf(n)[i])
    <3>1. calls[n][i] # Miss => Placed(calls[n][i])
      BY <1>1, <1>3, LenProperties DEF CallsMade
    <3>2. DummyIndex(n, i) = SlotOf(NumElements + Asked(calls, n - 1) + i - 1)
      BY DEF DummyIndex, OldQueryCount
    <3> QED BY <1>8, <3>1, <3>2
  <2> QED BY <1>3, <2>1 DEF LookupIndices
<1> QED BY <1>2, <1>3, <1>5, <1>6, <1>7, <1>8, <1>9, <1>10

(* No row is taken out twice, and none that is stashed.                    *)
LEMMA RowsDistinct ==
  ASSUME Dealt, CallsMade, NEW m \in 1 .. Len(calls), NEW n \in 1 .. Len(calls), m <= n,
         NEW i \in 1 .. Len(calls[m]), NEW j \in 1 .. Len(calls[n]),
         RowsOf(m)[i] = RowsOf(n)[j]
  PROVE  m = n /\ i = j
<1>1. calls[m][i] = Miss <=> calls[n][j] = Miss BY CallRows
<1>2. CASE calls[m][i] # Miss
  <2>1. calls[m][i] = calls[n][j] BY <1>1, <1>2, CallRows
  <2>2. DOMAIN calls = 1 .. Len(calls) BY LenProperties DEF CallsMade
  <2>3. DOMAIN calls[m] = 1 .. Len(calls[m]) /\ DOMAIN calls[n] = 1 .. Len(calls[n])
    BY CallRows
  <2>4. m \in DOMAIN calls /\ n \in DOMAIN calls /\ i \in DOMAIN calls[m] /\ j \in DOMAIN calls[n]
        /\ calls[n][j] # Miss
    BY <1>1, <1>2, <2>2, <2>3
  <2>5. \A l \in DOMAIN calls : \A k \in DOMAIN calls[l] :
          calls[l][k] = calls[n][j] => l = n /\ k = j
    BY <2>4 DEF CallsMade
  <2> QED BY <2>1, <2>4, <2>5
<1>3. CASE calls[m][i] = Miss
  <2> DEFINE a == Asked(calls, m - 1)
             b == Asked(calls, n - 1)
             l == Len(calls[m])
  <2>1. NumElements + a + i - 1 = NumElements + b + j - 1 BY <1>1, <1>3, CallRows
  <2>2. a \in Nat /\ b \in Nat /\ l \in Nat /\ Len(calls[n]) \in Nat BY CallRows
  <2>3. CASE m = n
    <3>1. a = b BY <2>3
    <3> HIDE DEF a, b
    <3> QED BY <2>1, <2>2, <2>3, <3>1, SizesAssumption
  <2>4. CASE m < n
    <3>1. Asked(calls, m) = a + l BY CallRows
    <3>2. calls \in Seq(Seq(Entries \cup {Miss})) /\ Len(calls) \in Nat
      BY LenProperties DEF CallsMade
    <3>3. m \in 0 .. Len(calls) /\ n - 1 \in 0 .. Len(calls) /\ m <= n - 1
      BY <2>4, <3>2
    <3>4. Asked(calls, m) <= b BY <3>2, <3>3, AskedGrows
    <3>5. i \in 1 .. l OBVIOUS
    <3> HIDE DEF a, b, l
    <3> QED BY <2>1, <2>2, <3>1, <3>4, <3>5, SizesAssumption
  <2> QED BY <2>3, <2>4
<1> QED BY <1>2, <1>3

LEMMA StashRows ==
  ASSUME Dealt, CallsMade, NEW i \in 1 .. StashSize
  PROVE  /\ stashed[i] \in Slots /\ builderOrder[stashed[i]] \in Entries
         /\ ~Placed(builderOrder[stashed[i]])
         /\ \A n \in 1 .. Len(calls) : \A j \in 1 .. Len(calls[n]) :
              builderOrder[stashed[i]] # RowsOf(n)[j]
<1>1. stashed[i] \in Slots /\ DOMAIN stashed = 1 .. StashSize BY DEF Dealt
<1>2. PICK e \in Entries : stashed[i] = SlotOf(e) BY DEF Dealt
<1>3. e \in Rows BY SizesAssumption DEF Entries, Rows
<1>4. builderOrder[stashed[i]] = e BY <1>2, <1>3, RowsAndSlots
<1>5. ~Placed(e) BY <1>1, <1>2 DEF Placed, ToSet
<1>6. ASSUME NEW n \in 1 .. Len(calls), NEW j \in 1 .. Len(calls[n]), RowsOf(n)[j] = e
      PROVE  FALSE
  <2>1. calls[n][j] # Miss /\ calls[n][j] = e BY <1>6, CallRows
  <2>2. DOMAIN calls = 1 .. Len(calls) BY LenProperties DEF CallsMade
  <2>3. DOMAIN calls[n] = 1 .. Len(calls[n]) BY CallRows
  <2>4. Placed(e) BY <2>1, <2>2, <2>3 DEF CallsMade
  <2> QED BY <1>5, <2>4
<1> QED BY <1>1, <1>4, <1>5, <1>6

(* The slots of a phase: what they hold, and that no two are the same.     *)
LEMMA AboutCall ==
  ASSUME Dealt, CallsMade, NEW n \in 1 .. Len(calls)
  PROVE  /\ LookupIndices(n) \in Seq(Slots) /\ Len(LookupIndices(n)) = Len(calls[n])
         /\ About(n) \in Seq(Slots) /\ Len(About(n)) = Len(calls[n])
         /\ DOMAIN About(n) = 1 .. Len(calls[n])
         /\ \A i \in 1 .. Len(calls[n]) : RowAt(About(n)[i]) = RowsOf(n)[i]
<1> DEFINE l == Len(calls[n])
<1>1. l \in Nat /\ \A i \in 1 .. l : RowsOf(n)[i] \in Rows BY CallRows
<1>2. LookupIndices(n) = [i \in 1 .. l |-> SlotOf(RowsOf(n)[i])] BY CallRows
<1>3. \A i \in 1 .. l : /\ SlotOf(RowsOf(n)[i]) \in Slots
                        /\ builderOrder[SlotOf(RowsOf(n)[i])] = RowsOf(n)[i]
  BY <1>1, RowsAndSlots
<1>4. LookupIndices(n) \in [1 .. l -> Slots] BY <1>2, <1>3
<1>5. About(n) = [i \in 1 .. l |-> receiverShuffle[SlotOf(RowsOf(n)[i])]]
  <2>1. n # 0 OBVIOUS
  <2>2. DOMAIN LookupIndices(n) = 1 .. l BY <1>2
  <2>3. \A i \in 1 .. l : LookupIndices(n)[i] = SlotOf(RowsOf(n)[i]) BY <1>2
  <2>4. About(n) = [i \in DOMAIN LookupIndices(n) |-> receiverShuffle[LookupIndices(n)[i]]]
    BY <2>1 DEF About, InReceiverOrder
  <2> QED BY <2>2, <2>3, <2>4
<1>6. About(n) \in [1 .. l -> Slots] BY <1>3, <1>5, RowsAndSlots
<1>7. \A i \in 1 .. l : RowAt(About(n)[i]) = RowsOf(n)[i]
  BY <1>3, <1>5, RowsAndSlots
<1>8. LookupIndices(n) \in Seq(Slots) /\ Len(LookupIndices(n)) = l
  BY <1>1, <1>4, FunctionIsSeq
<1>9. About(n) \in Seq(Slots) /\ Len(About(n)) = l /\ DOMAIN About(n) = 1 .. l
  <2> HIDE DEF l
  <2> QED BY <1>1, <1>6, FunctionIsSeq
<1> QED BY <1>7, <1>8, <1>9

LEMMA AboutStash ==
  ASSUME Dealt, CallsMade
  PROVE  /\ stashed \in Seq(Slots) /\ Len(stashed) = StashSize
         /\ About(0) \in Seq(Slots) /\ Len(About(0)) = StashSize
         /\ DOMAIN About(0) = 1 .. StashSize
         /\ \A i \in 1 .. StashSize : RowAt(About(0)[i]) = builderOrder[stashed[i]]
<1>1. stashed \in [1 .. StashSize -> Slots] /\ StashSize \in Nat
  BY SizesAssumption DEF Dealt
<1>2. About(0) = [i \in 1 .. StashSize |-> receiverShuffle[stashed[i]]]
  BY <1>1 DEF About, InReceiverOrder
<1>3. About(0) \in [1 .. StashSize -> Slots] BY <1>1, <1>2, RowsAndSlots
<1>4. \A i \in 1 .. StashSize : RowAt(About(0)[i]) = builderOrder[stashed[i]]
  BY <1>1, <1>2, RowsAndSlots
<1>5. stashed \in Seq(Slots) /\ Len(stashed) = StashSize BY <1>1, FunctionIsSeq
<1>6. About(0) \in Seq(Slots) /\ Len(About(0)) = StashSize /\ DOMAIN About(0) = 1 .. StashSize
  BY <1>1, <1>3, FunctionIsSeq
<1> QED BY <1>4, <1>5, <1>6

LEMMA AboutIsSlots ==
  ASSUME Dealt, CallsMade, NEW n \in 0 .. Len(calls)
  PROVE  /\ About(n) \in Seq(Slots) /\ DOMAIN About(n) = 1 .. Len(About(n))
         /\ Len(About(n)) \in Nat /\ ToSet(About(n)) \subseteq Slots
<1>1. About(n) \in Seq(Slots)
  <2>1. n = 0 \/ n \in 1 .. Len(calls)
    <3>1. Len(calls) \in Nat BY LenProperties DEF CallsMade
    <3> QED BY <3>1
  <2> QED BY <2>1, AboutCall, AboutStash
<1>2. DOMAIN About(n) = 1 .. Len(About(n)) /\ Len(About(n)) \in Nat BY <1>1, LenProperties
<1>3. \A i \in 1 .. Len(About(n)) : About(n)[i] \in Slots BY <1>1, ElementOfSeq
<1> QED BY <1>1, <1>2, <1>3 DEF ToSet

LEMMA AboutDistinct ==
  ASSUME Dealt, CallsMade, NEW m \in 0 .. Len(calls), NEW n \in 0 .. Len(calls), m <= n,
         NEW i \in DOMAIN About(m), NEW j \in DOMAIN About(n), About(m)[i] = About(n)[j]
  PROVE  m = n /\ i = j
<1>1. Len(calls) \in Nat BY LenProperties DEF CallsMade
<1>2. CASE n = 0
  <2>1. m = 0 BY <1>2
  <2>2. i \in 1 .. StashSize /\ j \in 1 .. StashSize BY <1>2, <2>1, AboutStash
  <2>3. builderOrder[stashed[i]] = builderOrder[stashed[j]]
    BY <1>2, <2>1, <2>2, AboutStash
  <2>4. stashed[i] \in Slots /\ stashed[j] \in Slots /\ DOMAIN stashed = 1 .. StashSize
    BY <2>2 DEF Dealt
  <2>5. stashed[i] = stashed[j] BY <2>3, <2>4, RowsAndSlots
  <2>6. i = j BY <2>2, <2>4, <2>5 DEF Dealt, IsInjective
  <2> QED BY <1>2, <2>1, <2>6
<1>3. CASE n # 0 /\ m = 0
  <2>1. n \in 1 .. Len(calls) BY <1>1, <1>3
  <2>2. i \in 1 .. StashSize /\ j \in 1 .. Len(calls[n]) BY <1>3, <2>1, AboutStash, AboutCall
  <2>3. builderOrder[stashed[i]] = RowsOf(n)[j]
    BY <1>3, <2>1, <2>2, AboutStash, AboutCall
  <2> QED BY <2>1, <2>2, <2>3, StashRows
<1>4. CASE n # 0 /\ m # 0
  <2>1. m \in 1 .. Len(calls) /\ n \in 1 .. Len(calls) BY <1>1, <1>4
  <2>2. i \in 1 .. Len(calls[m]) /\ j \in 1 .. Len(calls[n]) BY <2>1, AboutCall
  <2>3. RowsOf(m)[i] = RowsOf(n)[j] BY <2>1, <2>2, AboutCall
  <2> QED BY <2>1, <2>2, <2>3, RowsDistinct
<1> QED BY <1>2, <1>3, <1>4

(* The slots of a phase are as many as its queries, and new.               *)
LEMMA AboutFresh ==
  ASSUME Dealt, CallsMade, NEW n \in 0 .. Len(calls)
  PROVE  /\ IsInjective(About(n))
         /\ IsFiniteSet(ToSet(About(n))) /\ Cardinality(ToSet(About(n))) = Len(About(n))
         /\ \A m \in 0 .. n - 1 : ToSet(About(m)) \cap ToSet(About(n)) = {}
<1>1. DOMAIN About(n) = 1 .. Len(About(n)) /\ Len(About(n)) \in Nat BY AboutIsSlots
<1>2. IsInjective(About(n)) BY AboutDistinct DEF IsInjective
<1>3. About(n) \in Bijection(1 .. Len(About(n)), ToSet(About(n)))
  <2>1. About(n) = [i \in 1 .. Len(About(n)) |-> About(n)[i]]
    <3>1. About(n) \in Seq(Slots) BY AboutIsSlots
    <3> QED BY <1>1, <3>1
  <2>2. About(n) \in [1 .. Len(About(n)) -> ToSet(About(n))] BY <1>1, <2>1 DEF ToSet
  <2>3. \A s \in ToSet(About(n)) : \E i \in 1 .. Len(About(n)) : About(n)[i] = s
    BY <1>1 DEF ToSet
  <2> QED BY <1>2, <2>2, <2>3 DEF Bijection, Injection, Surjection
<1>4. IsFiniteSet(1 .. Len(About(n))) /\ Cardinality(1 .. Len(About(n))) = Len(About(n))
  <2> DEFINE l == Len(About(n))
  <2>2. l \in Nat BY <1>1
  <2> HIDE DEF l
  <2>4. 1 \in Int /\ l \in Int BY <2>2
  <2>1. IsFiniteSet(1 .. l) /\ Cardinality(1 .. l) = IF 1 > l THEN 0 ELSE l - 1 + 1
    BY <2>4, FS_Interval, Zenon
  <2>3. IsFiniteSet(1 .. l) /\ Cardinality(1 .. l) = l BY <2>1, <2>2
  <2> QED BY <2>3 DEF l
<1>5. IsFiniteSet(ToSet(About(n))) /\ Cardinality(ToSet(About(n))) = Len(About(n))
  <2>1. ExistsBijection(1 .. Len(About(n)), ToSet(About(n))) BY <1>3 DEF ExistsBijection
  <2> QED BY <1>4, <2>1, FS_Bijection
<1>6. ASSUME NEW m \in 0 .. n - 1, NEW s \in ToSet(About(m)) \cap ToSet(About(n))
      PROVE  FALSE
  <2>1. PICK i \in DOMAIN About(m) : About(m)[i] = s BY <1>6 DEF ToSet
  <2>2. PICK j \in DOMAIN About(n) : About(n)[j] = s BY <1>6 DEF ToSet
  <2>3. m \in 0 .. Len(calls) /\ m <= n /\ m # n BY LenProperties DEF CallsMade
  <2> QED BY <2>1, <2>2, <2>3, AboutDistinct
<1> QED BY <1>2, <1>5, <1>6

---------------------------------------------------------------------------
(* Messages and steps.                                                     *)
LEMMA ContentsNamed ==
  ASSUME NEW p \in Parties, NEW q \in Parties, NEW n \in Nat, NEW j \in 1 .. TotalIn(p, q, n)
  PROVE  /\ Contents(p, q, n)[j] \in Whats
         /\ Contents(p, q, n)[j] = "index" => n # 0
<1>1. p \in {0, 1, 2} /\ q \in {0, 1, 2} BY Roles
<1>2. CASE n = 0
  <2>1. CASE p = 0 /\ q = 1
    <3>1. j \in 1 .. 6 BY <1>2, <2>1 DEF TotalIn
    <3>2. j = 1 \/ j = 2 \/ j = 3 \/ j = 4 \/ j = 5 \/ j = 6 BY <3>1
    <3> QED BY <1>2, <2>1, <3>2 DEF Contents, Whats
  <2>2. CASE p = 1 /\ q = 2
    <3>1. j \in 1 .. 5 BY <1>2, <2>2 DEF TotalIn
    <3>2. j = 1 \/ j = 2 \/ j = 3 \/ j = 4 \/ j = 5 BY <3>1
    <3> QED BY <1>2, <2>2, <3>2 DEF Contents, Whats
  <2>3. CASE p = 2 /\ q = 0
    <3>1. j \in 1 .. 7 BY <1>2, <2>3 DEF TotalIn
    <3>2. j = 1 \/ j = 2 \/ j = 3 \/ j = 4 \/ j = 5 \/ j = 6 \/ j = 7 BY <3>1
    <3> QED BY <1>2, <2>3, <3>2 DEF Contents, Whats
  <2>4. CASE p = 0 /\ q = 2
    <3>1. j = 1 BY <1>2, <2>4 DEF TotalIn
    <3> QED BY <1>2, <2>4, <3>1 DEF Contents, Whats
  <2>5. CASE p = q \/ (p = 1 /\ q = 0) \/ (p = 2 /\ q = 1)
    <3>1. TotalIn(p, q, n) = 0 BY <1>1, <1>2, <2>5 DEF TotalIn
    <3> QED BY <3>1
  <2> QED BY <1>1, <2>1, <2>2, <2>3, <2>4, <2>5
<1>3. CASE n # 0
  <2>1. CASE (p = 0 /\ q = 1) \/ (p = 1 /\ q = 2) \/ (p = 2 /\ q = 0)
    <3>1. j \in 1 .. 4 BY <1>3, <2>1 DEF TotalIn
    <3>2. j = 1 \/ j = 2 \/ j = 3 \/ j = 4 BY <3>1
    <3> QED BY <1>3, <2>1, <3>2 DEF Contents, Whats
  <2>2. CASE p = 1 /\ q = 0
    <3>1. j = 1 BY <1>3, <2>2 DEF TotalIn
    <3> QED BY <1>3, <2>2, <3>1 DEF Contents, Whats
  <2>3. CASE p = q \/ (p = 0 /\ q = 2) \/ (p = 2 /\ q = 1)
    <3>1. TotalIn(p, q, n) = 0 BY <1>1, <1>3, <2>3 DEF TotalIn
    <3> QED BY <3>1
  <2> QED BY <1>1, <2>1, <2>2, <2>3
<1> QED BY <1>2, <1>3

LEMMA BodiesAreSlots ==
  ASSUME Dealt, CallsMade, NEW n \in 0 .. Len(calls), NEW what, what = "index" => n # 0
  PROVE  BodyOf(n, what) \in Seq(Slots)
<1>1. About(n) \in Seq(Slots) BY AboutIsSlots
<1>2. stashed \in Seq(Slots) BY AboutStash
<1>3. n # 0 => LookupIndices(n) \in Seq(Slots)
  <2>1. n # 0 => n \in 1 .. Len(calls) BY LenProperties DEF CallsMade
  <2> QED BY <2>1, AboutCall
<1>4. <<>> \in Seq(Slots) OBVIOUS
<1> QED BY <1>1, <1>2, <1>3, <1>4 DEF BodyOf

LEMMA MessageTyped ==
  ASSUME Dealt, CallsMade, NEW p \in Parties, NEW q \in Parties, NEW n \in 0 .. Len(calls),
         NEW j \in 1 .. TotalIn(p, q, n)
  PROVE  Message(p, q, n, j) \in Messages
<1>1. n \in Nat BY LenProperties DEF CallsMade
<1>2. Contents(p, q, n)[j] \in Whats BY <1>1, ContentsNamed
<1>3. BodyOf(n, Contents(p, q, n)[j]) \in Seq(Slots) BY <1>1, ContentsNamed, BodiesAreSlots
<1> QED BY <1>1, <1>2, <1>3 DEF Message, Messages

(* A party that is not idle is at a step of its script.                    *)
LEMMA HeadStep ==
  ASSUME Scripts, NEW p \in Parties, script[p] # <<>>
  PROVE  /\ DoneSteps(p) \in Nat /\ call[p] \in Nat
         /\ DoneSteps(p) < LineLength(p, call[p])
         /\ StepFits(p, call[p], DoneSteps(p), Head(script[p]))
         /\ Tail(script[p]) \in Seq(Operations)
         /\ Len(Tail(script[p])) = Len(script[p]) - 1
         /\ \A i \in 1 .. Len(script[p]) - 1 : Tail(script[p])[i] = script[p][i + 1]
<1> DEFINE s == script[p]
           k == DoneSteps(p)
<1>1. s \in Seq(Operations) BY DEF Scripts
<1>2. Head(s) = s[1] /\ Tail(s) \in Seq(Operations) /\ Len(Tail(s)) = Len(s) - 1
      /\ Len(s) \in Nat \ {0} /\ \A i \in 1 .. Len(s) - 1 : Tail(s)[i] = s[i + 1]
  BY <1>1, HeadTailProperties, EmptySeq
<1>3. k \in 0 .. LineLength(p, call[p]) /\ call[p] \in Nat BY DoneBounded
<1>4. LineLength(p, call[p]) \in Nat BY <1>3, CountsBounded
<1>5. k < LineLength(p, call[p]) BY <1>2, <1>3, <1>4 DEF DoneSteps
<1>6. s[1] = Line(p, call[p])[k + 1] BY <1>2 DEF Scripts
<1>7. StepFits(p, call[p], k, Head(s))
  <2>1. k \in Nat BY <1>3, <1>4
  <2> QED BY <1>2, <1>3, <1>5, <1>6, <2>1, ScriptsFit
<1> QED BY <1>2, <1>3, <1>4, <1>5, <1>7

LEMMA AdvanceScripts ==
  ASSUME Scripts, NEW p \in Parties, script[p] # <<>>, Advance(p), call' = call,
         calls' = calls
  PROVE  /\ Scripts'
         /\ DoneSteps(p)' = DoneSteps(p) + 1
         /\ \A q \in Parties : q # p => DoneSteps(q)' = DoneSteps(q)
<1>1. script \in [Parties -> Seq(Operations)] BY DEF Scripts
<1>2. script' = [script EXCEPT ![p] = Tail(script[p])] BY DEF Advance
<1>3. script' \in [Parties -> Seq(Operations)] BY <1>1, <1>2, HeadStep
<1>4. script'[p] = Tail(script[p]) /\ Len(script'[p]) = Len(script[p]) - 1
  BY <1>1, <1>2, HeadStep
<1>5. \A q \in Parties : q # p => script'[q] = script[q] BY <1>1, <1>2
<1>6. Len(script[p]) \in Nat /\ LineLength(p, call[p]) \in Nat
      /\ DoneSteps(p) = LineLength(p, call[p]) - Len(script[p])
  BY DoneBounded, CountsBounded DEF DoneSteps
<1>7. DoneSteps(p)' = DoneSteps(p) + 1 BY <1>4, <1>6 DEF DoneSteps
<1>8. \A q \in Parties : q # p => DoneSteps(q)' = DoneSteps(q) BY <1>5 DEF DoneSteps
<1>9. ASSUME NEW q \in Parties
      PROVE  /\ Len(script'[q]) <= LineLength(q, call[q])
             /\ \A i \in 1 .. Len(script'[q]) :
                  script'[q][i] = Line(q, call[q])[DoneSteps(q)' + i]
  <2>1. CASE q = p
    <3>1. Len(script[p]) <= LineLength(p, call[p]) BY DEF Scripts
    <3>2. ASSUME NEW i \in 1 .. Len(script'[p])
          PROVE  script'[p][i] = Line(p, call[p])[DoneSteps(p)' + i]
      <4>1. script'[p][i] = script[p][i + 1] /\ i + 1 \in 1 .. Len(script[p])
        BY <1>4, <1>6, HeadStep
      <4>2. script[p][i + 1] = Line(p, call[p])[DoneSteps(p) + (i + 1)]
        BY <4>1 DEF Scripts
      <4>3. DoneSteps(p) + (i + 1) = DoneSteps(p)' + i BY <1>6, <1>7
      <4> QED BY <4>1, <4>2, <4>3
    <3>3. Len(script'[p]) <= LineLength(p, call[p]) BY <1>4, <1>6, <3>1
    <3> QED BY <2>1, <3>2, <3>3
  <2>2. CASE q # p BY <1>5, <1>8, <2>2 DEF Scripts
  <2> QED BY <2>1, <2>2
<1>10. Scripts' BY <1>3, <1>9 DEF Scripts
<1> QED BY <1>7, <1>8, <1>10

(* What a step adds to the counts.                                         *)
LEMMA AdvanceCounts ==
  ASSUME Scripts, NEW p \in Parties, script[p] # <<>>, Advance(p), call' = call,
         calls' = calls, NEW a \in Parties, NEW b \in Parties
  PROVE  LET op == Head(script[p])
         IN  /\ Sent(a, b)' =
                  Sent(a, b) + (IF a = p /\ op.do = "send" /\ op.peer = b THEN 1 ELSE 0)
             /\ Received(a, b)' =
                  Received(a, b) + (IF b = p /\ op.do = "receive" /\ op.peer = a THEN 1 ELSE 0)
<1> DEFINE op == Head(script[p])
           n == call[p]
           k == DoneSteps(p)
<1>1. StepFits(p, n, k, op) /\ k \in Nat /\ n \in Nat BY HeadStep
<1>2. k' = k + 1 /\ \A q \in Parties : q # p => DoneSteps(q)' = DoneSteps(q)
  BY AdvanceScripts
<1>3. \A x, y \in Parties : /\ Sent(x, y)' = Before(x, y, call[x]) + SentIn(x, y, call[x], DoneSteps(x)')
                            /\ Received(x, y)' = Before(x, y, call[y])
                                                 + ReceivedIn(x, y, call[y], DoneSteps(y)')
  BY DEF Sent, Received, Before, SentIn, ReceivedIn, Past
<1>4. /\ SentIn(p, b, n, k + 1) =
           SentIn(p, b, n, k) + (IF op.do = "send" /\ op.peer = b THEN 1 ELSE 0)
      /\ ReceivedIn(a, p, n, k + 1) =
           ReceivedIn(a, p, n, k) + (IF op.do = "receive" /\ op.peer = a THEN 1 ELSE 0)
  BY <1>1 DEF StepFits
<1> HIDE DEF op, n, k
<1>5. Sent(a, b)' = Sent(a, b) + (IF a = p /\ op.do = "send" /\ op.peer = b THEN 1 ELSE 0)
  <2>1. Sent(a, b) \in Nat BY SentBetween
  <2>2. CASE a = p
    <3>1. Before(p, b, n) \in Nat /\ SentIn(p, b, n, k) \in 0 .. TotalIn(p, b, n)
          /\ TotalIn(p, b, n) \in Nat
      BY <1>1, BeforeNext, CountsBounded
    <3>2. Sent(p, b) = Before(p, b, n) + SentIn(p, b, n, k) BY DEF Sent, n, k
    <3>3. Sent(p, b)' = Before(p, b, n) + SentIn(p, b, n, k + 1) BY <1>2, <1>3 DEF n, k
    <3> QED BY <1>4, <2>2, <3>1, <3>2, <3>3
  <2>3. CASE a # p
    <3>1. Sent(a, b)' = Sent(a, b) BY <1>2, <1>3, <2>3 DEF Sent
    <3> QED BY <2>1, <2>3, <3>1
  <2> QED BY <2>2, <2>3
<1>6. Received(a, b)' =
        Received(a, b) + (IF b = p /\ op.do = "receive" /\ op.peer = a THEN 1 ELSE 0)
  <2>1. Received(a, b) \in Nat BY SentBetween
  <2>2. CASE b = p
    <3>1. Before(a, p, n) \in Nat /\ ReceivedIn(a, p, n, k) \in 0 .. TotalIn(a, p, n)
          /\ TotalIn(a, p, n) \in Nat
      BY <1>1, BeforeNext, CountsBounded
    <3>2. Received(a, p) = Before(a, p, n) + ReceivedIn(a, p, n, k) BY DEF Received, n, k
    <3>3. Received(a, p)' = Before(a, p, n) + ReceivedIn(a, p, n, k + 1)
      BY <1>2, <1>3 DEF n, k
    <3> QED BY <1>4, <2>2, <3>1, <3>2, <3>3
  <2>3. CASE b # p
    <3>1. Received(a, b)' = Received(a, b) BY <1>2, <1>3, <2>3 DEF Received
    <3> QED BY <2>1, <2>3, <3>1
  <2> QED BY <2>2, <2>3
<1> QED BY <1>5, <1>6 DEF op

---------------------------------------------------------------------------
(* What steps leave as it is.                                              *)
LEMMA DealtSame ==
  ASSUME Dealt, UNCHANGED dealt
  PROVE  Dealt'
BY DEF Dealt, dealt, SlotOf

LEMMA CallsSame ==
  ASSUME CallsMade, UNCHANGED dealt, calls' = calls
  PROVE  CallsMade'
<1>1. \A r : Placed(r)' = Placed(r) BY DEF dealt, Placed, SlotOf
<1> QED BY <1>1 DEF CallsMade

LEMMA ValuesSame ==
  ASSUME UNCHANGED dealt, calls' = calls, NEW n
  PROVE  /\ About(n)' = About(n) /\ RowsOf(n)' = RowsOf(n)
         /\ \A p, q, j : Message(p, q, n, j)' = Message(p, q, n, j)
<1>1. LookupIndices(n)' = LookupIndices(n)
  BY DEF dealt, LookupIndices, Placed, SlotOf, DummyIndex, OldQueryCount
<1>2. About(n)' = About(n) BY <1>1 DEF dealt, About, InReceiverOrder
<1>3. RowsOf(n)' = RowsOf(n) BY DEF RowsOf
<1>4. \A what : BodyOf(n, what)' = BodyOf(n, what) BY <1>1, <1>2 DEF dealt, BodyOf
<1>5. \A p, q, j : Message(p, q, n, j)' = Message(p, q, n, j)
  BY <1>4 DEF Message, Contents
<1> QED BY <1>2, <1>3, <1>5

(* Calls made later change nothing about the phases there are.             *)
LEMMA PhaseSame ==
  ASSUME CallsMade, UNCHANGED dealt, \A m \in 1 .. Len(calls) : calls'[m] = calls[m],
         NEW n \in 0 .. Len(calls)
  PROVE  /\ About(n)' = About(n) /\ Asked(calls', n) = Asked(calls, n)
         /\ n # 0 => RowsOf(n)' = RowsOf(n)
         /\ \A p, q \in Parties : \A j \in 1 .. TotalIn(p, q, n) :
              Message(p, q, n, j)' = Message(p, q, n, j)
<1>1. Len(calls) \in Nat /\ n \in Nat BY LenProperties DEF CallsMade
<1>2. Asked(calls', n) = Asked(calls, n)
  <2>1. \A k \in 1 .. n : calls'[k] = calls[k] BY <1>1
  <2> QED BY <1>1, <2>1, AskedSame
<1>3. ASSUME n # 0
      PROVE  LookupIndices(n)' = LookupIndices(n) /\ RowsOf(n)' = RowsOf(n)
  <2>1. calls'[n] = calls[n] BY <1>1, <1>3
  <2>2. Asked(calls', n - 1) = Asked(calls, n - 1)
    <3>1. \A k \in 1 .. n - 1 : calls'[k] = calls[k] BY <1>1
    <3>2. n - 1 \in Nat BY <1>1, <1>3
    <3> QED BY <3>1, <3>2, AskedSame
  <2>3. \A r : SlotOf(r)' = SlotOf(r) /\ Placed(r)' = Placed(r)
    BY DEF dealt, SlotOf, Placed
  <2>4. \A i : DummyIndex(n, i)' = DummyIndex(n, i)
    BY <2>2 DEF dealt, DummyIndex, OldQueryCount, SlotOf
  <2>5. LookupIndices(n)' = LookupIndices(n) BY <2>1, <2>3, <2>4 DEF LookupIndices
  <2>6. RowsOf(n)' = RowsOf(n) BY <2>1, <2>2 DEF RowsOf
  <2> QED BY <2>5, <2>6
<1>4. About(n)' = About(n)
  <2>1. CASE n = 0 BY <2>1 DEF dealt, About, InReceiverOrder
  <2>2. CASE n # 0 BY <1>3, <2>2 DEF dealt, About, InReceiverOrder
  <2> QED BY <2>1, <2>2
<1>5. ASSUME NEW p \in Parties, NEW q \in Parties, NEW j \in 1 .. TotalIn(p, q, n)
      PROVE  Message(p, q, n, j)' = Message(p, q, n, j)
  <2> DEFINE what == Contents(p, q, n)[j]
  <2>1. what = "index" => n # 0 BY <1>1, ContentsNamed
  <2>2. BodyOf(n, what)' = BodyOf(n, what) BY <1>3, <1>4, <2>1 DEF dealt, BodyOf, Contents
  <2> QED BY <2>2 DEF Message, Contents
<1> QED BY <1>2, <1>3, <1>4, <1>5

LEMMA FinishedBounded ==
  ASSUME Scripts, CallsMade, NEW p \in Parties
  PROVE  /\ Finished(p) \in Int /\ Finished(p) <= Len(calls) /\ Len(calls) \in Nat
         /\ -1 <= Finished(p)
         /\ 0 .. Finished(p) \subseteq 0 .. Len(calls)
         /\ 1 .. Finished(p) \subseteq 1 .. Len(calls)
<1>1. call[p] \in 0 .. Len(calls) /\ Len(calls) \in Nat
  BY LenProperties DEF Scripts, CallsMade
<1> QED BY <1>1 DEF Finished

LEMMA KeptSame ==
  ASSUME Scripts, CallsMade, NEW p \in Parties, Kept(p), Finished(p)' = Finished(p),
         UNCHANGED dealt, \A m \in 1 .. Len(calls) : calls'[m] = calls[m],
         UNCHANGED <<touched[p], queryCount[p], stashSlots[p], answers[p]>>
  PROVE  Kept(p)'
<1>1. ASSUME NEW n \in 0 .. Finished(p)
      PROVE  About(n)' = About(n) /\ Asked(calls', n) = Asked(calls, n)
  <2>1. n \in 0 .. Len(calls) BY FinishedBounded
  <2> QED BY <2>1, PhaseSame
<1>2. ASSUME NEW n \in 1 .. Finished(p) PROVE RowsOf(n)' = RowsOf(n)
  <2>1. n \in 0 .. Len(calls) /\ n # 0 BY FinishedBounded
  <2> QED BY <2>1, PhaseSame
<1>3. Finished(p) \in Int BY FinishedBounded
<1>4. touched'[p] = UNION {ToSet(About(m)') : m \in 0 .. Finished(p)'}
  <2>1. {ToSet(About(m)') : m \in 0 .. Finished(p)} = {ToSet(About(m)) : m \in 0 .. Finished(p)}
    BY <1>1
  <2> QED BY <2>1 DEF Kept
<1>5. stashSlots'[p] = IF Finished(p)' < 0 THEN <<>> ELSE About(0)'
  BY <1>1, <1>3 DEF Kept
<1>6. answers'[p] = [m \in 1 .. Finished(p)' |-> RowsOf(m)'] BY <1>2 DEF Kept
<1>7. queryCount'[p] = IF Finished(p)' < 0 THEN 0 ELSE Asked(calls', Finished(p)')
  BY <1>1, <1>3 DEF Kept
<1>8. Cardinality(touched'[p]) = IF Finished(p)' < 0 THEN 0 ELSE StashSize + queryCount'[p]
  BY DEF Kept
<1> QED BY <1>4, <1>5, <1>6, <1>7, <1>8 DEF Kept, ToSet

LEMMA InOrderSame ==
  ASSUME CallsMade, Scripts, NEW a \in Parties, NEW b \in Parties, InOrder(a, b),
         UNCHANGED dealt, \A m \in 1 .. Len(calls) : calls'[m] = calls[m],
         0 .. call[a] \subseteq 0 .. call'[a], net'[a][b] = net[a][b],
         Sent(a, b)' = Sent(a, b), Received(a, b)' = Received(a, b)
  PROVE  InOrder(a, b)'
<1>1. ASSUME NEW n \in 0 .. call[a], NEW j \in 1 .. TotalIn(a, b, n)
      PROVE  Message(a, b, n, j)' = Message(a, b, n, j)
  <2>1. n \in 0 .. Len(calls)
    <3>1. call[a] \in 0 .. Len(calls) /\ Len(calls) \in Nat
      BY LenProperties DEF Scripts, CallsMade
    <3> QED BY <3>1
  <2> QED BY <2>1, PhaseSame
<1>2. Len(net'[a][b]) = Sent(a, b)' - Received(a, b)' BY DEF InOrder
<1>3. \A i \in DOMAIN net'[a][b] :
        \E n \in 0 .. call'[a] : \E j \in 1 .. TotalIn(a, b, n) :
          /\ Received(a, b)' + i = Before(a, b, n) + j
          /\ net'[a][b][i] = Message(a, b, n, j)'
  BY <1>1 DEF InOrder
<1> QED BY <1>2, <1>3 DEF InOrder, TotalIn, Before

(* A step that is not the last one of a script finishes nothing.           *)
LEMMA NothingFinished ==
  ASSUME Scripts, NEW p \in Parties, script[p] # <<>>, Advance(p), call' = call, calls' = calls,
         DoneSteps(p) + 1 < LineLength(p, call[p])
  PROVE  \A q \in Parties : Finished(q)' = Finished(q)
<1>1. script \in [Parties -> Seq(Operations)] BY DEF Scripts
<1>2. script' = [script EXCEPT ![p] = Tail(script[p])] BY DEF Advance
<1>3. \A q \in Parties : q # p => script'[q] = script[q] BY <1>1, <1>2
<1>4. script'[p] # <<>>
  <2>1. script'[p] = Tail(script[p]) BY <1>1, <1>2
  <2>2. Len(script'[p]) = Len(script[p]) - 1 BY <2>1, HeadStep
  <2>3. Len(script[p]) \in Nat /\ LineLength(p, call[p]) \in Nat
        /\ DoneSteps(p) = LineLength(p, call[p]) - Len(script[p])
    BY DoneBounded, CountsBounded DEF DoneSteps
  <2>4. Len(script'[p]) > 0 BY <2>2, <2>3
  <2> QED BY <2>4
<1> QED BY <1>3, <1>4 DEF Finished, Idle

---------------------------------------------------------------------------
(* Each action keeps the invariant.                                        *)
LEMMA SendKeeps ==
  ASSUME IInv, NEW p \in Parties, Send(p)
  PROVE  IInv'
<1> DEFINE op == Head(script[p])
           q == op.peer
           n == call[p]
           k == DoneSteps(p)
           j == SentIn(p, q, n, k) + 1
           sent == [what |-> op.what, call |-> n, body |-> Body(p, op.what)]
<1>1. /\ script[p] # <<>> /\ op.do = "send" /\ Advance(p)
      /\ net' = [net EXCEPT ![p][q] = Append(net[p][q], sent)]
      /\ UNCHANGED dealt /\ calls' = calls /\ call' = call /\ slots' = slots
      /\ stashSlots' = stashSlots /\ touched' = touched /\ queryCount' = queryCount
      /\ answers' = answers
  BY DEF Send, At
<1>2. Dealt /\ CallsMade /\ Scripts /\ Channels /\ Books BY DEF IInv
<1>3. StepFits(p, n, k, op) /\ k \in Nat /\ n \in Nat BY <1>1, <1>2, HeadStep
<1>4. /\ q \in Parties /\ op.what \in Whats /\ k + 1 < LineLength(p, n)
      /\ j <= TotalIn(p, q, n) /\ Contents(p, q, n)[j] = op.what
      /\ op.what \in {"stashSlots", "slots"} => Learns(p, n) <= k
      /\ Learns(p, n) # k + 1
  BY <1>1, <1>3 DEF StepFits
<1>5. j \in 1 .. TotalIn(p, q, n)
  <2>1. SentIn(p, q, n, k) \in 0 .. TotalIn(p, q, n) /\ TotalIn(p, q, n) \in Nat
    BY <1>3, <1>4, CountsBounded
  <2> QED BY <1>4, <2>1
<1>6. n \in 0 .. Len(calls) BY <1>2 DEF Scripts
<1>7. sent = Message(p, q, n, j)
  <2>1. Body(p, op.what) = BodyOf(n, op.what)
    <3>1. op.what \in {"stashSlots", "slots"} => slots[p] = About(n)
      BY <1>2, <1>4 DEF Books, Learned
    <3> QED BY <3>1 DEF Body, BodyOf
  <2> QED BY <1>4, <2>1 DEF Message
<1>8. sent \in Messages BY <1>2, <1>4, <1>5, <1>6, <1>7, MessageTyped
<1>9. Dealt' /\ CallsMade' BY <1>1, <1>2, DealtSame, CallsSame
<1>10. Scripts' /\ DoneSteps(p)' = k + 1
       /\ \A r \in Parties : r # p => DoneSteps(r)' = DoneSteps(r)
  BY <1>1, <1>2, AdvanceScripts
<1>11. ASSUME NEW a \in Parties, NEW b \in Parties
       PROVE  /\ Sent(a, b)' = Sent(a, b) + (IF a = p /\ b = q THEN 1 ELSE 0)
              /\ Received(a, b)' = Received(a, b)
              /\ Sent(a, b) \in Nat /\ Received(a, b) \in Nat
  <2>1. Sent(a, b) \in Nat /\ Received(a, b) \in Nat BY <1>2, SentBetween
  <2> HIDE DEF op
  <2>2. Received(a, b)' = Received(a, b) + 0 BY <1>1, <1>2, AdvanceCounts DEF op
  <2>3. Sent(a, b)' = Sent(a, b) + (IF a = p /\ b = q THEN 1 ELSE 0)
    BY <1>1, <1>2, AdvanceCounts DEF op
  <2> QED BY <2>1, <2>2, <2>3
<1> HIDE DEF sent, op, n, k, j, q
<1>12. /\ DOMAIN net = Parties /\ \A a \in Parties : net[a] \in [Parties -> Seq(Messages)]
  BY <1>2 DEF Channels, IsTableOfQueues
<1>13. /\ net'[p][q] = Append(net[p][q], sent)
       /\ \A a, b \in Parties : <<a, b>> # <<p, q>> => net'[a][b] = net[a][b]
  BY <1>1, <1>4, <1>12
<1>14. IsTableOfQueues(net')
  <2>1. net[p][q] \in Seq(Messages) BY <1>4, <1>12
  <2>2. Append(net[p][q], sent) \in Seq(Messages) BY <1>8, <2>1
  <2>3. net' = [net EXCEPT ![p] = [net[p] EXCEPT ![q] = Append(net[p][q], sent)]] BY <1>1
  <2>4. [net[p] EXCEPT ![q] = Append(net[p][q], sent)] \in [Parties -> Seq(Messages)]
    BY <1>4, <1>12, <2>2
  <2> QED BY <1>12, <2>3, <2>4 DEF IsTableOfQueues
<1>15. ASSUME NEW a \in Parties, NEW b \in Parties PROVE InOrder(a, b)'
  <2>1. InOrder(a, b) BY <1>2 DEF Channels
  <2>2. CASE <<a, b>> # <<p, q>>
    <3>1. net'[a][b] = net[a][b] /\ Sent(a, b)' = Sent(a, b) /\ Received(a, b)' = Received(a, b)
      BY <1>11, <1>13, <2>2
    <3> QED BY <1>1, <1>2, <2>1, <3>1, InOrderSame
  <2>3. CASE a = p /\ b = q
    <3> DEFINE c == net[a][b]
               l == Len(c)
    <3>1. c \in Seq(Messages) /\ l \in Nat BY <1>12, LenProperties
    <3>2. /\ Len(net'[a][b]) = l + 1 /\ net'[a][b][l + 1] = sent
          /\ \A i \in 1 .. l : net'[a][b][i] = c[i]
          /\ DOMAIN net'[a][b] = 1 .. l + 1 /\ DOMAIN c = 1 .. l
      BY <1>8, <1>13, <2>3, <3>1, AppendProperties, LenProperties
    <3>3. Sent(a, b)' = Sent(a, b) + 1 /\ Received(a, b)' = Received(a, b)
          /\ Sent(a, b) \in Nat /\ Received(a, b) \in Nat
      BY <1>11, <2>3
    <3>4. l = Sent(a, b) - Received(a, b) BY <2>1 DEF InOrder
    <3> HIDE DEF c, l
    <3>5. Len(net'[a][b]) = Sent(a, b)' - Received(a, b)' BY <3>1, <3>2, <3>3, <3>4
    <3>6. ASSUME NEW i \in DOMAIN net'[a][b]
          PROVE  \E m \in 0 .. call[a] : \E h \in 1 .. TotalIn(a, b, m) :
                   /\ Received(a, b)' + i = Before(a, b, m) + h
                   /\ net'[a][b][i] = Message(a, b, m, h)
      <4>1. CASE i \in 1 .. l
        <5>1. \E m \in 0 .. call[a] : \E h \in 1 .. TotalIn(a, b, m) :
                 Received(a, b) + i = Before(a, b, m) + h /\ c[i] = Message(a, b, m, h)
          BY <2>1, <3>2, <4>1 DEF InOrder, c
        <5> QED BY <3>2, <3>3, <4>1, <5>1
      <4>2. CASE i = l + 1
        <5>1. Received(a, b) + i = Before(a, b, n) + j
          <6>1. Sent(a, b) = Before(a, b, n) + SentIn(a, b, n, k) BY <2>3 DEF Sent, n, k
          <6>2. Before(a, b, n) \in Nat /\ SentIn(a, b, n, k) \in Nat
            BY <1>3, BeforeNext, CountsBounded
          <6>3. j = SentIn(a, b, n, k) + 1 BY <2>3 DEF j
          <6>4. Received(a, b) + i = Sent(a, b) + 1 BY <3>3, <3>4, <4>2
          <6>5. j \in Nat BY <6>2, <6>3
          <6> QED BY <6>1, <6>2, <6>3, <6>4, <6>5
        <5>2. n \in 0 .. call[a] /\ j \in 1 .. TotalIn(a, b, n) BY <1>3, <1>5, <2>3 DEF n
        <5>3. net'[a][b][i] = Message(a, b, n, j) BY <1>7, <2>3, <3>2, <4>2
        <5> QED BY <3>3, <5>1, <5>2, <5>3
      <4> QED BY <3>1, <3>2, <4>1, <4>2
    <3>7. \A m, h : Message(a, b, m, h)' = Message(a, b, m, h) BY <1>1, ValuesSame
    <3>8. \A i \in DOMAIN net'[a][b] :
            \E m \in 0 .. call'[a] : \E h \in 1 .. TotalIn(a, b, m) :
              /\ Received(a, b)' + i = Before(a, b, m) + h
              /\ net'[a][b][i] = Message(a, b, m, h)'
      BY <1>1, <3>6, <3>7
    <3> QED BY <3>5, <3>8 DEF InOrder, TotalIn, Before
  <2> QED BY <2>2, <2>3
<1>16. Channels' BY <1>14, <1>15 DEF Channels, IsTableOfQueues
<1>17. \A r \in Parties : Finished(r)' = Finished(r)
  BY <1>1, <1>2, <1>4, NothingFinished DEF k, n
<1>18. ASSUME NEW r \in Parties PROVE Learned(r)' /\ Kept(r)'
  <2>1. Learned(r) /\ Kept(r) BY <1>2 DEF Books
  <2>2. Kept(r)' BY <1>1, <1>2, <1>17, <2>1, KeptSame
  <2>3. ASSUME Learns(r, call[r]) <= DoneSteps(r)' PROVE slots[r] = About(call[r])
    <3>1. CASE r = p
      <4>1. Learns(p, n) \in Nat
        <5>1. Learns(p, n) \in 1 .. LineLength(p, n) - 1 /\ LineLength(p, n) \in Nat
          BY <1>3, CountsBounded
        <5> QED BY <5>1
      <4>2. Learns(p, n) <= k BY <1>3, <1>4, <1>10, <2>3, <3>1, <4>1 DEF n
      <4> QED BY <2>1, <3>1, <4>2 DEF Learned, n, k
    <3>2. CASE r # p BY <1>10, <2>1, <2>3, <3>2 DEF Learned
    <3> QED BY <3>1, <3>2
  <2>4. Learned(r)'
    <3>1. About(call[r])' = About(call[r])
      <4>1. \A m : About(m)' = About(m) BY <1>1, ValuesSame
      <4> QED BY <1>1, <4>1 DEF About, InReceiverOrder, LookupIndices, Placed, DummyIndex, OldQueryCount, SlotOf, dealt
    <3> QED BY <1>1, <2>3, <3>1 DEF Learned, Learns
  <2> QED BY <2>2, <2>4
<1>19. Books' BY <1>1, <1>2, <1>18 DEF Books
<1> QED BY <1>9, <1>10, <1>16, <1>19 DEF IInv

(* What a receiving party finds is what its script says.                   *)
LEMMA HeadMeant ==
  ASSUME Scripts, Channels, NEW p \in Parties, script[p] # <<>>, Head(script[p]).do = "receive",
         NEW q \in Parties, q = Head(script[p]).peer, net[q][p] # <<>>
  PROVE  LET what == Head(script[p]).what
         IN  Head(net[q][p]) = [what |-> what, call |-> call[p], body |-> BodyOf(call[p], what)]
<1> DEFINE op == Head(script[p])
           n == call[p]
           k == DoneSteps(p)
           j == ReceivedIn(q, p, n, k) + 1
           c == net[q][p]
<1>1. StepFits(p, n, k, op) /\ k \in Nat /\ n \in Nat BY HeadStep
<1>2. j <= TotalIn(q, p, n) /\ Contents(q, p, n)[j] = op.what BY <1>1 DEF StepFits
<1>3. ReceivedIn(q, p, n, k) \in 0 .. TotalIn(q, p, n) /\ TotalIn(q, p, n) \in Nat
      /\ Before(q, p, n) \in Nat
  BY <1>1, CountsBounded, BeforeNext
<1>4. j \in 1 .. TotalIn(q, p, n) BY <1>2, <1>3
<1>5. c \in Seq(Messages) BY DEF Channels, IsTableOfQueues
<1>6. 1 \in DOMAIN c /\ Head(c) = c[1] BY <1>5, EmptySeq, LenProperties, HeadTailProperties
<1>7. PICK m \in 0 .. call[q] : \E h \in 1 .. TotalIn(q, p, m) :
        Received(q, p) + 1 = Before(q, p, m) + h /\ c[1] = Message(q, p, m, h)
  BY <1>6 DEF Channels, InOrder
<1>8. PICK h \in 1 .. TotalIn(q, p, m) :
        Received(q, p) + 1 = Before(q, p, m) + h /\ c[1] = Message(q, p, m, h)
  BY <1>7
<1>9. Received(q, p) = Before(q, p, n) + ReceivedIn(q, p, n, k) BY DEF Received
<1>10. m \in Nat
  <2>1. call[q] \in Nat BY DoneBounded
  <2> QED BY <2>1
<1> HIDE DEF c, op, n, k
<1>11. Before(q, p, n) + j = Before(q, p, m) + h
  <2>1. Before(q, p, n) + j = Received(q, p) + 1 BY <1>3, <1>9
  <2> QED BY <1>8, <2>1
<1> HIDE DEF j
<1>12. m = n /\ h = j
  BY <1>1, <1>4, <1>8, <1>10, <1>11, PlaceUnique
<1>13. Head(c) = Message(q, p, n, j) BY <1>6, <1>8, <1>12
<1> QED BY <1>2, <1>13 DEF Message, c, op, n

LEMMA ReceiveKeeps ==
  ASSUME IInv, NEW p \in Parties, Receive(p)
  PROVE  IInv'
<1> DEFINE op == Head(script[p])
           k == DoneSteps(p)
<1>1. /\ script[p] # <<>> /\ op.do = "receive" /\ Advance(p)
      /\ net[op.peer][p] # <<>>
      /\ net' = [net EXCEPT ![op.peer][p] = Tail(net[op.peer][p])]
      /\ slots' = [slots EXCEPT ![p] = SlotsFrom(p, op.what, Head(net[op.peer][p]).body)]
      /\ UNCHANGED dealt /\ calls' = calls /\ call' = call
      /\ stashSlots' = stashSlots /\ touched' = touched /\ queryCount' = queryCount
      /\ answers' = answers
  BY DEF Receive, At
<1>2. Dealt /\ CallsMade /\ Scripts /\ Channels /\ Books BY DEF IInv
<1>3. StepFits(p, call[p], k, op) /\ k \in Nat /\ call[p] \in Nat BY <1>1, <1>2, HeadStep
<1>4. /\ op.peer \in Parties /\ op.what \in Whats /\ k + 1 < LineLength(p, call[p])
      /\ op.what \in {"stash", "stashSlots"} => call[p] = 0
      /\ op.what \in {"index", "slots"} => call[p] # 0
      /\ op.what \notin {"stash", "stashSlots", "index", "slots"}
         => Learns(p, call[p]) # k + 1
  BY <1>1, <1>3 DEF StepFits
<1>5. PICK q \in Parties : q = op.peer BY <1>4
<1>6. PICK w \in Whats : w = op.what BY <1>4
<1>7. PICK n \in 0 .. Len(calls) : n = call[p] BY <1>2 DEF Scripts
<1>8. Head(net[q][p]) = [what |-> w, call |-> n, body |-> BodyOf(n, w)]
  BY <1>1, <1>2, <1>5, <1>6, <1>7, HeadMeant
<1>9. Dealt' /\ CallsMade' BY <1>1, <1>2, DealtSame, CallsSame
<1>10. Scripts' /\ DoneSteps(p)' = k + 1
       /\ \A r \in Parties : r # p => DoneSteps(r)' = DoneSteps(r)
  BY <1>1, <1>2, AdvanceScripts
<1>11. ASSUME NEW a \in Parties, NEW b \in Parties
       PROVE  /\ Sent(a, b)' = Sent(a, b)
              /\ Received(a, b)' = Received(a, b) + (IF a = q /\ b = p THEN 1 ELSE 0)
              /\ Sent(a, b) \in Nat /\ Received(a, b) \in Nat
  <2>1. Sent(a, b) \in Nat /\ Received(a, b) \in Nat BY <1>2, SentBetween
  <2> HIDE DEF op
  <2>2. Sent(a, b)' = Sent(a, b) + 0 BY <1>1, <1>2, AdvanceCounts DEF op
  <2>3. Received(a, b)' = Received(a, b) + (IF a = q /\ b = p THEN 1 ELSE 0)
    BY <1>1, <1>2, <1>5, AdvanceCounts DEF op
  <2> QED BY <2>1, <2>2, <2>3
<1>12. DOMAIN net = Parties /\ \A a \in Parties : net[a] \in [Parties -> Seq(Messages)]
  BY <1>2 DEF Channels, IsTableOfQueues
<1>13. net' = [net EXCEPT ![q][p] = Tail(net[q][p])] /\ net[q][p] # <<>> BY <1>1, <1>5
<1>14. slots' = [slots EXCEPT ![p] = SlotsFrom(p, w, BodyOf(n, w))]
  <2>1. Head(net[q][p]).body = BodyOf(n, w) BY <1>8
  <2> HIDE DEF op
  <2> QED BY <1>1, <1>5, <1>6, <2>1
<1> HIDE DEF op, k
<1>15. /\ net'[q][p] = Tail(net[q][p])
       /\ \A a, b \in Parties : <<a, b>> # <<q, p>> => net'[a][b] = net[a][b]
  BY <1>12, <1>13
<1>16. IsTableOfQueues(net')
  <2>1. net[q][p] \in Seq(Messages) BY <1>12
  <2>2. Tail(net[q][p]) \in Seq(Messages) BY <1>13, <2>1, HeadTailProperties, EmptySeq
  <2>3. net' = [net EXCEPT ![q] = [net[q] EXCEPT ![p] = Tail(net[q][p])]] BY <1>13
  <2>4. [net[q] EXCEPT ![p] = Tail(net[q][p])] \in [Parties -> Seq(Messages)]
    BY <1>12, <2>2
  <2> QED BY <1>12, <2>3, <2>4 DEF IsTableOfQueues
<1>17. ASSUME NEW a \in Parties, NEW b \in Parties PROVE InOrder(a, b)'
  <2>1. InOrder(a, b) BY <1>2 DEF Channels
  <2>2. CASE <<a, b>> # <<q, p>>
    <3>1. net'[a][b] = net[a][b] /\ Sent(a, b)' = Sent(a, b) /\ Received(a, b)' = Received(a, b)
      <4>1. ~(a = q /\ b = p) BY <2>2
      <4>2. Received(a, b)' = Received(a, b) + 0 BY <1>11, <4>1
      <4>3. Received(a, b)' = Received(a, b)
        <5>1. Received(a, b) \in Nat BY <1>11
        <5> QED BY <4>2, <5>1
      <4>4. Sent(a, b)' = Sent(a, b) BY <1>11
      <4>5. net'[a][b] = net[a][b] BY <1>15, <2>2
      <4> QED BY <4>3, <4>4, <4>5
    <3> QED BY <1>1, <1>2, <2>1, <3>1, InOrderSame
  <2>3. CASE a = q /\ b = p
    <3> DEFINE c == net[a][b]
               l == Len(c)
    <3>1. c \in Seq(Messages) /\ l \in Nat /\ l > 0
      BY <1>12, <1>13, <2>3, LenProperties, EmptySeq
    <3>2. /\ Len(net'[a][b]) = l - 1 /\ DOMAIN net'[a][b] = 1 .. l - 1
          /\ \A i \in 1 .. l - 1 : net'[a][b][i] = c[i + 1]
          /\ DOMAIN c = 1 .. l
      <4>1. net'[a][b] = Tail(c) BY <1>15, <2>3
      <4>2. Tail(c) \in Seq(Messages) /\ Len(Tail(c)) = l - 1
            /\ \A i \in 1 .. l - 1 : Tail(c)[i] = c[i + 1]
        BY <1>13, <2>3, <3>1, HeadTailProperties
      <4> QED BY <3>1, <4>1, <4>2, LenProperties
    <3>3. Sent(a, b)' = Sent(a, b) /\ Received(a, b)' = Received(a, b) + 1
          /\ Sent(a, b) \in Nat /\ Received(a, b) \in Nat
      BY <1>11, <2>3
    <3>4. l = Sent(a, b) - Received(a, b) BY <2>1 DEF InOrder
    <3> HIDE DEF c, l
    <3>5. Len(net'[a][b]) = Sent(a, b)' - Received(a, b)' BY <3>1, <3>2, <3>3, <3>4
    <3>6. ASSUME NEW i \in DOMAIN net'[a][b]
          PROVE  \E m \in 0 .. call[a] : \E h \in 1 .. TotalIn(a, b, m) :
                   /\ Received(a, b)' + i = Before(a, b, m) + h
                   /\ net'[a][b][i] = Message(a, b, m, h)
      <4>1. i + 1 \in DOMAIN c /\ net'[a][b][i] = c[i + 1] BY <3>1, <3>2
      <4>2. \E m \in 0 .. call[a] : \E h \in 1 .. TotalIn(a, b, m) :
               Received(a, b) + (i + 1) = Before(a, b, m) + h /\ c[i + 1] = Message(a, b, m, h)
        BY <2>1, <4>1 DEF InOrder, c
      <4>3. Received(a, b)' + i = Received(a, b) + (i + 1) BY <3>1, <3>2, <3>3
      <4> QED BY <4>1, <4>2, <4>3
    <3>7. \A m, h : Message(a, b, m, h)' = Message(a, b, m, h) BY <1>1, ValuesSame
    <3>8. \A i \in DOMAIN net'[a][b] :
            \E m \in 0 .. call'[a] : \E h \in 1 .. TotalIn(a, b, m) :
              /\ Received(a, b)' + i = Before(a, b, m) + h
              /\ net'[a][b][i] = Message(a, b, m, h)'
      BY <1>1, <3>6, <3>7
    <3> QED BY <3>5, <3>8 DEF InOrder, TotalIn, Before
  <2> QED BY <2>2, <2>3
<1>18. Channels' BY <1>16, <1>17 DEF Channels, IsTableOfQueues
<1>19. \A r \in Parties : Finished(r)' = Finished(r)
  BY <1>1, <1>2, <1>4, NothingFinished DEF k
<1>20. /\ slots \in [Parties -> Seq(Slots)] /\ \A r \in Parties : Learned(r) /\ Kept(r)
  BY <1>2 DEF Books
<1> DEFINE given == SlotsFrom(p, w, BodyOf(n, w))
           tells == w \in {"stash", "stashSlots", "index", "slots"}
<1>21. (tells => given = About(n)) /\ (~tells => given = slots[p])
  <2>1. w \in {"stash", "stashSlots"} => n = 0 BY <1>4, <1>6, <1>7
  <2>2. w \in {"index", "slots"} => n # 0 BY <1>4, <1>6, <1>7
  <2> QED BY <2>1, <2>2 DEF SlotsFrom, BodyOf, About, InReceiverOrder
<1> HIDE DEF given, tells
<1>22. About(n) \in Seq(Slots) BY <1>2, AboutIsSlots
<1>23. /\ slots' \in [Parties -> Seq(Slots)] /\ slots'[p] = given
       /\ \A r \in Parties : r # p => slots'[r] = slots[r]
  <2>1. given \in Seq(Slots) BY <1>20, <1>21, <1>22
  <2> QED BY <1>14, <1>20, <2>1 DEF given
<1>24. ASSUME NEW r \in Parties PROVE Learned(r)' /\ Kept(r)'
  <2>1. Learned(r) /\ Kept(r) BY <1>20
  <2>2. Kept(r)' BY <1>1, <1>2, <1>19, <2>1, KeptSame
  <2>3. PICK m : m = call[r] OBVIOUS
  <2>4. ASSUME Learns(r, m) <= DoneSteps(r)' PROVE slots'[r] = About(m)
    <3>1. CASE r = p
      <4>1. m = n BY <1>7, <2>3, <3>1
      <4>2. CASE tells
        <5>1. slots'[p] = About(n) BY <1>21, <1>23, <4>2
        <5> QED BY <3>1, <4>1, <5>1
      <4>3. CASE ~tells
        <5>1. Learns(p, n) # k + 1 BY <1>4, <1>6, <1>7, <4>3 DEF tells
        <5>2. Learns(p, n) \in Nat
          <6>1. n \in Nat BY <1>3, <1>7
          <6>2. Learns(p, n) \in 1 .. LineLength(p, n) - 1 /\ LineLength(p, n) \in Nat
            BY <6>1, CountsBounded
          <6> QED BY <6>2
        <5>3. Learns(p, n) <= k BY <1>3, <1>10, <2>4, <3>1, <4>1, <5>1, <5>2
        <5>4. slots[p] = About(n) BY <1>7, <2>1, <3>1, <5>3 DEF Learned, k
        <5>5. slots'[p] = About(n) BY <1>21, <1>23, <4>3, <5>4
        <5> QED BY <3>1, <4>1, <5>5
      <4> QED BY <4>2, <4>3
    <3>2. CASE r # p BY <1>10, <1>23, <2>1, <2>3, <2>4, <3>2 DEF Learned
    <3> QED BY <3>1, <3>2
  <2>5. About(m)' = About(m) BY <1>1, ValuesSame
  <2>6. call'[r] = m BY <1>1, <2>3
  <2>7. Learned(r)'
    <3>1. Learns(r, m) <= DoneSteps(r)' => slots'[r] = About(m)' BY <2>4, <2>5
    <3> QED BY <2>6, <3>1 DEF Learned, Learns, About, InReceiverOrder, LookupIndices
  <2> QED BY <2>2, <2>7
<1>25. Books' BY <1>1, <1>2, <1>23, <1>24 DEF Books
<1> QED BY <1>9, <1>10, <1>18, <1>25 DEF IInv

LEMMA StartQueryKeeps ==
  ASSUME IInv, NEW p \in Parties, StartQuery(p)
  PROVE  IInv'
<1>1. Dealt /\ CallsMade /\ Scripts /\ Channels /\ Books BY DEF IInv
<1>2. /\ script[p] = <<>> /\ call[p] < Len(calls)
      /\ call' = [call EXCEPT ![p] = call[p] + 1]
      /\ script' = [script EXCEPT ![p] = QueryScript(p)]
      /\ UNCHANGED dealt /\ calls' = calls /\ net' = net /\ slots' = slots
      /\ stashSlots' = stashSlots /\ touched' = touched /\ queryCount' = queryCount
      /\ answers' = answers
  BY DEF StartQuery
<1>3. /\ script \in [Parties -> Seq(Operations)] /\ call \in [Parties -> 0 .. Len(calls)]
      /\ Len(calls) \in Nat
  BY <1>1, LenProperties DEF Scripts, CallsMade
<1>4. PICK n \in Nat : n = call[p] BY <1>3
<1>5. /\ call'[p] = n + 1 /\ script'[p] = QueryScript(p) /\ n + 1 \in 0 .. Len(calls)
      /\ \A q \in Parties : q # p => call'[q] = call[q] /\ script'[q] = script[q]
  BY <1>2, <1>3, <1>4
<1>6. /\ QueryScript(p) \in Seq(Operations) /\ Len(QueryScript(p)) = LineLength(p, n + 1)
      /\ LineLength(p, n + 1) \in Nat /\ LineLength(p, n + 1) > 0
      /\ \A i \in 1 .. LineLength(p, n + 1) : QueryScript(p)[i] = Line(p, n + 1)[i]
  <2>1. n + 1 # 0 /\ n + 1 \in Nat BY <1>4
  <2>2. LineLength(p, n + 1) = LineLength(p, 1)
    <3>1. p = 0 \/ p = 1 \/ p = 2 BY Roles
    <3> QED BY <2>1, <3>1 DEF LineLength
  <2>3. Line(p, n + 1) = QueryLine(p) BY <2>1 DEF Line
  <2> QED BY <2>1, <2>2, <2>3, QueryScripts, CountsBounded
<1>7. DoneSteps(p)' = 0
  <2>1. DoneSteps(p)' = LineLength(p, call'[p]) - Len(script'[p]) BY DEF DoneSteps, LineLength
  <2> QED BY <1>5, <1>6, <2>1
<1>8. DoneSteps(p) = LineLength(p, n)
  <2>1. LineLength(p, n) \in Nat BY <1>4, CountsBounded
  <2>2. Len(script[p]) = 0 BY <1>2
  <2> QED BY <1>4, <2>1, <2>2 DEF DoneSteps
<1>9. ASSUME NEW q \in Parties, q # p PROVE DoneSteps(q)' = DoneSteps(q)
  <2>1. DoneSteps(q)' = LineLength(q, call'[q]) - Len(script'[q]) BY DEF DoneSteps, LineLength
  <2> QED BY <1>5, <1>9, <2>1 DEF DoneSteps
<1>10. Scripts'
  <2>1. script' \in [Parties -> Seq(Operations)] BY <1>2, <1>3, <1>6
  <2>2. call' \in [Parties -> 0 .. Len(calls')] BY <1>2, <1>3, <1>4, <1>5
  <2>3. ASSUME NEW q \in Parties
        PROVE  /\ Len(script'[q]) <= LineLength(q, call'[q])
               /\ \A i \in 1 .. Len(script'[q]) :
                    script'[q][i] = Line(q, call'[q])[DoneSteps(q)' + i]
    <3>1. CASE q = p
      <4>1. Len(script'[p]) <= LineLength(p, call'[p]) BY <1>5, <1>6
      <4>2. ASSUME NEW i \in 1 .. Len(script'[p])
            PROVE  script'[p][i] = Line(p, call'[p])[DoneSteps(p)' + i]
        <5>1. DoneSteps(p)' + i = i BY <1>7
        <5> QED BY <1>5, <1>6, <5>1
      <4> QED BY <3>1, <4>1, <4>2
    <3>2. CASE q # p
      <4>1. Len(script[q]) <= LineLength(q, call[q]) BY <1>1 DEF Scripts
      <4>2. \A i \in 1 .. Len(script[q]) : script[q][i] = Line(q, call[q])[DoneSteps(q) + i]
        BY <1>1 DEF Scripts
      <4> QED BY <1>5, <1>9, <3>2, <4>1, <4>2
    <3> QED BY <3>1, <3>2
  <2> QED BY <2>1, <2>2, <2>3 DEF Scripts, LineLength, Line, BuildLine, QueryLine, S, R
<1>11. ASSUME NEW a \in Parties, NEW b \in Parties
       PROVE  Sent(a, b)' = Sent(a, b) /\ Received(a, b)' = Received(a, b)
  <2>1. /\ Sent(a, b)' = Before(a, b, call'[a]) + SentIn(a, b, call'[a], DoneSteps(a)')
        /\ Received(a, b)' = Before(a, b, call'[b]) + ReceivedIn(a, b, call'[b], DoneSteps(b)')
    BY DEF Sent, Received, Before, SentIn, ReceivedIn, Past
  <2>2. n + 1 \in Nat BY <1>4
  <2>3. Before(a, b, n + 1) = Before(a, b, n) + TotalIn(a, b, n)
        /\ Before(a, b, n + 1) \in Nat
    BY <1>4, <2>2, BeforeNext
  <2>4. SentIn(a, b, n + 1, 0) = 0 /\ ReceivedIn(a, b, n + 1, 0) = 0
    BY <2>2, CountsBounded
  <2>5. Sent(a, b)' = Sent(a, b)
    <3>1. CASE a = p
      <4>1. Sent(p, b)' = Before(p, b, n + 1) + 0 BY <1>5, <1>7, <2>1, <2>4, <3>1
      <4>2. Sent(p, b) = Before(p, b, n) + TotalIn(p, b, n)
        <5>1. SentIn(p, b, n, LineLength(p, n)) = TotalIn(p, b, n) BY <1>4, CountsBounded
        <5> QED BY <1>4, <1>8, <5>1 DEF Sent
      <4> QED BY <2>3, <3>1, <4>1, <4>2
    <3>2. CASE a # p BY <1>5, <1>9, <2>1, <3>2 DEF Sent
    <3> QED BY <3>1, <3>2
  <2>6. Received(a, b)' = Received(a, b)
    <3>1. CASE b = p
      <4>1. Received(a, p)' = Before(a, p, n + 1) + 0 BY <1>5, <1>7, <2>1, <2>4, <3>1
      <4>2. Received(a, p) = Before(a, p, n) + TotalIn(a, p, n)
        <5>1. ReceivedIn(a, p, n, LineLength(p, n)) = TotalIn(a, p, n)
          BY <1>4, CountsBounded
        <5> QED BY <1>4, <1>8, <5>1 DEF Received
      <4> QED BY <2>3, <3>1, <4>1, <4>2
    <3>2. CASE b # p BY <1>5, <1>9, <2>1, <3>2 DEF Received
    <3> QED BY <3>1, <3>2
  <2> QED BY <2>5, <2>6
<1>12. \A q \in Parties : 0 .. call[q] \subseteq 0 .. call'[q]
  BY <1>3, <1>4, <1>5
<1>13. Channels'
  <2>1. ASSUME NEW a \in Parties, NEW b \in Parties PROVE InOrder(a, b)'
    <3>1. InOrder(a, b) BY <1>1 DEF Channels
    <3> QED BY <1>1, <1>2, <1>11, <1>12, <3>1, InOrderSame
  <2> QED BY <1>1, <1>2, <2>1 DEF Channels, IsTableOfQueues, Messages, Whats
<1>14. Dealt' /\ CallsMade' BY <1>1, <1>2, DealtSame, CallsSame
<1>15. \A q \in Parties : Finished(q)' = Finished(q)
  <2>1. script'[p] # <<>> BY <1>5, <1>6
  <2> QED BY <1>2, <1>4, <1>5, <2>1 DEF Finished, Idle
<1>16. ASSUME NEW q \in Parties PROVE Learned(q)' /\ Kept(q)'
  <2>1. Learned(q) /\ Kept(q) BY <1>1 DEF Books
  <2>2. Kept(q)' BY <1>1, <1>2, <1>15, <2>1, KeptSame
  <2>3. CASE q = p
    <3>1. ~(Learns(p, n + 1) <= 0)
      <4>1. n + 1 \in Nat BY <1>4
      <4>2. Learns(p, n + 1) \in 1 .. LineLength(p, n + 1) - 1 BY <4>1, CountsBounded
      <4> QED BY <1>6, <4>2
    <3>2. ~(Learns(p, call'[p]) <= DoneSteps(p)') BY <1>5, <1>7, <3>1
    <3> QED BY <2>2, <2>3, <3>2 DEF Learned, Learns
  <2>4. CASE q # p
    <3>1. PICK m : m = call[q] OBVIOUS
    <3>2. About(m)' = About(m) BY <1>2, ValuesSame
    <3>3. call'[q] = m BY <1>5, <2>4, <3>1
    <3>4. Learns(q, m) <= DoneSteps(q)' => slots'[q] = About(m)'
      BY <1>2, <1>9, <2>1, <2>4, <3>1, <3>2 DEF Learned
    <3> QED BY <2>2, <3>3, <3>4 DEF Learned, Learns, About, InReceiverOrder, LookupIndices
  <2> QED BY <2>3, <2>4
<1>17. Books' BY <1>1, <1>2, <1>16 DEF Books
<1> QED BY <1>10, <1>13, <1>14, <1>17 DEF IInv

(* The last step of a script sends and receives nothing and finishes the   *)
(* phase.                                                                  *)
LEMMA LastStep ==
  ASSUME IInv, NEW p \in Parties, script[p] # <<>>, Head(script[p]).do \in {"placeStash", "touch"},
         Advance(p), call' = call, calls' = calls, net' = net, slots' = slots,
         UNCHANGED dealt
  PROVE  /\ Dealt' /\ CallsMade' /\ Scripts' /\ Channels'
         /\ Head(script[p]).do = "placeStash" <=> call[p] = 0
         /\ slots[p] = About(call[p])
         /\ Finished(p) = call[p] - 1 /\ Finished(p)' = call[p]
         /\ \A q \in Parties : Learned(q)'
         /\ \A q \in Parties : q # p => Finished(q)' = Finished(q)
<1> DEFINE op == Head(script[p])
           k == DoneSteps(p)
<1>1. Dealt /\ CallsMade /\ Scripts /\ Channels /\ Books BY DEF IInv
<1>2. PICK n : n = call[p] OBVIOUS
<1>3. StepFits(p, n, k, op) /\ k \in Nat /\ n \in Nat BY <1>1, <1>2, HeadStep
<1>4. /\ k + 1 = LineLength(p, n) /\ Learns(p, n) <= k
      /\ op.do = "placeStash" <=> n = 0
  BY <1>3 DEF StepFits
<1>5. /\ Scripts' /\ DoneSteps(p)' = k + 1
      /\ \A q \in Parties : q # p => DoneSteps(q)' = DoneSteps(q)
  BY <1>1, AdvanceScripts
<1>6. Dealt' /\ CallsMade' BY <1>1, DealtSame, CallsSame
<1>7. ASSUME NEW a \in Parties, NEW b \in Parties
      PROVE  Sent(a, b)' = Sent(a, b) /\ Received(a, b)' = Received(a, b)
  <2>1. op.do # "send" /\ op.do # "receive" OBVIOUS
  <2>2. Sent(a, b) \in Nat /\ Received(a, b) \in Nat BY <1>1, SentBetween
  <2> HIDE DEF op
  <2>3. Sent(a, b)' = Sent(a, b) + 0 BY <1>1, <2>1, AdvanceCounts DEF op
  <2>4. Received(a, b)' = Received(a, b) + 0 BY <1>1, <2>1, AdvanceCounts DEF op
  <2> QED BY <2>2, <2>3, <2>4
<1>8. Channels'
  <2>1. ASSUME NEW a \in Parties, NEW b \in Parties PROVE InOrder(a, b)'
    <3>1. InOrder(a, b) BY <1>1 DEF Channels
    <3> QED BY <1>1, <1>7, <3>1, InOrderSame
  <2> QED BY <1>1, <2>1 DEF Channels, IsTableOfQueues, Messages, Whats
<1>9. slots[p] = About(n) BY <1>1, <1>2, <1>4 DEF Books, Learned
<1>10. script'[p] = <<>> /\ \A q \in Parties : q # p => script'[q] = script[q]
  <2>1. script \in [Parties -> Seq(Operations)] BY <1>1 DEF Scripts
  <2>2. script'[p] = Tail(script[p]) BY <2>1 DEF Advance
  <2>3. Len(script[p]) = 1
    <3>1. Len(script[p]) \in Nat /\ LineLength(p, n) \in Nat BY <1>1, <1>3, DoneBounded, CountsBounded
    <3>2. k = LineLength(p, n) - Len(script[p]) BY <1>2 DEF DoneSteps
    <3>3. k + 1 = LineLength(p, n) /\ k \in Nat BY <1>3, <1>4
    <3> DEFINE l == LineLength(p, n)
               s == Len(script[p])
    <3>4. k = l - s /\ k + 1 = l /\ k \in Nat /\ l \in Nat /\ s \in Nat BY <3>1, <3>2, <3>3
    <3> HIDE DEF k, l, s
    <3>5. s = 1 BY <3>4
    <3> QED BY <3>5 DEF s
  <2>4. Tail(script[p]) \in Seq(Operations) /\ Len(Tail(script[p])) = 0
    BY <1>1, <2>3, HeadStep
  <2>5. script'[p] = <<>> BY <2>2, <2>4, EmptySeq
  <2>6. \A q \in Parties : q # p => script'[q] = script[q] BY <2>1 DEF Advance
  <2> QED BY <2>5, <2>6
<1>11. Finished(p) = n - 1 /\ Finished(p)' = n BY <1>2, <1>10 DEF Finished, Idle
<1>12. \A q \in Parties : q # p => Finished(q)' = Finished(q) BY <1>10 DEF Finished, Idle
<1>13. ASSUME NEW q \in Parties PROVE Learned(q)'
  <2>1. PICK m : m = call[q] OBVIOUS
  <2>2. Learned(q) BY <1>1 DEF Books
  <2>3. Learns(q, m) <= DoneSteps(q)' => slots[q] = About(m)
    <3>1. CASE q = p BY <1>2, <1>9, <2>1, <3>1
    <3>2. CASE q # p BY <1>5, <2>1, <2>2, <3>2 DEF Learned
    <3> QED BY <3>1, <3>2
  <2>4. About(m)' = About(m) BY ValuesSame
  <2>5. call'[q] = m BY <2>1
  <2>6. Learns(q, m) <= DoneSteps(q)' => slots'[q] = About(m)' BY <2>3, <2>4
  <2> QED BY <2>5, <2>6 DEF Learned, Learns, About, InReceiverOrder, LookupIndices
<1> QED BY <1>2, <1>4, <1>5, <1>6, <1>8, <1>9, <1>11, <1>12, <1>13

LEMMA FinishBuildKeeps ==
  ASSUME IInv, NEW p \in Parties, FinishBuild(p)
  PROVE  IInv'
<1>1. Dealt /\ CallsMade /\ Scripts /\ Channels /\ Books BY DEF IInv
<1>2. /\ script[p] # <<>> /\ Head(script[p]).do = "placeStash" /\ Advance(p)
      /\ touched' = [touched EXCEPT ![p] = touched[p] \cup ToSet(slots[p])]
      /\ stashSlots' = [stashSlots EXCEPT ![p] = slots[p]]
      /\ UNCHANGED dealt /\ calls' = calls /\ net' = net /\ call' = call /\ slots' = slots
      /\ queryCount' = queryCount /\ answers' = answers
  BY DEF FinishBuild, At
<1>3. /\ Dealt' /\ CallsMade' /\ Scripts' /\ Channels'
      /\ call[p] = 0 /\ slots[p] = About(0) /\ Finished(p) = -1 /\ Finished(p)' = 0
      /\ \A q \in Parties : Learned(q)'
      /\ \A q \in Parties : q # p => Finished(q)' = Finished(q)
  BY <1>2, LastStep
<1>4. /\ DOMAIN stashSlots = Parties /\ DOMAIN touched = Parties
      /\ \A q \in Parties : Kept(q)
  BY <1>1 DEF Books
<1>5. /\ touched'[p] = touched[p] \cup ToSet(About(0)) /\ stashSlots'[p] = About(0)
      /\ \A q \in Parties : q # p => touched'[q] = touched[q] /\ stashSlots'[q] = stashSlots[q]
      /\ DOMAIN stashSlots' = Parties /\ DOMAIN touched' = Parties
  BY <1>2, <1>3, <1>4
<1>6. Kept(p)'
  <2>1. touched[p] = {} /\ queryCount[p] = 0
    <3>1. 0 .. -1 = {} OBVIOUS
    <3>2. touched[p] = UNION {ToSet(About(m)) : m \in 0 .. -1} BY <1>3, <1>4 DEF Kept
    <3>3. queryCount[p] = IF Finished(p) < 0 THEN 0 ELSE Asked(calls, Finished(p))
      BY <1>4 DEF Kept
    <3>4. Finished(p) < 0 BY <1>3
    <3> QED BY <3>1, <3>2, <3>3, <3>4
  <2>2. touched'[p] = ToSet(About(0)) BY <1>5, <2>1
  <2>3. touched'[p] = UNION {ToSet(About(m)) : m \in 0 .. 0}
    <3>1. 0 .. 0 = {0} OBVIOUS
    <3> QED BY <2>2, <3>1
  <2>4. Cardinality(touched'[p]) = StashSize + queryCount'[p]
    <3>1. 0 \in 0 .. Len(calls) BY <1>1, LenProperties DEF CallsMade
    <3>2. Cardinality(ToSet(About(0))) = StashSize BY <1>1, <3>1, AboutFresh, AboutStash
    <3> QED BY <1>2, <2>1, <2>2, <3>2, SizesAssumption
  <2>5. queryCount'[p] = Asked(calls, 0) BY <1>2, <2>1, AskedSteps
  <2>6. answers'[p] = [m \in 1 .. 0 |-> RowsOf(m)]
    <3>1. answers[p] = [m \in 1 .. -1 |-> RowsOf(m)] BY <1>3, <1>4 DEF Kept
    <3>2. 1 .. -1 = {} /\ 1 .. 0 = {} OBVIOUS
    <3> QED BY <1>2, <3>1, <3>2
  <2>7. \A m : About(m)' = About(m) /\ RowsOf(m)' = RowsOf(m) BY <1>2, ValuesSame
  <2>8. ~(Finished(p)' < 0) BY <1>3
  <2>9. /\ touched'[p] = UNION {ToSet(About(m)') : m \in 0 .. Finished(p)'}
        /\ answers'[p] = [m \in 1 .. Finished(p)' |-> RowsOf(m)']
        /\ stashSlots'[p] = About(0)'
        /\ queryCount'[p] = Asked(calls', Finished(p)')
    BY <1>2, <1>3, <1>5, <2>3, <2>5, <2>6, <2>7
  <2> QED BY <2>4, <2>8, <2>9 DEF Kept, ToSet
<1>7. ASSUME NEW q \in Parties PROVE Kept(q)'
  <2>1. CASE q = p BY <1>6, <2>1
  <2>2. CASE q # p BY <1>1, <1>2, <1>3, <1>4, <1>5, <2>2, KeptSame
  <2> QED BY <2>1, <2>2
<1>8. Books' BY <1>1, <1>2, <1>3, <1>5, <1>7 DEF Books
<1> QED BY <1>3, <1>8 DEF IInv

(* The slots touched so far are in the table, and the next call's are not  *)
(* among them.                                                             *)
LEMMA TouchedBefore ==
  ASSUME Dealt, CallsMade, NEW p \in Parties, Kept(p), Finished(p) \in -1 .. Len(calls) - 1
  PROVE  /\ IsFiniteSet(touched[p]) /\ touched[p] \subseteq Slots
         /\ touched[p] \cap ToSet(About(Finished(p) + 1)) = {}
<1> DEFINE f == Finished(p)
<1>1. touched[p] = UNION {ToSet(About(m)) : m \in 0 .. f} BY DEF Kept
<1>2. Len(calls) \in Nat BY LenProperties DEF CallsMade
<1> HIDE DEF f
<1>3. f \in -1 .. Len(calls) - 1 BY DEF f
<1>4. ASSUME NEW m \in 0 .. f
      PROVE  ToSet(About(m)) \subseteq Slots /\ ToSet(About(m)) \cap ToSet(About(f + 1)) = {}
  <2>1. m \in 0 .. Len(calls) /\ f + 1 \in 0 .. Len(calls) /\ m \in 0 .. (f + 1) - 1
    BY <1>2, <1>3
  <2> QED BY <2>1, AboutIsSlots, AboutFresh
<1>5. touched[p] \subseteq Slots BY <1>1, <1>4
<1>6. IsFiniteSet(Slots)
  <2>1. 0 \in Int /\ NumElements + NumDummies - 1 \in Int BY SizesAssumption
  <2> QED BY <2>1, FS_Interval, Zenon DEF Slots, Rows
<1>7. IsFiniteSet(touched[p])
  <2>1. touched[p] \in SUBSET Slots BY <1>5
  <2> QED BY <1>6, <2>1, FS_Subset, Zenon
<1>8. touched[p] \cap ToSet(About(f + 1)) = {} BY <1>1, <1>4
<1> QED BY <1>5, <1>7, <1>8 DEF f

LEMMA TouchKeeps ==
  ASSUME IInv, NEW p \in Parties, Touch(p)
  PROVE  IInv'
<1>1. Dealt /\ CallsMade /\ Scripts /\ Channels /\ Books BY DEF IInv
<1>2. PICK n : n = call[p] OBVIOUS
<1> DEFINE rows == [i \in DOMAIN slots[p] |-> RowAt(slots[p][i])]
<1>3. /\ script[p] # <<>> /\ Head(script[p]).do = "touch" /\ Advance(p)
      /\ touched' = [touched EXCEPT ![p] = touched[p] \cup ToSet(slots[p])]
      /\ queryCount' = [queryCount EXCEPT ![p] = queryCount[p] + Len(calls[n])]
      /\ answers' = [answers EXCEPT ![p] = Append(answers[p], rows)]
      /\ UNCHANGED dealt /\ calls' = calls /\ net' = net /\ call' = call /\ slots' = slots
      /\ stashSlots' = stashSlots
  BY <1>2 DEF Touch, At, Counted
<1> HIDE DEF rows
<1>4. /\ Dealt' /\ CallsMade' /\ Scripts' /\ Channels'
      /\ n # 0 /\ slots[p] = About(n) /\ Finished(p) = n - 1 /\ Finished(p)' = n
      /\ \A q \in Parties : Learned(q)'
      /\ \A q \in Parties : q # p => Finished(q)' = Finished(q)
  BY <1>2, <1>3, LastStep
<1>5. n \in 1 .. Len(calls) /\ Len(calls) \in Nat
  BY <1>1, <1>2, <1>4, LenProperties DEF Scripts, CallsMade
<1>6. /\ DOMAIN touched = Parties /\ DOMAIN queryCount = Parties /\ DOMAIN answers = Parties
      /\ \A q \in Parties : Kept(q)
  BY <1>1 DEF Books
<1>7. /\ touched'[p] = touched[p] \cup ToSet(About(n))
      /\ queryCount'[p] = queryCount[p] + Len(calls[n])
      /\ answers'[p] = Append(answers[p], rows)
      /\ DOMAIN touched' = Parties /\ DOMAIN queryCount' = Parties /\ DOMAIN answers' = Parties
      /\ \A q \in Parties : q # p => /\ touched'[q] = touched[q] /\ answers'[q] = answers[q]
                                     /\ queryCount'[q] = queryCount[q]
  BY <1>3, <1>4, <1>6
<1>8. touched'[p] = UNION {ToSet(About(m)) : m \in 0 .. n}
  <2>1. touched[p] = UNION {ToSet(About(m)) : m \in 0 .. n - 1} BY <1>4, <1>6 DEF Kept
  <2>2. 0 .. n = (0 .. n - 1) \cup {n} BY <1>5
  <2> QED BY <1>7, <2>1, <2>2
<1>9. /\ queryCount[p] = Asked(calls, n - 1) /\ queryCount'[p] = Asked(calls, n)
      /\ queryCount[p] \in Nat
  <2>1. queryCount[p] = Asked(calls, n - 1)
    <3>1. queryCount[p] = IF Finished(p) < 0 THEN 0 ELSE Asked(calls, Finished(p))
      BY <1>6 DEF Kept
    <3>2. ~(n - 1 < 0) BY <1>5
    <3> QED BY <1>4, <3>1, <3>2
  <2>2. Asked(calls, n) = Asked(calls, n - 1) + Len(calls[n]) /\ Asked(calls, n - 1) \in Nat
    BY <1>1, <1>5, CallRows
  <2> QED BY <1>7, <2>1, <2>2
<1>10. Cardinality(touched'[p]) = StashSize + queryCount'[p]
  <2> DEFINE new == ToSet(About(n))
  <2>1. Finished(p) \in -1 .. Len(calls) - 1 /\ Finished(p) + 1 = n BY <1>4, <1>5
  <2>2. IsFiniteSet(touched[p]) /\ touched[p] \cap new = {}
    BY <1>1, <1>6, <2>1, TouchedBefore
  <2>3. IsFiniteSet(new) /\ Cardinality(new) = Len(calls[n])
    <3>1. n \in 0 .. Len(calls) BY <1>5
    <3> QED BY <1>1, <1>5, <3>1, AboutFresh, AboutCall
  <2>4. Cardinality(touched[p]) = StashSize + queryCount[p]
    <3>1. ~(Finished(p) < 0) BY <1>4, <1>5
    <3> QED BY <1>6, <3>1 DEF Kept
  <2> HIDE DEF new
  <2>5. Cardinality(touched[p] \cup new) =
          Cardinality(touched[p]) + Cardinality(new) - Cardinality(touched[p] \cap new)
    BY <2>2, <2>3, FS_Union
  <2>6. Cardinality(touched[p] \cap new) = 0 BY <2>2, FS_EmptySet
  <2>7. Len(calls[n]) \in Nat BY <1>1, <1>5, CallRows
  <2>8. Cardinality(touched'[p]) = StashSize + queryCount[p] + Len(calls[n])
    BY <1>7, <1>9, <2>3, <2>4, <2>5, <2>6, <2>7, SizesAssumption DEF new
  <2> QED BY <1>7, <1>9, <2>7, <2>8, SizesAssumption
<1>11. answers'[p] = [m \in 1 .. n |-> RowsOf(m)]
  <2>1. answers[p] = [m \in 1 .. n - 1 |-> RowsOf(m)] BY <1>4, <1>6 DEF Kept
  <2>2. rows = RowsOf(n)
    <3>1. /\ DOMAIN About(n) = 1 .. Len(calls[n])
          /\ \A i \in 1 .. Len(calls[n]) : RowAt(About(n)[i]) = RowsOf(n)[i]
      BY <1>1, <1>5, AboutCall
    <3>2. RowsOf(n) \in [1 .. Len(calls[n]) -> Rows] BY <1>1, <1>5, CallRows
    <3> QED BY <1>4, <3>1, <3>2 DEF rows
  <2> DEFINE T == {RowsOf(m) : m \in 1 .. n}
  <2>3. n - 1 \in Nat /\ answers[p] \in [1 .. n - 1 -> T] BY <1>5, <2>1
  <2>4. answers[p] \in Seq(T) /\ Len(answers[p]) = n - 1
    <3> HIDE DEF T
    <3> QED BY <2>3, FunctionIsSeq
  <2>5. rows \in T BY <1>5, <2>2
  <2> DEFINE after == Append(answers[p], rows)
  <2>6. /\ after \in Seq(T) /\ Len(after) = n /\ after[n] = rows
        /\ \A i \in 1 .. n - 1 : after[i] = answers[p][i]
    <3> HIDE DEF T
    <3>1. (n - 1) + 1 = n BY <1>5
    <3> QED BY <2>4, <2>5, <3>1, AppendProperties
  <2>7. after = [m \in 1 .. n |-> after[m]]
    <3> HIDE DEF after, T
    <3> QED BY <2>6
  <2>8. \A m \in 1 .. n : after[m] = RowsOf(m)
    <3> HIDE DEF after
    <3>1. \A m \in 1 .. n - 1 : answers[p][m] = RowsOf(m) BY <2>1
    <3> QED BY <1>5, <2>2, <2>6, <3>1
  <2> HIDE DEF after
  <2>9. after = [m \in 1 .. n |-> RowsOf(m)] BY <2>7, <2>8
  <2> QED BY <1>7, <2>9 DEF after
<1>12. Kept(p)'
  <2>1. \A m : About(m)' = About(m) /\ RowsOf(m)' = RowsOf(m) BY <1>3, ValuesSame
  <2>2. ~(Finished(p)' < 0) /\ ~(Finished(p) < 0) BY <1>4, <1>5
  <2>3. stashSlots[p] = About(0) BY <1>6, <2>2 DEF Kept
  <2>4. /\ touched'[p] = UNION {ToSet(About(m)') : m \in 0 .. Finished(p)'}
        /\ answers'[p] = [m \in 1 .. Finished(p)' |-> RowsOf(m)']
        /\ stashSlots'[p] = About(0)'
        /\ queryCount'[p] = Asked(calls', Finished(p)')
    BY <1>3, <1>4, <1>8, <1>9, <1>11, <2>1, <2>3
  <2> QED BY <1>10, <2>2, <2>4 DEF Kept, ToSet
<1>13. ASSUME NEW q \in Parties PROVE Kept(q)'
  <2>1. CASE q = p BY <1>12, <2>1
  <2>2. CASE q # p BY <1>1, <1>3, <1>4, <1>6, <1>7, <2>2, KeptSame
  <2> QED BY <2>1, <2>2
<1>14. Books' BY <1>1, <1>3, <1>4, <1>7, <1>13 DEF Books
<1> QED BY <1>4, <1>14 DEF IInv

LEMMA RequestKeeps ==
  ASSUME IInv, Request
  PROVE  IInv'
<1> DEFINE Q == Entries \cup {Miss}
           l == Len(calls)
<1>1. Dealt /\ CallsMade /\ Scripts /\ Channels /\ Books BY DEF IInv
<1> DEFINE Made(n, requests) ==
             /\ Asked(calls, (l + 1) - 1) + n <= NumDummies
             /\ \A i \in 1 .. n : requests[i] # Miss =>
                  /\ Placed(requests[i])
                  /\ \A c \in ToSet(calls) : requests[i] \notin ToSet(c)
                  /\ \A j \in 1 .. n : i # j => requests[i] # requests[j]
             /\ calls' = Append(calls, requests)
             /\ UNCHANGED <<dealt, net, script, call, slots, stashSlots, touched, queryCount,
                            answers>>
<1>20. PICK n \in 1 .. MaxBatch : \E requests \in [1 .. n -> Q] : Made(n, requests)
  BY DEF Request, OldQueryCount
<1>2. PICK requests \in [1 .. n -> Q] : Made(n, requests) BY <1>20
<1>3. /\ UNCHANGED dealt /\ net' = net /\ script' = script /\ call' = call /\ slots' = slots
      /\ stashSlots' = stashSlots /\ touched' = touched /\ queryCount' = queryCount
      /\ answers' = answers
  BY <1>2
<1>4. calls \in Seq(Seq(Q)) /\ l \in Nat /\ n \in Nat \ {0}
  BY <1>1, LenProperties, SizesAssumption DEF CallsMade
<1>5. requests \in Seq(Q) /\ Len(requests) = n /\ DOMAIN requests = 1 .. n
  <2> HIDE DEF Q
  <2> QED BY <1>4, FunctionIsSeq
<1>6. /\ calls' \in Seq(Seq(Q)) /\ Len(calls') = l + 1 /\ calls'[l + 1] = requests
      /\ \A m \in 1 .. l : calls'[m] = calls[m]
      /\ DOMAIN calls' = 1 .. l + 1 /\ DOMAIN calls = 1 .. l
  <2> HIDE DEF Q
  <2> QED BY <1>2, <1>4, <1>5, AppendProperties, LenProperties
<1>7. Dealt' BY <1>1, <1>3, DealtSame
<1>8. \A r : Placed(r)' = Placed(r) BY <1>3 DEF dealt, Placed, SlotOf
<1>9. ASSUME NEW m \in 1 .. l, NEW i \in DOMAIN calls[m]
      PROVE  calls[m] \in ToSet(calls) /\ calls[m][i] \in ToSet(calls[m])
  BY <1>6 DEF ToSet
<1>10. ASSUME NEW m \in DOMAIN calls', NEW i \in DOMAIN calls'[m], calls'[m][i] # Miss
       PROVE  /\ Placed(calls'[m][i])
              /\ \A k \in DOMAIN calls' : \A j \in DOMAIN calls'[k] :
                   calls'[k][j] = calls'[m][i] => k = m /\ j = i
  <2>1. CASE m \in 1 .. l
    <3>1. m \in DOMAIN calls /\ i \in DOMAIN calls[m] /\ calls[m][i] # Miss /\ calls'[m] = calls[m]
      BY <1>6, <1>10, <2>1
    <3>2. /\ Placed(calls[m][i])
          /\ \A k \in DOMAIN calls : \A j \in DOMAIN calls[k] :
               calls[k][j] = calls[m][i] => k = m /\ j = i
      BY <1>1, <3>1 DEF CallsMade
    <3>3. ASSUME NEW k \in DOMAIN calls', NEW j \in DOMAIN calls'[k], calls'[k][j] = calls[m][i]
          PROVE  k = m /\ j = i
      <4>1. CASE k \in 1 .. l BY <1>6, <3>2, <3>3, <4>1
      <4>2. CASE k = l + 1
        <5>1. j \in 1 .. n /\ requests[j] = calls[m][i] /\ requests[j] # Miss
          BY <1>5, <1>6, <3>1, <3>3, <4>2
        <5> QED BY <1>2, <1>9, <2>1, <3>1, <5>1
      <4> QED BY <1>4, <1>6, <4>1, <4>2
    <3> QED BY <3>1, <3>2, <3>3
  <2>2. CASE m = l + 1
    <3>1. calls'[m] = requests /\ i \in 1 .. n /\ requests[i] # Miss BY <1>5, <1>6, <1>10, <2>2
    <3>2. /\ Placed(requests[i])
          /\ \A c \in ToSet(calls) : requests[i] \notin ToSet(c)
          /\ \A j \in 1 .. n : i # j => requests[i] # requests[j]
      BY <1>2, <3>1
    <3>3. ASSUME NEW k \in DOMAIN calls', NEW j \in DOMAIN calls'[k], calls'[k][j] = requests[i]
          PROVE  k = m /\ j = i
      <4>1. CASE k \in 1 .. l
        <5>1. calls'[k] = calls[k] /\ j \in DOMAIN calls[k] BY <1>6, <3>3, <4>1
        <5> QED BY <1>9, <3>2, <3>3, <4>1, <5>1
      <4>2. CASE k = l + 1 BY <1>5, <1>6, <2>2, <3>2, <3>3, <4>2
      <4> QED BY <1>4, <1>6, <4>1, <4>2
    <3> QED BY <3>1, <3>2, <3>3
  <2> QED BY <1>4, <1>6, <2>1, <2>2
<1>11. \A m \in DOMAIN calls' : Len(calls'[m]) > 0
  <2>1. \A m \in 1 .. l : Len(calls[m]) > 0 BY <1>1, <1>6 DEF CallsMade
  <2>2. Len(calls'[l + 1]) > 0 BY <1>4, <1>5, <1>6
  <2>3. ASSUME NEW m \in 1 .. l + 1 PROVE Len(calls'[m]) > 0
    <3>1. m \in 1 .. l \/ m = l + 1 BY <1>4
    <3>2. CASE m \in 1 .. l BY <1>6, <2>1, <3>2
    <3>3. CASE m = l + 1 BY <2>2, <3>3
    <3> QED BY <3>1, <3>2, <3>3
  <2> QED BY <1>6, <2>3
<1>12. Asked(calls', Len(calls')) <= NumDummies
  <2>1. Asked(calls', l + 1) = Asked(calls', l) + Len(calls'[l + 1]) BY <1>4, AskedSteps
  <2>2. Asked(calls', l) = Asked(calls, l) BY <1>4, <1>6, AskedSame
  <2>3. (l + 1) - 1 = l BY <1>4
  <2>4. Asked(calls, l) + n <= NumDummies BY <1>2, <2>3
  <2> QED BY <1>5, <1>6, <2>1, <2>2, <2>4
<1>13. CallsMade' BY <1>6, <1>8, <1>10, <1>11, <1>12 DEF CallsMade
<1>14. \A q \in Parties : DoneSteps(q)' = DoneSteps(q) /\ Finished(q)' = Finished(q)
  BY <1>3 DEF DoneSteps, LineLength, Finished, Idle
<1>15. Scripts'
  <2>1. call' \in [Parties -> 0 .. Len(calls')]
    <3>1. call \in [Parties -> 0 .. l] BY <1>1 DEF Scripts
    <3>2. 0 .. l \subseteq 0 .. l + 1 BY <1>4
    <3> QED BY <1>3, <1>6, <3>1, <3>2
  <2>2. ASSUME NEW q \in Parties
        PROVE  /\ Len(script'[q]) <= LineLength(q, call'[q])
               /\ \A i \in 1 .. Len(script'[q]) :
                    script'[q][i] = Line(q, call'[q])[DoneSteps(q)' + i]
    BY <1>1, <1>3, <1>14 DEF Scripts
  <2>3. script' \in [Parties -> Seq(Operations)] BY <1>1, <1>3 DEF Scripts
  <2> QED BY <2>1, <2>2, <2>3 DEF Scripts, LineLength, Line, BuildLine, QueryLine, S, R
<1>16. ASSUME NEW a \in Parties, NEW b \in Parties PROVE InOrder(a, b)'
  <2>1. InOrder(a, b) BY <1>1 DEF Channels
  <2>2. Sent(a, b)' = Sent(a, b) /\ Received(a, b)' = Received(a, b)
    <3>1. /\ Sent(a, b)' = Before(a, b, call'[a]) + SentIn(a, b, call'[a], DoneSteps(a)')
          /\ Received(a, b)' = Before(a, b, call'[b]) + ReceivedIn(a, b, call'[b], DoneSteps(b)')
      BY DEF Sent, Received, Before, SentIn, ReceivedIn, Past
    <3> QED BY <1>3, <1>14, <3>1 DEF Sent, Received
  <2> QED BY <1>1, <1>3, <1>6, <2>1, <2>2, InOrderSame
<1>17. Channels' BY <1>1, <1>3, <1>16 DEF Channels, IsTableOfQueues, Messages, Whats
<1>18. ASSUME NEW q \in Parties PROVE Learned(q)' /\ Kept(q)'
  <2>1. Learned(q) /\ Kept(q) BY <1>1 DEF Books
  <2>2. Kept(q)' BY <1>1, <1>3, <1>6, <1>14, <2>1, KeptSame
  <2>3. PICK m : m = call[q] OBVIOUS
  <2>4. m \in 0 .. Len(calls) BY <1>1, <2>3 DEF Scripts
  <2>5. About(m)' = About(m) BY <1>1, <1>3, <1>6, <2>4, PhaseSame
  <2>6. Learns(q, m) <= DoneSteps(q)' => slots'[q] = About(m)'
    BY <1>3, <1>14, <2>1, <2>3, <2>5 DEF Learned
  <2>7. call'[q] = m BY <1>3, <2>3
  <2>8. Learned(q)' BY <2>6, <2>7 DEF Learned, Learns, About, InReceiverOrder, LookupIndices
  <2> QED BY <2>2, <2>8
<1>19. Books' BY <1>1, <1>3, <1>18 DEF Books
<1> QED BY <1>7, <1>13, <1>15, <1>17, <1>19 DEF IInv

LEMMA SetToSeqLists ==
  ASSUME NEW X, IsFiniteSet(X)
  PROVE  /\ SetToSeq(X) \in [1 .. Cardinality(X) -> X] /\ IsInjective(SetToSeq(X))
         /\ Cardinality(X) \in Nat
<1>1. Cardinality(X) \in Nat /\ ExistsBijection(1 .. Cardinality(X), X)
  BY FS_CardinalityType
<1>2. \E f \in [1 .. Cardinality(X) -> X] : IsInjective(f)
  BY <1>1 DEF ExistsBijection, Bijection, Injection
<1> QED BY <1>1, <1>2 DEF SetToSeq

LEMMA InitHolds ==
  ASSUME Init
  PROVE  IInv
<1>1. /\ builderOrder \in BuilderOrders /\ receiverShuffle \in ReceiverShuffles
      /\ \E X \in kSubset(StashSize, {SlotOf(e) : e \in Entries}) : stashed = SetToSeq(X)
      /\ calls = <<>> /\ net = [p \in Parties |-> [q \in Parties |-> <<>>]]
      /\ script = [p \in Parties |-> BuildScript(p)] /\ call = [p \in Parties |-> 0]
      /\ slots = [p \in Parties |-> <<>>] /\ stashSlots = [p \in Parties |-> <<>>]
      /\ touched = [p \in Parties |-> {}] /\ queryCount = [p \in Parties |-> 0]
      /\ answers = [p \in Parties |-> <<>>]
  BY DEF Init
<1>2. Dealt
  <2>1. builderOrder \in Bijection(Slots, Rows) /\ receiverShuffle \in Bijection(Slots, Slots)
    BY <1>1, OrdersAssumption DEF Slots
  <2>2. PICK X \in kSubset(StashSize, {SlotOf(e) : e \in Entries}) : stashed = SetToSeq(X)
    BY <1>1
  <2>3. X \subseteq {SlotOf(e) : e \in Entries} /\ Cardinality(X) = StashSize
    BY <2>2 DEF kSubset
  <2>4. ASSUME NEW e \in Entries PROVE SlotOf(e) \in Slots
    <3>1. e \in Rows BY SizesAssumption DEF Entries, Rows
    <3>2. \E b \in Slots : builderOrder[b] = e
      BY <2>1, <3>1 DEF Bijection, Surjection
    <3> QED BY <3>2 DEF SlotOf
  <2>5. IsFiniteSet(X)
    <3>1. 0 \in Int /\ NumElements + NumDummies - 1 \in Int BY SizesAssumption
    <3>2. IsFiniteSet(Slots) BY <3>1, FS_Interval, Zenon DEF Slots, Rows
    <3>3. X \in SUBSET Slots BY <2>3, <2>4
    <3> QED BY <3>2, <3>3, FS_Subset, Zenon
  <2>6. stashed \in [1 .. StashSize -> X] /\ IsInjective(stashed)
    BY <2>2, <2>3, <2>5, SetToSeqLists
  <2>7. stashed \in [1 .. StashSize -> Slots] BY <2>3, <2>4, <2>6
  <2>8. \A i \in 1 .. StashSize : \E e \in Entries : stashed[i] = SlotOf(e)
    BY <2>3, <2>6
  <2> QED BY <2>1, <2>6, <2>7, <2>8 DEF Dealt
<1>3. CallsMade
  <2>1. Asked(calls, 0) = 0 BY AskedSteps
  <2>2. Len(calls) = 0 /\ DOMAIN calls = {} BY <1>1
  <2>3. calls \in Seq(Seq(Entries \cup {Miss})) BY <1>1
  <2> QED BY <2>1, <2>2, <2>3, SizesAssumption DEF CallsMade
<1>4. \A p \in Parties : /\ call[p] = 0 /\ script[p] = BuildScript(p)
                         /\ Len(script[p]) = LineLength(p, 0) /\ LineLength(p, 0) \in Nat \ {0}
                         /\ DoneSteps(p) = 0
  <2>1. SUFFICES ASSUME NEW p \in Parties
                 PROVE  /\ call[p] = 0 /\ script[p] = BuildScript(p)
                        /\ Len(script[p]) = LineLength(p, 0) /\ LineLength(p, 0) \in Nat \ {0}
                        /\ DoneSteps(p) = 0
    OBVIOUS
  <2>2. call[p] = 0 /\ script[p] = BuildScript(p) BY <1>1
  <2>3. Len(BuildScript(p)) = LineLength(p, 0) BY BuildScripts
  <2>4. LineLength(p, 0) \in Nat \ {0} BY Roles DEF LineLength
  <2>5. DoneSteps(p) = LineLength(p, 0) - LineLength(p, 0) BY <2>2, <2>3 DEF DoneSteps
  <2> QED BY <2>2, <2>3, <2>4, <2>5
<1>5. Scripts
  <2>1. script \in [Parties -> Seq(Operations)] BY <1>1, BuildScripts
  <2>2. call \in [Parties -> 0 .. Len(calls)] BY <1>1
  <2>3. ASSUME NEW p \in Parties
        PROVE  /\ Len(script[p]) <= LineLength(p, call[p])
               /\ \A i \in 1 .. Len(script[p]) :
                    script[p][i] = Line(p, call[p])[DoneSteps(p) + i]
    <3>1. Len(script[p]) <= LineLength(p, call[p]) BY <1>4
    <3>2. ASSUME NEW i \in 1 .. Len(script[p])
          PROVE  script[p][i] = Line(p, call[p])[DoneSteps(p) + i]
      <4>1. i \in 1 .. LineLength(p, 0) /\ DoneSteps(p) + i = i BY <1>4
      <4>2. BuildScript(p)[i] = BuildLine(p)[i] BY <4>1, BuildScripts
      <4>3. Line(p, 0) = BuildLine(p) BY DEF Line
      <4> QED BY <1>4, <4>1, <4>2, <4>3
    <3> QED BY <3>1, <3>2
  <2> QED BY <2>1, <2>2, <2>3 DEF Scripts
<1>6. Channels
  <2>1. IsTableOfQueues(net) BY <1>1 DEF IsTableOfQueues
  <2>2. ASSUME NEW p \in Parties, NEW q \in Parties PROVE InOrder(p, q)
    <3>1. net[p][q] = <<>> BY <1>1
    <3>2. Before(p, q, 0) = 0 BY DEF Before
    <3>3. SentIn(p, q, 0, 0) = 0 /\ ReceivedIn(p, q, 0, 0) = 0 BY CountsBounded
    <3>4. Sent(p, q) = 0 /\ Received(p, q) = 0 BY <1>4, <3>2, <3>3 DEF Sent, Received
    <3>5. Len(net[p][q]) = 0 /\ DOMAIN net[p][q] = {} BY <3>1
    <3> QED BY <3>4, <3>5 DEF InOrder
  <2> QED BY <2>1, <2>2 DEF Channels
<1>7. Books
  <2>1. ASSUME NEW p \in Parties PROVE Learned(p) /\ Kept(p)
    <3>1. ~(Learns(p, call[p]) <= DoneSteps(p))
      <4>1. Learns(p, 0) \in 1 .. LineLength(p, 0) - 1 BY CountsBounded
      <4> QED BY <1>4, <4>1
    <3>2. Finished(p) = -1
      <4>1. script[p] # <<>> BY <1>4
      <4> QED BY <1>4, <4>1 DEF Finished, Idle
    <3>3. /\ touched[p] = {} /\ queryCount[p] = 0 /\ stashSlots[p] = <<>> /\ answers[p] = <<>>
      BY <1>1
    <3>4. {} = UNION {ToSet(About(m)) : m \in 0 .. -1}
      <4>1. 0 .. -1 = {} OBVIOUS
      <4> QED BY <4>1
    <3>5. <<>> = [m \in 1 .. -1 |-> RowsOf(m)]
      <4>1. 1 .. -1 = {} OBVIOUS
      <4> QED BY <4>1
    <3>6. Finished(p) < 0 BY <3>2
    <3>7. Cardinality(touched[p]) = 0 BY <3>3, FS_EmptySet
    <3>8. touched[p] = UNION {ToSet(About(m)) : m \in 0 .. Finished(p)} BY <3>2, <3>3, <3>4
    <3>9. answers[p] = [m \in 1 .. Finished(p) |-> RowsOf(m)] BY <3>2, <3>3, <3>5
    <3>10. Kept(p) BY <3>3, <3>6, <3>7, <3>8, <3>9 DEF Kept
    <3> QED BY <3>1, <3>10 DEF Learned
  <2> QED BY <1>1, <2>1 DEF Books
<1> QED BY <1>2, <1>3, <1>5, <1>6, <1>7 DEF IInv

LEMMA NothingKeeps ==
  ASSUME IInv, UNCHANGED vars
  PROVE  IInv'
<1>1. /\ UNCHANGED dealt /\ calls' = calls /\ net' = net /\ script' = script /\ call' = call
      /\ slots' = slots /\ stashSlots' = stashSlots /\ touched' = touched
      /\ queryCount' = queryCount /\ answers' = answers
  BY DEF vars, dealt
<1>2. Dealt /\ CallsMade /\ Scripts /\ Channels /\ Books BY DEF IInv
<1>3. \A q \in Parties : DoneSteps(q)' = DoneSteps(q) /\ Finished(q)' = Finished(q)
  BY <1>1 DEF DoneSteps, LineLength, Finished, Idle
<1>4. Dealt' /\ CallsMade' BY <1>1, <1>2, DealtSame, CallsSame
<1>5. Scripts'
  <2>1. script' \in [Parties -> Seq(Operations)] /\ call' \in [Parties -> 0 .. Len(calls')]
    BY <1>1, <1>2 DEF Scripts
  <2>2. ASSUME NEW q \in Parties
        PROVE  /\ Len(script'[q]) <= LineLength(q, call'[q])
               /\ \A i \in 1 .. Len(script'[q]) :
                    script'[q][i] = Line(q, call'[q])[DoneSteps(q)' + i]
    BY <1>1, <1>2, <1>3 DEF Scripts
  <2> QED
    BY <2>1, <2>2 DEF Scripts, Operations, Whats, LineLength, Line, BuildLine, QueryLine, S, R
<1>6. ASSUME NEW a \in Parties, NEW b \in Parties PROVE InOrder(a, b)'
  <2>1. InOrder(a, b) BY <1>2 DEF Channels
  <2>2. Sent(a, b)' = Sent(a, b) /\ Received(a, b)' = Received(a, b)
    <3>1. /\ Sent(a, b)' = Before(a, b, call'[a]) + SentIn(a, b, call'[a], DoneSteps(a)')
          /\ Received(a, b)' = Before(a, b, call'[b]) + ReceivedIn(a, b, call'[b], DoneSteps(b)')
      BY DEF Sent, Received, Before, SentIn, ReceivedIn, Past
    <3> QED BY <1>1, <1>3, <3>1 DEF Sent, Received
  <2> QED BY <1>1, <1>2, <2>1, <2>2, InOrderSame
<1>7. Channels' BY <1>1, <1>2, <1>6 DEF Channels, IsTableOfQueues, Messages, Whats
<1>8. ASSUME NEW q \in Parties PROVE Learned(q)' /\ Kept(q)'
  <2>1. Learned(q) /\ Kept(q) BY <1>2 DEF Books
  <2>2. Kept(q)' BY <1>1, <1>2, <1>3, <2>1, KeptSame
  <2>3. PICK m : m = call[q] OBVIOUS
  <2>4. About(m)' = About(m) BY <1>1, ValuesSame
  <2>5. Learns(q, m) <= DoneSteps(q)' => slots'[q] = About(m)'
    BY <1>1, <1>3, <2>1, <2>3, <2>4 DEF Learned
  <2>6. call'[q] = m BY <1>1, <2>3
  <2>7. Learned(q)' BY <2>5, <2>6 DEF Learned, Learns, About, InReceiverOrder, LookupIndices
  <2> QED BY <2>2, <2>7
<1>9. Books' BY <1>1, <1>2, <1>8 DEF Books
<1> QED BY <1>4, <1>5, <1>7, <1>9 DEF IInv

LEMMA NextKeeps ==
  ASSUME IInv, [Next]_vars
  PROVE  IInv'
<1>1. CASE UNCHANGED vars BY <1>1, NothingKeeps
<1>2. CASE Next
  <2>1. ASSUME NEW p \in Parties, Step(p) PROVE IInv'
    <3>1. CASE Send(p) BY <3>1, SendKeeps
    <3>2. CASE Receive(p) BY <3>2, ReceiveKeeps
    <3>3. CASE FinishBuild(p) BY <3>3, FinishBuildKeeps
    <3>4. CASE StartQuery(p) BY <3>4, StartQueryKeeps
    <3>5. CASE Touch(p) BY <3>5, TouchKeeps
    <3> QED BY <2>1, <3>1, <3>2, <3>3, <3>4, <3>5 DEF Step
  <2>2. CASE Request BY <2>2, RequestKeeps
  <2>3. CASE Spent BY <2>3, NothingKeeps DEF Spent
  <2> QED BY <1>2, <2>1, <2>2, <2>3 DEF Next
<1> QED BY <1>1, <1>2

(* Parties in any interleaving: each is somewhere in its script, every     *)
(* channel holds exactly what its sender's script has put there and its    *)
(* receiver's has not taken, and each party's books are those of the calls *)
(* it has finished.                                                        *)
THEOREM TableInvariant == Spec => []IInv
<1>1. Init => IInv BY InitHolds
<1>2. IInv /\ [Next]_vars => IInv' BY NextKeeps
<1> QED BY <1>1, <1>2, PTL DEF Spec

---------------------------------------------------------------------------
(* What the inductive invariant says of the parties.                       *)

LEMMA BooksTyped ==
  ASSUME IInv, NEW p \in Parties
  PROVE  /\ touched[p] \subseteq Slots /\ IsFiniteSet(touched[p])
         /\ queryCount[p] \in 0 .. NumDummies /\ stashSlots[p] \in Seq(Slots)
         /\ slots[p] \in Seq(Slots) /\ call[p] \in 0 .. Len(calls)
<1>1. Dealt /\ CallsMade /\ Scripts /\ Books BY DEF IInv
<1>2. Kept(p) /\ slots[p] \in Seq(Slots) /\ call[p] \in 0 .. Len(calls)
  BY <1>1 DEF Books, Scripts
<1>3. /\ Finished(p) \in Int /\ -1 <= Finished(p) /\ Finished(p) <= Len(calls)
      /\ Len(calls) \in Nat /\ 0 .. Finished(p) \subseteq 0 .. Len(calls)
  BY <1>1, FinishedBounded
<1>4. touched[p] \subseteq Slots
  <2>1. \A m \in 0 .. Finished(p) : ToSet(About(m)) \subseteq Slots BY <1>1, <1>3, AboutIsSlots
  <2> QED BY <1>2, <2>1 DEF Kept
<1>5. IsFiniteSet(touched[p])
  <2>1. 0 \in Int /\ NumElements + NumDummies - 1 \in Int BY SizesAssumption
  <2>2. IsFiniteSet(Slots) BY <2>1, FS_Interval, Zenon DEF Slots, Rows
  <2> QED BY <1>4, <2>2, FS_Subset, Zenon
<1>6. queryCount[p] \in 0 .. NumDummies
  <2>1. CASE Finished(p) < 0
    <3>1. queryCount[p] = 0 BY <1>2, <2>1 DEF Kept
    <3> QED BY <3>1, SizesAssumption
  <2>2. CASE ~(Finished(p) < 0)
    <3>1. queryCount[p] = Asked(calls, Finished(p)) BY <1>2, <2>2 DEF Kept
    <3>2. Finished(p) \in 0 .. Len(calls) BY <1>3, <2>2
    <3>3. calls \in Seq(Seq(Entries \cup {Miss})) /\ Asked(calls, Len(calls)) <= NumDummies
      BY <1>1 DEF CallsMade
    <3>4. Asked(calls, Finished(p)) \in Nat /\ Asked(calls, Len(calls)) \in Nat
      BY <1>3, <3>2, <3>3, AskedNatural
    <3>5. Asked(calls, Finished(p)) <= Asked(calls, Len(calls))
      BY <1>3, <3>2, <3>3, AskedGrows
    <3> QED BY <3>1, <3>3, <3>4, <3>5, SizesAssumption
  <2> QED BY <2>1, <2>2
<1>7. stashSlots[p] \in Seq(Slots)
  <2>1. About(0) \in Seq(Slots) BY <1>1, AboutStash
  <2> QED BY <1>2, <2>1 DEF Kept
<1> QED BY <1>2, <1>4, <1>5, <1>6, <1>7

LEMMA TypesHold ==
  ASSUME IInv
  PROVE  TypeOK
<1>1. Dealt /\ CallsMade /\ Scripts /\ Channels BY DEF IInv
<1>2. ASSUME NEW p \in Parties, NEW q \in Parties, NEW i \in DOMAIN net[p][q]
      PROVE  net[p][q][i].call \in 0 .. Len(calls) /\ net[p][q][i].body \in Seq(Slots)
  <2>1. InOrder(p, q) BY <1>1 DEF Channels
  <2>2. PICK n \in 0 .. call[p] : \E j \in 1 .. TotalIn(p, q, n) :
               net[p][q][i] = Message(p, q, n, j)
    BY <2>1 DEF InOrder
  <2>3. PICK j \in 1 .. TotalIn(p, q, n) : net[p][q][i] = Message(p, q, n, j) BY <2>2
  <2>4. n \in 0 .. Len(calls)
    <3>1. call[p] \in 0 .. Len(calls) BY <1>1 DEF Scripts
    <3>2. Len(calls) \in Nat BY <1>1 DEF CallsMade
    <3> QED BY <3>1, <3>2
  <2>5. Message(p, q, n, j) \in Messages BY <1>1, <2>3, <2>4, MessageTyped
  <2>6. Message(p, q, n, j).call = n BY DEF Message
  <2> QED BY <2>3, <2>4, <2>5, <2>6 DEF Messages
<1>3. \A p \in Parties :
        /\ slots[p] \in Seq(Slots) /\ stashSlots[p] \in Seq(Slots)
        /\ touched[p] \subseteq Slots
        /\ queryCount[p] \in 0 .. NumDummies
        /\ call[p] \in 0 .. Len(calls)
  BY BooksTyped
<1> QED BY <1>1, <1>2, <1>3 DEF TypeOK, Dealt, CallsMade

(* What a party is about to touch is what its call is about.               *)
LEMMA AboutToTouch ==
  ASSUME IInv, NEW p \in Parties, NEW do \in {"placeStash", "touch"}, At(p, do)
  PROVE  /\ slots[p] = About(call[p]) /\ Finished(p) = call[p] - 1
         /\ call[p] \in 0 .. Len(calls) /\ Len(calls) \in Nat
         /\ do = "placeStash" <=> call[p] = 0
<1>1. CallsMade /\ Scripts /\ Books BY DEF IInv
<1>2. script[p] # <<>> /\ Head(script[p]).do = do BY DEF At
<1>3. StepFits(p, call[p], DoneSteps(p), Head(script[p])) BY <1>1, <1>2, HeadStep
<1>4. Learns(p, call[p]) <= DoneSteps(p) /\ (do = "placeStash" <=> call[p] = 0)
  BY <1>2, <1>3 DEF StepFits
<1>5. slots[p] = About(call[p]) BY <1>1, <1>4 DEF Books, Learned
<1>6. Finished(p) = call[p] - 1 BY <1>2 DEF Finished, Idle
<1>7. call[p] \in 0 .. Len(calls) /\ Len(calls) \in Nat BY <1>1 DEF Scripts, CallsMade
<1> QED BY <1>4, <1>5, <1>6, <1>7

LEMMA FreshHolds ==
  ASSUME IInv
  PROVE  SlotsFresh
<1>1. Dealt /\ CallsMade /\ Books BY DEF IInv
<1>2. ASSUME NEW p \in Parties, At(p, "touch")
      PROVE  /\ Len(slots[p]) = Len(calls[call[p]])
             /\ IsInjective(slots[p])
             /\ ToSet(slots[p]) \cap touched[p] = {}
  <2>1. /\ slots[p] = About(call[p]) /\ Finished(p) = call[p] - 1
        /\ call[p] \in 0 .. Len(calls) /\ Len(calls) \in Nat /\ call[p] # 0
    BY <1>2, AboutToTouch
  <2>2. call[p] \in 1 .. Len(calls) BY <2>1
  <2>3. Len(About(call[p])) = Len(calls[call[p]]) BY <1>1, <2>2, AboutCall
  <2>4. IsInjective(About(call[p])) BY <1>1, <2>1, AboutFresh
  <2>5. Finished(p) \in -1 .. Len(calls) - 1 /\ Finished(p) + 1 = call[p] BY <2>1
  <2>6. Kept(p) BY <1>1 DEF Books
  <2>7. touched[p] \cap ToSet(About(call[p])) = {} BY <1>1, <2>5, <2>6, TouchedBefore
  <2> QED BY <2>1, <2>3, <2>4, <2>7
<1>3. ASSUME NEW p \in Parties, At(p, "placeStash")
      PROVE  Len(slots[p]) = StashSize
  <2>1. slots[p] = About(call[p]) /\ call[p] = 0 BY <1>3, AboutToTouch
  <2> QED BY <1>1, <2>1, AboutStash
<1> QED BY <1>2, <1>3 DEF SlotsFresh

LEMMA MeantHolds ==
  ASSUME IInv
  PROVE  MessagesMeant
<1>1. Scripts /\ Channels BY DEF IInv
<1>2. ASSUME NEW p \in Parties, At(p, "receive"), net[Head(script[p]).peer][p] # <<>>
      PROVE  LET op == Head(script[p])
                 channel == net[op.peer][p]
             IN  Head(channel).what = op.what /\ Head(channel).call = call[p]
  <2>1. script[p] # <<>> /\ Head(script[p]).do = "receive" BY <1>2 DEF At
  <2>2. Head(script[p]).peer \in Parties
    <3>1. StepFits(p, call[p], DoneSteps(p), Head(script[p])) BY <1>1, <2>1, HeadStep
    <3> QED BY <2>1, <3>1 DEF StepFits
  <2>3. PICK q \in Parties : q = Head(script[p]).peer BY <2>2
  <2>4. PICK what : what = Head(script[p]).what OBVIOUS
  <2>5. Head(net[q][p]) = [what |-> what, call |-> call[p], body |-> BodyOf(call[p], what)]
    BY <1>1, <1>2, <2>1, <2>3, <2>4, HeadMeant
  <2>6. Head(net[q][p]).what = what /\ Head(net[q][p]).call = call[p] BY <2>5
  <2> QED BY <2>3, <2>4, <2>6
<1> QED BY <1>2 DEF MessagesMeant

LEMMA NoneLeftHolds ==
  ASSUME IInv
  PROVE  NothingLeftOver
<1>1. Dealt /\ CallsMade /\ Scripts /\ Channels BY DEF IInv
<1>2. ASSUME NEW p \in Parties, NEW q \in Parties
      PROVE  /\ Len(net[p][q]) \in Nat /\ net[p][q] \in Seq(Messages)
             /\ Len(net[p][q]) = Sent(p, q) - Received(p, q)
             /\ Sent(p, q) \in Nat /\ Received(p, q) \in Nat
             /\ Received(p, q) <= Sent(p, q)
  <2>1. net[p][q] \in Seq(Messages) BY <1>1 DEF Channels, IsTableOfQueues
  <2>2. Len(net[p][q]) \in Nat BY <2>1
  <2>3. Len(net[p][q]) = Sent(p, q) - Received(p, q) BY <1>1 DEF Channels, InOrder
  <2>4. Sent(p, q) \in Nat /\ Received(p, q) \in Nat BY <1>1, SentBetween
  <2>5. Received(p, q) <= Sent(p, q) BY <2>2, <2>3, <2>4
  <2> QED BY <2>1, <2>2, <2>3, <2>4, <2>5
<1>3. \A p, q \in Parties : call[p] <= call[q] + 1
  <2>1. \A p, q \in Parties : Received(p, q) <= Sent(p, q) BY <1>2
  <2> QED BY <1>1, <2>1, OneCallApart
<1>4. ASSUME \A p \in Parties : Idle(p) /\ call[p] = call[Builder],
             NEW p \in Parties, NEW q \in Parties
      PROVE  net[p][q] = <<>>
  <2>1. PICK n : n = call[Builder] OBVIOUS
  <2>2. call[p] = n /\ call[q] = n /\ Idle(p) /\ Idle(q) BY <1>4, <2>1
  <2>3. n \in Nat BY <1>1, <2>2, DoneBounded
  <2>4. LineLength(p, n) \in Nat /\ LineLength(q, n) \in Nat BY <2>3, CountsBounded
  <2>5. DoneSteps(p) = LineLength(p, n) /\ DoneSteps(q) = LineLength(q, n)
    <3>1. Len(script[p]) = 0 /\ Len(script[q]) = 0 BY <2>2 DEF Idle
    <3> QED BY <2>2, <2>4, <3>1 DEF DoneSteps
  <2>6. /\ SentIn(p, q, n, LineLength(p, n)) = TotalIn(p, q, n)
        /\ ReceivedIn(p, q, n, LineLength(q, n)) = TotalIn(p, q, n)
    BY <2>3, CountsBounded
  <2>7. Sent(p, q) = Received(p, q) BY <2>2, <2>5, <2>6 DEF Sent, Received
  <2>8. Len(net[p][q]) = 0 BY <1>2, <2>7
  <2> QED BY <1>2, <2>8, EmptySeq
<1> QED BY <1>3, <1>4 DEF NothingLeftOver

LEMMA AgreeHolds ==
  ASSUME IInv
  PROVE  PartiesAgree
<1>1. Dealt /\ CallsMade /\ Scripts /\ Books BY DEF IInv
<1>2. SUFFICES ASSUME NEW p \in Parties, NEW q \in Parties, Idle(p), Idle(q), call[p] = call[q]
               PROVE  /\ queryCount[p] = queryCount[q]
                      /\ answers[p] = answers[q]
                      /\ Extracted(p) = Extracted(q)
                      /\ stashSlots[p] = stashSlots[q]
                      /\ RowsAt(ToSet(stashSlots[p])) = {builderOrder[s] : s \in ToSet(stashed)}
                      /\ queryCount[p] = NumDummies =>
                           Len(Extracted(p)) = NumElements - StashSize
  BY DEF PartiesAgree
<1>3. PICK n : n = call[p] OBVIOUS
<1>4. Finished(p) = n /\ Finished(q) = n BY <1>2, <1>3 DEF Finished
<1>5. n \in Nat BY <1>1, <1>3, DoneBounded
<1>6. Kept(p) /\ Kept(q) BY <1>1 DEF Books
<1>7. /\ touched[p] = touched[q] /\ queryCount[p] = queryCount[q]
      /\ stashSlots[p] = stashSlots[q] /\ answers[p] = answers[q]
  BY <1>4, <1>6 DEF Kept
<1>8. Extracted(p) = Extracted(q) BY <1>7 DEF Extracted
<1>9. stashSlots[p] = About(0) /\ Cardinality(touched[p]) = StashSize + queryCount[p]
  BY <1>4, <1>5, <1>6 DEF Kept
<1>10. RowsAt(ToSet(About(0))) = {builderOrder[s] : s \in ToSet(stashed)}
  <2>1. /\ DOMAIN About(0) = 1 .. StashSize /\ stashed \in Seq(Slots) /\ Len(stashed) = StashSize
        /\ \A i \in 1 .. StashSize : RowAt(About(0)[i]) = builderOrder[stashed[i]]
    BY <1>1, AboutStash
  <2>2. ToSet(About(0)) = {About(0)[i] : i \in 1 .. StashSize} BY <2>1 DEF ToSet
  <2>3. ToSet(stashed) = {stashed[i] : i \in 1 .. StashSize} BY <2>1 DEF ToSet
  <2>4. RowsAt(ToSet(About(0))) = {RowAt(About(0)[i]) : i \in 1 .. StashSize}
    BY <2>2 DEF RowsAt
  <2>5. {builderOrder[s] : s \in ToSet(stashed)} = {builderOrder[stashed[i]] : i \in 1 .. StashSize}
    BY <2>3
  <2>6. {RowAt(About(0)[i]) : i \in 1 .. StashSize} = {builderOrder[stashed[i]] : i \in 1 .. StashSize}
    BY <2>1, Zenon
  <2> QED BY <2>4, <2>5, <2>6, Zenon
<1>11. ASSUME queryCount[p] = NumDummies
       PROVE  Len(Extracted(p)) = NumElements - StashSize
  <2>1. touched[p] \subseteq Slots /\ IsFiniteSet(touched[p]) BY BooksTyped
  <2>2. IsFiniteSet(Slots) /\ Cardinality(Slots) = NumElements + NumDummies
    <3>1. PICK last : last = NumElements + NumDummies - 1 OBVIOUS
    <3>2. 0 \in Int /\ last \in Int /\ Slots = 0 .. last
      BY <3>1, SizesAssumption DEF Slots, Rows
    <3>3. IsFiniteSet(0 .. last) /\ Cardinality(0 .. last) = IF 0 > last THEN 0 ELSE last - 0 + 1
      BY <3>2, FS_Interval
    <3>4. Cardinality(0 .. last) = NumElements + NumDummies BY <3>1, <3>3, SizesAssumption
    <3> QED BY <3>2, <3>3, <3>4
  <2>3. /\ IsFiniteSet(Slots \ touched[p])
        /\ Cardinality(Slots \ touched[p]) = Cardinality(Slots) - Cardinality(Slots \cap touched[p])
    BY <2>2, FS_Difference
  <2>4. Slots \cap touched[p] = touched[p] BY <2>1
  <2>5. Cardinality(Slots \ touched[p]) = NumElements - StashSize
    <3>1. Cardinality(Slots \cap touched[p]) = StashSize + NumDummies BY <1>9, <1>11, <2>4
    <3> QED BY <2>2, <2>3, <3>1, SizesAssumption
  <2>6. Len(Extracted(p)) = Cardinality(Slots \ touched[p])
    <3>1. Cardinality(Slots \ touched[p]) \in Nat BY <2>3, FS_CardinalityType
    <3> QED BY <3>1 DEF Extracted
  <2> QED BY <2>5, <2>6
<1> QED BY <1>7, <1>8, <1>9, <1>10, <1>11

(* Every variable has its type, for every number of elements, dummies and  *)
(* stashed elements and every shuffle (ohtable.rs).                        *)
THEOREM TypeCorrect == Spec => []TypeOK
BY TableInvariant, TypesHold, PTL

(* The assertion of query_many's bookkeeping holds at every party: a slot  *)
(* is touched by one query only, and the build touches the whole stash.    *)
THEOREM SlotsTouchedOnce == Spec => []SlotsFresh
BY TableInvariant, FreshHolds, PTL

(* Every receive of a build and of a query takes the message that the      *)
(* sender's code meant for it, of the same call, however the three parties *)
(* interleave.                                                             *)
THEOREM ReceivesMeant == Spec => []MessagesMeant
BY TableInvariant, MeantHolds, PTL

(* When the three parties rest after the same call every channel is empty, *)
(* and none is ever two calls ahead of another.                            *)
THEOREM ChannelsDrained == Spec => []NothingLeftOver
BY TableInvariant, NoneLeftHolds, PTL

(* Parties that have finished the same calls count alike and extract the   *)
(* same rows in the same order.                                            *)
THEOREM SameTable == Spec => []PartiesAgree
BY TableInvariant, AgreeHolds, PTL

---------------------------------------------------------------------------
(* The table as ObliviousTable has it: a call is served when the slowest   *)
(* party has finished it.                                                  *)
Served == Len(answers[Slowest])

(* The rows left when the first n calls are served.                        *)
LeftAfter(n) ==
  {r \in Rows : (r \in Entries => Placed(r)) /\ \A m \in 1 .. n : r \notin ToSet(RowsOf(m))}

Left == {r \in Rows : (r \in Entries => Placed(r)) /\ r \notin RowsAt(touched[Slowest])}

Mapped ==
  /\ Slowest \in Parties /\ Served \in 0 .. Len(calls)
  /\ \A p \in Parties : Len(answers[p]) \in Nat /\ Served <= Len(answers[p])
  /\ Left = LeftAfter(Served)
  /\ answers[Slowest] = [m \in 1 .. Served |-> RowsOf(m)]

LEMMA AnswersCount ==
  ASSUME IInv, NEW p \in Parties
  PROVE  /\ Len(answers[p]) \in 0 .. Len(calls)
         /\ answers[p] = [m \in 1 .. Len(answers[p]) |-> RowsOf(m)]
         /\ Len(answers[p]) = IF Finished(p) < 0 THEN 0 ELSE Finished(p)
<1>1. CallsMade /\ Scripts /\ Books BY DEF IInv
<1>2. PICK f : f = Finished(p) OBVIOUS
<1>3. f \in Int /\ -1 <= f /\ f <= Len(calls) /\ Len(calls) \in Nat
  BY <1>1, <1>2, FinishedBounded
<1>4. answers[p] = [m \in 1 .. f |-> RowsOf(m)] BY <1>1, <1>2 DEF Books, Kept
<1>5. CASE f < 0
  <2>1. 1 .. f = 1 .. 0 BY <1>3, <1>5
  <2>2. answers[p] = [m \in 1 .. 0 |-> RowsOf(m)] BY <1>4, <2>1
  <2>3. Len(answers[p]) = 0 BY <2>2
  <2> QED BY <1>2, <1>3, <1>5, <2>2, <2>3
<1>6. CASE ~(f < 0)
  <2>1. f \in Nat BY <1>3, <1>6
  <2>2. Len(answers[p]) = f BY <1>4, <2>1
  <2> QED BY <1>2, <1>3, <1>4, <1>6, <2>1, <2>2
<1> QED BY <1>5, <1>6

LEMMA LeftInSlots ==
  ASSUME IInv, NEW p \in Parties
  PROVE  {r \in Rows : (r \in Entries => Placed(r)) /\ r \notin RowsAt(touched[p])}
           = LeftAfter(Len(answers[p]))
<1> DEFINE InSlots == {r \in Rows : (r \in Entries => Placed(r)) /\ r \notin RowsAt(touched[p])}
<1>1. Dealt /\ CallsMade /\ Scripts /\ Books BY DEF IInv
<1>2. PICK f : f = Finished(p) OBVIOUS
<1>3. PICK n : n = Len(answers[p]) OBVIOUS
<1>4. f \in Int /\ -1 <= f /\ f <= Len(calls) /\ Len(calls) \in Nat
  BY <1>1, <1>2, FinishedBounded
<1>5. n = IF f < 0 THEN 0 ELSE f BY <1>2, <1>3, AnswersCount
<1>6. touched[p] = UNION {ToSet(About(m)) : m \in 0 .. f} BY <1>1, <1>2 DEF Books, Kept
<1>7. ASSUME NEW m \in 1 .. n
      PROVE  /\ m \in 0 .. f /\ m \in 1 .. Len(calls)
             /\ DOMAIN About(m) = 1 .. Len(calls[m])
             /\ DOMAIN RowsOf(m) = 1 .. Len(calls[m])
             /\ \A i \in 1 .. Len(calls[m]) : RowAt(About(m)[i]) = RowsOf(m)[i]
  <2>1. m \in 0 .. f /\ m \in 1 .. Len(calls) BY <1>4, <1>5
  <2>2. RowsOf(m) \in [1 .. Len(calls[m]) -> Rows] BY <1>1, <2>1, CallRows
  <2> QED BY <1>1, <2>1, <2>2, AboutCall
<1>8. ASSUME NEW r \in InSlots PROVE r \in LeftAfter(n)
  <2>1. ASSUME NEW m \in 1 .. n, r \in ToSet(RowsOf(m)) PROVE FALSE
    <3>1. PICK i \in 1 .. Len(calls[m]) : r = RowsOf(m)[i] BY <1>7, <2>1 DEF ToSet
    <3>2. About(m)[i] \in ToSet(About(m)) BY <1>7, <3>1 DEF ToSet
    <3>3. About(m)[i] \in touched[p] BY <1>6, <1>7, <3>2
    <3>4. r = RowAt(About(m)[i]) BY <1>7, <3>1
    <3>5. r \in RowsAt(touched[p]) BY <3>3, <3>4 DEF RowsAt
    <3> QED BY <1>8, <3>5
  <2> QED BY <1>8, <2>1 DEF LeftAfter
<1>9. ASSUME NEW r \in LeftAfter(n) PROVE r \in InSlots
  <2>1. r \in Rows /\ (r \in Entries => Placed(r)) /\ \A m \in 1 .. n : r \notin ToSet(RowsOf(m))
    BY <1>9 DEF LeftAfter
  <2>2. ASSUME r \in RowsAt(touched[p]) PROVE FALSE
    <3>1. PICK s \in touched[p] : r = RowAt(s) BY <2>2 DEF RowsAt
    <3>2. PICK m \in 0 .. f : s \in ToSet(About(m)) BY <1>6, <3>1
    <3>3. CASE m = 0
      <4>1. /\ DOMAIN About(0) = 1 .. StashSize
            /\ \A i \in 1 .. StashSize : RowAt(About(0)[i]) = builderOrder[stashed[i]]
        BY <1>1, AboutStash
      <4>2. PICK i \in 1 .. StashSize : s = About(0)[i] BY <3>2, <3>3, <4>1 DEF ToSet
      <4>3. r = builderOrder[stashed[i]] BY <3>1, <4>1, <4>2
      <4>4. r \in Entries /\ ~Placed(r) BY <1>1, <4>2, <4>3, StashRows
      <4> QED BY <2>1, <4>4
    <3>4. CASE m # 0
      <4>1. m \in 1 .. n BY <1>4, <1>5, <3>4
      <4>2. PICK i \in 1 .. Len(calls[m]) : s = About(m)[i] BY <1>7, <3>2, <4>1 DEF ToSet
      <4>3. r = RowsOf(m)[i] BY <1>7, <3>1, <4>1, <4>2
      <4>4. r \in ToSet(RowsOf(m)) BY <1>7, <4>1, <4>2, <4>3 DEF ToSet
      <4> QED BY <2>1, <4>1, <4>4
    <3> QED BY <3>3, <3>4
  <2> QED BY <2>1, <2>2
<1> QED BY <1>3, <1>8, <1>9

LEMMA MappedHolds ==
  ASSUME IInv
  PROVE  Mapped
<1>1. \A p \in Parties : Len(answers[p]) \in 0 .. Len(calls) BY AnswersCount
<1>2. Len(calls) \in Nat BY DEF IInv, CallsMade
<1>3. \A p \in Parties : Len(answers[p]) \in Nat BY <1>1, <1>2
<1>4. \E p \in Parties : \A q \in Parties : Len(answers[p]) <= Len(answers[q])
  <2> DEFINE a == Len(answers[0])
             b == Len(answers[1])
             c == Len(answers[2])
  <2>1. a \in Nat /\ b \in Nat /\ c \in Nat BY <1>3, Roles
  <2>2. (a <= b /\ a <= c) \/ (b <= a /\ b <= c) \/ (c <= a /\ c <= b)
    <3> HIDE DEF a, b, c
    <3> QED BY <2>1
  <2>3. a <= a /\ b <= b /\ c <= c
    <3> HIDE DEF a, b, c
    <3> QED BY <2>1
  <2> QED BY <2>2, <2>3, Roles
<1>5. Slowest \in Parties /\ \A q \in Parties : Served <= Len(answers[q])
  BY <1>4 DEF Slowest, Served
<1>6. Served \in 0 .. Len(calls) BY <1>1, <1>5 DEF Served
<1>7. answers[Slowest] = [m \in 1 .. Served |-> RowsOf(m)] BY <1>5, AnswersCount DEF Served
<1>8. Left = LeftAfter(Served) BY <1>5, LeftInSlots DEF Left, Served
<1> QED BY <1>3, <1>5, <1>6, <1>7, <1>8 DEF Mapped

LEMMA LeftSame ==
  ASSUME CallsMade, UNCHANGED dealt, \A m \in 1 .. Len(calls) : calls'[m] = calls[m],
         NEW n \in 0 .. Len(calls)
  PROVE  LeftAfter(n)' = LeftAfter(n)
<1>1. \A m \in 1 .. n : RowsOf(m)' = RowsOf(m)
  <2>1. ASSUME NEW m \in 1 .. n PROVE RowsOf(m)' = RowsOf(m)
    <3>1. m \in 0 .. Len(calls) /\ m # 0 BY LenProperties DEF CallsMade
    <3> QED BY <3>1, PhaseSame
  <2> QED BY <2>1
<1>2. \A r : Placed(r)' <=> Placed(r) BY DEF Placed, SlotOf, dealt
<1> QED BY <1>1, <1>2 DEF LeftAfter

(* The steps serve one call at a time, and the calls that are served stay. *)
LEMMA StepServes ==
  ASSUME IInv, Mapped, Mapped', [Next]_vars
  PROVE  /\ UNCHANGED dealt
         /\ Len(calls) <= Len(calls') /\ \A m \in 1 .. Len(calls) : calls'[m] = calls[m]
         /\ Served' = Served \/ (Served' = Served + 1 /\ calls' = calls)
<1>1. CallsMade BY DEF IInv
<1>2. Len(calls) \in Nat /\ DOMAIN calls = 1 .. Len(calls) BY <1>1 DEF CallsMade
<1>3. CASE UNCHANGED vars
  <2>1. UNCHANGED dealt /\ calls' = calls /\ answers' = answers BY <1>3 DEF vars, dealt
  <2>2. Served' = Served BY <2>1 DEF Served, Slowest
  <2> QED BY <1>2, <2>1, <2>2
<1>4. CASE Request
  <2>1. /\ UNCHANGED dealt /\ answers' = answers
        /\ \E requests : calls' = Append(calls, requests)
    BY <1>4 DEF Request
  <2>2. Served' = Served BY <2>1 DEF Served, Slowest
  <2>3. PICK requests : calls' = Append(calls, requests) BY <2>1
  <2>4. Len(calls') = Len(calls) + 1 /\ \A m \in 1 .. Len(calls) : calls'[m] = calls[m]
    BY <1>1, <1>2, <2>3 DEF CallsMade
  <2> QED BY <1>2, <2>1, <2>2, <2>4
<1>5. CASE Spent BY <1>3, <1>5 DEF Spent
<1>6. ASSUME NEW p \in Parties, Step(p), ~Touch(p)
      PROVE  /\ UNCHANGED dealt /\ calls' = calls /\ Served' = Served
  <2>1. UNCHANGED dealt /\ calls' = calls /\ answers' = answers
    BY <1>6 DEF Step, Send, Receive, FinishBuild, StartQuery
  <2>2. Served' = Served BY <2>1 DEF Served, Slowest
  <2> QED BY <2>1, <2>2
<1>7. ASSUME NEW p \in Parties, Touch(p)
      PROVE  /\ UNCHANGED dealt /\ calls' = calls
             /\ Served' = Served \/ Served' = Served + 1
  <2>1. PICK rows : answers' = [answers EXCEPT ![p] = Append(@, rows)]
    BY <1>7 DEF Touch
  <2>2. UNCHANGED dealt /\ calls' = calls BY <1>7 DEF Touch
  <2>3. DOMAIN answers = Parties BY DEF IInv, Books
  <2>4. \A q \in Parties : Len(answers[q]) \in Nat /\ Served <= Len(answers[q]) BY DEF Mapped
  <2>5. \A q \in Parties : Served' <= Len(answers'[q]) BY DEF Mapped
  <2>6. answers[p] = [m \in 1 .. Len(answers[p]) |-> RowsOf(m)] BY AnswersCount
  <2>7. Len(answers'[p]) = Len(answers[p]) + 1
    <3>1. answers'[p] = Append(answers[p], rows) BY <2>1, <2>3
    <3>2. PICK n \in Nat : n = Len(answers[p]) BY <2>4
    <3>3. answers[p] \in [1 .. n -> {RowsOf(m) : m \in 1 .. n}] BY <2>6, <3>2
    <3>4. answers[p] \in Seq({RowsOf(m) : m \in 1 .. n}) BY <3>2, <3>3, FunctionIsSeq
    <3> QED BY <3>1, <3>4
  <2>8. \A q \in Parties : q # p => answers'[q] = answers[q] BY <2>1, <2>3
  <2>9. Slowest \in Parties /\ Slowest' \in Parties
    <3>1. Slowest \in Parties BY DEF Mapped
    <3>2. Slowest' \in Parties BY DEF Mapped
    <3> QED BY <3>1, <3>2
  <2>10. PICK s \in Parties : s = Slowest BY <2>9
  <2>11. PICK t \in Parties : t = Slowest' BY <2>9
  <2>12. Served = Len(answers[s]) /\ Served' = Len(answers'[t]) BY <2>10, <2>11 DEF Served
  <2>13. Served' <= Served + 1
    <3>1. Served' <= Len(answers'[s]) BY <2>5
    <3>2. Len(answers'[s]) = Len(answers[s]) \/ Len(answers'[s]) = Len(answers[s]) + 1
      BY <2>7, <2>8
    <3>3. Served' \in Nat BY <2>4, <2>7, <2>8, <2>12
    <3> QED BY <2>4, <2>12, <3>1, <3>2, <3>3
  <2>14. Served <= Served' /\ Served' \in Nat /\ Served \in Nat
    <3>1. Len(answers'[t]) = Len(answers[t]) \/ Len(answers'[t]) = Len(answers[t]) + 1
      BY <2>7, <2>8
    <3> QED BY <2>4, <2>12, <3>1
  <2> QED BY <2>2, <2>13, <2>14
<1> QED BY <1>2, <1>3, <1>4, <1>5, <1>6, <1>7 DEF Next

(* The operators ObliviousTable takes from other modules are the same.     *)
LEMMA SameOperators ==
  /\ \A c, n : Table!Asked(c, n) = Asked(c, n)
  /\ \A f : Table!IsInjective(f) = IsInjective(f)
  /\ \A s : Table!ToSet(s) = ToSet(s)
  /\ \A k, X : Table!kSubset(k, X) = kSubset(k, X)
  /\ Table!Entries = Entries /\ Entries \cup Table!Dummies = Rows
  /\ Table!Dummies = Rows \ Entries
<1>1. \A c, n : Table!Asked(c, n) = Asked(c, n) BY DEF Table!Asked, Asked
<1>2. \A f : Table!IsInjective(f) = IsInjective(f) BY DEF Table!IsInjective, IsInjective
<1>3. \A s : Table!ToSet(s) = ToSet(s) BY DEF Table!ToSet, ToSet
<1>4. \A k, X : Table!kSubset(k, X) = kSubset(k, X) 
  BY DEF Table!kSubset, kSubset, Table!Cardinality, Cardinality
<1>5. Table!Entries = Entries BY DEF Table!Entries, Entries
<1>6. Table!Dummies = Rows \ Entries /\ Entries \cup Table!Dummies = Rows
  BY SizesAssumption DEF Table!Dummies, Rows, Entries
<1> QED BY <1>1, <1>2, <1>3, <1>4, <1>5, <1>6

Requests == SubSeq(calls, 1, Served)
Answers == answers[Slowest]

LEMMA Unserved ==
  ASSUME IInv, Mapped, Mapped', [Next]_vars, Served' = Served
  PROVE  UNCHANGED Table!tableVars
<1>1. CallsMade BY DEF IInv
<1>2. /\ UNCHANGED dealt
      /\ Len(calls) <= Len(calls') /\ \A m \in 1 .. Len(calls) : calls'[m] = calls[m]
  BY StepServes
<1>3. PICK f \in 0 .. Len(calls) : f = Served BY DEF Mapped
<1>4. Left' = Left
  <2>1. Left = LeftAfter(f) BY <1>3 DEF Mapped
  <2>2. Left' = LeftAfter(Served)' BY DEF Mapped
  <2>3. LeftAfter(Served)' = LeftAfter(f)' BY <1>3 DEF LeftAfter
  <2>4. LeftAfter(f)' = LeftAfter(f) BY <1>1, <1>2, LeftSame
  <2> QED BY <2>1, <2>2, <2>3, <2>4
<1>5. Answers' = Answers
  <2>1. Answers = [m \in 1 .. f |-> RowsOf(m)] BY <1>3 DEF Mapped, Answers
  <2>2. Answers' = [m \in 1 .. f |-> RowsOf(m)'] BY <1>3 DEF Mapped, Answers
  <2>3. ASSUME NEW m \in 1 .. f PROVE RowsOf(m)' = RowsOf(m)
    <3>1. m \in 0 .. Len(calls) /\ m # 0 BY LenProperties DEF CallsMade
    <3> QED BY <1>1, <1>2, <3>1, PhaseSame
  <2> QED BY <2>1, <2>2, <2>3
<1>6. Requests' = Requests
  <2> DEFINE Q == Seq(Entries \cup {Miss})
  <2>1. calls \in Seq(Q) /\ Len(calls) \in Nat BY <1>1 DEF CallsMade
  <2>2. f \in Nat /\ f \in Int /\ 1 \in Int BY <2>1
  <2>3. \A i \in 1 .. f : calls[i] \in Q /\ calls'[i] \in Q /\ calls'[i] = calls[i]
    BY <1>2, <2>1
  <2> HIDE DEF Q
  <2>4. /\ SubSeq(calls, 1, f) \in Seq(Q) /\ Len(SubSeq(calls, 1, f)) = f
        /\ \A i \in 1 .. f : SubSeq(calls, 1, f)[i] = calls[i]
    BY <2>2, <2>3, SubSeqProperties
  <2>5. /\ SubSeq(calls', 1, f) \in Seq(Q) /\ Len(SubSeq(calls', 1, f)) = f
        /\ \A i \in 1 .. f : SubSeq(calls', 1, f)[i] = calls'[i]
    BY <2>2, <2>3, SubSeqProperties
  <2>6. SubSeq(calls', 1, f) = SubSeq(calls, 1, f)
    BY <2>2, <2>3, <2>4, <2>5, SeqEqual
  <2> QED BY <1>3, <2>6 DEF Requests
<1> QED BY <1>4, <1>5, <1>6 DEF Table!tableVars, Left, Requests, Answers, Served

LEMMA QueryServed ==
  ASSUME IInv, Mapped, Mapped', [Next]_vars, Served' = Served + 1
  PROVE  Table!Next
<1>1. Dealt /\ CallsMade BY DEF IInv
<1>2. PICK f \in 0 .. Len(calls) : f = Served BY DEF Mapped
<1>3. Len(calls) \in Nat /\ calls \in Seq(Seq(Entries \cup {Miss})) BY <1>1 DEF CallsMade
<1>4. PICK g : g = f + 1 OBVIOUS
<1>5. UNCHANGED dealt /\ calls' = calls
  <2>1. f # f + 1 BY <1>3
  <2> QED BY <1>2, <2>1, StepServes
<1>6. g \in 1 .. Len(calls) /\ g = Served' /\ g - 1 = f /\ f \in Nat /\ g \in Nat
  <2>1. g = Served' BY <1>2, <1>4
  <2>2. Served' \in 0 .. Len(calls') BY DEF Mapped
  <2>3. g <= Len(calls) BY <1>5, <2>1, <2>2
  <2> QED BY <1>3, <1>4, <2>1, <2>3
<1>7. PICK asked : asked = calls[g] OBVIOUS
<1>8. PICK n : n = Len(asked) OBVIOUS
<1>9. PICK returned : returned = RowsOf(g) OBVIOUS
<1>10. /\ asked \in Seq(Entries \cup {Miss}) /\ n \in Nat /\ DOMAIN asked = 1 .. n
       /\ returned \in [1 .. n -> Rows]
       /\ \A i \in 1 .. n :
            /\ asked[i] # Miss => returned[i] = asked[i] /\ returned[i] \in Entries
            /\ asked[i] = Miss => returned[i] \notin Entries
       /\ Asked(calls, g) = Asked(calls, f) + n /\ Asked(calls, f) \in Nat
       /\ Asked(calls, g) <= NumDummies
  BY <1>1, <1>6, <1>7, <1>8, <1>9, CallRows
<1>11. n > 0 BY <1>3, <1>1, <1>6, <1>7, <1>8 DEF CallsMade
<1>12. n \in 1 .. NumDummies BY <1>10, <1>11, SizesAssumption
<1>13. asked \in [1 .. n -> Entries \cup {Miss}] BY <1>8, <1>10
<1>14. \A i \in 1 .. n : returned[i] \in LeftAfter(f)
  <2>1. ASSUME NEW i \in 1 .. n PROVE returned[i] \in LeftAfter(f)
    <3>1. returned[i] \in Rows BY <1>10
    <3>2. returned[i] \in Entries => Placed(returned[i])
      <4>1. ASSUME returned[i] \in Entries PROVE Placed(asked[i]) /\ returned[i] = asked[i]
        <5>1. asked[i] # Miss BY <1>10, <4>1
        <5>2. g \in DOMAIN calls /\ i \in DOMAIN calls[g] BY <1>3, <1>6, <1>7, <1>10
        <5> QED BY <1>1, <1>7, <1>10, <5>1, <5>2 DEF CallsMade
      <4> QED BY <4>1
    <3>3. ASSUME NEW m \in 1 .. f, returned[i] \in ToSet(RowsOf(m)) PROVE FALSE
      <4>1. m \in 1 .. Len(calls) /\ m <= g /\ m # g BY <1>3, <1>4
      <4>2. RowsOf(m) \in [1 .. Len(calls[m]) -> Rows] BY <1>1, <4>1, CallRows
      <4>3. PICK j \in 1 .. Len(calls[m]) : RowsOf(m)[j] = RowsOf(g)[i]
        BY <1>9, <3>3, <4>2 DEF ToSet
      <4> QED BY <1>1, <1>6, <1>7, <1>8, <4>1, <4>3, RowsDistinct
    <3> QED BY <3>1, <3>2, <3>3 DEF LeftAfter
  <2> QED BY <2>1
<1>15. Left = LeftAfter(f) BY <1>2 DEF Mapped
<1>16. returned \in [DOMAIN asked -> Left] BY <1>10, <1>14, <1>15
<1>17. \A i \in DOMAIN asked : returned[i] \in IF asked[i] = Miss THEN Left \cap Table!Dummies
                                              ELSE Left \cap {asked[i]}
  <2>1. Table!Dummies = Rows \ Entries BY SameOperators
  <2> QED BY <1>10, <1>16, <2>1
<1>18. IsInjective(returned)
  <2>1. ASSUME NEW i \in 1 .. n, NEW j \in 1 .. n, returned[i] = returned[j] PROVE i = j
    <3>1. g <= g BY <1>6
    <3> QED BY <1>1, <1>6, <1>7, <1>8, <1>9, <2>1, <3>1, RowsDistinct
  <2> QED BY <1>10, <2>1 DEF IsInjective
<1>19. Left' = Left \ ToSet(returned)
  <2>1. Left' = LeftAfter(Served)' BY DEF Mapped
  <2>2. LeftAfter(Served)' = LeftAfter(g)' BY <1>6 DEF LeftAfter
  <2>3. LeftAfter(g)' = LeftAfter(g)
    <3>1. g \in 0 .. Len(calls) BY <1>6
    <3> QED BY <1>1, <1>5, <3>1, LeftSame
  <2>4. \A m : m \in 1 .. g <=> m \in 1 .. f \/ m = g BY <1>4, <1>6
  <2>5. LeftAfter(g) = LeftAfter(f) \ ToSet(returned) BY <1>9, <2>4 DEF LeftAfter
  <2> QED BY <1>15, <2>1, <2>2, <2>3, <2>5
<1>20. Answers' = Append(Answers, returned)
  <2>1. Answers = [m \in 1 .. f |-> RowsOf(m)] BY <1>2 DEF Mapped, Answers
  <2>2. Answers' = [m \in 1 .. g |-> RowsOf(m)]
    <3>1. Answers' = [m \in 1 .. g |-> RowsOf(m)'] BY <1>6 DEF Mapped, Answers
    <3>2. \A m : RowsOf(m)' = RowsOf(m) BY <1>5, ValuesSame
    <3> QED BY <3>1, <3>2
  <2> DEFINE T == {RowsOf(m) : m \in 1 .. g}
  <2>3. \A m \in 1 .. f : m \in 1 .. g /\ RowsOf(m) \in T BY <1>4, <1>6
  <2>4. Answers \in [1 .. f -> T] BY <2>1, <2>3
  <2>5. Answers \in Seq(T) /\ Len(Answers) = f BY <1>6, <2>4, FunctionIsSeq
  <2>6. returned \in T BY <1>6, <1>9
  <2>7. Answers' \in [1 .. g -> T] BY <2>2
  <2>8. Answers' \in Seq(T) /\ Len(Answers') = g BY <1>6, <2>7, FunctionIsSeq
  <2> HIDE DEF T
  <2>9. /\ Append(Answers, returned) \in Seq(T) /\ Len(Append(Answers, returned)) = f + 1
        /\ \A m \in 1 .. f : Append(Answers, returned)[m] = Answers[m]
        /\ Append(Answers, returned)[f + 1] = returned
    BY <2>5, <2>6, AppendProperties
  <2>10. ASSUME NEW m \in 1 .. g PROVE Answers'[m] = Append(Answers, returned)[m]
    <3>1. CASE m \in 1 .. f
      <4>1. Answers'[m] = RowsOf(m) /\ Answers[m] = RowsOf(m) BY <2>1, <2>2, <3>1
      <4> QED BY <2>9, <3>1, <4>1
    <3>2. CASE m = g
      <4>1. Answers'[m] = RowsOf(m) BY <2>2
      <4> QED BY <1>4, <1>9, <2>9, <3>2, <4>1
    <3>3. m \in 1 .. f \/ m = g BY <1>4, <1>6
    <3> QED BY <3>1, <3>2, <3>3
  <2> QED BY <1>4, <2>8, <2>9, <2>10, SeqEqual
<1>21. /\ Requests' = Append(Requests, asked)
       /\ Asked(Requests', Len(Requests')) <= NumDummies
  <2> DEFINE Q == Seq(Entries \cup {Miss})
  <2>1. Requests = SubSeq(calls, 1, f) /\ Requests' = SubSeq(calls, 1, g)
    BY <1>2, <1>5, <1>6 DEF Requests
  <2>2. calls \in Seq(Q) /\ (\A i \in 1 .. g : calls[i] \in Q) BY <1>3, <1>6
  <2>3. f \in Int /\ g \in Int /\ 1 \in Int /\ \A i \in 1 .. f : i \in 1 .. g BY <1>4, <1>6
  <2> HIDE DEF Q
  <2>4. /\ SubSeq(calls, 1, f) \in Seq(Q) /\ Len(SubSeq(calls, 1, f)) = f
        /\ \A i \in 1 .. f : SubSeq(calls, 1, f)[i] = calls[i]
    BY <1>6, <2>2, <2>3, SubSeqProperties
  <2>5. /\ SubSeq(calls, 1, g) \in Seq(Q) /\ Len(SubSeq(calls, 1, g)) = g
        /\ \A i \in 1 .. g : SubSeq(calls, 1, g)[i] = calls[i]
    BY <1>6, <2>2, <2>3, SubSeqProperties
  <2>6. asked \in Q BY <1>6, <1>7, <2>2
  <2>7. /\ Append(SubSeq(calls, 1, f), asked) \in Seq(Q)
        /\ Len(Append(SubSeq(calls, 1, f), asked)) = f + 1
        /\ \A i \in 1 .. f : Append(SubSeq(calls, 1, f), asked)[i] = calls[i]
        /\ Append(SubSeq(calls, 1, f), asked)[f + 1] = asked
    BY <2>4, <2>6, AppendProperties
  <2>8. \A i \in 1 .. g : i \in 1 .. f \/ i = f + 1 BY <1>4, <1>6
  <2>9. SubSeq(calls, 1, g) = Append(SubSeq(calls, 1, f), asked)
    BY <1>4, <1>7, <2>5, <2>7, <2>8, SeqEqual
  <2>10. Asked(SubSeq(calls, 1, g), g) = Asked(calls, g) BY <1>6, <2>5, AskedSame
  <2> QED BY <1>10, <2>1, <2>5, <2>9, <2>10
<1>22. Table!Query(asked)
  <2>1. Table!Query(asked) <=>
          /\ Requests' = Append(Requests, asked)
          /\ Table!Asked(Requests', Len(Requests')) <= NumDummies
          /\ \E r \in [DOMAIN asked -> Left] :
               /\ \A i \in DOMAIN asked : r[i] \in Table!AnswersTo(asked[i])
               /\ Table!IsInjective(r)
               /\ Left' = Left \ Table!ToSet(r)
               /\ Answers' = Append(Answers, r)
    BY DEF Table!Query, Requests, Left, Answers, Served
  <2>2. \A i \in DOMAIN asked : returned[i] \in Table!AnswersTo(asked[i])
    BY <1>17 DEF Table!AnswersTo, Left
  <2>3. /\ Table!Asked(Requests', Len(Requests')) <= NumDummies
        /\ Table!IsInjective(returned) /\ Left' = Left \ Table!ToSet(returned)
    BY <1>18, <1>19, <1>21, SameOperators
  <2> QED BY <1>16, <1>20, <1>21, <2>1, <2>2, <2>3
<1>23. asked \in [1 .. n -> Table!Entries \cup {Miss}] BY <1>13, SameOperators
<1> QED BY <1>12, <1>22, <1>23 DEF Table!Next

LEMMA InitMapped ==
  ASSUME Init
  PROVE  Table!Init
<1>1. IInv BY InitHolds
<1>2. Mapped BY <1>1, MappedHolds
<1>3. Dealt /\ CallsMade BY <1>1 DEF IInv
<1>4. Answers = <<>> /\ Served = 0
  <2>1. Slowest \in Parties BY <1>2 DEF Mapped
  <2>2. answers = [p \in Parties |-> <<>>] BY DEF Init
  <2>3. answers[Slowest] = <<>> BY <2>1, <2>2
  <2> QED BY <2>3 DEF Answers, Served
<1>5. Requests = <<>>
  <2>1. calls = <<>> BY DEF Init
  <2>2. 1 \in Int /\ 0 \in Int /\ 0 < 1 OBVIOUS
  <2>3. SubSeq(calls, 1, 0) = <<>> BY <2>2, SubSeqEmpty
  <2> QED BY <1>4, <2>3 DEF Requests
<1> DEFINE Stash == {builderOrder[s] : s \in ToSet(stashed)}
<1>6. /\ stashed \in Seq(Slots) /\ Len(stashed) = StashSize
      /\ ToSet(stashed) = {stashed[i] : i \in 1 .. StashSize}
  BY <1>3, AboutStash DEF ToSet
<1>7. /\ Stash \subseteq Entries /\ \A r \in Entries : Placed(r) <=> r \notin Stash
  <2>1. \A i \in 1 .. StashSize :
          /\ stashed[i] \in Slots /\ builderOrder[stashed[i]] \in Entries
          /\ ~Placed(builderOrder[stashed[i]])
    BY <1>3, StashRows
  <2>2. Stash \subseteq Entries BY <1>6, <2>1
  <2>3. ASSUME NEW r \in Entries, r \in Stash PROVE ~Placed(r) BY <1>6, <2>1, <2>3
  <2>4. ASSUME NEW r \in Entries, r \notin Stash PROVE Placed(r)
    <3>1. r \in Rows BY SizesAssumption DEF Entries, Rows
    <3>2. builderOrder[SlotOf(r)] = r BY <1>3, <3>1, RowsAndSlots
    <3> QED BY <2>4, <3>2 DEF Placed
  <2> QED BY <2>2, <2>3, <2>4
<1>8. Cardinality(Stash) = StashSize
  <2>1. [i \in 1 .. StashSize |-> builderOrder[stashed[i]]] \in Bijection(1 .. StashSize, Stash)
    <3> DEFINE h == [i \in 1 .. StashSize |-> builderOrder[stashed[i]]]
    <3>1. h \in [1 .. StashSize -> Stash] BY <1>6
    <3>2. ASSUME NEW i \in 1 .. StashSize, NEW j \in 1 .. StashSize, h[i] = h[j] PROVE i = j
      <4>1. stashed[i] \in Slots /\ stashed[j] \in Slots /\ IsInjective(stashed)
            /\ stashed \in [1 .. StashSize -> Slots]
        BY <1>3 DEF Dealt
      <4>2. builderOrder[stashed[i]] = builderOrder[stashed[j]] BY <3>2
      <4>3. stashed[i] = stashed[j] BY <1>3, <4>1, <4>2, RowsAndSlots
      <4> QED BY <4>1, <4>3 DEF IsInjective
    <3>3. \A r \in Stash : \E i \in 1 .. StashSize : h[i] = r BY <1>6
    <3> HIDE DEF Stash
    <3>4. IsInjective(h) BY <3>1, <3>2 DEF IsInjective
    <3> QED BY <3>1, <3>3, <3>4 DEF Bijection, Injection, Surjection
  <2>2. ExistsBijection(1 .. StashSize, Stash) BY <2>1 DEF ExistsBijection
  <2>3. IsFiniteSet(1 .. StashSize) /\ Cardinality(1 .. StashSize) = StashSize
    <3>1. 1 \in Int /\ StashSize \in Int /\ StashSize \in Nat BY SizesAssumption
    <3>2. /\ IsFiniteSet(1 .. StashSize)
          /\ Cardinality(1 .. StashSize) = IF 1 > StashSize THEN 0 ELSE StashSize - 1 + 1
      BY <3>1, FS_Interval, Zenon
    <3> QED BY <3>1, <3>2
  <2> HIDE DEF Stash
  <2> QED BY <2>2, <2>3, FS_Bijection
<1>9. Stash \in Table!kSubset(StashSize, Table!Entries)
  <2>1. Stash \in kSubset(StashSize, Entries) BY <1>7, <1>8 DEF kSubset
  <2> QED BY <2>1, SameOperators
<1>10. Left = (Table!Entries \ Stash) \cup Table!Dummies
  <2>1. Left = LeftAfter(0) BY <1>2, <1>4 DEF Mapped
  <2>2. LeftAfter(0) = {r \in Rows : r \in Entries => Placed(r)}
    <3>1. 1 .. 0 = {} OBVIOUS
    <3> QED BY <3>1 DEF LeftAfter
  <2>3. /\ Table!Entries = Entries /\ Table!Dummies = Rows \ Entries
        /\ Entries \cup Table!Dummies = Rows
    BY SameOperators
  <2> HIDE DEF Stash
  <2> QED BY <1>7, <2>1, <2>2, <2>3
<1> QED BY <1>4, <1>5, <1>9, <1>10 DEF Table!Init, Left, Requests, Answers, Served

(* Together the three parties are the table their level relies on: a call  *)
(* of query_many is served when the last of them has finished it, returns  *)
(* the entries asked for and a fresh dummy for every miss, and takes       *)
(* nothing else out (query_many, extract_untouched).                       *)
THEOREM PartiesAreTable == Spec => IsTable
<1>1. Init => Table!Init BY InitMapped
<1>2. IInv /\ Mapped /\ Mapped' /\ [Next]_vars => [Table!Next]_(Table!tableVars)
  <2>1. SUFFICES ASSUME IInv, Mapped, Mapped', [Next]_vars
                 PROVE  [Table!Next]_(Table!tableVars)
    OBVIOUS
  <2>2. CASE Served' = Served BY <2>1, <2>2, Unserved
  <2>3. CASE Served' = Served + 1 BY <2>1, <2>3, QueryServed
  <2> QED BY <2>1, <2>2, <2>3, StepServes
<1>3. IInv => Mapped BY MappedHolds
<1> QED BY <1>1, <1>2, <1>3, TableInvariant, PTL DEF Spec, IsTable, Table!Spec
=============================================================================
