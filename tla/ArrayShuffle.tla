---------------------------- MODULE ArrayShuffle ----------------------------
(***************************************************************************)
(* Three parties shuffle shared arrays by permutations of which each pair  *)
(* of neighbours knows one (primitives/src/array_shuffle.rs).  In a step   *)
(* the pair that knows a permutation gets the array as two shares, permutes*)
(* them, and all three share the result anew.  Arrays of indices can be    *)
(* put through the inverse at the same time.                               *)
(*                                                                         *)
(* Party p draws from two random streams: its own, which its successor     *)
(* has too, and its predecessor's.                                         *)
(***************************************************************************)
EXTENDS Rep3, LocalPermutation

CONSTANTS
  Length,            (* the length of the arrays                             *)
  Streams,         (* the streams: sequences of numbers                    *)
  ElementMax,      (* the largest number in a stream: u128::MAX            *)
  Secrets,         (* the arrays to shuffle                                *)
  Components,      (* the first two components of a shared value           *)
  None

Indices == 0 .. Length - 1

(* Streams do not end; here they are long enough for the choices at least. *)
ASSUME StreamsAssumption ==
  /\ Length \in Nat /\ ElementMax \in Nat
  /\ \A s \in Streams : s \in Seq(Nat) /\ Len(s) >= Length - 1

ASSUME SecretsAssumption == \A s \in Secrets : s = [i \in Indices |-> s[i]]

ASSUME NoneAssumption ==
  /\ None \notin Parties
  /\ \A next, prev \in [Indices -> Indices] : None # [next |-> next, prev |-> prev]

VARIABLES
  secret,          (* what the forward array holds at first                *)
  stream,          (* stream[p] is the one p shares with its successor     *)
  steps,           (* the owners of the permutations still to be applied,  *)
                   (* forward and inverse                                  *)
  step,            (* how many steps a party has begun                     *)
  position,        (* of each party in its own stream and in the other     *)
  shuffler,        (* the permutations a party knows                       *)
  forward, inverse,(* the arrays of shares                                 *)
  local,           (* the components computed in a step under way          *)
  net              (* net[p]: what p has sent to its successor             *)

vars == <<secret, stream, steps, step, position, shuffler, forward, inverse, local, net>>

---------------------------------------------------------------------------
(* Party p's elements of the n-th call of random_elements from now.        *)
Own(p, n)   == stream[p][position[p].own + n]
Other(p, n) == stream[PrevId(p)][position[p].other + n]

Moved(p, n) == [own |-> position[p].own + n, other |-> position[p].other + n]

SharesOf(values, components, p) ==
  [i \in Indices |->
     ShareOf([q \in Parties |-> IF q = 2 THEN Xor(values[i], Xor(components[0], components[1]))
                                ELSE components[q]], p)]

(* The index array is shared by promote_to_trivial_share.                  *)
IndexShares(p) == [i \in Indices |-> PromotePublic(p, BitsOf(i))]

(* The steps of forward_many, of shuffle_many with both kinds of arrays,   *)
(* and of forward_many_known_to_p_and_next.                                *)
StepsOfOperations ==
  {<<<<0, None>>, <<1, None>>, <<2, None>>>>, <<<<0, 2>>, <<1, 1>>, <<2, 0>>>>}
  \cup {<<<<p, None>>>> : p \in Parties}

Init ==
  /\ secret \in Secrets
  /\ stream \in [Parties -> Streams]
  /\ steps \in StepsOfOperations
  /\ step = [p \in Parties |-> 0]
  /\ position = [p \in Parties |-> [own |-> 0, other |-> 0]]
  /\ shuffler = [p \in Parties |-> None]
  /\ \E components \in Components :
       forward = [p \in Parties |-> SharesOf(secret, components, p)]
  /\ inverse = [p \in Parties |-> IndexShares(p)]
  /\ local = [p \in Parties |-> <<>>]
  /\ net = [p \in Parties |-> <<>>]

(* The multiple of the bound below which elements are used: above it they  *)
(* would favour the small remainders.                                      *)
Zone(bound) == ElementMax - (ElementMax % bound)

(* sample_indices: p draws from both its streams until both elements are   *)
(* below the zone; the number of the call that ends it, after `last` calls.*)
SampleIndices(p, bound, last) ==
  Min({n \in last + 1 .. Len(stream[p]) - position[p].own :
         Own(p, n) < Zone(bound) /\ Other(p, n) < Zone(bound)})

(* For each index the call that gives p its choice; none for index 0.      *)
Draws(p) ==
  LET draws[i \in Indices] == IF i = 0 THEN 0 ELSE SampleIndices(p, i + 1, draws[i - 1])
  IN  draws

CallsOf(draws) == IF Length = 0 THEN 0 ELSE draws[Length - 1]

(* The choices one of the two streams gives with them.                     *)
ChoicesFrom(elements) ==
  [i \in Indices |-> IF i = 0 THEN 0 ELSE elements[i] % (i + 1)]

(* ArrayShuffler::new.                                                     *)
New(p) ==
  LET draws == Draws(p)
  IN  /\ shuffler[p] = None
      /\ shuffler' = [shuffler EXCEPT ![p] =
           [next |-> ChoicesFrom([i \in Indices |-> Own(p, draws[i])]),
            prev |-> ChoicesFrom([i \in Indices |-> Other(p, draws[i])])]]
      /\ position' = [position EXCEPT ![p] = Moved(p, CallsOf(draws))]
      /\ UNCHANGED <<secret, stream, steps, step, forward, inverse, local, net>>

(* permutation_for, applied to the array of two-party shares.              *)
PermutedBy(Apply(_, _), p, owner, twoShares) ==
  CASE p = owner -> Apply(shuffler[p].next, twoShares)
    [] p = NextId(owner) -> Apply(shuffler[p].prev, twoShares)
    [] OTHER -> twoShares

(* An array's part of the round: its i-th element is masked with the       *)
(* (first + i)-th elements of p's streams.                                 *)
Masked(p, owner, twoShares, first) ==
  [i \in Indices |->
     LocalComponent(p, twoShares[i], owner, NextId(owner),
                    BitsOf(Own(p, first + i)), BitsOf(Other(p, first + i)))]

TwoShares(p, shares, owner) ==
  [i \in Indices |-> TwoShare(p, shares[i], owner, NextId(owner))]

(* Faulty variant of Inverted: the inverse array goes through the          *)
(* permutation itself.                                                     *)
InvertedForward(p, owner) ==
  PermutedBy(Shuffle, p, owner, TwoShares(p, inverse[p], owner))

Inverted(p, owner) ==
  PermutedBy(InverseShuffle, p, owner, TwoShares(p, inverse[p], owner))

(* Faulty variant of Drawn: a party outside the pair draws no masks.       *)
DrawnByPair(p) ==
  LET owners == steps[step[p] + 1]
  IN  (IF p \in {owners[1], NextId(owners[1])} THEN Length ELSE 0)
      + (IF owners[2] = None THEN 0 ELSE Length)

(* How often random_elements is called in p's next step.                   *)
Drawn(p) == IF steps[step[p] + 1][2] = None THEN Length ELSE 2 * Length

(* apply_step_many up to the round of reshare_many.                        *)
BeginStep(p) ==
  /\ shuffler[p] # None /\ local[p] = <<>> /\ step[p] < Len(steps)
  /\ LET owner == steps[step[p] + 1]
         fwd == Masked(p, owner[1],
                       PermutedBy(Shuffle, p, owner[1], TwoShares(p, forward[p], owner[1])), 1)
         inv == IF owner[2] = None THEN <<>>
                ELSE Masked(p, owner[2], Inverted(p, owner[2]), Length + 1)
     IN  /\ local' = [local EXCEPT ![p] = <<[fwd |-> fwd, inv |-> inv]>>]
         /\ net' = [net EXCEPT ![p] = Append(@, [fwd |-> fwd, inv |-> inv])]
  /\ position' = [position EXCEPT ![p] = Moved(p, Drawn(p))]
  /\ step' = [step EXCEPT ![p] = @ + 1]
  /\ UNCHANGED <<secret, stream, steps, shuffler, forward, inverse>>

(* The rest of it.                                                         *)
EndStep(p) ==
  /\ local[p] # <<>> /\ net[PrevId(p)] # <<>>
  /\ LET own == Head(local[p])
         received == Head(net[PrevId(p)])
     IN  /\ forward' = [forward EXCEPT ![p] =
              [i \in Indices |-> Recombine(own.fwd[i], received.fwd[i])]]
         /\ inverse' = [inverse EXCEPT ![p] =
              IF steps[step[p]][2] = None THEN @
              ELSE [i \in Indices |-> Recombine(own.inv[i], received.inv[i])]]
  /\ net' = [net EXCEPT ![PrevId(p)] = Tail(@)]
  /\ local' = [local EXCEPT ![p] = <<>>]
  /\ UNCHANGED <<secret, stream, steps, step, position, shuffler>>

Finished(p) == shuffler[p] # None /\ local[p] = <<>> /\ step[p] = Len(steps)

Done == (\A p \in Parties : Finished(p)) /\ UNCHANGED vars

Next ==
  \/ \E p \in Parties : New(p) \/ BeginStep(p) \/ EndStep(p)
  \/ Done

Spec == Init /\ [][Next]_vars
=============================================================================
