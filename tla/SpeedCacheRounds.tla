-------------------------- MODULE SpeedCacheRounds --------------------------
(***************************************************************************)
(* The queries of a speed cache on shares, carried along with the rounds   *)
(* of the LowMC cipher that tags the same addresses                        *)
(* (circuits/src/lowmc/packed_u8_lanes_with_speed_cache.rs,                 *)
(* data-structures/src/speed_cache.rs, primitives/src/utils.rs).  In every *)
(* round each party sends the next one batch of AND gates: those of the    *)
(* cipher's S-boxes and, behind them, those that compare all cached        *)
(* addresses with all queries or, one round later, select what matched.    *)
(* Without live levels there is nothing to tag and the rounds are the      *)
(* cache's alone (is_zero_many, cmux_many_custom).                         *)
(*                                                                         *)
(* A lane is one tag of one query; a group of them shares the bits of a    *)
(* byte, and so does a chunk of an address.                                *)
(***************************************************************************)
EXTENDS LowMC, RecordValues

CONSTANTS
  RoundKeys,          (* of each live level and round                      *)
  LevelCounts,        (* how many levels may be live                       *)
  Byte,               (* the bits of a byte; an address has four           *)
  Sentinel,           (* the bit that tells a dummy                        *)
  Caches,             (* sequences of [x, y, alibi]                        *)
  Queries,            (* sequences of addresses                            *)
  None

Word == 0 .. 4 * Byte - 1
Bits == 0 .. Byte - 1

(* X::BITS.ilog2().                                                        *)
ZeroCheckRounds == CHOOSE n \in 1 .. 4 * Byte : 2 ^ n = 4 * Byte

ASSUME RoundsAssumption == Rounds > ZeroCheckRounds /\ Word \subseteq Block

ASSUME CachesAssumption ==
  \A c \in Caches : \A e \in DOMAIN c :
    /\ c[e].x \subseteq Word /\ c[e].alibi \subseteq Bits
    /\ c[e].y \subseteq 0 .. ModulusBits - 1

VARIABLES
  cache, queries, numLevels,   (* what is asked of what                    *)
  addrs,      (* the shares of the cached addresses                        *)
  tags,       (* the wires of the cipher, group by group                   *)
  zero,       (* the comparisons, item by item: the chunks still to join   *)
  selected,   (* x, y and alibi of each item, if its address matched       *)
  round,      (* how many rounds a party has finished                      *)
  sent,       (* its part of the gates of the round it is in               *)
  net,        (* net[p]: what p has sent to its successor                  *)
  answers     (* per query: y, alibi and found                             *)

vars == <<cache, queries, numLevels, addrs, tags, zero, selected, round, sent, net, answers>>
asked == <<cache, queries, numLevels>>

---------------------------------------------------------------------------
(* Lanes: the levels of the first query, then those of the second, in      *)
(* groups of a byte, of which the last may be partly used.                 *)
Total == numLevels * Len(queries)
Groups == 1 .. (Total + Byte - 1) \div Byte
GroupLen(g) == Min({Byte, Total - (g - 1) * Byte})

QueryOfLane(l) == (l \div numLevels) + 1
LevelOfLane(l) == (l % numLevels) + 1

(* What each lane of a group is given.                                     *)
OfLanes(g, F(_)) == [k \in 1 .. GroupLen(g) |-> F((g - 1) * Byte + k - 1)]

(* Items: the cached entries for the first query, then for the second.     *)
Items == 1 .. Len(cache) * Len(queries)
EntryOf(i) == ((i - 1) % Len(cache)) + 1
ItemsOf(q) == (q - 1) * Len(cache) + 1 .. q * Len(cache)
QueryOf(i) == ((i - 1) \div Len(cache)) + 1

(* A share of a value that differs from party to party.                    *)
Share(value, seed, p) ==
  ShareOf([q \in Parties |-> CASE q = 0 -> BitsOf(seed % 4)
                               [] q = 1 -> BitsOf((seed * seed) % 8)
                               [] q = 2 -> Xor(value, Xor(BitsOf(seed % 4), BitsOf((seed * seed) % 8)))], p)

RoundKey(p, level, r) == Share(RoundKeys[level][r + 1], level + r, p)

(* precompute_round_keys and combine_round_keys, over the lanes' levels.   *)
CombinedKeys(p, g, r) == BitSlice(OfLanes(g, LAMBDA l : RoundKey(p, LevelOfLane(l), r)))

CachedX(p, e)     == Share(cache[e].x, e, p)
QueriedX(p, q)    == Share(queries[q], q + 3, p)

(* A value that has come out of a table by from_blocks: the blocks' masks  *)
(* have left bits above the modulus in its components.                     *)
CachedY(p, e) ==
  LET stray == (0 .. Limbs * LimbBits - 1) \ (0 .. ModulusBits - 1)
  IN  XorShares(Share(cache[e].y, e + 1, p),
                ShareOf([q \in Parties |-> IF q = e % 3 THEN {} ELSE stray], p))

(* The alibi's bits are public: they are set, level by level, over what    *)
(* shares the byte has.                                                    *)
CachedAlibi(p, e) ==
  FoldSet(LAMBDA level, s : SetAlibiBit(s, level, p), Share({}, e + 2, p), cache[e].alibi)

(* slice_input_groups.                                                     *)
SlicedInputs(p, g) == BitSlice(OfLanes(g, LAMBDA l : QueriedX(p, QueryOfLane(l))))

(* regroup_tags_by_input: what is packed of the groups' lanes, in order.   *)
Tags(p) ==
  LET outputs == FlattenSeq([g \in Groups |-> PackLanes(tags[p][g], GroupLen(g))])
  IN  [q \in DOMAIN queries |-> SubSeq(outputs, (q - 1) * numLevels + 1, q * numLevels)]

(* The four chunks of the complement of x ^ query.                         *)
ZeroValue(p, i) ==
  LET differs == XorShares(CachedX(p, EntryOf(i)), QueriedX(p, QueryOf(i)))
      equal == OnShare(LAMBDA c : Word \ c, differs)
  IN  [k \in 1 .. 4 |->
         OnShare(LAMBDA c : {j \in Bits : j + (k - 1) * Byte \in c}, equal)]

Init ==
  /\ cache \in Caches /\ queries \in Queries /\ numLevels \in LevelCounts
  /\ addrs = [p \in Parties |-> [e \in DOMAIN cache |-> CachedX(p, e)]]
  /\ tags = [p \in Parties |-> [g \in Groups |->
       XorShares(SlicedInputs(p, g), CombinedKeys(p, g, 0))]]
  /\ zero = [p \in Parties |-> [i \in Items |-> ZeroValue(p, i)]]
  /\ selected = [p \in Parties |-> None]
  /\ round = [p \in Parties |-> 0]
  /\ sent = [p \in Parties |-> None]
  /\ net = [p \in Parties |-> <<>>]
  /\ answers = [p \in Parties |-> None]

(* encrypt_lane_groups has its rounds; without it the cache's are counted. *)
TotalRounds ==
  IF numLevels > 0 THEN Rounds ELSE IF cache # <<>> THEN ZeroCheckRounds + 1 ELSE 0

---------------------------------------------------------------------------
(* The S-boxes, over all groups, and the rest of a round for one group.    *)
SboxGates(p) == FlattenSeq([g \in Groups |-> SboxAnds(tags[p][g], Bits)])

NumSboxGates == 3 * Sboxes * Cardinality(Groups)

(* Faulty variant of GroupAnds: the groups are counted from the end of the *)
(* batch.                                                                  *)
GroupAndsFromEnd(ands, g) ==
  SubSeq(ands, Len(ands) - 3 * Sboxes * g + 1, Len(ands) - 3 * Sboxes * (g - 1))

(* The gates of a group, from its place in the batch on.                   *)
GroupAnds(ands, g) == SubSeq(ands, 3 * Sboxes * (g - 1) + 1, 3 * Sboxes * g)

NextTags(p, g, ands) ==
  XorShares(
    XorConstants(p, round[p],
                 LinearLanes(round[p], ApplySboxAnds(tags[p][g], GroupAnds(ands, g)),
                             GroupLen(g)),
                 LaneMask(GroupLen(g))),
    CombinedKeys(p, g, round[p] + 1))

---------------------------------------------------------------------------
(* The comparisons.                                                        *)

Shifted(s, k) == OnShare(LAMBDA c : {j \in Bits : j + k \in c}, s)

(* How far the last chunk is shifted onto itself.                          *)
Distance(r) == 2 ^ (ZeroCheckRounds - 1 - r)

(* pairs_into joins neighbours; is_zero_many the upper half with the lower.*)
Pairs(value, r) ==
  CASE Len(value) = 4 /\ numLevels > 0 ->
         <<<<value[1], value[2], Bits>>, <<value[3], value[4], Bits>>>>
    [] Len(value) = 4 /\ numLevels = 0 ->
         <<<<value[1], value[3], Bits>>, <<value[2], value[4], Bits>>>>
    [] Len(value) = 2 -> <<<<value[1], value[2], Bits>>>>
    [] Len(value) = 1 -> <<<<value[1], Shifted(value[1], Distance(r)), Bits>>>>

Compares(r) == cache # <<>> /\ r < ZeroCheckRounds
Selects(r)  == cache # <<>> /\ r = ZeroCheckRounds

(* found_bits.                                                             *)
Found(p, i) == OnShare(LAMBDA c : c \cap {0}, zero[p][i][1])

(* A block of a value, on both components.                                 *)
BlockOf(share, k) == OnShare(LAMBDA c : ToBlocks(c)[k], share)

AddressGates(p) ==
  [i \in Items |-> <<BitToMask(Found(p, i), Word), addrs[p][EntryOf(i)], Word>>]

AlibiGates(p, bits) ==
  [i \in Items |-> <<BitToMask(Found(p, i), bits), CachedAlibi(p, EntryOf(i)), bits>>]

(* cmux_and_round: the addresses, then the values block by block, then the *)
(* alibis, in a block each.                                                *)
SelectBlockwise(p) ==
  AddressGates(p)
    \o FlattenSeq([k \in 1 .. NumBlocks |-> [i \in Items |->
         <<BitToMask(Found(p, i), BlockBits), BlockOf(CachedY(p, EntryOf(i)), k), BlockBits>>]])
    \o AlibiGates(p, BlockBits)

(* cmux_many_custom: the addresses, the alibis and the values, each in its *)
(* own type.                                                               *)
SelectByType(p) ==
  AddressGates(p) \o AlibiGates(p, Bits)
    \o [i \in Items |-> <<BitToMask(Found(p, i), AllOnes), CachedY(p, EntryOf(i)), SampledBits>>]

SelectGates(p) == IF numLevels > 0 THEN SelectBlockwise(p) ELSE SelectByType(p)

CacheGates(p) ==
  CASE Compares(round[p]) -> FlattenSeq([i \in Items |-> Pairs(zero[p][i], round[p])])
    [] Selects(round[p]) -> SelectGates(p)
    [] OTHER -> <<>>

Gates(p) == SboxGates(p) \o CacheGates(p)

(* Faulty variant of CacheAnds: from the beginning of the batch.           *)
CacheAndsFromStart(ands) == ands

(* What is split off behind the S-boxes.                                   *)
CacheAnds(ands) == SubSeq(ands, NumSboxGates + 1, Len(ands))

(* apply: what is left of each item's chunks.                              *)
Joined(p, ands) ==
  IF Len(ands) = 2 * Cardinality(Items)
  THEN [i \in Items |-> <<ands[2 * i - 1], ands[2 * i]>>]
  ELSE [i \in Items |-> <<ands[i]>>]

ValueOf(blocks) ==
  [a |-> FromBlocks([k \in DOMAIN blocks |-> blocks[k].a]),
   b |-> FromBlocks([k \in DOMAIN blocks |-> blocks[k].b])]

(* The columns of the selection, taken apart again.                        *)
SelectedFrom(ands) ==
  LET n == Cardinality(Items)
  IN  [i \in Items |->
         IF numLevels > 0
         THEN [x     |-> ands[i],
               y     |-> ValueOf([k \in 1 .. NumBlocks |-> ands[k * n + i]]),
               alibi |-> OnShare(LAMBDA c : c \cap Bits, ands[(NumBlocks + 1) * n + i])]
         ELSE [x |-> ands[i], alibi |-> ands[n + i], y |-> ands[2 * n + i]]]

---------------------------------------------------------------------------
(* A party computes its part of the round's gates and sends it on.         *)
SendRound(p) ==
  /\ round[p] < TotalRounds /\ sent[p] = None
  /\ LET gates == Gates(p)
         local == [g \in DOMAIN gates |->
                     LocalGate(p, round[p], gates, g)]
     IN  /\ sent' = [sent EXCEPT ![p] = local]
         /\ net' = [net EXCEPT ![p] = Append(@, local)]
  /\ UNCHANGED <<asked, addrs, tags, zero, selected, round, answers>>

(* With its predecessor's part the party has shares of the gates.          *)
EndRound(p) ==
  /\ sent[p] # None /\ net[PrevId(p)] # <<>>
  /\ Len(Head(net[PrevId(p)])) = Len(sent[p])
  /\ LET received == Head(net[PrevId(p)])
         ands == [g \in DOMAIN sent[p] |-> Recombine(sent[p][g], received[g])]
     IN  /\ tags' = [tags EXCEPT ![p] = [g \in Groups |-> NextTags(p, g, ands)]]
         /\ zero' = IF Compares(round[p])
                    THEN [zero EXCEPT ![p] = Joined(p, CacheAnds(ands))] ELSE zero
         /\ selected' = IF Selects(round[p])
                        THEN [selected EXCEPT ![p] = SelectedFrom(CacheAnds(ands))]
                        ELSE selected
  /\ net' = [net EXCEPT ![PrevId(p)] = Tail(@)]
  /\ sent' = [sent EXCEPT ![p] = None]
  /\ round' = [round EXCEPT ![p] = @ + 1]
  /\ UNCHANGED <<asked, addrs, answers>>

XorOf(p, q, F(_)) ==
  FoldSet(LAMBDA i, sum : XorShares(F(i), sum), [a |-> {}, b |-> {}], ItemsOf(q))

(* Faulty variant of AfterMatch: the address is taken away, nothing put in *)
(* its place.                                                              *)
AfterMatchZero(p, i) == selected[p][i].x

(* What a matched address is changed by: it becomes the dummy sentinel.    *)
AfterMatch(p, i) == XorShares(selected[p][i].x, BitToMask(Found(p, i), {Sentinel}))

(* query and query_many, once the selection is there.                      *)
Answer(p) ==
  /\ round[p] = TotalRounds /\ answers[p] = None
  /\ IF cache = <<>>
     THEN /\ answers' = [answers EXCEPT ![p] = [q \in DOMAIN queries |->
               [y |-> [a |-> {}, b |-> {}], alibi |-> [a |-> {}, b |-> {}],
                found |-> PromotePublic(p, {})]]]
          /\ UNCHANGED addrs
     ELSE /\ answers' = [answers EXCEPT ![p] = [q \in DOMAIN queries |->
               [y     |-> XorOf(p, q, LAMBDA i : selected[p][i].y),
                alibi |-> XorOf(p, q, LAMBDA i : selected[p][i].alibi),
                found |-> XorOf(p, q, LAMBDA i : Found(p, i))]]]
          /\ addrs' = [addrs EXCEPT ![p] = [e \in DOMAIN cache |->
               FoldSet(LAMBDA i, addr : XorShares(AfterMatch(p, i), addr), addrs[p][e],
                       {i \in Items : EntryOf(i) = e})]]
  /\ UNCHANGED <<asked, tags, zero, selected, round, sent, net>>

(* use_dummy for a level whose tables are asked next.                      *)
UseDummy(p, q, level) ==
  XorShares(GetAlibiBit(answers[p][q].alibi, level), answers[p][q].found)

Done == (\A p \in Parties : answers[p] # None) /\ UNCHANGED vars

Next ==
  \/ \E p \in Parties : SendRound(p) \/ EndRound(p) \/ Answer(p)
  \/ Done

Spec == Init /\ [][Next]_vars

---------------------------------------------------------------------------
AllFinished == \A p \in Parties : answers[p] # None

(* The value all three have shares of, as every one of them would open it. *)
Opens(share, value) == Replicated(share) /\ \A t \in Parties : RevealTo(t, share) = value

(* What each input of a linear layer adds to an output bit, read off the   *)
(* masks: a selector's sum is over the bits of its Gray code.              *)
GrayBit(n, i) == ((n \div 2 ^ i) + (n \div 2 ^ (i + 1))) % 2 = 1

Matrix ==
  [r \in 0 .. Rounds - 1 |-> [bit \in Block |->
     {i \in Block : GrayBit(Masks[r][i \div WindowSize][bit], i % WindowSize)}]]

(* LowMC in the clear: three bits a, b, c become a ^ bc, a ^ b ^ ca and    *)
(* a ^ b ^ c ^ ab, then the matrix, the constants and the key.             *)
Cipher(input, level) ==
  LET sboxed(state) ==
        {i \in Block :
           LET s == i - (i % 3)
               product == (s + ((i + 1) % 3)) \in state /\ (s + ((i + 2) % 3)) \in state
           IN  IF i \in SboxBits
               THEN product # (Cardinality((s .. i) \cap state) % 2 = 1) ELSE i \in state}
      linear(r, state) == {bit \in Block : Cardinality(Matrix[r][bit] \cap state) % 2 = 1}
  IN  FoldLeft(LAMBDA state, r :
                 Xor(Xor(linear(r, sboxed(state)), RoundConstants[r]), RoundKeys[level][r + 2]),
               Xor(input, RoundKeys[level][1]),
               [n \in 1 .. Rounds |-> n - 1])

(* Every query gets its tag for every live level, in order, whatever else  *)
(* the rounds have carried and whichever group its lane is in: the tag     *)
(* under which packed_u64 stores the same address in the level's table,    *)
(* the one bit_sliced finds, and the cipher's.                             *)
TagsUndisturbed ==
  AllFinished =>
    \A level \in 1 .. numLevels :
      LET sliced == SlicedEncrypt([p \in Parties |-> [q \in DOMAIN queries |-> QueriedX(p, q)]],
                                  LAMBDA p, q, r : RoundKey(p, level, r))
      IN  \A q \in DOMAIN queries :
            LET tag == Cipher(queries[q], level)
            IN  /\ Opens([p \in Parties |-> Tags(p)[q][level]], tag)
                /\ Opens(PackedEncrypt([p \in Parties |-> QueriedX(p, q)],
                                       LAMBDA p, r : RoundKey(p, level, r), q), tag)
                /\ Opens([p \in Parties |-> sliced[p][q]], tag)

MatchesOf(x) == {e \in DOMAIN cache : cache[e].x = x}

ParityOf(F(_), S) == FoldSet(LAMBDA e, sum : Xor(F(e), sum), {}, S)

(* Every query gets what the cache holds under its address, and learns     *)
(* whether it holds any, by either path; with it, whether each level is to *)
(* be given a random tag: where the entry has an alibi, unless it is in    *)
(* the cache.                                                              *)
QueriesAnswered ==
  AllFinished =>
    \A q \in DOMAIN queries :
      LET hits == MatchesOf(queries[q])
          shares(field) == [p \in Parties |-> answers[p][q][field]]
      IN  /\ Opens(shares("y"), ParityOf(LAMBDA e : cache[e].y, hits))
          /\ Opens(shares("alibi"), ParityOf(LAMBDA e : cache[e].alibi, hits))
          /\ Opens(shares("found"), ParityOf(LAMBDA e : {0}, hits))
          /\ \A level \in Bits :
               Opens([p \in Parties |-> UseDummy(p, q, level)],
                     Xor(ParityOf(LAMBDA e : {0}, hits),
                         ParityOf(LAMBDA e : IF level \in cache[e].alibi THEN {0} ELSE {}, hits)))

(* An entry that a query matched is under the dummy sentinel from now on,  *)
(* and no other has changed its address.                                   *)
MatchedBlinded ==
  AllFinished =>
    \A e \in DOMAIN cache :
      Opens([p \in Parties |-> addrs[p][e]],
            IF \E q \in DOMAIN queries : queries[q] = cache[e].x
            THEN {Sentinel} ELSE cache[e].x)
=============================================================================
