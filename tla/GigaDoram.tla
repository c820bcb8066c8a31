----------------------------- MODULE GigaDoram -----------------------------
(***************************************************************************)
(* The DORAM of doram/src/lib.rs: a speed cache in front of a stack of     *)
(* oblivious hash tables, as one program.  The three parties execute it in *)
(* lockstep on shares of the same values, so the model works on the values *)
(* the shares stand for; every network phase is a step of its own.         *)
(*                                                                         *)
(* A speed cache (data-structures/src/speed_cache.rs) is the sequence of   *)
(* its num_stored entries.  A table (data-structures/src/ohtable.rs) keeps *)
(* the entries no query has touched; which entries its cuckoo table        *)
(* stashes depends on a random key and is a free choice.  Values are sets  *)
(* of bits, so that accumulating with XOR is symmetric difference.         *)
(***************************************************************************)
EXTENDS DoramConfig, FiniteSetsExt, SequencesExt

CONSTANTS
  Bits,         (* the bits of a value                                     *)
  SingleCalls,  (* operations a caller may submit by read() and write(),   *)
  BatchCalls,   (* and in a batch: sequences of records [x, y]             *)
  StashesOf(_, _), (* the sets of n entries of a table that its cuckoo     *)
                (* table may stash: StashesOf(n, entries)                  *)
  InitialYs,    (* the contents an initial bottom level may be given       *)
  NoWrite,      (* the y of a read                                         *)
  NoTable,      (* a level that holds no table (None)                      *)
  NoKeys        (* a key cache that is None                                *)

VARIABLES
  config,                  (* GigaDoram::config                            *)
  hadInitialBottomLevel,   (* GigaDoram::had_initial_bottom_level          *)
  cache,                   (* GigaDoram::speed_cache                       *)
  levels,                  (* GigaDoram::levels                            *)
  baseB,                   (* GigaDoram::base_b_state_vec                  *)
  packedQueryKey,          (* round keys of the live levels, for one query *)
  packedBatchQueryKeys,    (* the same for a batch, with its size          *)
  pc,                      (* where the current call is                    *)
  single,                  (* it is a read() or write(), not a batch       *)
  remaining,               (* operations of the call not yet started       *)
  flight,                  (* the queries of the chunk being accessed      *)
  queryKeys,               (* the round keys their tags were made with     *)
  nextLevel,               (* the level the chunk queries next             *)
  outputs                  (* values returned so far                       *)

store == <<config, hadInitialBottomLevel, cache, levels, baseB>>
keyCaches == <<packedQueryKey, packedBatchQueryKeys>>
call == <<pc, single, remaining, flight, queryKeys, nextLevel, outputs>>
vars == <<store, keyCaches, call>>

Values == SUBSET Bits
Zero == {}

Addresses(c) == 0 .. BottomNumElements(c) - 1

EntryOf(c) ==
  [x: 0 .. 2 * BottomNumElements(c) - 1, y: Values, alibi: SUBSET Levels(c)]

TableOf(c) ==
  [key: Nat, entries: SUBSET EntryOf(c), numElements: Nat, dummies: Nat,
   queryCount: Nat, revealed: SUBSET Addresses(c)]

ASSUME CallsAssumption ==
  /\ \A ops \in SingleCalls : Len(ops) = 1
  /\ \A ops \in SingleCalls \cup BatchCalls :
       ops \in Seq([x: Nat, y: Values \cup {NoWrite}])

ASSUME InitialYsAssumption ==
  \A ys \in InitialYs : ys \in [DOMAIN ys -> Values]

ASSUME NoTableAssumption ==
  NoTable \notin Int /\ \A c \in Configs : NoTable \notin TableOf(c)

---------------------------------------------------------------------------
(* Entries.                                                                *)

(* Bit N of x marks a dummy.                                               *)
IsDummy(c, x) == (x \div BottomNumElements(c)) % 2 = 1

(* dummy_x: the sentinel address 2^N.                                      *)
DummyX(c) == BottomNumElements(c)

Entry(x, y) == [x |-> x, y |-> y, alibi |-> {}]

DummyEntry(c) == Entry(DummyX(c), Zero)

(* clear_alibi, on the way into a new table.                               *)
ClearAlibi(e) == [e EXCEPT !.alibi = {}]

PadTo(s, n, e) == s \o [i \in 1 .. n - Len(s) |-> e]

(* Faulty variants: labels counted from one, and dummies left as they are. *)
RelabelFromOne(c, s) ==
  [i \in DOMAIN s |->
     IF IsDummy(c, s[i].x)
     THEN [s[i] EXCEPT !.x = BottomNumElements(c) + i]
     ELSE s[i]]

LeaveDummies(c, s) == s

(* dummy_label and replace_if_dummy: dummies become 2^N, 2^N + 1, ... by   *)
(* position.                                                               *)
RelabelDummies(c, s) ==
  [i \in DOMAIN s |->
     IF IsDummy(c, s[i].x)
     THEN [s[i] EXCEPT !.x = BottomNumElements(c) + i - 1]
     ELSE s[i]]

(* The numbers in P in increasing order.                                   *)
Ascending(P) ==
  [i \in 1 .. Cardinality(P) |->
     CHOOSE p \in P : Cardinality({q \in P : q < p}) = i - 1]

(* A set of entries with distinct addresses in some order.  The order      *)
(* tables keep them in is random and never observed.                       *)
InSomeOrder(S) ==
  LET labels == Ascending({e.x : e \in S})
  IN  [i \in DOMAIN labels |-> CHOOSE e \in S : e.x = labels[i]]

(* The entries of s that are, or are not, dummies, in their order.         *)
Select(s, places) ==
  LET order == Ascending(places)
  IN  [i \in DOMAIN order |-> s[order[i]]]

Dummies(c, s) == Select(s, {i \in DOMAIN s : IsDummy(c, s[i].x)})
Reals(c, s) == Select(s, {i \in DOMAIN s : ~ IsDummy(c, s[i].x)})

---------------------------------------------------------------------------
(* Oblivious hash tables.                                                  *)

Live == {l \in Levels(config) : levels[l] # NoTable}

(* OhTable::new on the entries `s`, of which the cuckoo table stashes      *)
(* `stash`.  `revealed` is history: the addresses whose tag under this     *)
(* table's key the receivers have seen.                                    *)
NewTable(c, level, key, s, stash) ==
  [key         |-> key,
   entries     |-> ToSet(s) \ stash,
   numElements |-> Len(s),
   dummies     |-> NumDummies(c, level),
   queryCount  |-> 0,
   revealed    |-> {}]

(* extract_untouched.                                                      *)
ExtractUntouched(c, t) ==
  InSomeOrder(t.entries) \o [i \in 1 .. t.dummies |-> DummyEntry(c)]

(* A key different from those of `keys`.                                   *)
FreshKey(keys) ==
  CHOOSE k \in 0 .. Cardinality(keys) :
    k \notin keys /\ \A j \in 0 .. k - 1 : j \in keys

KeysOf(tables) == {tables[l].key : l \in {m \in DOMAIN tables : tables[m] # NoTable}}

(* insert_stash: the stash goes to the cache, marked with its level.       *)
StashEntries(level, stash) ==
  LET s == InSomeOrder(stash)
  IN  [i \in DOMAIN s |-> [s[i] EXCEPT !.alibi = @ \cup {level}]]

(* Faulty variant of BuildLevel: it keeps the cached round keys.           *)
BuildLevelKeepingKeys(c, level, old, s) ==
  \E stash \in StashesOf(c.stashSize, ToSet(s)) :
    /\ stash \subseteq ToSet(s) /\ Cardinality(stash) = c.stashSize
    /\ levels' = [old EXCEPT ![level] =
                    NewTable(c, level, FreshKey(KeysOf(old)), s, stash)]
    /\ cache' = StashEntries(level, stash)
    /\ UNCHANGED keyCaches

(* new_ohtable_of_level and insert_stash, over the levels `old` that are   *)
(* kept and an empty cache: builds from s, invalidates the key caches.     *)
BuildLevel(c, level, old, s) ==
  \E stash \in StashesOf(c.stashSize, ToSet(s)) :
    /\ stash \subseteq ToSet(s) /\ Cardinality(stash) = c.stashSize
    /\ levels' = [old EXCEPT ![level] =
                    NewTable(c, level, FreshKey(KeysOf(old)), s, stash)]
    /\ cache' = StashEntries(level, stash)
    /\ packedQueryKey' = NoKeys
    /\ packedBatchQueryKeys' = NoKeys

NoTables(c) == [l \in Levels(c) |-> NoTable]

OnlyBottomCounted(c) == [l \in Levels(c) |-> IF l = Bottom(c) THEN 1 ELSE 0]

---------------------------------------------------------------------------
(* Creation.                                                               *)

NoCall ==
  /\ pc = "idle" /\ single = FALSE
  /\ remaining = <<>> /\ flight = <<>> /\ queryKeys = <<>>
  /\ nextLevel = 0 /\ outputs = <<>>

(* GigaDoram::new: the stash's share of the cache is skipped.              *)
InitEmpty ==
  /\ hadInitialBottomLevel = FALSE
  /\ cache = [i \in 1 .. config.stashSize |-> DummyEntry(config)]
  /\ levels = NoTables(config)
  /\ baseB = [l \in Levels(config) |-> 0]

(* GigaDoram::new_with_initial_bottom_level: every address is stored.      *)
InitBottom ==
  \E ys \in InitialYs :
    LET s == [i \in 1 .. BottomNumElements(config) |-> Entry(i - 1, ys[i - 1])]
    IN  /\ DOMAIN ys = Addresses(config)
        /\ hadInitialBottomLevel = TRUE
        /\ baseB = OnlyBottomCounted(config)
        /\ \E stash \in StashesOf(config.stashSize, ToSet(s)) :
             /\ stash \subseteq ToSet(s) /\ Cardinality(stash) = config.stashSize
             /\ levels = [NoTables(config) EXCEPT ![Bottom(config)] =
                            NewTable(config, Bottom(config), 0, s, stash)]
             /\ cache = StashEntries(Bottom(config), stash)

Init ==
  /\ config \in Configs
  /\ InitEmpty \/ InitBottom
  /\ packedQueryKey = NoKeys /\ packedBatchQueryKeys = NoKeys
  /\ NoCall

---------------------------------------------------------------------------
(* Rebuilding.                                                             *)

Free == SpeedCacheSize(config) - Len(cache)

Target == RebuildTo(config, baseB)

LastLevelToExtract ==
  Target + (IF NeedToExtract(config, baseB, Live) THEN 1 ELSE 0)

(* OhTable::extract insists the budget is spent; the result is padded to   *)
(* the level's nominal size.                                               *)
Extractable(l) == levels[l].queryCount = NumDummies(config, l)

ExtractPadded(l) ==
  IF l \notin Live
  THEN <<>>
  ELSE PadTo(ExtractUntouched(config, levels[l]),
             NumElementsAt(config, l, baseB[l]), DummyEntry(config))

Collapsed ==
  LET s == FlattenSeq(<<cache>> \o [i \in 1 .. LastLevelToExtract |->
                                       ExtractPadded(i - 1)])
  IN  [i \in DOMAIN s |-> ClearAlibi(s[i])]

(* Faulty variant of FinalizeBottomLevel: the entries are cut to size      *)
(* before the dummies are behind the real ones.                            *)
FinalizeUnsorted(s) ==
  IF hadInitialBottomLevel
  THEN Reals(config, s)
  ELSE RelabelDummies(config,
         SubSeq(s, 1, Min({Len(s), BottomNumElements(config)})))

(* finalize_bottom_level.  With an initial bottom level the dummies are    *)
(* opened and dropped; otherwise they are sorted behind the real entries,  *)
(* as many as fit are kept and renumbered.  The sort is given a power of   *)
(* two of entries; what is added for that is last and left out here: a     *)
(* rebuild has a power of two already, a growth adds as many and more.     *)
FinalizeBottomLevel(s) ==
  LET sorted == Reals(config, s) \o Dummies(config, s)
      kept == Min({Len(sorted), BottomNumElements(config)})
  IN  IF hadInitialBottomLevel
      THEN Reals(config, s)
      ELSE RelabelDummies(config, SubSeq(sorted, 1, kept))

(* Faulty variant: missing entries are not an error.                       *)
CleanseToleratesMissing(s) ==
  hadInitialBottomLevel =>
    Len(FinalizeBottomLevel(s)) <= BottomNumElements(config)

(* cleanse_bottom_level fails with an error unless this holds.             *)
CleanseSucceeds(s) ==
  hadInitialBottomLevel =>
    Len(FinalizeBottomLevel(s)) = BottomNumElements(config)

(* rebuild, entered with a full cache.                                     *)
Rebuild ==
  /\ pc = "access" /\ Free = 0
  /\ \A l \in 0 .. LastLevelToExtract - 1 : l \in Live => Extractable(l)
  /\ LET kept == [l \in Levels(config) |->
                    IF l < LastLevelToExtract THEN NoTable ELSE levels[l]]
     IN  IF Target = Bottom(config)
         THEN /\ CleanseSucceeds(Collapsed)
              /\ BuildLevel(config, Target, kept, FinalizeBottomLevel(Collapsed))
         ELSE /\ Len(Collapsed) = NumElementsAt(config, Target, baseB[Target] + 1)
              /\ BuildLevel(config, Target, kept, RelabelDummies(config, Collapsed))
  /\ baseB' = BaseBAfterRebuild(config, baseB, Target)
  /\ UNCHANGED <<config, hadInitialBottomLevel, call>>

---------------------------------------------------------------------------
(* Accesses.                                                               *)

(* The elements that are in an odd number of the sets f[i], i in I: their  *)
(* XOR.                                                                    *)
XorOver(f, I) ==
  {e \in UNION {f[i] : i \in I} : Cardinality({i \in I : e \in f[i]}) % 2 = 1}

(* read, write, batch_read, batch_write, batch_access, which rejects an    *)
(* empty batch (lib.rs:359).                                               *)
StartCall(ops, isSingle) ==
  /\ pc = "idle" /\ ops # <<>>
  /\ \A i \in DOMAIN ops : ops[i].x \in Addresses(config)
  /\ pc' = "access" /\ single' = isSingle /\ remaining' = ops
  /\ UNCHANGED <<store, keyCaches, flight, queryKeys, nextLevel, outputs>>

LiveKeys ==
  LET order == Ascending(Live)
  IN  [i \in DOMAIN order |-> levels[order[i]].key]

(* The round keys the tags are computed with: cached ones if there are     *)
(* any, for a batch only if it has the size they were packed for.          *)
PackedKeys(count) ==
  IF single
  THEN IF packedQueryKey # NoKeys THEN packedQueryKey ELSE LiveKeys
  ELSE IF packedBatchQueryKeys # NoKeys /\ packedBatchQueryKeys.count = count
       THEN packedBatchQueryKeys.keys
       ELSE LiveKeys

(* SpeedCache::query_many: every query scans the same snapshot; an entry   *)
(* that matches is turned into the sentinel, and back by the next match.   *)
Matching(x) == {j \in DOMAIN cache : cache[j].x = x}

CacheResult(op) ==
  LET hits == Matching(op.x)
  IN  [x     |-> op.x,
       write |-> op.y,
       y     |-> XorOver([j \in hits |-> cache[j].y], hits),
       alibi |-> XorOver([j \in hits |-> cache[j].alibi], hits),
       found |-> Cardinality(hits) % 2 = 1]

(* Faulty variant: a matched entry stays what it is.                       *)
CacheUnchangedBy(ops) == cache

CacheAfter(ops) ==
  [j \in DOMAIN cache |->
     LET matches == Cardinality({i \in DOMAIN ops : ops[i].x = cache[j].x})
     IN  IF matches % 2 = 1
         THEN [cache[j] EXCEPT !.x = DummyX(config)]
         ELSE cache[j]]

(* The first phases of batch_access_chunk and read_and_maybe_write: the    *)
(* tags for every live level and the query of the speed cache.             *)
QueryCache ==
  LET count == Min({Len(remaining), Free})
      ops   == SubSeq(remaining, 1, count)
  IN  /\ pc = "access" /\ Free > 0
      /\ pc' = "levels"
      /\ remaining' = SubSeq(remaining, count + 1, Len(remaining))
      /\ queryKeys' = PackedKeys(count)
      /\ IF single
         THEN /\ packedQueryKey' = PackedKeys(count)
              /\ UNCHANGED packedBatchQueryKeys
         ELSE /\ packedBatchQueryKeys' = [count |-> count, keys |-> PackedKeys(count)]
              /\ UNCHANGED packedQueryKey
      /\ flight' = [i \in 1 .. count |-> CacheResult(ops[i])]
      /\ cache' = CacheAfter(ops)
      /\ nextLevel' = 0
      /\ UNCHANGED <<config, hadInitialBottomLevel, levels, baseB, single, outputs>>

(* The tag of a query at a level is the one its table was built with.      *)
TagFits(l) ==
  LET order == Ascending(Live)
  IN  \E i \in DOMAIN order :
        order[i] = l /\ i <= Len(queryKeys) /\ queryKeys[i] = levels[l].key

(* Faulty variant: every item is looked up under its own tag.              *)
AlwaysOwnTag(q, l) == TRUE

(* use_dummy is alibi XOR found: a random tag instead of the query's own.  *)
UsesOwnTag(q, l) == (l \in q.alibi) <=> q.found

HitBy(q, l) ==
  {e \in levels[l].entries : TagFits(l) /\ UsesOwnTag(q, l) /\ e.x = q.x}

(* Faulty variant of Spend: only the misses are counted.                   *)
SpendMisses(l, touched) ==
  [levels[l] EXCEPT
     !.entries = @ \ touched,
     !.dummies = @ - (Len(flight) - Cardinality(touched)),
     !.queryCount = @ + Len(flight) - Cardinality(touched),
     !.revealed = @ \cup {flight[i].x : i \in DOMAIN flight}]

(* A hit touches the entry, a miss the next dummy.                         *)
Spend(l, touched) ==
  [levels[l] EXCEPT
     !.entries = @ \ touched,
     !.dummies = @ - (Len(flight) - Cardinality(touched)),
     !.queryCount = @ + Len(flight),
     !.revealed = @ \cup {flight[i].x : i \in
                    {j \in DOMAIN flight : TagFits(l) /\ UsesOwnTag(flight[j], l)}}]

(* OhTable::query_many at one live level.  It asserts that the dummies     *)
(* suffice and that no slot is touched twice.                              *)
QueryLevel(l) ==
  LET hit(i) == HitBy(flight[i], l)
      hits   == {i \in DOMAIN flight : hit(i) # {}}
      After(i) ==
        IF i \notin hits
        THEN flight[i]
        ELSE LET e == CHOOSE e \in hit(i) : TRUE
             IN  [flight[i] EXCEPT !.y = SymDiff(@, e.y),
                                   !.alibi = SymDiff(@, e.alibi),
                                   !.found = ~ @]
      touched == UNION {hit(i) : i \in hits}
  IN  /\ pc = "levels" /\ nextLevel = l /\ l \in Live
      /\ levels[l].queryCount + Len(flight) <= NumDummies(config, l)
      /\ Cardinality(touched) = Cardinality(hits)
      /\ levels' = [levels EXCEPT ![l] = Spend(l, touched)]
      /\ flight' = [i \in DOMAIN flight |-> After(i)]
      /\ nextLevel' = l + 1
      /\ UNCHANGED <<config, hadInitialBottomLevel, cache, baseB, keyCaches,
                     pc, single, remaining, queryKeys, outputs>>

SkipLevel(l) ==
  /\ pc = "levels" /\ nextLevel = l /\ l \notin Live
  /\ nextLevel' = l + 1
  /\ UNCHANGED <<store, keyCaches, pc, single, remaining, flight, queryKeys, outputs>>

(* Faulty variant of Fresh: the entry keeps its alibis.                    *)
FreshWithAlibi(q) ==
  [x |-> q.x, y |-> IF q.write = NoWrite THEN q.y ELSE q.write, alibi |-> q.alibi]

(* What a query leaves in the cache: the value written or the value read,  *)
(* without alibis.                                                         *)
Fresh(q) == Entry(q.x, IF q.write = NoWrite THEN q.y ELSE q.write)

(* Faulty variant of AfterChunk: the loop of batch_access does not end.    *)
OnwardForever == "access"

AfterChunk == IF remaining = <<>> THEN "return" ELSE "access"

WriteBack ==
  /\ pc = "levels" /\ nextLevel = config.numLevels
  /\ Len(cache) + Len(flight) <= SpeedCacheSize(config)
  /\ cache' = cache \o [i \in DOMAIN flight |-> Fresh(flight[i])]
  /\ outputs' = outputs \o [i \in DOMAIN flight |-> flight[i].y]
  /\ flight' = <<>> /\ queryKeys' = <<>> /\ nextLevel' = 0
  /\ pc' = AfterChunk
  /\ UNCHANGED <<config, hadInitialBottomLevel, levels, baseB, keyCaches,
                 single, remaining>>

Return ==
  /\ pc = "return"
  /\ pc' = "idle" /\ single' = FALSE /\ outputs' = <<>>
  /\ UNCHANGED <<store, keyCaches, remaining, flight, queryKeys, nextLevel>>

---------------------------------------------------------------------------
(* Growing.                                                                *)

OneBitLarger(c) == c.logAddressSpaceSize = config.logAddressSpaceSize + 1

(* Faulty variant: the widened address space swallows old dummy labels.    *)
FinishGrowKeepingLabels(c, s) ==
  LET new == BottomNumElements(c)
      widened == IF hadInitialBottomLevel
                 THEN s \o [i \in 1 .. new - Len(s) |-> Entry(Len(s) + i - 1, Zero)]
                 ELSE PadTo(s, new, DummyEntry(c))
  IN  /\ config' = c
      /\ baseB' = OnlyBottomCounted(c)
      /\ BuildLevel(c, Bottom(c), NoTables(c), widened)
      /\ UNCHANGED <<hadInitialBottomLevel, call>>

(* finish_grow: pad the cleansed entries to the larger address space, with *)
(* the new addresses or with dummies, and start over from a bottom table.  *)
FinishGrow(c, s) ==
  LET old == BottomNumElements(config)
      new == BottomNumElements(c)
      replaced(t) == [i \in DOMAIN t |->
                        IF IsDummy(config, t[i].x)
                        THEN [t[i] EXCEPT !.x = new + i - 1]
                        ELSE t[i]]
      widened == IF hadInitialBottomLevel
                 THEN s \o [i \in 1 .. new - old |-> Entry(old + i - 1, Zero)]
                 ELSE replaced(PadTo(s, new, DummyEntry(config)))
  IN  /\ config' = c
      /\ baseB' = OnlyBottomCounted(c)
      /\ BuildLevel(c, Bottom(c), NoTables(c), widened)
      /\ UNCHANGED <<hadInitialBottomLevel, call>>

ReadyToGrowNaturally == Free = 0 /\ Target = Bottom(config)

GrowNaturally(c) ==
  /\ pc = "idle" /\ OneBitLarger(c) /\ ReadyToGrowNaturally
  /\ \A l \in 0 .. LastLevelToExtract - 1 : l \in Live => Extractable(l)
  /\ CleanseSucceeds(Collapsed)
  /\ FinishGrow(c, FinalizeBottomLevel(Collapsed))

(* What the stored part of the cache and the untouched slots of every      *)
(* level hold, unspent dummies included.                                   *)
AllUntouched ==
  LET s == FlattenSeq(<<cache>> \o [i \in 1 .. config.numLevels |->
             IF i - 1 \in Live
             THEN ExtractUntouched(config, levels[i - 1]) ELSE <<>>])
  IN  [i \in DOMAIN s |-> ClearAlibi(s[i])]

GrowOnDemand(c) ==
  /\ pc = "idle" /\ OneBitLarger(c)
  /\ AllUntouched # <<>>
  /\ CleanseSucceeds(AllUntouched)
  /\ FinishGrow(c, FinalizeBottomLevel(AllUntouched))

---------------------------------------------------------------------------
Access ==
  \/ Rebuild
  \/ QueryCache
  \/ \E l \in Levels(config) : QueryLevel(l)
  \/ \E l \in Levels(config) : SkipLevel(l)
  \/ WriteBack
  \/ Return

Next ==
  \/ \E ops \in SingleCalls : StartCall(ops, TRUE)
  \/ \E ops \in BatchCalls : StartCall(ops, FALSE)
  \/ Access
  \/ \E c \in Configs : GrowNaturally(c)
  \/ \E c \in Configs : GrowOnDemand(c)

Spec == Init /\ [][Next]_vars

(* A call, once made, runs on: the code is sequential and every network    *)
(* phase of the three parties completes.  This is weak fairness of Access, *)
(* whose condition is spelled out: a call under way always has a next step *)
(* (no assertion fails, which the runs check as the absence of deadlock).  *)
CallsRunOn == []<>(pc = "idle") \/ []<><<pc # "idle">>_vars

FairSpec == Spec /\ CallsRunOn
=============================================================================
