-------------------------- MODULE RebuildSchedule --------------------------
(***************************************************************************)
(* When GigaDoram rebuilds which level, and how many queries each level    *)
(* has served by then.  Entries are only counted here: the module is the   *)
(* abstract schedule that GigaDoram implements, small enough to reason     *)
(* about for every configuration.                                          *)
(*                                                                         *)
(* Every access queries every live level once and leaves one entry in the  *)
(* speed cache, so a table built with num_dummies dummies must be rebuilt  *)
(* after exactly that many accesses: one too many runs out of dummies      *)
(* (OhTable::query asserts), one too few and OhTable::extract asserts.     *)
(***************************************************************************)
EXTENDS DoramConfig

CONSTANT
  NoLevel    (* the query count shown for a level that holds no table      *)

ASSUME NoLevelAssumption == NoLevel \notin Nat

VARIABLES
  config,      (* GigaDoram::config                                        *)
  numStored,   (* SpeedCache::num_stored                                   *)
  baseB,       (* GigaDoram::base_b_state_vec                              *)
  queryCount,  (* OhTable::query_count of each level, NoLevel for None     *)
  age          (* history: accesses since the level was last built into or *)
               (* collapsed, for every level, whether it holds a table     *)

vars == <<config, numStored, baseB, queryCount, age>>

Live == {l \in Levels(config) : queryCount[l] # NoLevel}

(* Faulty variant: one slot more than the cache has.                       *)
FreeAndOne == SpeedCacheSize(config) - numStored + 1

Free == SpeedCacheSize(config) - numStored

Target == RebuildTo(config, baseB)

Extracted == LevelsToExtract(config, baseB, Live)

---------------------------------------------------------------------------
(* The state with one table, at the bottom, whose stash is in the cache.   *)
OnlyBottom(c) ==
  /\ numStored = c.stashSize
  /\ baseB = [l \in Levels(c) |-> IF l = Bottom(c) THEN 1 ELSE 0]
  /\ queryCount = [l \in Levels(c) |-> IF l = Bottom(c) THEN 0 ELSE NoLevel]
  /\ age = [l \in Levels(c) |-> 0]

(* GigaDoram::new: no table; the stash's share of the cache is skipped.    *)
InitEmpty ==
  /\ config \in Configs
  /\ numStored = config.stashSize
  /\ baseB = [l \in Levels(config) |-> 0]
  /\ queryCount = [l \in Levels(config) |-> NoLevel]
  /\ age = [l \in Levels(config) |-> 0]

(* GigaDoram::new_with_initial_bottom_level.                               *)
InitBottom == config \in Configs /\ OnlyBottom(config)

Init == InitEmpty \/ InitBottom

(* One chunk of k accesses; a single read or write is a chunk of one.      *)
Access(k) ==
  /\ k \in 1 .. Free
  /\ numStored' = numStored + k
  /\ queryCount' = [l \in Levels(config) |->
                      IF l \in Live THEN queryCount[l] + k ELSE NoLevel]
  /\ age' = [l \in Levels(config) |-> age[l] + k]
  /\ UNCHANGED <<config, baseB>>

(* The cache is full: collapse it and the levels above the target (and the *)
(* target's own table) into a new table at the target.                     *)
Rebuild ==
  /\ Free = 0
  /\ numStored' = config.stashSize
  /\ baseB' = BaseBAfterRebuild(config, baseB, Target)
  /\ queryCount' = [l \in Levels(config) |->
                      CASE l < Target -> NoLevel
                        [] l = Target -> 0
                        [] OTHER      -> queryCount[l]]
  /\ age' = [l \in Levels(config) |-> IF l <= Target THEN 0 ELSE age[l]]
  /\ UNCHANGED config

OneBitLarger(c) == c.logAddressSpaceSize = config.logAddressSpaceSize + 1

GrowTo(c) ==
  /\ config' = c
  /\ numStored' = c.stashSize
  /\ baseB' = [l \in Levels(c) |-> IF l = Bottom(c) THEN 1 ELSE 0]
  /\ queryCount' = [l \in Levels(c) |-> IF l = Bottom(c) THEN 0 ELSE NoLevel]
  /\ age' = [l \in Levels(c) |-> 0]

ReadyToGrowNaturally == Free = 0 /\ Target = Bottom(config)

GrowNaturally(c) == OneBitLarger(c) /\ ReadyToGrowNaturally /\ GrowTo(c)

(* Needs something to extract: a stored entry or an untouched slot.        *)
GrowOnDemand(c) ==
  /\ OneBitLarger(c)
  /\ numStored > 0 \/ Live # {}
  /\ GrowTo(c)

Next ==
  \/ \E k \in 1 .. Free : Access(k)
  \/ Rebuild
  \/ \E c \in Configs : GrowNaturally(c)
  \/ \E c \in Configs : GrowOnDemand(c)

Spec == Init /\ [][Next]_vars

---------------------------------------------------------------------------
TypeOK ==
  /\ config \in Configs
  /\ numStored \in 0 .. SpeedCacheSize(config)
  /\ baseB \in [Levels(config) -> Nat]
  /\ queryCount \in [Levels(config) -> Nat \cup {NoLevel}]
  /\ age \in [Levels(config) -> Nat]

(* No table is ever asked more queries than it has dummies: whatever the   *)
(* free slots of the cache admit before the next rebuild still fits        *)
(* (assertions at ohtable.rs:228 and ohtable.rs:304).                      *)
BudgetCovers ==
  \A l \in Live : queryCount[l] + Free <= NumDummies(config, l)

(* When the cache is full, every table the coming rebuild collapses has    *)
(* served exactly its budget (assertion at ohtable.rs:385).                *)
ExtractedSpent ==
  Free = 0 =>
    \A l \in Extracted : queryCount[l] = NumDummies(config, l)

(* A level's counter stays below the amplification factor (assertion at    *)
(* lib.rs:860), and a level above the bottom holds a table exactly when    *)
(* its counter is not zero (checked after every operation by               *)
(* tests/gigadoram.rs:721).                                                *)
LiveIffCounted ==
  \A l \in Levels(config) \ {Bottom(config)} :
    /\ baseB[l] < AmpFactor(config)
    /\ l \in Live <=> baseB[l] # 0

(* The cuckoo table of a level has room for every entry and dummy of the   *)
(* level whatever its counter, and there are enough entries to hand back a *)
(* stash (OHTableParams::validate, ohtable.rs:55; lib.rs:853), under both  *)
(* choices of column lengths.                                              *)
TablesFit ==
  \A l \in Live, bounds \in ChtBounds :
    LET entries == NumElementsAt(config, l, baseB[l])
    IN  /\ config.stashSize <= entries
        /\ entries + NumDummies(config, l)
             <= ChtFullTableLength(config, bounds, l, baseB[l])

(* The inductive invariant.  A live table has served one query per access  *)
(* since it was built; `age` extends that count to empty levels, where it  *)
(* is determined by the counters above: level l + 1 is as old as level l   *)
(* plus one full budget of level l per table of level l since collapsed.   *)
Ages ==
  /\ age[0] = numStored - config.stashSize
  /\ \A l \in Levels(config) \ {Bottom(config)} :
       age[l + 1] = age[l] + baseB[l] * NumDummies(config, l)
  /\ \A l \in Live : queryCount[l] = age[l]

BottomCounted ==
  /\ baseB[Bottom(config)] \in {0, 1}
  /\ Bottom(config) \in Live <=> baseB[Bottom(config)] # 0

IInv == TypeOK /\ config.stashSize <= numStored /\ LiveIffCounted
          /\ BottomCounted /\ Ages
=============================================================================
