---------------------------- MODULE DoramConfig ----------------------------
(***************************************************************************)
(* The sizes a GigaDoramConfig determines (doram/src/lib.rs).  A config is *)
(* a record of the fields of the Rust struct, the logarithms included:     *)
(*                                                                         *)
(*   logAddressSpaceSize   N, addresses are 0 .. 2^N - 1                   *)
(*   numLevels             oblivious hash tables, the last is the bottom   *)
(*   logSpeedCacheSize     the speed cache has 2^that slots                *)
(*   logAmpFactor          each level holds 2^that times the one above     *)
(*   stashSize             entries every table hands back to the cache     *)
(*                                                                         *)
(* cht_bounds only selects the column lengths of the cuckoo tables: it is  *)
(* not part of the record, what depends on it takes it as a parameter.     *)
(***************************************************************************)
EXTENDS Integers

CONSTANT
  Configs    (* the configurations a DORAM may be created or grown with    *)

ConfigFields == [logAddressSpaceSize: Nat, numLevels: Nat,
                 logSpeedCacheSize: Nat, logAmpFactor: Nat, stashSize: Nat]

SpeedCacheSize(c) == 2 ^ c.logSpeedCacheSize

FillTime(c) == SpeedCacheSize(c) - c.stashSize

AmpFactor(c) == 2 ^ c.logAmpFactor

Levels(c) == 0 .. c.numLevels - 1

Bottom(c) == c.numLevels - 1

BottomNumElements(c) == 2 ^ c.logAddressSpaceSize

(* Faulty variant: budgets forget the stash's share of the cache.          *)
NumDummiesIgnoringStash(c, level) == AmpFactor(c) ^ level * SpeedCacheSize(c)

(* Queries a table of this level can serve before it must be rebuilt.      *)
NumDummies(c, level) == AmpFactor(c) ^ level * FillTime(c)

(* Entries a table of this level holds when its counter is `state`.        *)
NumElementsAt(c, level, state) ==
  IF level = Bottom(c)
  THEN BottomNumElements(c)
  ELSE state * 2 ^ (level * c.logAmpFactor + c.logSpeedCacheSize)

ChtBounds == {"Empirical", "Proven"}

(* usize::ilog2 of a positive n: one less than the first power above n.    *)
Ilog2(n) == CHOOSE e \in 0 .. 63 :
              /\ n < 2 ^ (e + 1)
              /\ \A d \in 0 .. e - 1 : 2 ^ (d + 1) <= n

(* The column load factor is 1.2 or 2.0; for a counter the truncated f64   *)
(* product is the exact one.                                               *)
ColumnLoad(bounds, state) ==
  IF bounds = "Empirical" THEN (6 * state) \div 5 ELSE 2 * state

(* Faulty variant: columns are sized for the first table of a level, not   *)
(* for the one that collapses several.                                     *)
LogSingleColLenUncounted(c, bounds, level, state) ==
  level * c.logAmpFactor + c.logSpeedCacheSize
    + Ilog2(ColumnLoad(bounds, 1)) + 1

(* Slots of one of the two columns of a level's cuckoo table, as a power   *)
(* of two, when the level's counter is `state` (new_ohtable_of_level).     *)
LogSingleColLen(c, bounds, level, state) ==
  level * c.logAmpFactor + c.logSpeedCacheSize
    + Ilog2(ColumnLoad(bounds, IF level = Bottom(c) THEN 1 ELSE state)) + 1

ChtFullTableLength(c, bounds, level, state) ==
  2 * 2 ^ LogSingleColLen(c, bounds, level, state)

(* GigaDoramConfig::validate.  X is a u32, the alibi byte has 8 bits.      *)
Valid(c) ==
  /\ c \in ConfigFields
  /\ c.numLevels \in 1 .. 8
  /\ c.logAddressSpaceSize < 32
  /\ c.stashSize < SpeedCacheSize(c)
  /\ c.logAddressSpaceSize
       = c.logSpeedCacheSize + (c.numLevels - 1) * c.logAmpFactor

ASSUME ConfigsValid == \A c \in Configs : Valid(c)

(* The arithmetic of ^ that the proofs use, for the configurations at hand *)
(* (the provers know nothing of the operator).                             *)
ASSUME PowerLaws ==
  \A c \in Configs :
    /\ SpeedCacheSize(c) \in Nat \ {0}
    /\ AmpFactor(c) \in Nat \ {0}
    /\ AmpFactor(c) ^ 0 = 1
    /\ \A l \in Levels(c) : /\ AmpFactor(c) ^ l \in Nat \ {0}
                             /\ AmpFactor(c) ^ (l + 1)
                                  = AmpFactor(c) * AmpFactor(c) ^ l

(* 2 to the exponents the tables' lengths are made of.                     *)
ASSUME PowersOfTwo ==
  /\ 2 ^ 0 = 1
  /\ \A c \in Configs : \A n \in 0 .. c.logAddressSpaceSize + 1 :
       2 ^ n \in Nat /\ 2 ^ (n + 1) = 2 * 2 ^ n

(* with_stash_size: the cache takes the bits the levels leave over.        *)
WithStashSize(logN, numLevels, logAmp, stash) ==
  [logAddressSpaceSize |-> logN,
   numLevels           |-> numLevels,
   logSpeedCacheSize   |-> logN - (numLevels - 1) * logAmp,
   logAmpFactor        |-> logAmp,
   stashSize           |-> stash]

(* Faulty variant of RebuildTo: a level is taken once too often.           *)
RebuildToOnceMore(c, baseB) ==
  CHOOSE t \in Levels(c) :
    /\ t = Bottom(c) \/ baseB[t] <= AmpFactor(c) - 1
    /\ \A l \in 0 .. t - 1 : baseB[l] > AmpFactor(c) - 1

(***************************************************************************)
(* rebuild_target: the first level whose counter can still grow, else the  *)
(* bottom; and whether the table found there is collapsed with the rest.   *)
(* `baseB` is base_b_state_vec and `live` the set of levels holding a      *)
(* table.                                                                  *)
(***************************************************************************)
RebuildTo(c, baseB) ==
  CHOOSE t \in Levels(c) :
    /\ t = Bottom(c) \/ baseB[t] < AmpFactor(c) - 1
    /\ \A l \in 0 .. t - 1 : baseB[l] >= AmpFactor(c) - 1

NeedToExtract(c, baseB, live) ==
  LET t == RebuildTo(c, baseB)
  IN  IF t = Bottom(c) THEN baseB[t] # 0 ELSE t \in live

LevelsToExtract(c, baseB, live) ==
  LET t == RebuildTo(c, baseB)
  IN  {l \in live : l < t \/ (l = t /\ NeedToExtract(c, baseB, live))}

(* Faulty variant: delete_level forgets to reset a full counter.           *)
BaseBNeverReset(c, baseB, t) ==
  [baseB EXCEPT ![t] = IF t = Bottom(c) THEN 1 ELSE baseB[t] + 1]

(* base_b_state_vec after a rebuild into t: delete_level on the levels it  *)
(* collapses resets a full counter, new_ohtable_of_level raises t's.       *)
BaseBAfterRebuild(c, baseB, t) ==
  [l \in Levels(c) |->
     CASE l < t /\ baseB[l] = AmpFactor(c) - 1 -> 0
       [] l = t /\ t = Bottom(c)               -> 1
       [] l = t /\ t # Bottom(c)               -> baseB[t] + 1
       [] OTHER                                -> baseB[l]]
=============================================================================
