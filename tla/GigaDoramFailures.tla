-------------------------- MODULE GigaDoramFailures --------------------------
(***************************************************************************)
(* GigaDoram when network phases return errors.  The `?` of lib.rs leaves  *)
(* a call in the middle, and what it has changed so far stays changed: the *)
(* caller may go on using the DORAM.  The three parties are assumed to see *)
(* the same phase fail; messages left over from it are not modelled.       *)
(*                                                                         *)
(* A failing growth has changed nothing yet, so it is no step at all.  A   *)
(* failing table build, and a failing assertion, panic: the DORAM is gone, *)
(* and the model has no next step.                                         *)
(***************************************************************************)
EXTENDS GigaDoramProperties

CONSTANT MaxFailures   (* bound: errors in one behaviour                   *)

ASSUME MaxFailuresAssumption == MaxFailures \in Nat

VARIABLES
  failures,   (* errors so far                                             *)
  touched     (* OhTable::touched: the addresses each live table has       *)
              (* returned.  Without errors nobody asks for them again      *)

failureVars == <<vars, failures, touched>>

(* The error propagates out of batch_access, read or write: the operations *)
(* not yet performed and the values read so far are dropped.               *)
LeaveCall ==
  /\ pc' = "idle" /\ single' = FALSE
  /\ remaining' = <<>> /\ flight' = <<>> /\ queryKeys' = <<>>
  /\ nextLevel' = 0 /\ outputs' = <<>>

(* The tags or the query of the speed cache: the round keys are packed,    *)
(* and the cache is only written when its circuit has succeeded.           *)
FailQueryCache ==
  LET count == Min({Len(remaining), Free})
  IN  /\ pc = "access" /\ Free > 0
      /\ IF single
         THEN /\ packedQueryKey' = PackedKeys(count)
              /\ UNCHANGED packedBatchQueryKeys
         ELSE /\ packedBatchQueryKeys' = [count |-> count, keys |-> PackedKeys(count)]
              /\ UNCHANGED packedQueryKey
      /\ LeaveCall
      /\ UNCHANGED store

(* Faulty variant: what was found so far is written back.                  *)
CacheWithFlight == cache \o [i \in DOMAIN flight |-> Fresh(flight[i])]

(* Nothing is written back: the entries found so far exist nowhere else.   *)
CacheWithoutFlight == cache

(* OhTable::query fails: the table is updated by its last, local phase, so *)
(* at most the tags have been seen by then.                                *)
FailQueryLevel(l) ==
  /\ pc = "levels" /\ nextLevel = l /\ l \in Live
  /\ levels[l].queryCount + Len(flight) <= NumDummies(config, l)
  /\ \E seen \in {levels[l].revealed, Spend(l, {}).revealed} :
       levels' = [levels EXCEPT ![l].revealed = seen]
  /\ cache' = CacheWithoutFlight
  /\ LeaveCall
  /\ UNCHANGED <<config, hadInitialBottomLevel, baseB, keyCaches>>

(* rebuild fails in finalize_bottom_level or relabel_dummies: the cache    *)
(* has been replaced by an empty one, the levels are still the old ones.   *)
FailRebuild ==
  /\ pc = "access" /\ Free = 0
  /\ \A l \in 0 .. LastLevelToExtract - 1 : l \in Live => Extractable(l)
  /\ \/ Target = Bottom(config)
     \/ Len(Collapsed) = NumElementsAt(config, Target, baseB[Target] + 1)
  /\ cache' = <<>>
  /\ LeaveCall
  /\ UNCHANGED <<config, hadInitialBottomLevel, levels, baseB, keyCaches>>

Failure ==
  \/ FailQueryCache
  \/ \E l \in Levels(config) : FailQueryLevel(l)
  \/ FailRebuild

(* The queries of the level about to be queried hit no touched slot.       *)
SlotsUntouched ==
  pc = "levels" /\ nextLevel \in Live =>
    \A i \in DOMAIN flight :
      TagFits(nextLevel) /\ UsesOwnTag(flight[i], nextLevel) =>
        flight[i].x \notin touched[nextLevel]

(* A table returns the entries that leave it; a new one has returned none. *)
KeepTouched ==
  touched' = [l \in DOMAIN levels' |->
    IF levels'[l] = NoTable \/ levels'[l].queryCount = 0
    THEN {}
    ELSE touched[l] \cup {e.x : e \in levels[l].entries \ levels'[l].entries}]

FailingInit ==
  /\ Init
  /\ failures = 0
  /\ touched = [l \in Levels(config) |-> {}]

FailingNext ==
  \/ Next /\ SlotsUntouched /\ KeepTouched /\ UNCHANGED failures
  \/ failures < MaxFailures /\ failures' = failures + 1 /\ Failure /\ KeepTouched

FailingSpec == FailingInit /\ [][FailingNext]_failureVars

---------------------------------------------------------------------------
LossyMemory == INSTANCE LossyRam WITH
  Calls <- SingleCalls \cup BatchCalls, Contents <- FullMemories, Default <- Zero, NoWrite <- NoWrite,
  mem <- [x \in Addresses(config) |-> ValueAt(x)],
  pending <- InFlight \o remaining,
  results <- outputs,
  recent <- {cache[i].x : i \in DOMAIN cache}

(* After an error the DORAM goes on as a memory that has lost, at most,    *)
(* addresses of the failed access, or what the cache held for a failed     *)
(* rebuild: reads never return a stale or a mixed value (lib.rs:456 and    *)
(* lib.rs:757).                                                            *)
IsLossyMemory == LossyMemory!LossySpec

BottomTable == levels[Bottom(config)]

HeldBelow == {e.x : e \in BottomTable.entries} \cup {cache[i].x : i \in DOMAIN cache}

(* Whatever failed before, the bottom of a DORAM that began full is never  *)
(* rebuilt or grown with an address missing: every address is in the new   *)
(* table or its stash ("initial bottom cleanse found wrong number of real  *)
(* entries", lib.rs:1035, is an error instead).                            *)
BottomBuiltWhole ==
  [][/\ hadInitialBottomLevel
     /\ config' # config \/ BottomTable'.queryCount < BottomTable.queryCount
     => Addresses(config)' \subseteq HeldBelow']_vars
=============================================================================
