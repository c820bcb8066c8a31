------------------------ MODULE GigaDoramProperties ------------------------
(***************************************************************************)
(* What makes GigaDoram correct: it is a memory (Ram) and it keeps the     *)
(* rebuild schedule (RebuildSchedule), and the invariants behind the two.  *)
(***************************************************************************)
EXTENDS GigaDoram

OperationOf(c) == [x: Addresses(c), y: Values \cup {NoWrite}]

QueryOf(c) ==
  [x: Addresses(c), write: Values \cup {NoWrite}, y: Values,
   alibi: SUBSET Levels(c), found: BOOLEAN]

(* Every variable has its type; every stored label is an address or one of *)
(* the dummy labels 2^N .. 2^(N+1) - 1.                                    *)
TypeOK ==
  /\ config \in Configs /\ hadInitialBottomLevel \in BOOLEAN
  /\ cache \in Seq(EntryOf(config)) /\ Free >= 0
  /\ levels \in [Levels(config) -> TableOf(config) \cup {NoTable}]
  /\ \A l \in Live : IsFiniteSet(levels[l].entries)
  /\ baseB \in [Levels(config) -> Nat]
  /\ pc \in {"idle", "access", "levels", "return"} /\ single \in BOOLEAN
  /\ remaining \in Seq(OperationOf(config))
  /\ flight \in Seq(QueryOf(config))
  /\ nextLevel \in 0 .. config.numLevels
  /\ outputs \in Seq(Values)

---------------------------------------------------------------------------
(* Where an address is stored.                                             *)

CacheCopies(x) == {i \in DOMAIN cache : cache[i].x = x}

TableCopies(x) ==
  {c \in UNION {{l} \X levels[l].entries : l \in Live} : c[2].x = x}

FlightCopies(x) == {i \in DOMAIN flight : flight[i].x = x /\ flight[i].found}

NumCopies(x) ==
  Cardinality(CacheCopies(x)) + Cardinality(TableCopies(x))
    + Cardinality(FlightCopies(x))

(* An address is held at most once, by the cache, a table or the query     *)
(* under way, whatever was accessed, rebuilt or grown before; exactly once *)
(* if the DORAM began with a full bottom level, which is what the count of *)
(* real entries in cleanse_bottom_level (lib.rs:1035) relies on.           *)
OneLiveCopy ==
  \A x \in Addresses(config) :
    /\ NumCopies(x) <= 1
    /\ hadInitialBottomLevel => NumCopies(x) = 1

(* What tests/gigadoram.rs:745 asserts after every operation of its        *)
(* traces: "There are no duplicate live real addresses" in the cache.      *)
NoDuplicateCacheAddress ==
  pc = "idle" =>
    \A i, j \in DOMAIN cache :
      cache[i].x = cache[j].x /\ cache[i].x \in Addresses(config) => i = j

(* Within a table no label occurs twice, dummies included (equal labels    *)
(* have equal tags, and a cuckoo table cannot hold them apart), and every  *)
(* slot is accounted for: stashed, touched by one query, or still there.   *)
TablesConsistent ==
  \A l \in Live :
    LET t == levels[l]
    IN  /\ \A e, f \in t.entries : e.x = f.x => e = f
        /\ Cardinality(t.entries) + t.dummies + t.queryCount + config.stashSize
             = t.numElements + NumDummies(config, l)

(* Packed round keys that are still cached are the keys of the tables that *)
(* are live now, level by level: no query is tagged with the key of a      *)
(* table that has been replaced.                                           *)
CachedKeysCurrent ==
  /\ packedQueryKey # NoKeys => packedQueryKey = LiveKeys
  /\ packedBatchQueryKeys # NoKeys => packedBatchQueryKeys.keys = LiveKeys

(* An alibi says "stashed by the table now at this level, and not queried  *)
(* since": the level still holds a table, that table does not hold the     *)
(* entry, and the receivers have not seen its tag there.                   *)
AlibisHold ==
  \A i \in DOMAIN cache : cache[i].x \in Addresses(config) =>
    \A l \in cache[i].alibi :
      /\ l \in Live
      /\ \A e \in levels[l].entries : e.x # cache[i].x
      /\ pc # "levels" => cache[i].x \notin levels[l].revealed

(* The receivers never see the same tag of a table twice: this is why      *)
(* found items are looked up under random tags further down, and stashed   *)
(* ones under their own at the level that stashed them (lib.rs:707).       *)
NoTagRevealedTwice ==
  [][\A l \in Live : nextLevel = l /\ nextLevel' = l + 1 =>
       \A i \in DOMAIN flight :
         TagFits(l) /\ UsesOwnTag(flight[i], l) =>
           /\ flight[i].x \notin levels[l].revealed
           /\ \A j \in DOMAIN flight : j # i /\ flight[j].x = flight[i].x =>
                ~ UsesOwnTag(flight[j], l)]_vars

(* Callers name an address once in a batch.                                *)
DistinctBatches ==
  \A ops \in BatchCalls : \A i, j \in DOMAIN ops : ops[i].x = ops[j].x => i = j

(* What a call has in hand where.                                          *)
CallPhases ==
  /\ pc # "levels" => flight = <<>> /\ nextLevel = 0
  /\ pc \in {"idle", "return"} => remaining = <<>>
  /\ pc = "access" => remaining # <<>>
  /\ pc = "idle" => outputs = <<>>

(* Tags are made with the keys of the tables they are for.                 *)
TagsFit == CachedKeysCurrent /\ (pc = "levels" => queryKeys = LiveKeys)

BottomCounted == Bottom(config) \in Live <=> baseB[Bottom(config)] # 0

(* No table ever holds two entries of one label, or alibis.                *)
TablesTidy ==
  \A l \in Live : \A e \in levels[l].entries :
    e.alibi = {} /\ \A f \in levels[l].entries : e.x = f.x => e = f

(* TablesConsistent's account, and the dummies left cover the budget left. *)
SlotsCounted ==
  \A l \in Live :
    LET t == levels[l]
    IN  /\ Cardinality(t.entries) + t.dummies + t.queryCount + config.stashSize
             = t.numElements + NumDummies(config, l)
        /\ t.dummies + t.queryCount >= NumDummies(config, l)

(* Of a cached or stored entry there is no copy elsewhere.                 *)
StoredOnce ==
  /\ \A i, j \in DOMAIN cache :
       cache[i].x = cache[j].x /\ cache[i].x \in Addresses(config) => i = j
  /\ \A l, m \in Live : \A e \in levels[l].entries, f \in levels[m].entries :
       e.x = f.x /\ e.x \in Addresses(config) => l = m
  /\ \A i \in DOMAIN cache : \A l \in Live : \A e \in levels[l].entries :
       e.x = cache[i].x => e.x \notin Addresses(config)

(* A query has taken the entry out of the cache, or out of the tables it   *)
(* has passed; those of a call are for different addresses.                *)
QueriedApart ==
  /\ \A i, j \in DOMAIN flight : flight[i].x = flight[j].x => i = j
  /\ \A i, j \in DOMAIN remaining : remaining[i].x = remaining[j].x => i = j
  /\ \A i \in DOMAIN flight, j \in DOMAIN remaining : flight[i].x # remaining[j].x
  /\ \A i \in DOMAIN flight :
       /\ \A j \in DOMAIN cache : cache[j].x # flight[i].x
       /\ \A l \in Live : flight[i].found \/ l < nextLevel =>
            \A e \in levels[l].entries : e.x # flight[i].x
       /\ ~ flight[i].found => flight[i].alibi = {} /\ flight[i].y = Zero

Held(x) ==
  \/ \E i \in DOMAIN cache : cache[i].x = x
  \/ \E l \in Live : \E e \in levels[l].entries : e.x = x
  \/ \E i \in DOMAIN flight : flight[i].x = x /\ flight[i].found

AllHeld == hadInitialBottomLevel => \A x \in Addresses(config) : Held(x)

(* An alibi is good until its level is passed.                             *)
AlibisGood ==
  /\ \A i \in DOMAIN cache : cache[i].x \in Addresses(config) =>
       \A l \in cache[i].alibi : l \in Live /\ cache[i].x \notin levels[l].revealed
  /\ \A i \in DOMAIN flight : \A l \in flight[i].alibi :
       nextLevel <= l => l \in Live /\ flight[i].x \notin levels[l].revealed

(* An address whose tag a level has shown is now above that level, or with *)
(* the query that will pass the level under a random tag.                  *)
SeenMeansAbove ==
  \A l \in Live : \A x \in levels[l].revealed :
    \/ \E i \in DOMAIN cache : cache[i].x = x /\ l \notin cache[i].alibi
    \/ \E m \in Live : m < l /\ \E e \in levels[m].entries : e.x = x
    \/ \E i \in DOMAIN flight :
         /\ flight[i].x = x
         /\ l < nextLevel \/ (flight[i].found /\ l \notin flight[i].alibi)

(* What holds of the store and the queries under way, whatever was lost    *)
(* before: labels, keys, slots and alibis agree, and no address is held    *)
(* twice.                                                                  *)
Sound ==
  /\ TypeOK /\ CallPhases /\ TagsFit /\ BottomCounted
  /\ TablesTidy /\ SlotsCounted
  /\ StoredOnce /\ QueriedApart /\ AlibisGood

(* The inductive invariant behind all of these, for such callers.          *)
IInv == Sound /\ AllHeld /\ SeenMeansAbove

(* What the code asserts of a chunk: the cache has room for it             *)
(* (speed_cache.rs:216), each table has dummies enough for its queries     *)
(* (ohtable.rs:304) and no two of them touch a slot (ohtable.rs:278).      *)
QueriesSucceed ==
  pc = "levels" =>
    /\ Len(cache) + Len(flight) <= SpeedCacheSize(config)
    /\ \A l \in Live : l = nextLevel =>
         LET hits == {i \in DOMAIN flight : HitBy(flight[i], l) # {}}
         IN  /\ levels[l].queryCount + Len(flight) <= NumDummies(config, l)
             /\ Cardinality(UNION {HitBy(flight[i], l) : i \in hits}) = Cardinality(hits)

(* What it asserts of a rebuild and of a growth: the tables they collapse  *)
(* have spent their budgets (ohtable.rs:385), what is collected is just    *)
(* what the next table of the target holds (lib.rs:805), and the bottom is *)
(* left with an entry for every address (lib.rs:1035).                     *)
RebuildsSucceed ==
  pc # "levels" =>
    /\ CleanseSucceeds(AllUntouched)
    /\ Free = 0 =>
         /\ \A l \in 0 .. LastLevelToExtract - 1 : l \in Live => Extractable(l)
         /\ IF Target = Bottom(config)
            THEN CleanseSucceeds(Collapsed)
            ELSE Len(Collapsed) = NumElementsAt(config, Target, baseB[Target] + 1)

(* What it asserted of each table when that was built: the level's counter *)
(* is in range (lib.rs:860), the stash is no larger than the table         *)
(* (ohtable.rs:58), and two columns of the cuckoo table, whichever bound   *)
(* sized them, have a slot for every entry and every dummy (ohtable.rs:62).*)
BuildsSucceeded ==
  \A l \in Live :
    /\ l = Bottom(config) \/ baseB[l] < AmpFactor(config)
    /\ config.stashSize <= levels[l].numElements
    /\ \A bounds \in ChtBounds :
         levels[l].numElements + NumDummies(config, l)
           <= ChtFullTableLength(config, bounds, l, baseB[l])

(* No assertion of an access, a rebuild or a growth ever fails, whatever   *)
(* was accessed, rebuilt and grown before.                                 *)
AssertionsHold == QueriesSucceed /\ RebuildsSucceed /\ BuildsSucceeded

(* Every call comes to an end: rebuilding always frees cache slots, so     *)
(* the loop of batch_access makes progress.                                *)
CallsReturn == pc = "access" ~> pc = "idle"

---------------------------------------------------------------------------
(* The value of an address is that of its copy, the default if it has none.*)
ValueAt(x) ==
  IF FlightCopies(x) # {}
  THEN flight[CHOOSE i \in FlightCopies(x) : TRUE].y
  ELSE IF CacheCopies(x) # {}
  THEN cache[CHOOSE i \in CacheCopies(x) : TRUE].y
  ELSE IF TableCopies(x) # {}
  THEN (CHOOSE c \in TableCopies(x) : TRUE)[2].y
  ELSE Zero

(* Operations of the call that have not been written back.                 *)
InFlight == [i \in DOMAIN flight |-> [x |-> flight[i].x, y |-> flight[i].write]]

FullMemories ==
  {[x \in Addresses(c) |-> Zero] : c \in Configs} \cup InitialYs

Memory == INSTANCE Ram WITH
  Calls <- SingleCalls \cup BatchCalls, Contents <- FullMemories, Default <- Zero, NoWrite <- NoWrite,
  mem <- [x \in Addresses(config) |-> ValueAt(x)],
  pending <- InFlight \o remaining,
  results <- outputs

(* Every call reads what was last written to each address, or the value    *)
(* the address was created with; rebuilding and growing change nothing.    *)
IsMemory == Memory!Spec

(* A chunk counts as accessed when it is written back; the age of a level  *)
(* is what the counters of the levels above it say.                        *)
CountedQueries(l) ==
  IF l \notin Live THEN NoTable
  ELSE levels[l].queryCount - (IF l < nextLevel THEN Len(flight) ELSE 0)

LevelAges ==
  LET age[l \in Levels(config)] ==
        IF l = 0
        THEN Len(cache) - config.stashSize
        ELSE age[l - 1] + baseB[l - 1] * NumDummies(config, l - 1)
  IN  age

Schedule == INSTANCE RebuildSchedule WITH
  Configs <- Configs, NoLevel <- NoTable,
  config <- config, numStored <- Len(cache), baseB <- baseB,
  queryCount <- [l \in Levels(config) |-> CountedQueries(l)],
  age <- LevelAges

(* Levels are rebuilt, and their dummies spent, as RebuildSchedule says,   *)
(* so what is proved of the schedule holds of the DORAM.                   *)
KeepsSchedule == Schedule!Spec
=============================================================================
