----------------------- MODULE RebuildScheduleProofs -----------------------
(***************************************************************************)
(* Proofs about RebuildSchedule, for every configuration: the assertions   *)
(* on a table's query budget never fail.                                   *)
(***************************************************************************)
EXTENDS RebuildSchedule, DoramConfigProofs

---------------------------------------------------------------------------
(* Any counter state the invariant allows leaves room: what the cache can  *)
(* still admit fits the budget of every level, empty levels included.      *)
LEMMA AgePlusFreeFits ==
  ASSUME IInv
  PROVE  \A l \in Levels(config) : age[l] + Free <= NumDummies(config, l)
<1> DEFINE D(l) == NumDummies(config, l)
           Bad == {l \in Levels(config) : ~ (age[l] + Free <= D(l))}
<1> USE DEF IInv, TypeOK
<1>1. /\ Free \in Nat
      /\ Bad \subseteq Nat
  BY ConfigFacts DEF Free, Levels
<1>2. 0 \notin Bad
  BY ConfigFacts DEF Ages, Free
<1>3. ASSUME NEW m \in Bad, \A n \in Bad : m <= n
      PROVE  FALSE
  <2>1. m \in Levels(config) /\ m # 0
    BY <1>2
  <2> DEFINE k == m - 1
  <2>2. k \in Levels(config) /\ k # Bottom(config) /\ k + 1 = m
    <3>1. config.numLevels \in Nat \ {0}
      BY ConfigFacts
    <3>2. QED
      BY <2>1, <3>1 DEF Levels, Bottom
  <2>3. age[k] + Free <= D(k)
    BY <2>2, <1>3, <1>1
  <2>4. age[m] = age[k] + baseB[k] * D(k)
    BY <2>2 DEF Ages
  <2>5. D(m) = AmpFactor(config) * D(k)
    BY <2>2, ConfigFacts
  <2>6. /\ baseB[k] < AmpFactor(config)
        /\ baseB[k] \in Nat /\ age[k] \in Nat
        /\ D(k) \in Nat /\ AmpFactor(config) \in Nat
    BY <2>2, ConfigFacts DEF LiveIffCounted
  <2>7. age[m] + Free <= D(m)
    <3> HIDE DEF D, k, Bad
    <3>1. baseB[k] + 1 <= AmpFactor(config)
      BY <2>6
    <3>2. (baseB[k] + 1) * D(k) <= AmpFactor(config) * D(k)
      BY <3>1, <2>6
    <3>3. (baseB[k] + 1) * D(k) = baseB[k] * D(k) + D(k)
      BY <2>6
    <3>4. baseB[k] * D(k) \in Nat /\ AmpFactor(config) * D(k) \in Nat
      BY <2>6
    <3>5. QED
      BY <3>2, <3>3, <3>4, <2>3, <2>4, <2>5, <2>6, <1>1
  <2>8. QED
    BY <2>7
<1>4. Bad = {}
  <2> HIDE DEF Bad
  <2>1. QED
    BY <1>1, <1>3, LeastNatural
<1>5. QED
  BY <1>4

(* With a full cache the levels up to the target are exactly as old as     *)
(* their budget.                                                           *)
LEMMA TargetSpent ==
  ASSUME IInv, Free = 0
  PROVE  \A l \in 0 .. Target : age[l] = NumDummies(config, l)
<1> DEFINE D(l) == NumDummies(config, l)
           Bad == {l \in 0 .. Target : age[l] # D(l)}
<1> USE DEF IInv, TypeOK
<1>1. /\ Target \in Levels(config)
      /\ \A l \in 0 .. Target - 1 : baseB[l] >= AmpFactor(config) - 1
      /\ Target \in Nat /\ Bad \subseteq Nat
  <2>1. /\ Target \in Levels(config)
        /\ \A l \in 0 .. Target - 1 : baseB[l] >= AmpFactor(config) - 1
    BY TargetFacts DEF Target
  <2>2. Target \in Nat
    BY <2>1 DEF Levels
  <2>3. QED
    BY <2>1, <2>2
<1>2. 0 \notin Bad
  BY ConfigFacts DEF Ages, Free
<1>3. ASSUME NEW m \in Bad, \A n \in Bad : m <= n
      PROVE  FALSE
  <2>1. m \in 0 .. Target /\ m # 0
    BY <1>2
  <2> DEFINE k == m - 1
  <2>2. /\ k \in Levels(config) /\ k # Bottom(config) /\ k + 1 = m
        /\ k \in 0 .. Target - 1
    <3>1. config.numLevels \in Nat \ {0}
      BY ConfigFacts
    <3>2. QED
      BY <2>1, <1>1, <3>1 DEF Levels, Bottom
  <2>3. age[k] = D(k)
    BY <2>2, <1>3, <1>1
  <2>4. age[m] = age[k] + baseB[k] * D(k)
    BY <2>2 DEF Ages
  <2>5. D(m) = AmpFactor(config) * D(k)
    BY <2>2, ConfigFacts
  <2>6. /\ baseB[k] = AmpFactor(config) - 1
        /\ AmpFactor(config) \in Nat \ {0} /\ D(k) \in Nat
    BY <2>2, <1>1, ConfigFacts DEF LiveIffCounted
  <2>7. D(k) + (AmpFactor(config) - 1) * D(k) = AmpFactor(config) * D(k)
    <3> HIDE DEF D, k, Bad
    <3>1. QED
      BY <2>6
  <2>8. QED
    BY <2>3, <2>4, <2>5, <2>6, <2>7
<1>4. Bad = {}
  <2> HIDE DEF Bad
  <2>1. QED
    BY <1>1, <1>3, LeastNatural
<1>5. QED
  BY <1>4

---------------------------------------------------------------------------
(* The state with only a bottom table satisfies the invariant.             *)
LEMMA OnlyBottomIInv == config \in Configs /\ OnlyBottom(config) => IInv
<1> SUFFICES ASSUME config \in Configs, OnlyBottom(config)
             PROVE  IInv
  OBVIOUS
<1>1. Levels(config) \subseteq Nat /\ Bottom(config) \in Levels(config)
  BY ConfigFacts DEF Levels
<1>2. TypeOK
  BY ConfigFacts DEF TypeOK, OnlyBottom
<1>3. LiveIffCounted /\ BottomCounted
  BY <1>1, NoLevelAssumption, ConfigFacts
     DEF LiveIffCounted, BottomCounted, OnlyBottom, Live
<1>4. Ages
  <2>1. ASSUME NEW l \in Levels(config) \ {Bottom(config)}
        PROVE  age[l + 1] = age[l] + baseB[l] * NumDummies(config, l)
    <3>1. l + 1 \in Levels(config) /\ NumDummies(config, l) \in Nat
      BY ConfigFacts DEF Levels, Bottom
    <3>2. age[l + 1] = 0 /\ age[l] = 0 /\ baseB[l] = 0
      BY <3>1 DEF OnlyBottom
    <3>3. QED
      BY <3>1, <3>2
  <2>2. age[0] = numStored - config.stashSize
    BY ConfigFacts DEF OnlyBottom
  <2>3. \A l \in Live : queryCount[l] = age[l]
    BY <1>1 DEF Live, OnlyBottom
  <2>4. QED
    BY <2>1, <2>2, <2>3 DEF Ages
<1>5. QED
  BY <1>2, <1>3, <1>4, ConfigFacts DEF IInv, OnlyBottom

LEMMA InitIInv == Init => IInv
<1>1. CASE InitEmpty
  <2>1. Levels(config) \subseteq Nat /\ config \in Configs
    BY <1>1 DEF InitEmpty, Levels
  <2>2. TypeOK
    BY <1>1, ConfigFacts DEF TypeOK, InitEmpty
  <2>3. LiveIffCounted /\ BottomCounted
    BY <1>1, <2>1, ConfigFacts
       DEF LiveIffCounted, BottomCounted, InitEmpty, Live
  <2>4. ASSUME NEW l \in Levels(config) \ {Bottom(config)}
        PROVE  age[l + 1] = age[l] + baseB[l] * NumDummies(config, l)
    <3>1. l + 1 \in Levels(config) /\ NumDummies(config, l) \in Nat
      BY <2>1, ConfigFacts DEF Levels, Bottom
    <3>2. age[l + 1] = 0 /\ age[l] = 0 /\ baseB[l] = 0
      BY <1>1, <3>1 DEF InitEmpty
    <3>3. QED
      BY <3>1, <3>2
  <2>5. Ages
    BY <1>1, <2>1, <2>4, ConfigFacts DEF Ages, InitEmpty, Live
  <2>6. QED
    BY <1>1, <2>1, <2>2, <2>3, <2>5, ConfigFacts DEF IInv, InitEmpty
<1>2. CASE InitBottom
  BY <1>2, OnlyBottomIInv DEF InitBottom
<1>3. QED
  BY <1>1, <1>2 DEF Init

(* An access ages every level, live or not, by the same amount.            *)
LEMMA AccessIInv ==
  ASSUME IInv, NEW k \in 1 .. Free, Access(k)
  PROVE  IInv'
<1> USE DEF IInv, TypeOK
<1>1. /\ config \in Configs /\ config' = config
      /\ Levels(config) \subseteq Nat
      /\ k \in Nat /\ Free \in Nat
      /\ numStored' = numStored + k
      /\ baseB' = baseB
  BY ConfigFacts DEF Access, Free, Levels
<1>2. Live' = Live
  BY <1>1, NoLevelAssumption DEF Access, Live
<1>3. TypeOK' /\ config'.stashSize <= numStored'
  BY <1>1, ConfigFacts DEF Access, Free, Live
<1>4. LiveIffCounted' /\ BottomCounted'
  BY <1>1, <1>2 DEF LiveIffCounted, BottomCounted
<1>5. Ages'
  <2>1. ASSUME NEW l \in Levels(config) \ {Bottom(config)}
        PROVE  age'[l + 1] = age'[l] + baseB[l] * NumDummies(config, l)
    <3>1. l + 1 \in Levels(config) /\ NumDummies(config, l) \in Nat
      BY <1>1, ConfigFacts DEF Levels, Bottom
    <3>2. age[l + 1] = age[l] + baseB[l] * NumDummies(config, l)
      BY DEF Ages
    <3>3. age'[l + 1] = age[l + 1] + k /\ age'[l] = age[l] + k
      BY <3>1 DEF Access
    <3>4. baseB[l] * NumDummies(config, l) \in Nat
      BY <3>1
    <3>5. QED
      BY <3>1, <3>2, <3>3, <3>4, <1>1
  <2>2. age'[0] = numStored' - config.stashSize
    BY <1>1, ConfigFacts DEF Access, Ages
  <2>3. \A l \in Live : queryCount'[l] = age'[l]
    BY DEF Access, Ages, Live
  <2>4. QED
    BY <1>1, <1>2, <2>1, <2>2, <2>3 DEF Ages
<1>6. QED
  BY <1>3, <1>4, <1>5

(* A rebuild moves one full budget of ages into the target's counter.      *)
LEMMA RebuildIInv ==
  ASSUME IInv, Rebuild
  PROVE  IInv'
<1> USE DEF IInv, TypeOK
<1> DEFINE D(l) == NumDummies(config, l)
<1>1. /\ config \in Configs /\ config' = config
      /\ Levels(config) \subseteq Nat
      /\ Free = 0
      /\ numStored' = config.stashSize
  BY ConfigFacts DEF Rebuild, Levels
<1>2. /\ Target \in Levels(config)
      /\ Target = Bottom(config) \/ baseB[Target] < AmpFactor(config) - 1
      /\ \A l \in 0 .. Target - 1 : baseB[l] >= AmpFactor(config) - 1
  BY TargetFacts DEF Target
<1>3. \A l \in Levels(config) :
        /\ l < Target => /\ l # Bottom(config)
                         /\ baseB[l] = AmpFactor(config) - 1
        /\ l + 1 \in Levels(config) <=> l # Bottom(config)
        /\ l < Target => l + 1 <= Target
        /\ l > Target => l # 0
  <2> TAKE l \in Levels(config)
  <2>1. /\ config.numLevels \in Nat \ {0} /\ AmpFactor(config) \in Nat
        /\ l \in Nat /\ Target \in Nat
        /\ Target <= Bottom(config) /\ Bottom(config) \in Nat
    BY <1>2, ConfigFacts DEF Levels, Bottom
  <2>2. l + 1 \in Levels(config) <=> l # Bottom(config)
    BY <2>1 DEF Levels, Bottom
  <2>3. ASSUME l < Target
        PROVE  l # Bottom(config) /\ baseB[l] = AmpFactor(config) - 1
    <3>1. l # Bottom(config) /\ l \in 0 .. Target - 1
      BY <2>1, <2>3
    <3>2. baseB[l] >= AmpFactor(config) - 1 /\ baseB[l] < AmpFactor(config)
      BY <3>1, <1>2 DEF LiveIffCounted
    <3>3. QED
      BY <3>1, <3>2, <2>1
  <2>4. QED
    BY <2>1, <2>2, <2>3
<1>4. /\ \A l \in Levels(config) :
           baseB'[l] = CASE l < Target -> 0
                         [] l = Target -> IF l = Bottom(config) THEN 1
                                          ELSE baseB[l] + 1
                         [] OTHER      -> baseB[l]
      /\ baseB' \in [Levels(config) -> Nat]
  BY <1>1, <1>3, ConfigFacts DEF Rebuild, BaseBAfterRebuild
<1>5. \A l \in Levels(config) :
        queryCount'[l] = CASE l < Target -> NoLevel
                           [] l = Target -> 0
                           [] OTHER      -> queryCount[l]
  BY DEF Rebuild
<1>6. \A l \in Levels(config) :
        age'[l] = IF l <= Target THEN 0 ELSE age[l]
  BY DEF Rebuild
<1>7. Live' = {l \in Levels(config) : l = Target \/ (l > Target /\ l \in Live)}
  BY <1>1, <1>2, <1>5, NoLevelAssumption DEF Live
<1>8. TypeOK' /\ config'.stashSize <= numStored'
  <2>1. numStored' \in 0 .. SpeedCacheSize(config)
    BY <1>1, ConfigFacts
  <2>2. queryCount' \in [Levels(config) -> Nat \cup {NoLevel}]
    BY DEF Rebuild
  <2>3. age' \in [Levels(config) -> Nat]
    BY DEF Rebuild
  <2>4. QED
    BY <1>1, <1>4, <2>1, <2>2, <2>3, ConfigFacts
<1>9. LiveIffCounted' /\ BottomCounted'
  <2>1. ASSUME NEW l \in Levels(config) \ {Bottom(config)}
        PROVE  baseB'[l] < AmpFactor(config) /\ (l \in Live' <=> baseB'[l] # 0)
    BY <1>1, <1>2, <1>3, <1>4, <1>7, ConfigFacts DEF LiveIffCounted
  <2>2. baseB'[Bottom(config)] \in {0, 1}
        /\ (Bottom(config) \in Live' <=> baseB'[Bottom(config)] # 0)
    BY <1>1, <1>2, <1>3, <1>4, <1>7, ConfigFacts DEF BottomCounted
  <2>3. QED
    BY <1>1, <2>1, <2>2 DEF LiveIffCounted, BottomCounted
<1>10. ASSUME NEW l \in Levels(config) \ {Bottom(config)}
       PROVE  age'[l + 1] = age'[l] + baseB'[l] * D(l)
  <2>1. l + 1 \in Levels(config) /\ D(l) \in Nat /\ l \in Nat /\ Target \in Nat
    BY <1>1, <1>2, <1>3, ConfigFacts
  <2>2. age[l + 1] = age[l] + baseB[l] * D(l)
    BY DEF Ages
  <2>3. CASE l < Target
    <3>1. age'[l + 1] = 0 /\ age'[l] = 0 /\ baseB'[l] = 0
      BY <2>1, <2>3, <1>4, <1>6
    <3>2. QED
      BY <3>1, <2>1
  <2>4. CASE l = Target
    <3>1. age'[l + 1] = age[l + 1] /\ age'[l] = 0 /\ baseB'[l] = baseB[l] + 1
      BY <2>1, <2>4, <1>4, <1>6
    <3>2. age[l] = D(l)
      BY <2>1, <2>4, <1>1, TargetSpent
    <3>3. D(l) + baseB[l] * D(l) = (baseB[l] + 1) * D(l)
      <4> HIDE DEF D
      <4>1. baseB[l] \in Nat
        OBVIOUS
      <4>2. QED
        BY <4>1, <2>1
    <3>4. (baseB[l] + 1) * D(l) \in Nat
      BY <2>1
    <3>5. QED
      BY <3>1, <3>2, <3>3, <3>4, <2>2
  <2>5. CASE l > Target
    <3>1. age'[l + 1] = age[l + 1] /\ age'[l] = age[l] /\ baseB'[l] = baseB[l]
      BY <2>1, <2>5, <1>4, <1>6
    <3>2. QED
      BY <3>1, <2>2
  <2>6. QED
    BY <2>1, <2>3, <2>4, <2>5
<1>11. Ages'
  <2>1. age'[0] = numStored' - config.stashSize
    BY <1>1, <1>2, <1>6, ConfigFacts
  <2>2. \A l \in Live' : queryCount'[l] = age'[l]
    BY <1>1, <1>2, <1>5, <1>6, <1>7 DEF Ages
  <2>3. QED
    BY <1>1, <1>10, <2>1, <2>2 DEF Ages
<1>12. QED
  BY <1>8, <1>9, <1>11

(* Growing starts over in the new configuration with a bottom table only.  *)
LEMMA GrowIInv ==
  ASSUME NEW c \in Configs, GrowTo(c)
  PROVE  IInv'
<1>1. (config \in Configs /\ OnlyBottom(config))'
  BY DEF GrowTo, OnlyBottom
<1>2. QED
  BY <1>1, OnlyBottomIInv, PTL

LEMMA NextIInv == IInv /\ [Next]_vars => IInv'
<1> SUFFICES ASSUME IInv, [Next]_vars
             PROVE  IInv'
  OBVIOUS
<1>1. ASSUME NEW k \in 1 .. Free, Access(k)
      PROVE  IInv'
  BY <1>1, AccessIInv
<1>2. CASE Rebuild
  BY <1>2, RebuildIInv
<1>3. ASSUME NEW c \in Configs, GrowNaturally(c)
      PROVE  IInv'
  BY <1>3, GrowIInv DEF GrowNaturally
<1>4. ASSUME NEW c \in Configs, GrowOnDemand(c)
      PROVE  IInv'
  BY <1>4, GrowIInv DEF GrowOnDemand
<1>5. CASE UNCHANGED vars
  BY <1>5 DEF vars, IInv, TypeOK, LiveIffCounted, BottomCounted, Ages, Live
<1>6. QED
  BY <1>1, <1>2, <1>3, <1>4, <1>5 DEF Next

(* The inductive invariant holds in every reachable state, whatever the    *)
(* configuration, through any sequence of accesses, rebuilds and growths.  *)
THEOREM ScheduleInvariant == Spec => []IInv
<1>1. QED
  BY InitIInv, NextIInv, PTL DEF Spec

(* Counters and query counts keep their types; the cache never overfills.  *)
THEOREM ScheduleTypeOK == Spec => []TypeOK
<1>1. IInv => TypeOK
  BY DEF IInv
<1>2. QED
  BY <1>1, ScheduleInvariant, PTL

(* OhTable::query never runs out of dummies: the assertions at             *)
(* ohtable.rs:228 and ohtable.rs:304 hold for every chunk the cache admits.*)
THEOREM BudgetNeverOverrun == Spec => []BudgetCovers
<1>1. IInv => BudgetCovers
  <2> SUFFICES ASSUME IInv, NEW l \in Live
               PROVE  queryCount[l] + Free <= NumDummies(config, l)
    BY DEF BudgetCovers
  <2>1. age[l] + Free <= NumDummies(config, l)
    BY AgePlusFreeFits DEF Live
  <2>2. queryCount[l] = age[l]
    BY DEF IInv, Ages
  <2>3. QED
    BY <2>1, <2>2
<1>2. QED
  BY <1>1, ScheduleInvariant, PTL

(* Whatever a rebuild collapses has served its whole budget, so the        *)
(* assertion of OhTable::extract (ohtable.rs:385) holds.                   *)
THEOREM RebuildExtractsSpentTables == Spec => []ExtractedSpent
<1>1. IInv => ExtractedSpent
  <2> SUFFICES ASSUME IInv, Free = 0, NEW l \in Extracted
               PROVE  queryCount[l] = NumDummies(config, l)
    BY DEF ExtractedSpent
  <2>1. /\ Target \in Nat /\ l \in Nat
        /\ l \in Live /\ l <= Target
    BY TargetFacts DEF Extracted, LevelsToExtract, Live, Levels, Target,
                       IInv, TypeOK
  <2>2. age[l] = NumDummies(config, l)
    BY <2>1, TargetSpent
  <2>3. queryCount[l] = age[l]
    BY <2>1 DEF IInv, Ages
  <2>4. QED
    BY <2>2, <2>3
<1>2. QED
  BY <1>1, ScheduleInvariant, PTL

(* The counters stay below the amplification factor and tell which levels  *)
(* hold a table.                                                           *)
THEOREM CountersTellLiveLevels == Spec => []LiveIffCounted
<1>1. IInv => LiveIffCounted
  BY DEF IInv
<1>2. QED
  BY <1>1, ScheduleInvariant, PTL

(* Every table ever built has columns long enough for its entries and      *)
(* dummies, and entries enough for its stash: the assertions of            *)
(* OHTableParams::validate (ohtable.rs:55) hold for every level, counter   *)
(* and choice of column lengths.                                           *)
THEOREM TablesAlwaysFit == Spec => []TablesFit
<1>1. IInv => TablesFit
  <2> SUFFICES ASSUME IInv, NEW l \in Live, NEW bounds \in ChtBounds
               PROVE  LET n == NumElementsAt(config, l, baseB[l])
                      IN  /\ config.stashSize <= n
                          /\ n + NumDummies(config, l)
                               <= ChtFullTableLength(config, bounds, l, baseB[l])
    BY DEF TablesFit
  <2>1. config \in Configs /\ l \in Levels(config)
    BY DEF IInv, TypeOK, Live
  <2>2. /\ baseB[l] \in Nat \ {0}
        /\ l = Bottom(config) \/ baseB[l] < AmpFactor(config)
    BY <2>1 DEF IInv, TypeOK, LiveIffCounted, BottomCounted
  <2>3. QED
    BY <2>1, <2>2, ColumnsSuffice
<1>2. QED
  BY <1>1, ScheduleInvariant, PTL
=============================================================================
