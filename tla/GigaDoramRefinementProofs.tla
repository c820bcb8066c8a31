---------------------- MODULE GigaDoramRefinementProofs ----------------------
(***************************************************************************)
(* Proofs about what GigaDoram implements, for every configuration and     *)
(* every set of calls that name an address once in a batch.                *)
(*                                                                         *)
(* It implements Ram: every read returns what was last written.  With      *)
(* network errors it implements LossyRam, and stays sound.                 *)
(*                                                                         *)
(* It implements RebuildSchedule: levels are rebuilt, and their dummies    *)
(* spent, as the schedule says; what is proved of it is carried over: the  *)
(* budgets.  Sizes follow from them: a full cache collapses into just the  *)
(* entries the next table is built from, so no assertion of an access, a   *)
(* rebuild or a growth ever fails.                                         *)
(***************************************************************************)
EXTENDS GigaDoramProofs, GigaDoramFailures

(* A live copy of x has the value y.                                       *)
Holds(x, y) ==
  \/ \E i \in DOMAIN cache : cache[i].x = x /\ cache[i].y = y
  \/ \E l \in Live : \E e \in levels[l].entries : e.x = x /\ e.y = y
  \/ \E i \in DOMAIN flight : flight[i].x = x /\ flight[i].found /\ flight[i].y = y

(* It is then the value of x, there being one copy; without a copy an      *)
(* address has the default value.                                          *)
LEMMA HeldValue ==
  Sound => \A x \in Addresses(config) :
            /\ \A y : Holds(x, y) => ValueAt(x) = y
            /\ (\A y : ~ Holds(x, y)) => ValueAt(x) = Zero
<1> SUFFICES ASSUME Sound, NEW x \in Addresses(config)
             PROVE  /\ \A y : Holds(x, y) => ValueAt(x) = y
                    /\ (\A y : ~ Holds(x, y)) => ValueAt(x) = Zero
  OBVIOUS
<1>1. ASSUME NEW i \in DOMAIN flight, flight[i].x = x, flight[i].found
      PROVE  ValueAt(x) = flight[i].y
  <2>1. FlightCopies(x) = {i}
    BY <1>1 DEF Sound, QueriedApart, FlightCopies
  <2>2. QED
    BY <2>1 DEF ValueAt
<1>2. ASSUME NEW i \in DOMAIN cache, cache[i].x = x
      PROVE  ValueAt(x) = cache[i].y
  <2>1. CacheCopies(x) = {i}
    BY <1>2 DEF Sound, StoredOnce, CacheCopies
  <2>2. FlightCopies(x) = {}
    BY <1>2 DEF Sound, QueriedApart, FlightCopies
  <2>3. QED
    BY <2>1, <2>2 DEF ValueAt
<1>3. ASSUME NEW l \in Live, NEW e \in levels[l].entries, e.x = x
      PROVE  ValueAt(x) = e.y
  <2>1. TableCopies(x) = {<<l, e>>}
    <3>1. <<l, e>> \in TableCopies(x)
      BY <1>3 DEF TableCopies
    <3>2. ASSUME NEW c \in TableCopies(x)
          PROVE  c = <<l, e>>
      <4>1. PICK m \in Live : c \in {m} \X levels[m].entries /\ c[2].x = x
        BY DEF TableCopies
      <4>2. c = <<m, c[2]>> /\ c[2] \in levels[m].entries
        BY <4>1
      <4>3. m = l
        BY <1>3, <4>1, <4>2 DEF Sound, StoredOnce
      <4>4. c[2] = e
        BY <1>3, <4>1, <4>2, <4>3 DEF Sound, TablesTidy
      <4>5. QED
        BY <4>2, <4>3, <4>4
    <3>3. QED
      BY <3>1, <3>2
  <2>2. FlightCopies(x) = {}
    BY <1>3 DEF Sound, QueriedApart, FlightCopies
  <2>3. CacheCopies(x) = {}
    BY <1>3 DEF Sound, StoredOnce, CacheCopies
  <2>4. (CHOOSE c \in TableCopies(x) : TRUE) = <<l, e>>
    BY <2>1
  <2>5. QED
    BY <2>1, <2>2, <2>3, <2>4 DEF ValueAt
<1>4. ASSUME \A y : ~ Holds(x, y)
      PROVE  ValueAt(x) = Zero
  <2>1. FlightCopies(x) = {}
    BY <1>4 DEF Holds, FlightCopies
  <2>2. CacheCopies(x) = {}
    BY <1>4 DEF Holds, CacheCopies
  <2>3. TableCopies(x) = {}
    <3> SUFFICES ASSUME NEW c \in TableCopies(x)
                 PROVE  FALSE
      OBVIOUS
    <3>1. PICK m \in Live : c \in {m} \X levels[m].entries /\ c[2].x = x
      BY DEF TableCopies
    <3>2. Holds(x, c[2].y)
      BY <3>1 DEF Holds
    <3>3. QED
      BY <1>4, <3>2
  <2>4. QED
    BY <2>1, <2>2, <2>3 DEF ValueAt
<1>5. QED
  BY <1>1, <1>2, <1>3, <1>4 DEF Holds

(* The same after a step.                                                  *)
LEMMA HeldValueNext ==
  Sound' => (\A x \in Addresses(config) :
              /\ \A y : Holds(x, y) => ValueAt(x) = y
              /\ (\A y : ~ Holds(x, y)) => ValueAt(x) = Zero)'
BY HeldValue, PTL

(* A step that keeps all copies keeps all values.                          *)
LEMMA ValuesKept ==
  ASSUME Sound, Sound', config' = config,
         \A x \in Addresses(config) : \A y : Holds(x, y)' <=> Holds(x, y)
  PROVE  \A x \in Addresses(config) : ValueAt(x)' = ValueAt(x)
<1> TAKE x \in Addresses(config)
<1>1. CASE \E y : Holds(x, y)
  <2>1. PICK y : Holds(x, y)
    BY <1>1
  <2>2. Holds(x, y)'
    BY <2>1
  <2>3. ValueAt(x) = y
    BY <2>1, HeldValue
  <2>4. ValueAt(x)' = y
    BY <2>2, HeldValueNext
  <2>5. QED
    BY <2>3, <2>4
<1>2. CASE \A y : ~ Holds(x, y)
  <2>1. \A y : ~ Holds(x, y)'
    BY <1>2
  <2>2. ValueAt(x) = Zero
    BY <1>2, HeldValue
  <2>3. ValueAt(x)' = Zero
    BY <2>1, HeldValueNext
  <2>4. QED
    BY <2>2, <2>3
<1>3. QED
  BY <1>1, <1>2

(* The operations of the call that are not written back: those of the      *)
(* chunk, then the others.                                                 *)
Pending == InFlight \o remaining

LEMMA PendingListed ==
  TypeOK => /\ InFlight \in Seq(OperationOf(config))
            /\ Len(InFlight) = Len(flight) /\ Len(flight) \in Nat
            /\ DOMAIN flight = 1 .. Len(flight)
            /\ \A i \in 1 .. Len(flight) :
                 InFlight[i] = [x |-> flight[i].x, y |-> flight[i].write]
            /\ flight = <<>> => Pending = remaining
<1> SUFFICES ASSUME TypeOK
             PROVE  /\ InFlight \in Seq(OperationOf(config))
                    /\ Len(InFlight) = Len(flight) /\ Len(flight) \in Nat
                    /\ DOMAIN flight = 1 .. Len(flight)
                    /\ \A i \in 1 .. Len(flight) :
                         InFlight[i] = [x |-> flight[i].x, y |-> flight[i].write]
                    /\ flight = <<>> => Pending = remaining
  OBVIOUS
<1> DEFINE n == Len(flight)
<1>1. /\ n \in Nat /\ DOMAIN flight = 1 .. n
      /\ \A i \in 1 .. n : flight[i] \in QueryOf(config)
  BY CallTypes
<1>2. InFlight = [i \in 1 .. n |-> [x |-> flight[i].x, y |-> flight[i].write]]
  BY <1>1 DEF InFlight
<1>3. \A i \in 1 .. n : [x |-> flight[i].x, y |-> flight[i].write] \in OperationOf(config)
  BY <1>1 DEF QueryOf, OperationOf
<1>4. InFlight \in [1 .. n -> OperationOf(config)]
  <2> HIDE DEF n
  <2>1. QED
    BY <1>2, <1>3
<1>5. InFlight \in Seq(OperationOf(config)) /\ Len(InFlight) = n
  <2> HIDE DEF n
  <2>1. QED
    BY <1>1, <1>4, TupleIsSeq
<1>6. flight = <<>> => Pending = remaining
  <2> SUFFICES ASSUME flight = <<>>
               PROVE  Pending = remaining
    OBVIOUS
  <2>1. n = 0
    BY EmptySeq
  <2>2. InFlight = <<>>
    BY <1>5, <2>1, EmptySeq
  <2>3. remaining \in Seq(OperationOf(config))
    BY DEF TypeOK
  <2>4. QED
    BY <2>2, <2>3, ConcatEmptySeq DEF Pending
<1>7. QED
  BY <1>1, <1>2, <1>5, <1>6

(* The same after a step.                                                  *)
LEMMA PendingListedNext ==
  TypeOK' => (/\ InFlight \in Seq(OperationOf(config))
              /\ Len(InFlight) = Len(flight) /\ Len(flight) \in Nat
              /\ DOMAIN flight = 1 .. Len(flight)
              /\ \A i \in 1 .. Len(flight) :
                   InFlight[i] = [x |-> flight[i].x, y |-> flight[i].write]
              /\ flight = <<>> => Pending = remaining)'
BY PendingListed, PTL

(* Steps that a caller does not see.                                       *)
LEMMA Unseen ==
  ASSUME Sound, Sound', config' = config, outputs' = outputs, Pending' = Pending,
         \A x \in Addresses(config) : \A y : Holds(x, y)' <=> Holds(x, y)
  PROVE  UNCHANGED Memory!vars
<1>1. \A x \in Addresses(config) : ValueAt(x)' = ValueAt(x)
  BY ValuesKept
<1>2. [x \in Addresses(config) |-> ValueAt(x)]' = [x \in Addresses(config) |-> ValueAt(x)]
  BY <1>1
<1>3. (InFlight \o remaining)' = InFlight \o remaining
  BY DEF Pending
<1>4. QED
  BY <1>2, <1>3 DEF Memory!vars

(* A call is handed to the memory.                                         *)
LEMMA StartCallCalls ==
  ASSUME Sound, Sound', NEW ops \in SingleCalls \cup BatchCalls, NEW isSingle,
         StartCall(ops, isSingle)
  PROVE  Memory!Call(ops)
<1>1. /\ pc = "idle" /\ remaining' = ops
      /\ \A i \in DOMAIN ops : ops[i].x \in Addresses(config)
      /\ UNCHANGED <<store, keyCaches, flight, queryKeys, nextLevel, outputs>>
  BY DEF StartCall
<1>2. /\ config' = config /\ cache' = cache /\ levels' = levels
      /\ flight' = flight /\ outputs' = outputs /\ Live' = Live
  BY <1>1 DEF store, Live
<1>3. flight = <<>> /\ remaining = <<>> /\ outputs = <<>>
  BY <1>1 DEF Sound, CallPhases
<1>4. Pending = <<>> /\ Pending' = ops
  BY <1>1, <1>2, <1>3, PendingListed, PendingListedNext DEF Sound
<1>5. \A x \in Addresses(config) : ValueAt(x)' = ValueAt(x)
  <2>1. \A x \in Addresses(config) : \A y : Holds(x, y)' <=> Holds(x, y)
    BY <1>2 DEF Holds
  <2>2. QED
    BY <1>2, <2>1, ValuesKept
<1>6. [x \in Addresses(config) |-> ValueAt(x)]' = [x \in Addresses(config) |-> ValueAt(x)]
  BY <1>2, <1>5
<1>7. Memory!Idle
  BY <1>3, <1>4 DEF Memory!Idle, Pending
<1>8. Memory!InRange(ops)
  BY <1>1 DEF Memory!InRange
<1>9. QED
  BY <1>2, <1>4, <1>6, <1>7, <1>8 DEF Memory!Call, Pending

(* A level without a table is skipped unseen.                              *)
LEMMA SkipLevelUnseen ==
  ASSUME Sound, Sound', NEW l, SkipLevel(l)
  PROVE  UNCHANGED Memory!vars
<1>1. UNCHANGED <<store, keyCaches, pc, single, remaining, flight, queryKeys, outputs>>
  BY DEF SkipLevel
<1>2. /\ config' = config /\ cache' = cache /\ levels' = levels /\ Live' = Live
      /\ flight' = flight /\ remaining' = remaining /\ outputs' = outputs
  BY <1>1 DEF store, Live
<1>3. Pending' = Pending
  BY <1>2 DEF Pending, InFlight
<1>4. \A x \in Addresses(config) : \A y : Holds(x, y)' <=> Holds(x, y)
  BY <1>2 DEF Holds
<1>5. QED
  BY <1>2, <1>3, <1>4, Unseen

(* The query of the cache hands the operations of the chunk, and the       *)
(* copies it finds, to the queries under way.                              *)
LEMMA QueryCacheUnseen ==
  ASSUME Sound, Sound', QueryCache
  PROVE  UNCHANGED Memory!vars
<1> DEFINE Op == OperationOf(config)
<1>1. /\ config' = config /\ levels' = levels /\ Live' = Live
      /\ outputs' = outputs /\ pc = "access"
  BY DEF QueryCache, Live
<1>2. flight = <<>>
  BY <1>1 DEF Sound, CallPhases
<1>3. PICK n \in Nat :
        /\ n <= Len(remaining)
        /\ DOMAIN flight' = 1 .. n /\ flight' \in Seq(QueryOf(config))
        /\ \A i \in 1 .. n :
             /\ i \in DOMAIN remaining
             /\ flight'[i].x = remaining[i].x
             /\ flight'[i].write = remaining[i].y
             /\ flight'[i].found <=> \E j \in DOMAIN cache : cache[j].x = remaining[i].x
             /\ \A j \in DOMAIN cache : cache[j].x = remaining[i].x =>
                  flight'[i].y = cache[j].y /\ flight'[i].alibi = cache[j].alibi
        /\ DOMAIN cache' = DOMAIN cache
        /\ \A j \in DOMAIN cache :
             \/ /\ cache'[j] = cache[j]
                /\ \A i \in 1 .. n : flight'[i].x # cache[j].x
             \/ /\ cache'[j].x \notin Addresses(config)
                /\ \E i \in 1 .. n : flight'[i].x = cache[j].x
        /\ remaining' \in Seq(Op)
        /\ DOMAIN remaining' = 1 .. Len(remaining) - n
        /\ \A k \in DOMAIN remaining' : /\ k + n \in DOMAIN remaining
                                        /\ remaining'[k] = remaining[k + n]
  BY CacheQueried
<1>4. ASSUME NEW x \in Addresses(config), NEW y
      PROVE  Holds(x, y)' <=> Holds(x, y)
  <2>1. (\E l \in Live : \E e \in levels[l].entries : e.x = x /\ e.y = y)'
          <=> \E l \in Live : \E e \in levels[l].entries : e.x = x /\ e.y = y
    BY <1>1
  <2>2. ASSUME NEW j \in DOMAIN cache, cache[j].x = x, cache[j].y = y
        PROVE  Holds(x, y)'
    <3>1. CASE cache'[j] = cache[j]
      BY <1>3, <2>2, <3>1 DEF Holds
    <3>2. CASE \E i \in 1 .. n : flight'[i].x = cache[j].x
      <4>1. PICK i \in 1 .. n : flight'[i].x = cache[j].x
        BY <3>2
      <4>2. flight'[i].x = x /\ flight'[i].found /\ flight'[i].y = y
        BY <1>3, <2>2, <4>1
      <4>3. QED
        BY <1>3, <4>2 DEF Holds
    <3>3. QED
      BY <1>3, <3>1, <3>2
  <2>3. ASSUME NEW j \in DOMAIN cache', cache'[j].x = x, cache'[j].y = y
        PROVE  \E k \in DOMAIN cache : cache[k].x = x /\ cache[k].y = y
    <3>1. j \in DOMAIN cache /\ cache'[j] = cache[j]
      BY <1>3, <2>3
    <3>2. QED
      BY <2>3, <3>1
  <2>4. ASSUME NEW i \in DOMAIN flight', flight'[i].x = x, flight'[i].found,
               flight'[i].y = y
        PROVE  \E k \in DOMAIN cache : cache[k].x = x /\ cache[k].y = y
    <3>1. i \in 1 .. n
      BY <1>3
    <3>2. PICK j \in DOMAIN cache : cache[j].x = remaining[i].x
      BY <1>3, <2>4, <3>1
    <3>3. cache[j].x = x /\ cache[j].y = y
      BY <1>3, <2>4, <3>1, <3>2
    <3>4. QED
      BY <3>3
  <2>5. ~ \E i \in DOMAIN flight : flight[i].x = x /\ flight[i].found /\ flight[i].y = y
    <3>1. Len(flight) = 0 /\ DOMAIN flight = 1 .. Len(flight)
      BY <1>2, CallTypes, EmptySeq DEF Sound
    <3>2. QED
      BY <3>1
  <2>6. Holds(x, y) => Holds(x, y)'
    BY <2>1, <2>2, <2>5 DEF Holds
  <2>7. Holds(x, y)' => Holds(x, y)
    BY <2>1, <2>3, <2>4 DEF Holds
  <2>8. QED
    BY <2>6, <2>7
<1>5. Pending' = Pending
  <2> DEFINE f == InFlight'
             p == Len(remaining)
  <2>1. /\ f \in Seq(Op) /\ Len(f) = n
        /\ \A i \in 1 .. n : f[i] = [x |-> flight'[i].x, y |-> flight'[i].write]
    <3>1. Len(flight') = n
      <4>1. Len(flight') \in Nat /\ DOMAIN flight' = 1 .. Len(flight')
        BY <1>3, LenProperties
      <4>2. QED
        BY <1>3, <4>1
    <3>2. QED
      BY <1>1, <3>1, PendingListedNext DEF Sound, OperationOf
  <2>2. remaining \in Seq(Op) /\ p \in Nat /\ DOMAIN remaining = 1 .. p
    BY LenProperties DEF Sound, TypeOK
  <2>3. Len(remaining') = p - n
    <3>1. Len(remaining') \in Nat /\ DOMAIN remaining' = 1 .. Len(remaining')
      BY <1>3, LenProperties
    <3>2. p - n \in Nat /\ DOMAIN remaining' = 1 .. p - n
      BY <1>3, <2>2
    <3> HIDE DEF p
    <3>3. QED
      BY <3>1, <3>2
  <2>4. \A i \in 1 .. n : f[i] = remaining[i]
    <3> TAKE i \in 1 .. n
    <3>1. remaining[i] \in Op
      <4>1. i \in 1 .. Len(remaining)
        BY <1>3, <2>2
      <4>2. QED
        BY <2>2, <4>1, ElementOfSeq
    <3>2. f[i] = [x |-> remaining[i].x, y |-> remaining[i].y]
      <4>1. f[i] = [x |-> flight'[i].x, y |-> flight'[i].write]
        BY <2>1
      <4>2. QED
        BY <1>3, <4>1
    <3> HIDE DEF f
    <3>3. QED
      BY <3>1, <3>2 DEF OperationOf
  <2> HIDE DEF f, p, Op
  <2>5. /\ f \o remaining' \in Seq(Op) /\ Len(f \o remaining') = n + (p - n)
        /\ \A i \in 1 .. n + (p - n) : (f \o remaining')[i] =
             IF i <= n THEN f[i] ELSE remaining'[i - n]
    BY <1>3, <2>1, <2>3, ConcatProperties
  <2>6. n + (p - n) = p /\ n <= p
    BY <1>3, <2>2 DEF p
  <2>7. \A i \in 1 .. p : (f \o remaining')[i] = remaining[i]
    <3> TAKE i \in 1 .. p
    <3>1. CASE i <= n
      BY <2>2, <2>4, <2>5, <2>6, <3>1
    <3>2. CASE ~ (i <= n)
      <4>1. i - n \in 1 .. p - n /\ (i - n) + n = i
        BY <2>2, <3>2
      <4>2. i - n \in DOMAIN remaining'
        BY <1>3, <4>1 DEF p
      <4>3. remaining'[i - n] = remaining[i]
        BY <1>3, <4>1, <4>2
      <4>4. QED
        BY <2>2, <2>5, <2>6, <3>2, <4>3
    <3>3. QED
      BY <3>1, <3>2
  <2>8. f \o remaining' = remaining
    BY <2>2, <2>5, <2>6, <2>7, SeqEqual DEF p
  <2>9. Pending = remaining
    BY <1>2, PendingListed DEF Sound
  <2>10. QED
    BY <2>8, <2>9 DEF Pending, f
<1>6. QED
  BY <1>1, <1>4, <1>5, Unseen

(* The query of a table takes from it the copies the queries ask for.      *)
LEMMA QueryLevelUnseen ==
  ASSUME Sound, Sound', NEW l \in Levels(config), QueryLevel(l)
  PROVE  UNCHANGED Memory!vars
<1>1. /\ config' = config /\ cache' = cache /\ remaining' = remaining
      /\ outputs' = outputs /\ l \in Live
  BY DEF QueryLevel
<1>2. /\ \A i \in DOMAIN flight :
           /\ flight'[i].x = flight[i].x /\ flight'[i].write = flight[i].write
           /\ \/ /\ flight'[i] = flight[i]
                 /\ \A e \in levels[l].entries : e.x # flight[i].x
              \/ /\ ~ flight[i].found /\ flight'[i].found
                 /\ \E e \in levels[l].entries :
                      e.x = flight[i].x /\ flight'[i].y = e.y
      /\ DOMAIN flight' = DOMAIN flight
  BY LevelQueried
<1>3. PICK t \in TableOf(config) :
        /\ levels' = [levels EXCEPT ![l] = t]
        /\ t.entries = {e \in levels[l].entries :
                          \A i \in DOMAIN flight : flight[i].x # e.x}
  BY LevelQueried
<1>4. /\ Live' = Live /\ levels'[l].entries = t.entries
      /\ \A m \in Live : m # l => levels'[m] = levels[m]
  <2>1. DOMAIN levels = Levels(config) /\ Live \subseteq Levels(config)
    BY StoreTypes DEF Sound
  <2>2. levels'[l] = t /\ \A m \in Levels(config) : m # l => levels'[m] = levels[m]
    BY <1>3, <2>1
  <2>3. t # NoTable /\ levels[l] # NoTable
    BY <1>1, NoTableAssumption, StoreTypes DEF Sound
  <2>4. Live' = Live
    BY <1>1, <2>2, <2>3 DEF Live
  <2>5. QED
    BY <2>1, <2>2, <2>4
<1>5. ASSUME NEW x \in Addresses(config), NEW y
      PROVE  Holds(x, y)' <=> Holds(x, y)
  <2>1. ASSUME NEW m \in Live, NEW e \in levels[m].entries, e.x = x, e.y = y
        PROVE  Holds(x, y)'
    <3>1. CASE m = l /\ e \notin t.entries
      <4>1. PICK i \in DOMAIN flight : flight[i].x = x
        BY <1>3, <2>1, <3>1
      <4>2. PICK f \in levels[l].entries : f.x = flight[i].x /\ flight'[i].y = f.y
        BY <1>2, <2>1, <3>1, <4>1
      <4>3. f = e
        BY <1>1, <2>1, <3>1, <4>1, <4>2 DEF Sound, TablesTidy
      <4>4. flight'[i].x = x /\ flight'[i].found /\ flight'[i].y = y
        BY <1>2, <2>1, <3>1, <4>1, <4>2, <4>3
      <4>5. QED
        BY <1>2, <4>4 DEF Holds
    <3>2. CASE m # l \/ e \in t.entries
      BY <1>4, <2>1, <3>2 DEF Holds
    <3>3. QED
      BY <3>1, <3>2
  <2>2. ASSUME NEW i \in DOMAIN flight, flight[i].x = x, flight[i].found, flight[i].y = y
        PROVE  Holds(x, y)'
    <3>1. flight'[i] = flight[i] /\ i \in DOMAIN flight'
      BY <1>2, <2>2
    <3>2. QED
      BY <2>2, <3>1 DEF Holds
  <2>3. ASSUME NEW m \in Live', NEW e \in levels'[m].entries, e.x = x, e.y = y
        PROVE  Holds(x, y)
    <3>1. m \in Live /\ e \in levels[m].entries
      BY <1>3, <1>4, <2>3
    <3>2. QED
      BY <2>3, <3>1 DEF Holds
  <2>4. ASSUME NEW i \in DOMAIN flight', flight'[i].x = x, flight'[i].found,
               flight'[i].y = y
        PROVE  Holds(x, y)
    <3>1. i \in DOMAIN flight /\ flight[i].x = x
      BY <1>2, <2>4
    <3>2. CASE flight'[i] = flight[i]
      BY <2>4, <3>1, <3>2 DEF Holds
    <3>3. CASE \E e \in levels[l].entries : e.x = flight[i].x /\ flight'[i].y = e.y
      BY <1>1, <2>4, <3>1, <3>3 DEF Holds
    <3>4. QED
      BY <1>2, <3>1, <3>2, <3>3
  <2>5. Holds(x, y) => Holds(x, y)'
    BY <1>1, <2>1, <2>2 DEF Holds
  <2>6. Holds(x, y)' => Holds(x, y)
    BY <1>1, <2>3, <2>4 DEF Holds
  <2>7. QED
    BY <2>5, <2>6
<1>6. Pending' = Pending
  <2>1. InFlight' = InFlight
    BY <1>2 DEF InFlight
  <2>2. QED
    BY <1>1, <2>1 DEF Pending
<1>7. QED
  BY <1>1, <1>5, <1>6, Unseen

(* When a chunk is written back each of its queries has the value of its   *)
(* address, and leaves there the value it writes, if it writes one.        *)
LEMMA WrittenBack ==
  ASSUME Sound, Sound', WriteBack
  PROVE  /\ config' = config
         /\ \A i \in DOMAIN flight : flight[i].x \in Addresses(config)
         /\ \A x \in Addresses(config) : \A i \in DOMAIN flight : flight[i].x = x =>
              /\ ValueAt(x) = flight[i].y
              /\ ValueAt(x)' =
                   IF flight[i].write = NoWrite THEN flight[i].y ELSE flight[i].write
         /\ \A x \in Addresses(config) :
              (\A i \in DOMAIN flight : flight[i].x # x) => ValueAt(x)' = ValueAt(x)
<1> DEFINE n == Len(flight)
           k == Len(cache)
           fresh == [i \in DOMAIN flight |-> Fresh(flight[i])]
<1>1. /\ config' = config /\ levels' = levels /\ Live' = Live
      /\ nextLevel = config.numLevels
      /\ cache' = cache \o fresh /\ flight' = <<>>
  BY DEF WriteBack, Live
<1>2. /\ n \in Nat /\ DOMAIN flight = 1 .. n
      /\ \A i \in 1 .. n : flight[i] \in QueryOf(config)
      /\ k \in Nat /\ DOMAIN cache = 1 .. k /\ cache \in Seq(EntryOf(config))
      /\ \A i \in 1 .. n : flight[i].x \in Addresses(config)
  BY CallTypes, StoreTypes DEF Sound, QueryOf
<1>3. /\ DOMAIN cache' = 1 .. k + n
      /\ \A i \in 1 .. k : cache'[i] = cache[i]
      /\ \A i \in 1 .. n : cache'[k + i] = Fresh(flight[i])
  <2> DEFINE T == EntryOf(config) \cup {Fresh(flight[i]) : i \in 1 .. n}
  <2>1. fresh \in Seq(T) /\ Len(fresh) = n
    <3>1. fresh = [i \in 1 .. n |-> fresh[i]] /\ \A i \in 1 .. n : fresh[i] \in T
      BY <1>2
    <3>2. fresh \in [1 .. n -> T]
      <4> HIDE DEF fresh, n, T
      <4>1. QED
        BY <3>1
    <3> HIDE DEF fresh, n, T
    <3>3. QED
      BY <1>2, <3>2, TupleIsSeq
  <2>2. cache \in Seq(T) /\ Len(cache) = k
    <3>1. EntryOf(config) \subseteq T
      OBVIOUS
    <3> HIDE DEF T
    <3>2. QED
      BY <1>2, <3>1, SeqMonotonic
  <2> HIDE DEF fresh, T, n, k
  <2>3. /\ cache' \in Seq(T) /\ Len(cache') = k + n
        /\ \A i \in 1 .. k + n : cache'[i] = IF i <= k THEN cache[i] ELSE fresh[i - k]
    BY <1>1, <2>1, <2>2, ConcatProperties
  <2>4. DOMAIN cache' = 1 .. k + n
    BY <2>3, LenProperties
  <2>5. \A i \in 1 .. k : cache'[i] = cache[i]
    BY <1>2, <2>3
  <2>6. \A i \in 1 .. n : cache'[k + i] = fresh[i]
    <3> TAKE i \in 1 .. n
    <3>1. k + i \in 1 .. k + n /\ ~ (k + i <= k) /\ (k + i) - k = i
      BY <1>2
    <3>2. QED
      BY <2>3, <3>1
  <2>7. \A i \in 1 .. n : fresh[i] = Fresh(flight[i])
    BY <1>2 DEF fresh
  <2>8. QED
    BY <2>4, <2>5, <2>6, <2>7
<1>4. DOMAIN flight' = {}
  <2>1. DOMAIN <<>> = 1 .. 0
    BY EmptySeq, LenProperties
  <2>2. QED
    BY <1>1, <2>1
<1> HIDE DEF fresh, n, k
<1>5. ASSUME NEW x \in Addresses(config), NEW i \in DOMAIN flight, flight[i].x = x
      PROVE  /\ ValueAt(x) = flight[i].y
             /\ ValueAt(x)' =
                  IF flight[i].write = NoWrite THEN flight[i].y ELSE flight[i].write
  <2>1. i \in 1 .. n
    BY <1>2
  <2>2. ValueAt(x) = flight[i].y
    <3>1. CASE flight[i].found
      <4>1. Holds(x, flight[i].y)
        BY <1>5, <3>1 DEF Holds
      <4>2. QED
        BY <4>1, HeldValue
    <3>2. CASE ~ flight[i].found
      <4>1. \A j \in DOMAIN cache : cache[j].x # x
        BY <1>5 DEF Sound, QueriedApart
      <4>2. \A l \in Live : \A e \in levels[l].entries : e.x # x
        <5> TAKE l \in Live
        <5>1. l < nextLevel
          BY <1>1, StoreTypes, ConfigFacts DEF Sound, Levels
        <5>2. QED
          BY <1>5, <5>1 DEF Sound, QueriedApart
      <4>3. \A j \in DOMAIN flight : flight[j].x = x => j = i
        BY <1>5 DEF Sound, QueriedApart
      <4>4. \A y : ~ Holds(x, y)
        BY <3>2, <4>1, <4>2, <4>3 DEF Holds
      <4>5. flight[i].y = Zero
        BY <3>2 DEF Sound, QueriedApart
      <4>6. QED
        BY <4>4, <4>5, HeldValue
    <3>3. QED
      BY <3>1, <3>2
  <2>3. ValueAt(x)' = IF flight[i].write = NoWrite THEN flight[i].y ELSE flight[i].write
    <3>1. k + i \in DOMAIN cache' /\ cache'[k + i] = Fresh(flight[i])
      <4>1. k + i \in 1 .. k + n
        BY <1>2, <2>1
      <4>2. QED
        BY <1>3, <2>1, <4>1
    <3>2. /\ Fresh(flight[i]).x = x
          /\ Fresh(flight[i]).y =
               IF flight[i].write = NoWrite THEN flight[i].y ELSE flight[i].write
      BY <1>5 DEF Fresh, Entry
    <3>3. PICK y : y = Fresh(flight[i]).y
      OBVIOUS
    <3>4. Holds(x, y)'
      BY <3>1, <3>2, <3>3 DEF Holds
    <3>5. ValueAt(x)' = y
      BY <1>1, <3>4, HeldValueNext
    <3>6. QED
      BY <3>2, <3>3, <3>5
  <2>4. QED
    BY <2>2, <2>3
<1>6. ASSUME NEW x \in Addresses(config), \A i \in DOMAIN flight : flight[i].x # x
      PROVE  ValueAt(x)' = ValueAt(x)
  <2>1. ASSUME NEW y
        PROVE  Holds(x, y)' <=> Holds(x, y)
    <3>1. ASSUME NEW j \in DOMAIN cache', cache'[j].x = x
          PROVE  j \in DOMAIN cache /\ cache'[j] = cache[j]
      <4>1. CASE j \in 1 .. k
        BY <1>2, <1>3, <4>1
      <4>2. CASE j \notin 1 .. k
        <5>1. j - k \in 1 .. n /\ k + (j - k) = j
          BY <1>2, <1>3, <4>2
        <5>2. cache'[j] = Fresh(flight[j - k])
          BY <1>3, <5>1
        <5>3. QED
          BY <1>2, <1>6, <3>1, <5>1, <5>2 DEF Fresh, Entry
      <4>3. QED
        BY <4>1, <4>2
    <3>2. \A j \in DOMAIN cache : j \in DOMAIN cache' /\ cache'[j] = cache[j]
      <4>1. \A j \in 1 .. k : j \in 1 .. k + n
        BY <1>2
      <4>2. QED
        BY <1>2, <1>3, <4>1
    <3>3. (\E j \in DOMAIN cache' : cache'[j].x = x /\ cache'[j].y = y)
            <=> \E j \in DOMAIN cache : cache[j].x = x /\ cache[j].y = y
      BY <3>1, <3>2
    <3>4. QED
      BY <1>1, <1>4, <1>6, <3>3 DEF Holds
  <2>2. CASE \E y : Holds(x, y)
    <3>1. PICK y : Holds(x, y)
      BY <2>2
    <3>2. QED
      BY <1>1, <2>1, <3>1, HeldValue, HeldValueNext
  <2>3. CASE \A y : ~ Holds(x, y)
    BY <1>1, <2>1, <2>3, HeldValue, HeldValueNext
  <2>4. QED
    BY <2>2, <2>3
<1>7. QED
  BY <1>1, <1>2, <1>5, <1>6

(* After operations for different addresses, an address has the value      *)
(* written to it, if one of them writes there.                             *)
LEMMA PerformApart ==
  ASSUME NEW m, NEW ops, DOMAIN ops \subseteq Int,
         \A i, j \in DOMAIN ops : ops[i].x = ops[j].x => i = j
  PROVE  /\ Memory!PerformAll(m, ops) =
              [x \in DOMAIN m |-> Memory!PerformAll(m, ops)[x]]
         /\ \A x \in DOMAIN m :
              /\ \A i \in DOMAIN ops : ops[i].x = x =>
                   Memory!PerformAll(m, ops)[x] =
                     IF ops[i].y = NoWrite THEN m[x] ELSE ops[i].y
              /\ (\A i \in DOMAIN ops : ops[i].x # x) =>
                   Memory!PerformAll(m, ops)[x] = m[x]
<1> DEFINE W(x) == {i \in DOMAIN ops : ops[i].x = x /\ ops[i].y # NoWrite}
<1>1. Memory!PerformAll(m, ops) =
        [x \in DOMAIN m |-> IF W(x) = {} THEN m[x] ELSE ops[Memory!Max(W(x))].y]
  BY DEF Memory!PerformAll
<1>2. ASSUME NEW x \in DOMAIN m, NEW i \in DOMAIN ops, ops[i].x = x
      PROVE  Memory!PerformAll(m, ops)[x] =
               IF ops[i].y = NoWrite THEN m[x] ELSE ops[i].y
  <2>1. CASE ops[i].y = NoWrite
    <3>1. W(x) = {}
      BY <1>2, <2>1
    <3>2. QED
      BY <1>1, <2>1, <3>1
  <2>2. CASE ops[i].y # NoWrite
    <3>1. W(x) = {i}
      BY <1>2, <2>2
    <3>2. Memory!Max({i}) = i
      BY DEF Memory!Max
    <3> HIDE DEF W
    <3>3. QED
      BY <1>1, <2>2, <3>1, <3>2
  <2>3. QED
    BY <2>1, <2>2
<1>3. ASSUME NEW x \in DOMAIN m, \A i \in DOMAIN ops : ops[i].x # x
      PROVE  Memory!PerformAll(m, ops)[x] = m[x]
  <2>1. W(x) = {}
    BY <1>3
  <2>2. QED
    BY <1>1, <2>1
<1>4. Memory!PerformAll(m, ops) = [x \in DOMAIN m |-> Memory!PerformAll(m, ops)[x]]
  <2> DEFINE g(x) == IF W(x) = {} THEN m[x] ELSE ops[Memory!Max(W(x))].y
  <2>1. PICK f : f = Memory!PerformAll(m, ops)
    OBVIOUS
  <2>2. f = [x \in DOMAIN m |-> g(x)]
    BY <1>1, <2>1
  <2> HIDE DEF W, g
  <2>3. f = [x \in DOMAIN m |-> f[x]]
    BY <2>2
  <2>4. QED
    BY <2>1, <2>3
<1>5. QED
  BY <1>2, <1>3, <1>4

(* Writing back a chunk serves its operations.                             *)
LEMMA WriteBackServes ==
  ASSUME Sound, Sound', WriteBack, flight # <<>>
  PROVE  Memory!Serve(Len(flight))
<1> DEFINE n == Len(flight)
           Op == OperationOf(config)
           mem == [x \in Addresses(config) |-> ValueAt(x)]
           p == Pending
           ops == SubSeq(p, 1, n)
<1>1. /\ config' = config /\ flight' = <<>> /\ remaining' = remaining
      /\ outputs' = outputs \o [i \in DOMAIN flight |-> flight[i].y]
  BY DEF WriteBack
<1>2. /\ n \in Nat /\ n # 0 /\ DOMAIN flight = 1 .. n
      /\ InFlight \in Seq(Op) /\ Len(InFlight) = n
      /\ \A i \in 1 .. n : InFlight[i] = [x |-> flight[i].x, y |-> flight[i].write]
  <2>1. flight \in Seq(QueryOf(config))
    BY DEF Sound, TypeOK
  <2>2. n # 0
    BY <2>1, EmptySeq
  <2>3. QED
    BY <2>2, PendingListed DEF Sound
<1>3. remaining \in Seq(Op) /\ Len(remaining) \in Nat
  BY LenProperties DEF Sound, TypeOK
<1>4. p \in Seq(Op) /\ Len(p) = n + Len(remaining)
  <2> HIDE DEF n, Op
  <2>1. QED
    BY <1>2, <1>3, ConcatProperties DEF Pending
<1>5. ops = InFlight
  <2> HIDE DEF n, Op
  <2>1. n \in 1 .. Len(InFlight) /\ 1 \in 1 .. Len(InFlight)
    BY <1>2
  <2>2. SubSeq(InFlight \o remaining, 1, n) = SubSeq(InFlight, 1, n)
    BY <1>2, <1>3, <2>1, SubSeqOfConcat1
  <2>3. SubSeq(InFlight, 1, n) = InFlight
    BY <1>2, SubSeqFull
  <2>4. QED
    BY <2>2, <2>3 DEF Pending
<1>6. SubSeq(p, n + 1, Len(p)) = remaining
  <2> DEFINE r == SubSeq(p, n + 1, Len(p))
             k == Len(remaining)
  <2> HIDE DEF n, Op, p
  <2>1. \A i \in n + 1 .. Len(p) : p[i] \in Op
    <3> TAKE i \in n + 1 .. Len(p)
    <3>1. i \in 1 .. Len(p)
      BY <1>2, <1>3, <1>4
    <3>2. QED
      BY <1>4, <3>1, ElementOfSeq
  <2>2. /\ r \in Seq(Op)
        /\ Len(r) = IF n + 1 <= Len(p) THEN Len(p) - (n + 1) + 1 ELSE 0
        /\ \A i \in 1 .. Len(p) - (n + 1) + 1 : r[i] = p[n + 1 + i - 1]
    <3>1. n + 1 \in Int /\ Len(p) \in Int
      BY <1>2, <1>3, <1>4
    <3>2. QED
      BY <2>1, <3>1, SubSeqProperties
  <2>3. k \in Nat /\ Len(p) = n + k
    BY <1>3, <1>4
  <2>4. \A i \in 1 .. n + k : p[i] = IF i <= n THEN InFlight[i] ELSE remaining[i - n]
    BY <1>2, <1>3, ConcatProperties DEF p, Pending
  <2> HIDE DEF r, k
  <2>5. Len(r) = k /\ Len(p) - (n + 1) + 1 = k
    BY <1>2, <2>2, <2>3
  <2>6. \A i \in 1 .. k : r[i] = remaining[i]
    <3> TAKE i \in 1 .. k
    <3>1. n + 1 + i - 1 = n + i /\ n + i \in 1 .. n + k /\ ~ (n + i <= n) /\ (n + i) - n = i
      BY <1>2, <2>3
    <3>2. r[i] = p[n + i]
      BY <2>2, <2>5, <3>1
    <3>3. QED
      BY <2>4, <3>1, <3>2
  <2>7. r = remaining
    BY <1>3, <2>2, <2>5, <2>6, SeqEqual DEF k
  <2>8. QED
    BY <2>7 DEF r
<1>7. /\ DOMAIN InFlight = 1 .. n
      /\ \A i \in 1 .. n : InFlight[i].x = flight[i].x /\ InFlight[i].y = flight[i].write
      /\ \A i, j \in 1 .. n : InFlight[i].x = InFlight[j].x => i = j
  <2>1. DOMAIN InFlight = 1 .. n
    BY <1>2, LenProperties
  <2>2. \A i, j \in 1 .. n : flight[i].x = flight[j].x => i = j
    BY <1>2 DEF Sound, QueriedApart
  <2> HIDE DEF n
  <2>3. QED
    BY <1>2, <2>1, <2>2
<1>8. /\ \A i \in 1 .. n : flight[i].x \in Addresses(config)
      /\ \A x \in Addresses(config) : \A i \in 1 .. n : flight[i].x = x =>
           /\ ValueAt(x) = flight[i].y
           /\ ValueAt(x)' =
                IF flight[i].write = NoWrite THEN flight[i].y ELSE flight[i].write
      /\ \A x \in Addresses(config) :
           (\A i \in 1 .. n : flight[i].x # x) => ValueAt(x)' = ValueAt(x)
  BY <1>2, WrittenBack
<1>9. mem' = Memory!PerformAll(mem, ops)
  <2> DEFINE after == Memory!PerformAll(mem, InFlight)
  <2>1. /\ after = [x \in Addresses(config) |-> after[x]]
        /\ \A x \in Addresses(config) :
             /\ \A i \in 1 .. n : InFlight[i].x = x =>
                  after[x] = IF InFlight[i].y = NoWrite THEN mem[x] ELSE InFlight[i].y
             /\ (\A i \in 1 .. n : InFlight[i].x # x) => after[x] = mem[x]
    <3>1. DOMAIN mem = Addresses(config) /\ 1 .. n \subseteq Int
      OBVIOUS
    <3> HIDE DEF mem, n
    <3>2. /\ DOMAIN InFlight \subseteq Int
          /\ \A i, j \in DOMAIN InFlight : InFlight[i].x = InFlight[j].x => i = j
      BY <1>7, <3>1
    <3>3. /\ after = [x \in DOMAIN mem |-> after[x]]
          /\ \A x \in DOMAIN mem :
               /\ \A i \in DOMAIN InFlight : InFlight[i].x = x =>
                    after[x] = IF InFlight[i].y = NoWrite THEN mem[x] ELSE InFlight[i].y
               /\ (\A i \in DOMAIN InFlight : InFlight[i].x # x) => after[x] = mem[x]
      BY <3>2, PerformApart
    <3> HIDE DEF after
    <3>4. QED
      BY <1>7, <3>1, <3>3
  <2>2. \A x \in Addresses(config) : mem[x] = ValueAt(x)
    OBVIOUS
  <2>3. mem' = [x \in Addresses(config) |-> ValueAt(x)']
    BY <1>1
  <2> HIDE DEF after, mem, n, ops
  <2>4. ASSUME NEW x \in Addresses(config)
        PROVE  after[x] = ValueAt(x)'
    <3>1. CASE \E i \in 1 .. n : flight[i].x = x
      <4>1. PICK i \in 1 .. n : flight[i].x = x
        BY <3>1
      <4>2. after[x] = IF flight[i].write = NoWrite THEN mem[x] ELSE flight[i].write
        BY <1>7, <2>1, <4>1
      <4>3. QED
        BY <1>8, <2>2, <4>1, <4>2
    <3>2. CASE \A i \in 1 .. n : flight[i].x # x
      BY <1>7, <1>8, <2>1, <2>2, <3>2
    <3>3. QED
      BY <3>1, <3>2
  <2>5. after = mem'
    BY <2>1, <2>3, <2>4
  <2>6. QED
    BY <1>5, <2>5 DEF after
<1>10. ASSUME NEW i \in 1 .. n
       PROVE  Memory!PerformAll(mem, SubSeq(ops, 1, i - 1))[ops[i].x] = flight[i].y
  <2> DEFINE s == SubSeq(InFlight, 1, i - 1)
             x == flight[i].x
  <2>1. /\ DOMAIN s = 1 .. i - 1
        /\ \A j \in 1 .. i - 1 : s[j] = InFlight[j] /\ j \in 1 .. n /\ j # i
    <3> HIDE DEF n, Op
    <3>1. \A j \in 1 .. i - 1 : j \in 1 .. n /\ j # i /\ InFlight[j] \in Op
      <4>1. \A j \in 1 .. i - 1 : j \in 1 .. n /\ j # i
        BY <1>2
      <4>2. QED
        BY <1>2, <4>1, ElementOfSeq
    <3>2. i - 1 \in Int /\ i - 1 >= 0
      BY <1>2
    <3>3. /\ s \in Seq(Op) /\ Len(s) = IF 1 <= i - 1 THEN i - 1 - 1 + 1 ELSE 0
          /\ \A j \in 1 .. i - 1 - 1 + 1 : s[j] = InFlight[1 + j - 1]
      BY <3>1, <3>2, SubSeqProperties
    <3>4. Len(s) = i - 1 /\ i - 1 - 1 + 1 = i - 1
      BY <3>2, <3>3
    <3>5. \A j \in 1 .. i - 1 : s[j] = InFlight[j]
      <4>1. \A j \in 1 .. i - 1 : 1 + j - 1 = j
        OBVIOUS
      <4>2. QED
        BY <3>3, <3>4, <4>1
    <3>6. DOMAIN s = 1 .. i - 1
      BY <3>3, <3>4, LenProperties
    <3>7. QED
      BY <3>1, <3>5, <3>6
  <2>2. /\ DOMAIN s \subseteq Int
        /\ \A j, k \in DOMAIN s : s[j].x = s[k].x => j = k
        /\ \A j \in DOMAIN s : s[j].x # x
    <3> HIDE DEF n, s
    <3>1. \A j \in DOMAIN s : s[j] = InFlight[j] /\ j \in 1 .. n /\ j # i
      BY <2>1
    <3>2. QED
      BY <1>7, <2>1, <3>1
  <2>3. x \in DOMAIN mem /\ mem[x] = flight[i].y
    BY <1>8
  <2> HIDE DEF mem, s, n
  <2>4. Memory!PerformAll(mem, s)[x] = mem[x]
    BY <2>2, <2>3, PerformApart
  <2>5. ops[i].x = x /\ SubSeq(ops, 1, i - 1) = s
    <3>1. InFlight[i].x = x
      BY <1>7
    <3>2. QED
      BY <1>5, <3>1 DEF s
  <2>6. QED
    BY <2>3, <2>4, <2>5
<1>11. outputs' = outputs \o [i \in 1 .. n |->
                     Memory!PerformAll(mem, SubSeq(ops, 1, i - 1))[ops[i].x]]
  <2>1. [i \in DOMAIN flight |-> flight[i].y] = [i \in 1 .. n |-> flight[i].y]
    BY <1>2
  <2> HIDE DEF mem, n, ops
  <2>2. [i \in 1 .. n |-> Memory!PerformAll(mem, SubSeq(ops, 1, i - 1))[ops[i].x]]
          = [i \in 1 .. n |-> flight[i].y]
    BY <1>10
  <2>3. QED
    BY <1>1, <2>1, <2>2
<1>12. Pending' = SubSeq(p, n + 1, Len(p))
  <2>1. Pending' = remaining'
    BY <1>1, PendingListedNext DEF Sound
  <2>2. QED
    BY <1>1, <1>6, <2>1
<1>13. n \in 1 .. Len(p)
  <2> HIDE DEF n
  <2>1. QED
    BY <1>2, <1>3, <1>4
<1>14. QED
  BY <1>9, <1>11, <1>12, <1>13 DEF Memory!Serve, Pending

(* What is stored with the value y among the contents that are collected.  *)
LEMMA StoredAboveValues ==
  ASSUME NEW K, NEW x \in Addresses(config), NEW y
  PROVE  Entry(x, y) \in StoredAbove(K) <=>
           \/ \E i \in DOMAIN cache : cache[i].x = x /\ cache[i].y = y
           \/ \E l \in Live : l < K /\ \E e \in levels[l].entries : e.x = x /\ e.y = y
<1> DEFINE S == Cached \cup UNION {levels[l].entries : l \in {m \in Live : m < K}}
<1>1. Entry(x, y) \in StoredAbove(K) <=> \E e \in S : e.x = x /\ e.y = y
  <2>1. ASSUME Entry(x, y) \in StoredAbove(K)
        PROVE  \E e \in S : e.x = x /\ e.y = y
    <3>1. PICK e \in S : Entry(x, y) = Bare(e)
      BY <2>1 DEF StoredAbove, Contents
    <3>2. e.x = x /\ e.y = y
      BY <3>1 DEF Bare, Entry
    <3>3. QED
      BY <3>2
  <2>2. ASSUME NEW e \in S, e.x = x, e.y = y
        PROVE  Entry(x, y) \in StoredAbove(K)
    BY <2>2 DEF StoredAbove, Contents, Bare
  <2>3. QED
    BY <2>1, <2>2
<1>2. \A e : e \in S <=> \/ \E i \in DOMAIN cache : e = cache[i]
                         \/ \E l \in Live : l < K /\ e \in levels[l].entries
  BY DEF Cached
<1> HIDE DEF S
<1>3. QED
  BY <1>1, <1>2

(* A new table and the cache hold the contents they share.                 *)
LEMMA SharedValues ==
  ASSUME NEW c, NEW K, NEW t, NEW q, NEW R, Shared(c, K, t, q, R),
         NEW x \in Addresses(c), NEW y
  PROVE  Entry(x, y) \in R <=>
           \/ \E i \in DOMAIN q : q[i].x = x /\ q[i].y = y
           \/ \E e \in t.entries : e.x = x /\ e.y = y
<1>1. PICK Q : Carries(c, q, Q) /\ R = Q \cup Contents(c, t.entries)
  BY DEF Shared
<1>2. Entry(x, y) \in Q <=> \E i \in DOMAIN q : q[i].x = x /\ q[i].y = y
  <2>1. ASSUME Entry(x, y) \in Q
        PROVE  \E i \in DOMAIN q : q[i].x = x /\ q[i].y = y
    <3>1. PICK i \in DOMAIN q : Bare(q[i]) = Entry(x, y)
      BY <1>1, <2>1 DEF Carries
    <3>2. QED
      BY <3>1 DEF Bare, Entry
  <2>2. ASSUME NEW i \in DOMAIN q, q[i].x = x, q[i].y = y
        PROVE  Entry(x, y) \in Q
    BY <1>1, <2>2 DEF Carries, Bare
  <2>3. QED
    BY <2>1, <2>2
<1>3. Entry(x, y) \in Contents(c, t.entries) <=> \E e \in t.entries : e.x = x /\ e.y = y
  <2>1. ASSUME Entry(x, y) \in Contents(c, t.entries)
        PROVE  \E e \in t.entries : e.x = x /\ e.y = y
    <3>1. PICK e \in t.entries : Bare(e) = Entry(x, y)
      BY <2>1 DEF Contents
    <3>2. QED
      BY <3>1 DEF Bare, Entry
  <2>2. ASSUME NEW e \in t.entries, e.x = x, e.y = y
        PROVE  Entry(x, y) \in Contents(c, t.entries)
    BY <2>2 DEF Contents, Bare
  <2>3. QED
    BY <2>1, <2>2
<1>4. QED
  BY <1>1, <1>2, <1>3

(* Between chunks the copies of an address are cached or stored.           *)
LEMMA HeldBetween ==
  Sound /\ pc # "levels" =>
    \A x, y : Holds(x, y) <=>
      \/ \E i \in DOMAIN cache : cache[i].x = x /\ cache[i].y = y
      \/ \E l \in Live : \E e \in levels[l].entries : e.x = x /\ e.y = y
<1> SUFFICES ASSUME Sound, pc # "levels"
             PROVE  \A x, y : Holds(x, y) <=>
                      \/ \E i \in DOMAIN cache : cache[i].x = x /\ cache[i].y = y
                      \/ \E l \in Live : \E e \in levels[l].entries : e.x = x /\ e.y = y
  OBVIOUS
<1>1. flight = <<>>
  BY DEF Sound, CallPhases
<1>2. Len(flight) = 0 /\ DOMAIN flight = 1 .. Len(flight)
  BY <1>1, CallTypes, EmptySeq DEF Sound
<1>3. DOMAIN flight = {}
  BY <1>2
<1>4. QED
  BY <1>3 DEF Holds

(* The same after a step.                                                  *)
LEMMA HeldBetweenNext ==
  (Sound /\ pc # "levels")' =>
    (\A x, y : Holds(x, y) <=>
      \/ \E i \in DOMAIN cache : cache[i].x = x /\ cache[i].y = y
      \/ \E l \in Live : \E e \in levels[l].entries : e.x = x /\ e.y = y)'
BY HeldBetween, PTL

(* A rebuild moves every entry with its value.                             *)
LEMMA RebuildUnseen ==
  ASSUME Sound, Sound', Rebuild
  PROVE  UNCHANGED Memory!vars
<1> DEFINE K == Target
           L == LastLevelToExtract
           R == StoredAbove(L)
<1>1. /\ pc = "access" /\ config' = config
      /\ UNCHANGED <<hadInitialBottomLevel, call>>
      /\ \A m \in Levels(config) : m # K =>
           levels'[m] = IF m \in Live /\ K < m THEN levels[m] ELSE NoTable
      /\ Shared(config, K, levels'[K], cache', R)
      /\ \A m \in Live : m < L <=> ~ (K < m)
  BY RebuildBuilds
<1>2. /\ config \in Configs /\ K \in Levels(config)
      /\ Live \subseteq Levels(config)
  BY TargetCollects, StoreTypes DEF Sound, TypeOK
<1>3. /\ pc' = pc /\ flight' = flight /\ remaining' = remaining /\ outputs' = outputs
  BY <1>1 DEF call
<1>4. Pending' = Pending
  BY <1>3 DEF Pending, InFlight
<1>5. levels'[K] \in TableOf(config) /\ levels'[K] # NoTable
  BY <1>1, <1>2, NoTableAssumption DEF Shared
<1>6. ~ (K < K)
  <2>1. K \in Int
    BY <1>2 DEF Levels
  <2> HIDE DEF K
  <2>2. QED
    BY <2>1
<1> HIDE DEF K, L, R
<1>7. Live' = {K} \cup {m \in Live : K < m}
  <2>1. Live' = {m \in Levels(config) : levels'[m] # NoTable}
    BY <1>1 DEF Live
  <2>2. \A m \in Live : levels[m] # NoTable
    BY DEF Live
  <2>3. QED
    BY <1>1, <1>2, <1>5, <1>6, <2>1, <2>2
<1>8. ASSUME NEW x \in Addresses(config), NEW y
      PROVE  Holds(x, y)' <=> Holds(x, y)
  <2>1. Holds(x, y) <=>
          \/ Entry(x, y) \in R
          \/ \E l \in Live : K < l /\ \E e \in levels[l].entries : e.x = x /\ e.y = y
    <3>1. Entry(x, y) \in R <=>
            \/ \E i \in DOMAIN cache : cache[i].x = x /\ cache[i].y = y
            \/ \E l \in Live : l < L /\ \E e \in levels[l].entries : e.x = x /\ e.y = y
      BY StoredAboveValues DEF R
    <3>2. Holds(x, y) <=>
            \/ \E i \in DOMAIN cache : cache[i].x = x /\ cache[i].y = y
            \/ \E l \in Live : \E e \in levels[l].entries : e.x = x /\ e.y = y
      BY <1>1, HeldBetween
    <3>3. QED
      BY <1>1, <3>1, <3>2
  <2>2. Holds(x, y)' <=>
          \/ Entry(x, y) \in R
          \/ \E l \in Live : K < l /\ \E e \in levels[l].entries : e.x = x /\ e.y = y
    <3>1. Entry(x, y) \in R <=>
            \/ \E i \in DOMAIN cache' : cache'[i].x = x /\ cache'[i].y = y
            \/ \E e \in levels'[K].entries : e.x = x /\ e.y = y
      BY <1>1, SharedValues
    <3>2. Holds(x, y)' <=>
            \/ \E i \in DOMAIN cache' : cache'[i].x = x /\ cache'[i].y = y
            \/ \E l \in Live' : \E e \in levels'[l].entries : e.x = x /\ e.y = y
      BY <1>1, <1>3, HeldBetweenNext
    <3>3. \A l \in Live : K < l => levels'[l] = levels[l]
      BY <1>1, <1>2, <1>6
    <3>4. QED
      BY <1>7, <3>1, <3>2, <3>3
  <2>3. QED
    BY <2>1, <2>2
<1>9. QED
  BY <1>1, <1>3, <1>4, <1>8, Unseen

(* An empty chunk is written back unseen.                                  *)
LEMMA NothingWrittenBack ==
  ASSUME Sound, Sound', WriteBack, flight = <<>>
  PROVE  UNCHANGED Memory!vars
<1> DEFINE read == [i \in DOMAIN flight |-> flight[i].y]
<1>1. /\ config' = config /\ flight' = <<>> /\ remaining' = remaining
      /\ outputs' = outputs \o read
  BY DEF WriteBack
<1>2. Pending' = Pending
  BY <1>1, PendingListed, PendingListedNext DEF Sound
<1>3. DOMAIN flight = 1 .. 0
  BY CallTypes, EmptySeq DEF Sound
<1>4. read = <<>>
  <2>1. read = [i \in 1 .. 0 |-> flight[i].y]
    BY <1>3
  <2> HIDE DEF read
  <2>2. read \in [1 .. 0 -> Values]
    BY <2>1
  <2>3. read \in Seq(Values) /\ Len(read) = 0
    BY <2>2, TupleIsSeq
  <2>4. QED
    BY <2>3, EmptySeq
<1>5. outputs' = outputs
  <2> HIDE DEF read
  <2>1. QED
    BY <1>1, <1>4, ConcatEmptySeq DEF Sound, TypeOK
<1>6. [x \in Addresses(config) |-> ValueAt(x)]' = [x \in Addresses(config) |-> ValueAt(x)]
  <2>1. DOMAIN flight = {}
    BY <1>3
  <2>2. \A x \in Addresses(config) : ValueAt(x)' = ValueAt(x)
    BY <2>1, WrittenBack
  <2>3. QED
    BY <1>1, <2>2
<1>7. QED
  BY <1>2, <1>5, <1>6 DEF Memory!vars, Pending

(* The values read are returned; an empty batch returns unseen.            *)
LEMMA ReturnReturns ==
  ASSUME Sound, Sound', Return
  PROVE  Memory!Return \/ UNCHANGED Memory!vars
<1>1. /\ pc = "return" /\ outputs' = <<>>
      /\ config' = config /\ cache' = cache /\ levels' = levels /\ Live' = Live
      /\ flight' = flight /\ remaining' = remaining
  BY DEF Return, store, Live
<1>2. \A x \in Addresses(config) : \A y : Holds(x, y)' <=> Holds(x, y)
  BY <1>1 DEF Holds
<1>3. [x \in Addresses(config) |-> ValueAt(x)]' = [x \in Addresses(config) |-> ValueAt(x)]
  BY <1>1, <1>2, ValuesKept
<1>4. Pending = <<>> /\ Pending' = Pending
  <2>1. flight = <<>> /\ remaining = <<>>
    BY <1>1 DEF Sound, CallPhases
  <2>2. QED
    BY <1>1, <2>1, PendingListed DEF Sound, Pending, InFlight
<1>5. CASE outputs = <<>>
  BY <1>1, <1>3, <1>4, <1>5 DEF Memory!vars, Pending
<1>6. CASE outputs # <<>>
  BY <1>1, <1>3, <1>4, <1>6 DEF Memory!Return, Pending
<1>7. QED
  BY <1>5, <1>6

(* Growing doubles the memory: the old addresses keep their values, and    *)
(* the new ones have the default value.                                    *)
LEMMA GrowGrows ==
  ASSUME Sound, Sound', NEW c \in Configs, GrowNaturally(c) \/ GrowOnDemand(c)
  PROVE  Memory!Grow
<1> DEFINE old == BottomNumElements(config)
           K == Bottom(c)
           mem == [x \in Addresses(config) |-> ValueAt(x)]
<1>1. PICK L : /\ \A l \in Live : l < L
               /\ \E e : /\ Bared(config, e, StoredAbove(L))
                         /\ CleanseSucceeds(e)
                         /\ FinishGrow(c, FinalizeBottomLevel(e))
  BY GrowBuilds
<1>2. pc = "idle" /\ OneBitLarger(c) /\ config \in Configs /\ K \in Levels(c)
  BY GrowBuilds, ConfigFacts DEF Sound, TypeOK
<1>3. /\ config' = c /\ UNCHANGED call
      /\ \A m \in Levels(c) : m # K => levels'[m] = NoTable
      /\ Shared(c, K, levels'[K], cache', StoredAbove(L) \cup Grown(c))
  BY <1>1, <1>2, FinishGrowBuilds
<1>4. /\ pc' = pc /\ flight' = flight /\ remaining' = remaining /\ outputs' = outputs
  BY <1>3 DEF call
<1>5. /\ old \in Nat \ {0} /\ Addresses(config) = 0 .. old - 1
      /\ Addresses(c) = 0 .. 2 * old - 1
  <2>1. BottomNumElements(c) = 2 * old
    <3>1. config.logAddressSpaceSize \in 0 .. config.logAddressSpaceSize + 1
      BY <1>2, ConfigsValid DEF Valid, ConfigFields
    <3>2. QED
      BY <1>2, <3>1, PowersOfTwo DEF OneBitLarger, BottomNumElements
  <2>2. QED
    BY <1>2, <2>1, LabelFacts
<1> HIDE DEF old, K
<1>6. Live' = {K}
  <2>1. levels'[K] # NoTable
    BY <1>3, NoTableAssumption DEF Shared
  <2>2. QED
    BY <1>2, <1>3, <2>1 DEF Live
<1>7. ASSUME NEW x \in Addresses(c), NEW y
      PROVE  Holds(x, y)' <=> Entry(x, y) \in StoredAbove(L) \cup Grown(c)
  <2>1. Holds(x, y)' <=>
          \/ \E i \in DOMAIN cache' : cache'[i].x = x /\ cache'[i].y = y
          \/ \E l \in Live' : \E e \in levels'[l].entries : e.x = x /\ e.y = y
    BY <1>2, <1>4, HeldBetweenNext
  <2>2. Entry(x, y) \in StoredAbove(L) \cup Grown(c) <=>
          \/ \E i \in DOMAIN cache' : cache'[i].x = x /\ cache'[i].y = y
          \/ \E e \in levels'[K].entries : e.x = x /\ e.y = y
    BY <1>3, SharedValues
  <2>3. QED
    BY <1>6, <2>1, <2>2
<1>8. ASSUME NEW x \in Addresses(config), NEW y
      PROVE  Holds(x, y) <=> Entry(x, y) \in StoredAbove(L) \cup Grown(c)
  <2>1. Entry(x, y) \notin Grown(c)
    BY DEF Grown, Entry
  <2>2. Entry(x, y) \in StoredAbove(L) <=>
          \/ \E i \in DOMAIN cache : cache[i].x = x /\ cache[i].y = y
          \/ \E l \in Live : l < L /\ \E e \in levels[l].entries : e.x = x /\ e.y = y
    BY StoredAboveValues
  <2>3. Holds(x, y) <=>
          \/ \E i \in DOMAIN cache : cache[i].x = x /\ cache[i].y = y
          \/ \E l \in Live : \E e \in levels[l].entries : e.x = x /\ e.y = y
    BY <1>2, HeldBetween
  <2>4. QED
    BY <1>1, <2>1, <2>2, <2>3
<1>9. \A x \in Addresses(config) : x \in Addresses(c)
  BY <1>5
<1>10. ASSUME NEW x \in Addresses(config)
       PROVE  ValueAt(x)' = ValueAt(x)
  <2>1. x \in Addresses(config)'
    BY <1>3, <1>9
  <2>2. \A y : Holds(x, y)' <=> Holds(x, y)
    BY <1>7, <1>8, <1>9
  <2>3. CASE \E y : Holds(x, y)
    <3>1. PICK y : Holds(x, y)
      BY <2>3
    <3>2. QED
      BY <2>1, <2>2, <3>1, HeldValue, HeldValueNext
  <2>4. CASE \A y : ~ Holds(x, y)
    BY <2>1, <2>2, <2>4, HeldValue, HeldValueNext
  <2>5. QED
    BY <2>3, <2>4
<1>11. ASSUME NEW x \in Addresses(c), x \notin Addresses(config)
       PROVE  ValueAt(x)' = Zero
  <2>1. x \in Addresses(config)'
    BY <1>3
  <2>2. ASSUME NEW y, Entry(x, y) \in StoredAbove(L) \cup Grown(c)
        PROVE  y = Zero
    <3>1. Entry(x, y) \notin StoredAbove(L)
      <4>1. Entry(x, y).x = x
        BY DEF Entry
      <4>2. QED
        BY <1>11, <4>1, StoredAboveFacts
    <3>2. PICK z \in Addresses(c) : Entry(x, y) = Entry(z, Zero)
      BY <2>2, <3>1 DEF Grown
    <3>3. QED
      BY <3>2 DEF Entry
  <2>3. \A y : Holds(x, y)' => y = Zero
    BY <1>7, <2>2
  <2>4. CASE \E y : Holds(x, y)'
    <3>1. PICK y : Holds(x, y)'
      BY <2>4
    <3>2. QED
      BY <2>1, <2>3, <3>1, HeldValueNext
  <2>5. CASE \A y : ~ Holds(x, y)'
    BY <2>1, <2>5, HeldValueNext
  <2>6. QED
    BY <2>4, <2>5
<1>12. /\ mem' = [x \in Addresses(c) |-> ValueAt(x)']
       /\ DOMAIN mem = Addresses(config)
       /\ \A x \in Addresses(config) : mem[x] = ValueAt(x)
  BY <1>3
<1> HIDE DEF mem
<1>13. mem' = [x \in 0 .. 2 * old - 1 |-> IF x \in DOMAIN mem THEN mem[x] ELSE Zero]
  BY <1>5, <1>10, <1>11, <1>12
<1>14. Cardinality(DOMAIN mem) = old
  <2>1. Cardinality(0 .. old - 1) = IF 0 > old - 1 THEN 0 ELSE old - 1 - 0 + 1
    <3>1. 0 \in Int /\ old - 1 \in Int
      BY <1>5
    <3>2. QED
      BY <3>1, FS_Interval
  <2>2. QED
    BY <1>5, <1>12, <2>1
<1>15. /\ Pending = <<>> /\ Pending' = Pending /\ outputs = <<>>
  <2>1. flight = <<>> /\ remaining = <<>> /\ outputs = <<>>
    BY <1>2 DEF Sound, CallPhases
  <2>2. Pending = <<>>
    BY <2>1, PendingListed DEF Sound
  <2>3. Pending' = Pending
    BY <1>4 DEF Pending, InFlight
  <2>4. QED
    BY <2>1, <2>2, <2>3
<1>16. Memory!Idle
  BY <1>15 DEF Memory!Idle, Pending
<1>17. (InFlight \o remaining)' = InFlight \o remaining
  BY <1>15 DEF Pending
<1>18. Memory!Cardinality(DOMAIN mem) = old
  <2>1. \A S : Memory!Cardinality(S) = Cardinality(S)
    BY DEF Memory!Cardinality, Cardinality
  <2>2. QED
    BY <1>14, <2>1
<1>19. QED
  BY <1>4, <1>13, <1>16, <1>17, <1>18 DEF Memory!Grow, mem

(* A new DORAM is a memory in one of its initial states.                   *)
LEMMA InitIsMemory == Init => Memory!Init
<1> SUFFICES ASSUME Init PROVE Memory!Init
  OBVIOUS
<1> DEFINE mem == [x \in Addresses(config) |-> ValueAt(x)]
<1>1. Sound /\ NoCall /\ config \in Configs
  BY InitIInv DEF Init, IInv
<1>2. flight = <<>> /\ remaining = <<>> /\ outputs = <<>> /\ pc = "idle"
  BY <1>1 DEF NoCall
<1>3. Memory!Idle
  BY <1>1, <1>2, PendingListed DEF Sound, Memory!Idle, Pending
<1>4. \A x, y : Holds(x, y) <=>
        \/ \E i \in DOMAIN cache : cache[i].x = x /\ cache[i].y = y
        \/ \E l \in Live : \E e \in levels[l].entries : e.x = x /\ e.y = y
  BY <1>1, <1>2, HeldBetween
<1>5. CASE InitEmpty
  <2>1. Live = {}
    BY <1>5 DEF InitEmpty, NoTables, Live
  <2>2. \A i \in DOMAIN cache : cache[i].x \notin Addresses(config)
    <3> DEFINE N == BottomNumElements(config)
    <3>1. N \in Nat \ {0} /\ Addresses(config) = 0 .. N - 1
      BY <1>1, LabelFacts
    <3>2. \A i \in DOMAIN cache : cache[i].x = N
      BY <1>5 DEF InitEmpty, DummyEntry, DummyX, Entry
    <3> HIDE DEF N
    <3>3. QED
      BY <3>1, <3>2
  <2>3. \A x \in Addresses(config) : ValueAt(x) = Zero
    BY <1>1, <1>4, <2>1, <2>2, HeldValue
  <2>4. mem = [x \in Addresses(config) |-> Zero]
    BY <2>3
  <2>5. mem \in FullMemories
    BY <1>1, <2>4 DEF FullMemories
  <2>6. QED
    BY <1>3, <2>5 DEF Memory!Init
<1>6. CASE InitBottom
  <2> DEFINE K == Bottom(config)
  <2>1. PICK ys \in InitialYs : \E t :
          /\ DOMAIN ys = Addresses(config)
          /\ levels = [NoTables(config) EXCEPT ![K] = t]
          /\ Shared(config, K, t, cache, {Entry(x, ys[x]) : x \in Addresses(config)})
    BY <1>1, <1>6, InitBottomBuilds
  <2>2. PICK t :
          /\ DOMAIN ys = Addresses(config)
          /\ levels = [NoTables(config) EXCEPT ![K] = t]
          /\ Shared(config, K, t, cache, {Entry(x, ys[x]) : x \in Addresses(config)})
    BY <2>1
  <2>3. K \in Live /\ levels[K] = t
    <3>1. K \in Levels(config)
      BY <1>1, ConfigFacts
    <3>2. t # NoTable
      BY <1>1, <2>2, NoTableAssumption DEF Shared
    <3> HIDE DEF K
    <3>3. QED
      BY <2>2, <3>1, <3>2 DEF Live, NoTables
  <2>4. ASSUME NEW x \in Addresses(config)
        PROVE  ValueAt(x) = ys[x]
    <3> DEFINE R == {Entry(z, ys[z]) : z \in Addresses(config)}
               y == ys[x]
    <3>1. Entry(x, y) \in R
      OBVIOUS
    <3>2. Shared(config, K, t, cache, R)
      BY <2>2
    <3> HIDE DEF R, K, y
    <3>3. \/ \E i \in DOMAIN cache : cache[i].x = x /\ cache[i].y = y
          \/ \E e \in t.entries : e.x = x /\ e.y = y
      BY <3>1, <3>2, SharedValues
    <3>4. Holds(x, y)
      BY <1>4, <2>3, <3>3
    <3>5. QED
      BY <1>1, <3>4, HeldValue DEF y
  <2>5. mem = ys
    <3>1. ys \in [DOMAIN ys -> Values]
      BY InitialYsAssumption
    <3>2. ys = [x \in Addresses(config) |-> ys[x]]
      BY <2>2, <3>1
    <3>3. QED
      BY <2>4, <3>2
  <2>6. mem \in FullMemories
    BY <2>5 DEF FullMemories
  <2>7. QED
    BY <1>3, <2>6 DEF Memory!Init
<1>7. QED
  BY <1>5, <1>6 DEF Init

(* Every step is a step of the memory or goes unseen.                      *)
LEMMA NextIsMemory ==
  ASSUME Sound, Sound', [Next]_vars
  PROVE  [Memory!Next]_(Memory!vars)
<1>1. CASE \E ops \in SingleCalls : StartCall(ops, TRUE)
  BY <1>1, StartCallCalls DEF Memory!Next
<1>2. CASE \E ops \in BatchCalls : StartCall(ops, FALSE)
  BY <1>2, StartCallCalls DEF Memory!Next
<1>3. CASE Rebuild
  BY <1>3, RebuildUnseen
<1>4. CASE QueryCache
  BY <1>4, QueryCacheUnseen
<1>5. CASE \E l \in Levels(config) : QueryLevel(l)
  BY <1>5, QueryLevelUnseen
<1>6. CASE \E l \in Levels(config) : SkipLevel(l)
  BY <1>6, SkipLevelUnseen
<1>7. CASE WriteBack
  <2>1. CASE flight = <<>>
    BY <1>7, <2>1, NothingWrittenBack
  <2>2. CASE flight # <<>>
    <3>1. Memory!Serve(Len(flight))
      BY <1>7, <2>2, WriteBackServes
    <3>2. Len(flight) \in 1 .. Len(InFlight \o remaining)
      BY <3>1 DEF Memory!Serve
    <3>3. QED
      BY <3>1, <3>2 DEF Memory!Next
  <2>3. QED
    BY <2>1, <2>2
<1>8. CASE Return
  BY <1>8, ReturnReturns DEF Memory!Next
<1>9. CASE \E c \in Configs : GrowNaturally(c)
  BY <1>9, GrowGrows DEF Memory!Next
<1>10. CASE \E c \in Configs : GrowOnDemand(c)
  BY <1>10, GrowGrows DEF Memory!Next
<1>11. CASE UNCHANGED vars
  <2>1. /\ config' = config /\ cache' = cache /\ levels' = levels /\ Live' = Live
        /\ flight' = flight /\ remaining' = remaining /\ outputs' = outputs
    BY <1>11 DEF vars, store, call, Live
  <2>2. Pending' = Pending
    BY <2>1 DEF Pending, InFlight
  <2>3. \A x \in Addresses(config) : \A y : Holds(x, y)' <=> Holds(x, y)
    BY <2>1 DEF Holds
  <2>4. QED
    BY <2>1, <2>2, <2>3, Unseen
<1>12. QED
  BY <1>1, <1>2, <1>3, <1>4, <1>5, <1>6, <1>7, <1>8, <1>9, <1>10, <1>11
     DEF Next, Access

(* A GigaDoram is a memory, if no batch names an address twice: each       *)
(* operation of a call reads what was last written to its address, or what *)
(* the address was created with, in whatever chunks the batch is accessed  *)
(* (batch_access) and whatever is rebuilt or grown before and in between.  *)
THEOREM DoramIsMemory == ASSUME DistinctBatches PROVE Spec => IsMemory
<1>1. Init => Memory!Init
  BY InitIsMemory
<1>2. Sound /\ Sound' /\ [Next]_vars => [Memory!Next]_(Memory!vars)
  BY NextIsMemory
<1>3. IInv => Sound
  BY DEF IInv
<1>4. Spec => []IInv
  BY StoreInvariant
<1>5. QED
  BY <1>1, <1>2, <1>3, <1>4, PTL DEF Spec, IsMemory, Memory!Spec

---------------------------------------------------------------------------
(* Network errors.                                                         *)

(* A call that an error has ended has nothing in hand any more.            *)
LEMMA CallLeft ==
  ASSUME LeaveCall, TypeOK, config' = config
  PROVE  /\ CallPhases' /\ QueriedApart'
         /\ DOMAIN flight' = {} /\ pc' # "levels" /\ Pending' = <<>>
         /\ pc' \in {"idle", "access", "levels", "return"} /\ single' \in BOOLEAN
         /\ remaining' \in Seq(OperationOf(config')) /\ flight' \in Seq(QueryOf(config'))
         /\ nextLevel' \in 0 .. config'.numLevels /\ outputs' \in Seq(Values)
<1>1. /\ pc' = "idle" /\ single' = FALSE
      /\ remaining' = <<>> /\ flight' = <<>> /\ queryKeys' = <<>>
      /\ nextLevel' = 0 /\ outputs' = <<>>
  BY DEF LeaveCall
<1>2. CallPhases' /\ QueriedApart'
  BY <1>1 DEF CallPhases, QueriedApart
<1>3. 0 \in 0 .. config'.numLevels
  BY ConfigFacts DEF TypeOK
<1>4. DOMAIN flight' = {}
  BY <1>1
<1>5. InFlight' = <<>>
  BY <1>1, <1>4 DEF InFlight
<1>6. Pending' = <<>>
  BY <1>1, <1>5 DEF Pending
<1>7. /\ remaining' \in Seq(OperationOf(config')) /\ flight' \in Seq(QueryOf(config'))
      /\ outputs' \in Seq(Values)
  BY <1>1
<1>8. /\ pc' \in {"idle", "access", "levels", "return"} /\ single' \in BOOLEAN
      /\ nextLevel' \in 0 .. config'.numLevels
  BY <1>1, <1>3
<1>9. QED
  BY <1>1, <1>2, <1>4, <1>6, <1>7, <1>8

(* What FailQueryLevel does to the table it queries: its tags may have     *)
(* been shown.                                                             *)
LEMMA LevelFailed ==
  ASSUME Sound, NEW l \in Levels(config), FailQueryLevel(l)
  PROVE  /\ l \in Live /\ Live' = Live /\ LiveKeys' = LiveKeys
         /\ levels' \in [Levels(config) -> TableOf(config) \cup {NoTable}]
         /\ \A m \in Live :
              /\ levels'[m].entries = levels[m].entries
              /\ levels'[m].key = levels[m].key
              /\ levels'[m].dummies = levels[m].dummies
              /\ levels'[m].queryCount = levels[m].queryCount
              /\ levels'[m].numElements = levels[m].numElements
              /\ \A x \in levels'[m].revealed :
                   x \in levels[m].revealed \/ \E i \in DOMAIN flight : flight[i].x = x
<1>1. /\ config \in Configs /\ DOMAIN levels = Levels(config)
      /\ Live \subseteq Levels(config)
      /\ \A m \in Levels(config) : m \in Live <=> levels[m] # NoTable
      /\ \A m \in Live : levels[m] \in TableOf(config)
      /\ levels \in [Levels(config) -> TableOf(config) \cup {NoTable}]
      /\ \A i \in DOMAIN flight : flight[i].x \in Addresses(config)
  BY StoreTypes, CallTypes DEF Sound, TypeOK, QueryOf
<1>2. PICK seen : /\ l \in Live /\ config' = config
                  /\ levels' = [levels EXCEPT ![l].revealed = seen]
                  /\ seen \in {levels[l].revealed, Spend(l, {}).revealed}
  BY DEF FailQueryLevel
<1>3. levels[l] \in TableOf(config)
  BY <1>1, <1>2
<1>4. \A x \in seen : x \in levels[l].revealed \/ \E i \in DOMAIN flight : flight[i].x = x
  <2>1. Spend(l, {}).revealed = levels[l].revealed \cup {flight[i].x : i \in
          {j \in DOMAIN flight : TagFits(l) /\ UsesOwnTag(flight[j], l)}}
    BY <1>3 DEF Spend, TableOf
  <2>2. QED
    BY <1>2, <2>1
<1>5. seen \subseteq Addresses(config)
  BY <1>1, <1>3, <1>4 DEF TableOf
<1> DEFINE t == [levels[l] EXCEPT !.revealed = seen]
<1>6. /\ t \in TableOf(config) /\ t.revealed = seen
      /\ t.entries = levels[l].entries /\ t.key = levels[l].key
      /\ t.dummies = levels[l].dummies /\ t.queryCount = levels[l].queryCount
      /\ t.numElements = levels[l].numElements
  BY <1>3, <1>5 DEF TableOf
<1>7. levels' = [levels EXCEPT ![l] = t]
  BY <1>2
<1> HIDE DEF t
<1>8. /\ levels'[l] = t
      /\ \A m \in Levels(config) : m # l => levels'[m] = levels[m]
      /\ levels' \in [Levels(config) -> TableOf(config) \cup {NoTable}]
  BY <1>1, <1>2, <1>6, <1>7
<1>9. Live' = Live
  <2>1. t # NoTable
    BY <1>1, <1>6, NoTableAssumption
  <2>2. QED
    BY <1>1, <1>2, <1>8, <2>1 DEF Live
<1>10. \A m \in Live :
         /\ levels'[m].entries = levels[m].entries
         /\ levels'[m].key = levels[m].key
         /\ levels'[m].dummies = levels[m].dummies
         /\ levels'[m].queryCount = levels[m].queryCount
         /\ levels'[m].numElements = levels[m].numElements
         /\ \A x \in levels'[m].revealed :
              x \in levels[m].revealed \/ \E i \in DOMAIN flight : flight[i].x = x
  <2> TAKE m \in Live
  <2>1. CASE m = l
    BY <1>4, <1>6, <1>8, <2>1
  <2>2. CASE m # l
    BY <1>1, <1>8, <2>2
  <2>3. QED
    BY <2>1, <2>2
<1>11. LiveKeys' = LiveKeys
  <2> DEFINE order == Ascending(Live)
  <2>1. \A i \in DOMAIN order : order[i] \in Live
    BY LiveListed DEF Sound
  <2>2. LiveKeys = [i \in DOMAIN order |-> levels[order[i]].key]
    BY DEF LiveKeys
  <2>3. LiveKeys' = [i \in DOMAIN order |-> levels'[order[i]].key]
    BY <1>9 DEF LiveKeys
  <2> HIDE DEF order
  <2>4. QED
    BY <1>10, <2>1, <2>2, <2>3
<1>12. QED
  BY <1>2, <1>8, <1>9, <1>10, <1>11

(* No error makes the store unsound: what is lost is only missing.         *)
LEMMA FailureSound ==
  ASSUME Sound, Failure
  PROVE  Sound' /\ config' = config
<1>1. CASE FailQueryCache
  <2>1. UNCHANGED store /\ LeaveCall /\ pc = "access"
    BY <1>1 DEF FailQueryCache
  <2>2. /\ config' = config /\ cache' = cache /\ levels' = levels /\ baseB' = baseB
        /\ hadInitialBottomLevel' = hadInitialBottomLevel /\ Live' = Live
        /\ LiveKeys' = LiveKeys
    BY <2>1 DEF store, Live, LiveKeys
  <2>3. TypeOK' /\ CallPhases' /\ QueriedApart'
    BY <2>1, <2>2, CallLeft, TypesKept DEF Sound, TypeOK
  <2>4. BottomCounted' /\ TablesTidy' /\ SlotsCounted' /\ StoredOnce'
    BY <2>2 DEF Sound, BottomCounted, TablesTidy, SlotsCounted, StoredOnce
  <2>5. AlibisGood'
    BY <2>1, <2>2, CallLeft DEF Sound, AlibisGood
  <2>6. TagsFit'
    <3>1. \A n : PackedKeys(n) = LiveKeys
      BY DEF PackedKeys, Sound, TagsFit, CachedKeysCurrent
    <3>2. CASE single
      <4>1. packedQueryKey' = LiveKeys /\ packedBatchQueryKeys' = packedBatchQueryKeys
        BY <1>1, <3>1, <3>2 DEF FailQueryCache
      <4>2. QED
        BY <2>1, <2>2, <4>1, CallLeft DEF Sound, TagsFit, CachedKeysCurrent
    <3>3. CASE ~ single
      <4>1. packedBatchQueryKeys'.keys = LiveKeys /\ packedQueryKey' = packedQueryKey
        BY <1>1, <3>1, <3>3 DEF FailQueryCache
      <4>2. QED
        BY <2>1, <2>2, <4>1, CallLeft DEF Sound, TagsFit, CachedKeysCurrent
    <3>4. QED
      BY <3>2, <3>3
  <2>7. QED
    BY <2>2, <2>3, <2>4, <2>5, <2>6 DEF Sound
<1>2. CASE \E l \in Levels(config) : FailQueryLevel(l)
  <2>1. PICK l \in Levels(config) : FailQueryLevel(l)
    BY <1>2
  <2>2. /\ LeaveCall /\ config' = config /\ cache' = cache /\ baseB' = baseB
        /\ hadInitialBottomLevel' = hadInitialBottomLevel
        /\ packedQueryKey' = packedQueryKey
        /\ packedBatchQueryKeys' = packedBatchQueryKeys
    BY <2>1 DEF FailQueryLevel, CacheWithoutFlight, keyCaches
  <2>3. /\ Live' = Live /\ LiveKeys' = LiveKeys
        /\ levels' \in [Levels(config) -> TableOf(config) \cup {NoTable}]
        /\ \A m \in Live :
             /\ levels'[m].entries = levels[m].entries
             /\ levels'[m].dummies = levels[m].dummies
             /\ levels'[m].queryCount = levels[m].queryCount
             /\ levels'[m].numElements = levels[m].numElements
             /\ \A x \in levels'[m].revealed :
                  x \in levels[m].revealed \/ \E i \in DOMAIN flight : flight[i].x = x
    BY <2>1, LevelFailed
  <2>4. TypeOK' /\ CallPhases' /\ QueriedApart'
    <3>1. Free' = Free
      BY <2>2 DEF Free
    <3>2. QED
      BY <2>2, <2>3, <3>1, CallLeft DEF Sound, TypeOK
  <2>5. BottomCounted' /\ TablesTidy' /\ StoredOnce'
    BY <2>2, <2>3 DEF Sound, BottomCounted, TablesTidy, StoredOnce
  <2>6. SlotsCounted'
    BY <2>2, <2>3 DEF Sound, SlotsCounted
  <2>7. AlibisGood'
    <3>1. \A i \in DOMAIN cache, j \in DOMAIN flight : flight[j].x # cache[i].x
      BY DEF Sound, QueriedApart
    <3>2. DOMAIN flight' = {}
      BY <2>2, CallLeft DEF Sound
    <3>3. ASSUME NEW i \in DOMAIN cache, cache[i].x \in Addresses(config),
                 NEW m \in cache[i].alibi
          PROVE  m \in Live /\ cache[i].x \notin levels'[m].revealed
      <4>1. m \in Live /\ cache[i].x \notin levels[m].revealed
        BY <3>3 DEF Sound, AlibisGood
      <4>2. QED
        BY <2>3, <3>1, <4>1
    <3>4. QED
      BY <2>2, <2>3, <3>2, <3>3 DEF AlibisGood
  <2>8. TagsFit'
    BY <2>2, <2>3, CallLeft DEF Sound, TagsFit, CachedKeysCurrent
  <2>9. QED
    BY <2>2, <2>4, <2>5, <2>6, <2>7, <2>8 DEF Sound
<1>3. CASE FailRebuild
  <2>1. /\ LeaveCall /\ config' = config /\ cache' = <<>> /\ baseB' = baseB
        /\ hadInitialBottomLevel' = hadInitialBottomLevel /\ levels' = levels
        /\ packedQueryKey' = packedQueryKey
        /\ packedBatchQueryKeys' = packedBatchQueryKeys
        /\ Live' = Live /\ LiveKeys' = LiveKeys
    BY <1>3 DEF FailRebuild, keyCaches, Live, LiveKeys
  <2>2. DOMAIN cache' = {} /\ Len(cache') = 0 /\ cache' \in Seq(EntryOf(config))
    BY <2>1
  <2>3. TypeOK' /\ CallPhases' /\ QueriedApart'
    <3>1. Free' >= 0
      <4>1. SpeedCacheSize(config) \in Nat
        BY ConfigFacts DEF Sound, TypeOK
      <4>2. QED
        BY <2>1, <2>2, <4>1 DEF Free
    <3>2. QED
      BY <2>1, <2>2, <3>1, CallLeft DEF Sound, TypeOK
  <2>4. BottomCounted' /\ TablesTidy' /\ SlotsCounted'
    BY <2>1 DEF Sound, BottomCounted, TablesTidy, SlotsCounted
  <2>5. StoredOnce'
    BY <2>1, <2>2 DEF Sound, StoredOnce
  <2>6. AlibisGood'
    BY <2>1, <2>2, CallLeft DEF Sound, AlibisGood
  <2>7. TagsFit'
    BY <2>1, CallLeft DEF Sound, TagsFit, CachedKeysCurrent
  <2>8. QED
    BY <2>1, <2>3, <2>4, <2>5, <2>6, <2>7 DEF Sound
<1>4. QED
  BY <1>1, <1>2, <1>3 DEF Failure

(* Whatever fails and whenever, the store of a DORAM whose batches name no *)
(* address twice stays sound: labels and slots of its tables add up, the   *)
(* round keys it has cached are current, its alibis are good and no        *)
(* address is held twice.                                                  *)
THEOREM StoreStaysSound == ASSUME DistinctBatches PROVE FailingSpec => []Sound
<1>1. FailingInit => Sound
  BY InitIInv DEF FailingInit, IInv
<1>2. ASSUME Sound, [FailingNext]_failureVars
      PROVE  Sound'
  <2>1. CASE Failure
    BY <1>2, <2>1, FailureSound
  <2>2. CASE [Next]_vars
    BY <1>2, <2>2, NextSound DEF StillSound
  <2>3. QED
    BY <1>2, <2>1, <2>2 DEF FailingNext, failureVars
<1>3. QED
  BY <1>1, <1>2, PTL DEF FailingSpec

(* An error that keeps the copies of all addresses but those in `lost`,    *)
(* and none of these, ends the call and loses them.                        *)
LEMMA CopiesLost ==
  ASSUME Sound, Sound', LeaveCall, config' = config, NEW lost,
         \A x \in Addresses(config) : x \notin lost =>
           \A y : Holds(x, y)' <=> Holds(x, y),
         \A x \in Addresses(config) : x \in lost => \A y : ~ Holds(x, y)'
  PROVE  LossyMemory!EndCallLosing(lost)
<1> DEFINE mem == [x \in Addresses(config) |-> ValueAt(x)]
<1>1. Pending' = <<>> /\ outputs' = <<>>
  BY CallLeft DEF Sound, LeaveCall
<1>2. ASSUME NEW x \in Addresses(config), x \notin lost
      PROVE  ValueAt(x)' = ValueAt(x)
  <2>1. x \in Addresses(config)' /\ \A y : Holds(x, y)' <=> Holds(x, y)
    BY <1>2
  <2>2. CASE \E y : Holds(x, y)
    <3>1. PICK y : Holds(x, y)
      BY <2>2
    <3>2. QED
      BY <2>1, <3>1, HeldValue, HeldValueNext
  <2>3. CASE \A y : ~ Holds(x, y)
    BY <2>1, <2>3, HeldValue, HeldValueNext
  <2>4. QED
    BY <2>2, <2>3
<1>3. ASSUME NEW x \in Addresses(config), x \in lost
      PROVE  ValueAt(x)' = Zero
  <2>1. x \in Addresses(config)' /\ \A y : ~ Holds(x, y)'
    BY <1>3
  <2>2. QED
    BY <2>1, HeldValueNext
<1>4. /\ mem' = [x \in Addresses(config) |-> ValueAt(x)']
      /\ DOMAIN mem = Addresses(config)
      /\ \A x \in Addresses(config) : mem[x] = ValueAt(x)
  OBVIOUS
<1> HIDE DEF mem
<1>5. mem' = [x \in DOMAIN mem |-> IF x \in lost THEN Zero ELSE mem[x]]
  BY <1>2, <1>3, <1>4
<1>6. (InFlight \o remaining)' = <<>>
  BY <1>1 DEF Pending
<1>7. QED
  BY <1>1, <1>5, <1>6 DEF LossyMemory!EndCallLosing, mem

(* The addresses the chunk asks for are among the pending ones.            *)
LEMMA FlightPending ==
  ASSUME TypeOK
  PROVE  \A i \in DOMAIN flight : \E j \in DOMAIN Pending : Pending[j].x = flight[i].x
<1> DEFINE Op == OperationOf(config)
           n == Len(flight)
           p == Len(remaining)
<1>1. /\ InFlight \in Seq(Op) /\ Len(InFlight) = n /\ n \in Nat
      /\ DOMAIN flight = 1 .. n
      /\ \A i \in 1 .. n : InFlight[i] = [x |-> flight[i].x, y |-> flight[i].write]
      /\ remaining \in Seq(Op) /\ p \in Nat
  BY PendingListed, CallTypes DEF TypeOK
<1> HIDE DEF Op, n, p
<1>2. /\ Pending \in Seq(Op) /\ Len(Pending) = n + p
      /\ \A i \in 1 .. n + p : Pending[i] =
           IF i <= n THEN InFlight[i] ELSE remaining[i - n]
  <2>1. p = Len(remaining)
    BY DEF p
  <2>2. QED
    BY <1>1, <2>1, ConcatProperties DEF Pending
<1>3. DOMAIN Pending = 1 .. n + p
  BY <1>2, LenProperties
<1>4. ASSUME NEW i \in DOMAIN flight
      PROVE  i \in DOMAIN Pending /\ Pending[i].x = flight[i].x
  <2>1. i \in 1 .. n + p /\ i <= n /\ i \in 1 .. n
    BY <1>1
  <2>2. Pending[i] = [x |-> flight[i].x, y |-> flight[i].write]
    BY <1>1, <1>2, <2>1
  <2>3. QED
    BY <1>3, <2>1, <2>2
<1>5. QED
  BY <1>4

(* An access that fails loses at most what its chunk has found; a rebuild  *)
(* that fails, at most what the cache held.                                *)
LEMMA FailureLoses ==
  ASSUME Sound, Failure
  PROVE  LossyMemory!FailAccess \/ LossyMemory!FailRebuild
<1>1. Sound' /\ config' = config
  BY FailureSound
<1>2. CASE FailQueryCache
  <2>1. UNCHANGED store /\ LeaveCall /\ pc = "access"
    BY <1>2 DEF FailQueryCache
  <2>2. cache' = cache /\ levels' = levels /\ Live' = Live
    BY <2>1 DEF store, Live
  <2>3. pc # "levels" /\ pc' # "levels"
    BY <1>1, <2>1, CallLeft DEF Sound
  <2>4. \A x, y : Holds(x, y)' <=> Holds(x, y)
    BY <1>1, <2>2, <2>3, HeldBetween, HeldBetweenNext
  <2>5. LossyMemory!EndCallLosing({})
    BY <1>1, <2>1, <2>4, CopiesLost
  <2>6. QED
    BY <2>5 DEF LossyMemory!FailAccess
<1>3. CASE \E l \in Levels(config) : FailQueryLevel(l)
  <2>1. PICK l \in Levels(config) : FailQueryLevel(l)
    BY <1>3
  <2> DEFINE lost == {flight[i].x : i \in {j \in DOMAIN flight : flight[j].found}}
  <2>2. LeaveCall /\ cache' = cache
    BY <2>1 DEF FailQueryLevel, CacheWithoutFlight
  <2>3. Live' = Live /\ \A m \in Live : levels'[m].entries = levels[m].entries
    BY <2>1, LevelFailed
  <2>4. \A x, y : Holds(x, y)' <=>
          \/ \E i \in DOMAIN cache : cache[i].x = x /\ cache[i].y = y
          \/ \E m \in Live : \E e \in levels[m].entries : e.x = x /\ e.y = y
    <3>1. DOMAIN flight' = {}
      BY <1>1, <2>2, CallLeft DEF Sound
    <3>2. QED
      BY <2>2, <2>3, <3>1 DEF Holds
  <2>5. ASSUME NEW x \in Addresses(config), x \notin lost, NEW y
        PROVE  Holds(x, y)' <=> Holds(x, y)
    <3>1. \A i \in DOMAIN flight : ~ (flight[i].x = x /\ flight[i].found)
      BY <2>5
    <3>2. QED
      BY <2>4, <3>1 DEF Holds
  <2>6. ASSUME NEW x \in Addresses(config), x \in lost, NEW y
        PROVE  ~ Holds(x, y)'
    <3>1. PICK i \in DOMAIN flight : flight[i].x = x /\ flight[i].found
      BY <2>6
    <3>2. /\ \A j \in DOMAIN cache : cache[j].x # x
          /\ \A m \in Live : \A e \in levels[m].entries : e.x # x
      BY <3>1 DEF Sound, QueriedApart
    <3>3. QED
      BY <2>4, <3>2
  <2>7. \A x \in lost : \E j \in DOMAIN Pending : Pending[j].x = x
    BY FlightPending DEF Sound
  <2> HIDE DEF lost
  <2>8. LossyMemory!EndCallLosing(lost)
    BY <1>1, <2>2, <2>5, <2>6, CopiesLost
  <2>9. lost \in SUBSET {(InFlight \o remaining)[j].x : j \in DOMAIN (InFlight \o remaining)}
    BY <2>7 DEF Pending
  <2>10. QED
    BY <2>8, <2>9 DEF LossyMemory!FailAccess
<1>4. CASE FailRebuild
  <2> DEFINE lost == {cache[i].x : i \in DOMAIN cache}
  <2>1. /\ LeaveCall /\ cache' = <<>> /\ levels' = levels /\ Live' = Live
        /\ pc = "access"
    BY <1>4 DEF FailRebuild, Live
  <2>2. pc # "levels" /\ pc' # "levels" /\ DOMAIN cache' = {}
    BY <1>1, <2>1, CallLeft DEF Sound
  <2>3. \A x, y : Holds(x, y)' <=>
          \E m \in Live : \E e \in levels[m].entries : e.x = x /\ e.y = y
    BY <1>1, <2>1, <2>2, HeldBetweenNext
  <2>4. \A x, y : Holds(x, y) <=>
          \/ \E i \in DOMAIN cache : cache[i].x = x /\ cache[i].y = y
          \/ \E m \in Live : \E e \in levels[m].entries : e.x = x /\ e.y = y
    BY <2>2, HeldBetween
  <2>5. ASSUME NEW x \in Addresses(config), x \notin lost, NEW y
        PROVE  Holds(x, y)' <=> Holds(x, y)
    BY <2>3, <2>4, <2>5
  <2>6. ASSUME NEW x \in Addresses(config), x \in lost, NEW y
        PROVE  ~ Holds(x, y)'
    <3>1. PICK i \in DOMAIN cache : cache[i].x = x
      BY <2>6
    <3>2. \A m \in Live : \A e \in levels[m].entries : e.x # x
      BY <2>6, <3>1 DEF Sound, StoredOnce
    <3>3. QED
      BY <2>3, <3>2
  <2>7. LossyMemory!EndCallLosing(lost)
    <3> HIDE DEF lost
    <3>1. QED
      BY <1>1, <2>1, <2>5, <2>6, CopiesLost
  <2>8. InFlight \o remaining # <<>>
    <3>1. flight = <<>> /\ remaining # <<>>
      BY <2>1 DEF Sound, CallPhases
    <3>2. QED
      BY <3>1, PendingListed DEF Sound, Pending
  <2>9. QED
    BY <2>7, <2>8 DEF LossyMemory!FailRebuild
<1>5. QED
  BY <1>2, <1>3, <1>4 DEF Failure

(* The memory that may lose something does all that the other one does.    *)
LEMMA StillMemory ==
  /\ Memory!Init => LossyMemory!Init
  /\ Memory!Next => LossyMemory!Next
  /\ LossyMemory!vars = Memory!vars
<1>1. \A m, ops : Memory!PerformAll(m, ops) = LossyMemory!PerformAll(m, ops)
  BY DEF Memory!PerformAll, LossyMemory!PerformAll, Memory!Max, LossyMemory!Max
<1>2. Memory!Idle <=> LossyMemory!Idle
  BY DEF Memory!Idle, LossyMemory!Idle
<1>3. Memory!Init => LossyMemory!Init
  BY <1>2 DEF Memory!Init, LossyMemory!Init
<1>4. ASSUME NEW ops, Memory!Call(ops)
      PROVE  LossyMemory!Call(ops)
  BY <1>2, <1>4 DEF Memory!Call, LossyMemory!Call, Memory!InRange, LossyMemory!InRange
<1>5. ASSUME NEW n, Memory!Serve(n)
      PROVE  LossyMemory!Serve(n)
  BY <1>1, <1>5 DEF Memory!Serve, LossyMemory!Serve
<1>6. Memory!Return => LossyMemory!Return
  BY DEF Memory!Return, LossyMemory!Return
<1>7. Memory!Grow => LossyMemory!Grow
  <2>1. \A S : Memory!Cardinality(S) = LossyMemory!Cardinality(S)
    BY DEF Memory!Cardinality, LossyMemory!Cardinality
  <2>2. QED
    BY <1>2, <2>1 DEF Memory!Grow, LossyMemory!Grow
<1>8. LossyMemory!vars = Memory!vars
  BY DEF LossyMemory!vars, Memory!vars
<1>9. QED
  BY <1>3, <1>4, <1>5, <1>6, <1>7, <1>8 DEF Memory!Next, LossyMemory!Next

(* After an error the DORAM goes on as a memory that has lost, at most,    *)
(* addresses the failed access asked for, or what the cache held for a     *)
(* failed rebuild (the `?` at lib.rs:456 and lib.rs:757): no read ever     *)
(* returns a stale value, or that of another address.                      *)
THEOREM DoramIsLossyMemory ==
  ASSUME DistinctBatches PROVE FailingSpec => IsLossyMemory
<1>1. FailingInit => LossyMemory!Init
  BY InitIsMemory, StillMemory DEF FailingInit
<1>2. ASSUME Sound, Sound', [FailingNext]_failureVars
      PROVE  [LossyMemory!LossyNext]_(LossyMemory!vars)
  <2>1. CASE Failure
    BY <1>2, <2>1, FailureLoses DEF LossyMemory!LossyNext
  <2>2. CASE [Next]_vars
    <3>1. [Memory!Next]_(Memory!vars)
      BY <1>2, <2>2, NextIsMemory
    <3>2. LossyMemory!vars = Memory!vars /\ LossyMemory!vars' = Memory!vars'
      BY DEF LossyMemory!vars, Memory!vars
    <3>3. Memory!Next => LossyMemory!LossyNext
      BY StillMemory DEF LossyMemory!LossyNext
    <3>4. QED
      BY <3>1, <3>2, <3>3
  <2>3. QED
    BY <1>2, <2>1, <2>2 DEF FailingNext, failureVars
<1>3. FailingSpec => []Sound
  BY StoreStaysSound
<1>4. QED
  BY <1>1, <1>2, <1>3, PTL DEF FailingSpec, IsLossyMemory, LossyMemory!LossySpec

---------------------------------------------------------------------------
(* The bottom level of a DORAM that began with a full one.                 *)

(* A bottom level that passes the count of cleanse_bottom_level has an     *)
(* entry for every address: as many entries with distinct addresses as     *)
(* there are addresses.                                                    *)
LEMMA CountedIsComplete ==
  ASSUME config \in Configs, hadInitialBottomLevel,
         NEW R, NEW s, Bared(config, s, R), CleanseSucceeds(s)
  PROVE  \A x \in Addresses(config) : \E r \in R : r.x = x
<1> DEFINE N == BottomNumElements(config)
           t == Reals(config, s)
           A == Addresses(config)
           D == 1 .. N
           f == [i \in D |-> t[i].x]
<1>1. N \in Nat \ {0} /\ A = 0 .. N - 1
  BY LabelFacts
<1>2. Labelled(config, t, R) /\ \A i \in DOMAIN t : t[i].x \in A
  BY BaredReals
<1>3. Len(t) = N
  BY DEF CleanseSucceeds, FinalizeBottomLevel
<1>4. Carries(config, t, R)
  BY <1>2 DEF Labelled, Bared
<1>5. DOMAIN t = D
  <2> HIDE DEF t
  <2>1. DOMAIN t = 1 .. Len(t)
    BY <1>4, CarriedEntries
  <2>2. QED
    BY <1>3, <2>1
<1>6. /\ \A i \in D : t[i].x \in A /\ Bare(t[i]) \in R
      /\ \A i, j \in D : t[i].x = t[j].x => i = j
  <2> HIDE DEF t, D, A
  <2>1. QED
    BY <1>2, <1>4, <1>5 DEF Carries, Labelled, A
<1>7. f \in Injection(D, A)
  <2>1. f \in [D -> A] /\ \A i \in D : f[i] = t[i].x
    BY <1>6
  <2> HIDE DEF f, D, A, t
  <2>2. QED
    BY <1>6, <2>1 DEF Injection, IsInjective
<1>8. /\ IsFiniteSet(A) /\ Cardinality(A) = N
      /\ IsFiniteSet(D) /\ Cardinality(D) = N
  <2> HIDE DEF N, f, t
  <2>1. PICK m : m = N - 1
    OBVIOUS
  <2>2. 0 \in Int /\ m \in Int /\ 1 \in Int /\ N \in Int
    BY <1>1, <2>1
  <2>3. /\ IsFiniteSet(0 .. m)
        /\ Cardinality(0 .. m) = IF 0 > m THEN 0 ELSE m - 0 + 1
    BY <2>2, FS_Interval, Zenon
  <2>4. /\ IsFiniteSet(1 .. N)
        /\ Cardinality(1 .. N) = IF 1 > N THEN 0 ELSE N - 1 + 1
    BY <2>2, FS_Interval, Zenon
  <2>5. Cardinality(0 .. m) = N /\ A = 0 .. m
    BY <1>1, <2>1, <2>3
  <2>6. Cardinality(1 .. N) = N
    BY <1>1, <2>4
  <2>7. QED
    BY <2>3, <2>4, <2>5, <2>6
<1>9. f \in Surjection(D, A) /\ \A i \in D : f[i] = t[i].x
  <2>1. \A i \in D : f[i] = t[i].x
    OBVIOUS
  <2> HIDE DEF f, D, A, N, t
  <2>2. QED
    BY <1>7, <1>8, <2>1, FS_Injection
<1>10. ASSUME NEW x \in A
       PROVE  \E r \in R : r.x = x
  <2> HIDE DEF f, D, A, N, t
  <2>1. PICK i \in D : f[i] = x
    BY <1>9, <1>10 DEF Surjection
  <2>2. Bare(t[i]) \in R /\ Bare(t[i]).x = x
    BY <1>6, <1>9, <2>1 DEF Bare, Entry
  <2>3. QED
    BY <2>2
<1>11. QED
  BY <1>10

(* What a new bottom table is built from is in it or in its stash.         *)
LEMMA BuiltHolds ==
  ASSUME NEW c, config' = c, NEW R,
         Shared(c, Bottom(c), levels'[Bottom(c)], cache', R), NEW r \in R
  PROVE  r.x \in HeldBelow'
<1> DEFINE t == levels'[Bottom(c)]
<1>1. PICK Q : Carries(c, cache', Q) /\ R = Q \cup Contents(c, t.entries)
  BY DEF Shared
<1>2. HeldBelow' = {e.x : e \in t.entries} \cup {cache'[i].x : i \in DOMAIN cache'}
  BY DEF HeldBelow, BottomTable
<1>3. CASE r \in Q
  <2>1. PICK i \in DOMAIN cache' : Bare(cache'[i]) = r
    BY <1>1, <1>3 DEF Carries
  <2>2. cache'[i].x = r.x
    BY <2>1 DEF Bare, Entry
  <2>3. QED
    BY <1>2, <2>2
<1>4. CASE r \in Contents(c, t.entries)
  <2>1. PICK e \in t.entries : r = Bare(e)
    BY <1>4 DEF Contents
  <2>2. e.x = r.x
    BY <2>1 DEF Bare, Entry
  <2>3. QED
    BY <1>2, <2>2
<1>5. QED
  BY <1>1, <1>3, <1>4

(* Such a DORAM always has a bottom table.                                 *)
BottomLive == hadInitialBottomLevel => Bottom(config) \in Live

(* A step that replaces the bottom table, by a larger one or by one that   *)
(* has served fewer queries, leaves every address in the new one or in the *)
(* cache.                                                                  *)
ReplacedWhole ==
  /\ hadInitialBottomLevel
  /\ config' # config \/ BottomTable'.queryCount < BottomTable.queryCount
  => Addresses(config)' \subseteq HeldBelow'

(* The other steps leave the table, or count further queries.              *)
LEMMA BottomUntouched ==
  ASSUME Sound, BottomLive, config' = config,
         hadInitialBottomLevel' = hadInitialBottomLevel,
         Bottom(config) \in Live =>
           /\ Bottom(config) \in Live'
           /\ levels'[Bottom(config)].queryCount >= levels[Bottom(config)].queryCount
           /\ levels'[Bottom(config)].queryCount \in Nat
  PROVE  BottomLive' /\ ReplacedWhole
<1>1. BottomLive'
  BY DEF BottomLive
<1>2. ASSUME hadInitialBottomLevel
      PROVE  ~ (BottomTable'.queryCount < BottomTable.queryCount)
  <2> DEFINE q == levels[Bottom(config)].queryCount
             p == levels'[Bottom(config)].queryCount
  <2>1. BottomTable'.queryCount = p /\ BottomTable.queryCount = q
    BY DEF BottomTable
  <2>2. Bottom(config) \in Live
    BY <1>2 DEF BottomLive
  <2>3. levels[Bottom(config)] \in TableOf(config)
    BY <2>2, StoreTypes DEF Sound
  <2>4. q \in Nat
    BY <2>3 DEF TableOf
  <2>5. p >= q /\ p \in Nat
    BY <2>2
  <2> HIDE DEF p, q
  <2>6. QED
    BY <2>1, <2>4, <2>5
<1>3. QED
  BY <1>1, <1>2 DEF ReplacedWhole

(* Most leave all tables.                                                  *)
LEMMA LevelsUntouched ==
  ASSUME Sound, BottomLive, config' = config,
         hadInitialBottomLevel' = hadInitialBottomLevel, levels' = levels
  PROVE  BottomLive' /\ ReplacedWhole
<1>1. Live' = Live
  BY DEF Live
<1>2. Bottom(config) \in Live => levels[Bottom(config)].queryCount \in Nat
  <2>1. Bottom(config) \in Live => levels[Bottom(config)] \in TableOf(config)
    BY StoreTypes DEF Sound
  <2>2. QED
    BY <2>1 DEF TableOf
<1>3. Bottom(config) \in Live =>
        levels'[Bottom(config)].queryCount >= levels[Bottom(config)].queryCount
  <2> DEFINE q == levels[Bottom(config)].queryCount
  <2>1. Bottom(config) \in Live => q \in Nat
    BY <1>2
  <2>2. levels'[Bottom(config)].queryCount = q
    OBVIOUS
  <2> HIDE DEF q
  <2>3. Bottom(config) \in Live => q >= q
    BY <2>1
  <2>4. QED
    BY <2>2, <2>3 DEF q
<1>4. QED
  BY <1>1, <1>2, <1>3, BottomUntouched

(* A rebuild of the bottom, whose count is checked; others are above it.   *)
LEMMA RebuildBottom ==
  ASSUME Sound, BottomLive, Rebuild
  PROVE  BottomLive' /\ ReplacedWhole
<1> DEFINE B == Bottom(config)
           R == StoredAbove(LastLevelToExtract)
<1>1. /\ config' = config /\ hadInitialBottomLevel' = hadInitialBottomLevel
      /\ \A m \in Levels(config) : m # Target =>
           levels'[m] = IF m \in Live /\ Target < m THEN levels[m] ELSE NoTable
      /\ Shared(config, Target, levels'[Target], cache', R)
  BY RebuildBuilds
<1>2. /\ config \in Configs /\ B \in Levels(config) /\ Target \in Levels(config)
      /\ \A l \in Levels(config) : l \in Live <=> levels[l] # NoTable
  BY TargetCollects, StoreTypes, ConfigFacts DEF Sound
<1>3. Target # B => Target < B
  <2> DEFINE T == Target
             n == config.numLevels
  <2>1. T \in 0 .. n - 1 /\ n \in Nat /\ B = n - 1
    BY <1>2, ConfigFacts DEF Levels, Bottom
  <2> HIDE DEF T, n, B
  <2>2. T # B => T < B
    BY <2>1
  <2>3. QED
    BY <2>2 DEF T
<1>4. CASE Target # B
  <2>1. B \in Live => levels'[B] = levels[B]
    BY <1>1, <1>2, <1>3, <1>4
  <2>2. B \in Live => B \in Live'
    BY <1>1, <1>2, <2>1 DEF Live
  <2>3. B \in Live => levels[B].queryCount \in Nat
    <3>1. B \in Live => levels[B] \in TableOf(config)
      BY StoreTypes DEF Sound
    <3>2. QED
      BY <3>1 DEF TableOf
  <2>4. B \in Live => levels'[B].queryCount >= levels[B].queryCount
    <3> HIDE DEF B
    <3>1. QED
      BY <2>1, <2>3
  <2>5. QED
    BY <1>1, <2>1, <2>2, <2>3, <2>4, BottomUntouched
<1>5. CASE Target = B
  <2>1. CleanseSucceeds(Collapsed)
    BY <1>5 DEF Rebuild
  <2>2. Bared(config, Collapsed, R)
    BY CollapsedCarries
  <2>3. B \in Live'
    <3>1. levels'[B] \in TableOf(config)
      BY <1>1, <1>5 DEF Shared
    <3>2. QED
      BY <1>1, <1>2, <3>1, NoTableAssumption DEF Live
  <2> HIDE DEF R
  <2>4. ASSUME hadInitialBottomLevel, NEW x \in Addresses(config)
        PROVE  x \in HeldBelow'
    <3>1. PICK r \in R : r.x = x
      BY <1>2, <2>1, <2>2, <2>4, CountedIsComplete
    <3>2. Shared(config, Bottom(config), levels'[Bottom(config)], cache', R)
      BY <1>1, <1>5
    <3>3. r.x \in HeldBelow'
      BY <1>1, <3>2, BuiltHolds
    <3>4. QED
      BY <3>1, <3>3
  <2>5. BottomLive'
    BY <1>1, <2>3 DEF BottomLive
  <2>6. Addresses(config)' = Addresses(config)
    BY <1>1
  <2>7. QED
    BY <2>4, <2>5, <2>6 DEF ReplacedWhole
<1>6. QED
  BY <1>4, <1>5

(* A growth, which checks the count of the old addresses and adds the new. *)
LEMMA GrowBottom ==
  ASSUME Sound, BottomLive, NEW c \in Configs, GrowNaturally(c) \/ GrowOnDemand(c)
  PROVE  BottomLive' /\ ReplacedWhole
<1>1. PICK L : \E e : /\ Bared(config, e, StoredAbove(L))
                      /\ CleanseSucceeds(e)
                      /\ FinishGrow(c, FinalizeBottomLevel(e))
  BY GrowBuilds
<1>2. PICK e : /\ Bared(config, e, StoredAbove(L))
               /\ CleanseSucceeds(e)
               /\ FinishGrow(c, FinalizeBottomLevel(e))
  BY <1>1
<1> DEFINE G == StoredAbove(L) \cup Grown(c)
<1>3. /\ config' = c /\ hadInitialBottomLevel' = hadInitialBottomLevel
      /\ Shared(c, Bottom(c), levels'[Bottom(c)], cache', G)
  <2>1. OneBitLarger(c)
    BY GrowBuilds
  <2>2. QED
    BY <1>2, <2>1, FinishGrowBuilds
<1>4. config \in Configs /\ Bottom(c) \in Levels(c)
  BY StoreTypes, ConfigFacts DEF Sound
<1>5. Bottom(c) \in Live'
  <2>1. levels'[Bottom(c)] \in TableOf(c)
    BY <1>3 DEF Shared
  <2>2. QED
    BY <1>3, <1>4, <2>1, NoTableAssumption DEF Live
<1>6. ASSUME hadInitialBottomLevel, NEW x \in Addresses(c)
      PROVE  x \in HeldBelow'
  <2>1. ASSUME x \in Addresses(config)
        PROVE  \E r \in G : r.x = x
    BY <1>2, <1>4, <1>6, <2>1, CountedIsComplete
  <2>2. ASSUME x \notin Addresses(config)
        PROVE  \E r \in G : r.x = x
    <3>1. Entry(x, Zero) \in Grown(c) /\ Entry(x, Zero).x = x
      BY <1>6, <2>2 DEF Grown, Entry
    <3>2. QED
      BY <3>1
  <2>3. PICK r \in G : r.x = x
    BY <2>1, <2>2
  <2> HIDE DEF G
  <2>4. r.x \in HeldBelow'
    BY <1>3, BuiltHolds
  <2>5. QED
    BY <2>3, <2>4
<1>7. BottomLive'
  BY <1>3, <1>5 DEF BottomLive
<1>8. Addresses(config)' = Addresses(c)
  BY <1>3
<1>9. QED
  BY <1>6, <1>7, <1>8 DEF ReplacedWhole

(* A query of a table adds to its count.                                   *)
LEMMA QueryBottom ==
  ASSUME Sound, BottomLive, NEW l \in Levels(config), QueryLevel(l)
  PROVE  BottomLive' /\ ReplacedWhole
<1> DEFINE B == Bottom(config)
<1>1. PICK hits : /\ levels' = [levels EXCEPT ![l] = Spend(l, hits)]
                     /\ config' = config /\ l \in Live
                     /\ hadInitialBottomLevel' = hadInitialBottomLevel
  BY DEF QueryLevel
<1>2. /\ config \in Configs
      /\ DOMAIN levels = Levels(config) /\ Live \subseteq Levels(config)
      /\ \A m \in Levels(config) : m \in Live <=> levels[m] # NoTable
      /\ \A m \in Live : levels[m] \in TableOf(config)
      /\ Len(flight) \in Nat
  BY StoreTypes, CallTypes DEF Sound
<1>3. /\ levels[l] \in TableOf(config) /\ levels[l].queryCount \in Nat
      /\ levels[B] \in TableOf(config) => levels[B].queryCount \in Nat
  BY <1>1, <1>2 DEF TableOf
<1> DEFINE q == levels[l].queryCount
<1>4. PICK t : t = Spend(l, hits) /\ t.queryCount = q + Len(flight)
  <2>1. Spend(l, hits).queryCount = q + Len(flight)
    BY <1>3 DEF Spend, TableOf
  <2>2. QED
    BY <2>1
<1>5. levels'[l] = t /\ \A m \in Levels(config) : m # l => levels'[m] = levels[m]
  BY <1>1, <1>2, <1>4
<1>6. q \in Nat /\ t.queryCount \in Nat /\ t.queryCount >= q
  <2> HIDE DEF q
  <2>1. QED
    BY <1>2, <1>3, <1>4 DEF q
<1>7. Live' = Live
  <2>1. t # NoTable
    <3>1. PICK u \in TableOf(config) : levels' = [levels EXCEPT ![l] = u]
      BY LevelQueried
    <3>2. levels'[l] = u
      BY <1>2, <3>1
    <3>3. QED
      BY <1>2, <1>5, <3>1, <3>2, NoTableAssumption
  <2>2. QED
    BY <1>1, <1>2, <1>5, <2>1 DEF Live
<1>8. ASSUME B \in Live
      PROVE  /\ levels'[B].queryCount >= levels[B].queryCount
             /\ levels'[B].queryCount \in Nat
  <2>1. CASE B = l
    BY <1>5, <1>6, <2>1
  <2>2. CASE B # l
    <3>1. levels'[B] = levels[B] /\ levels[B].queryCount \in Nat
      BY <1>2, <1>3, <1>5, <1>8, <2>2
    <3> HIDE DEF B
    <3>2. QED
      BY <3>1
  <2>3. QED
    BY <2>1, <2>2
<1>9. QED
  BY <1>1, <1>7, <1>8, BottomUntouched

(* So no step, and no error, replaces the bottom table by an incomplete    *)
(* one.                                                                    *)
LEMMA StepsKeepBottom ==
  ASSUME Sound, BottomLive, [FailingNext]_failureVars
  PROVE  BottomLive' /\ ReplacedWhole
<1>1. ASSUME UNCHANGED store
      PROVE  BottomLive' /\ ReplacedWhole
  BY <1>1, LevelsUntouched DEF store
<1>2. CASE \E ops \in SingleCalls \cup BatchCalls, isSingle \in BOOLEAN :
             StartCall(ops, isSingle)
  BY <1>1, <1>2 DEF StartCall
<1>3. CASE Rebuild
  BY <1>3, RebuildBottom
<1>4. CASE QueryCache
  BY <1>4, LevelsUntouched DEF QueryCache
<1>5. CASE \E l \in Levels(config) : QueryLevel(l)
  BY <1>5, QueryBottom
<1>6. CASE \E l \in Levels(config) : SkipLevel(l)
  BY <1>1, <1>6 DEF SkipLevel
<1>7. CASE WriteBack
  BY <1>7, LevelsUntouched DEF WriteBack
<1>8. CASE Return
  BY <1>1, <1>8 DEF Return
<1>9. CASE \E c \in Configs : GrowNaturally(c) \/ GrowOnDemand(c)
  BY <1>9, GrowBottom
<1>10. CASE UNCHANGED vars
  BY <1>1, <1>10 DEF vars
<1>11. CASE FailQueryCache
  BY <1>1, <1>11 DEF FailQueryCache
<1>12. CASE \E l \in Levels(config) : FailQueryLevel(l)
  <2>1. PICK l \in Levels(config) : FailQueryLevel(l)
    BY <1>12
  <2>2. config' = config /\ hadInitialBottomLevel' = hadInitialBottomLevel
    BY <2>1 DEF FailQueryLevel
  <2> DEFINE B == Bottom(config)
  <2>3. /\ Live' = Live
        /\ B \in Live => levels'[B].queryCount = levels[B].queryCount
    BY <2>1, LevelFailed
  <2>4. B \in Live => levels[B].queryCount \in Nat
    <3>1. B \in Live => levels[B] \in TableOf(config)
      BY StoreTypes DEF Sound
    <3>2. QED
      BY <3>1 DEF TableOf
  <2>5. ASSUME B \in Live
        PROVE  /\ levels'[B].queryCount >= levels[B].queryCount
               /\ levels'[B].queryCount \in Nat
    <3> HIDE DEF B
    <3>1. QED
      BY <2>3, <2>4, <2>5
  <2>6. QED
    BY <2>2, <2>3, <2>5, BottomUntouched
<1>13. CASE FailRebuild
  BY <1>13, LevelsUntouched DEF FailRebuild
<1>14. QED
  BY <1>2, <1>3, <1>4, <1>5, <1>6, <1>7, <1>8, <1>9, <1>10, <1>11, <1>12, <1>13
     DEF FailingNext, Failure, failureVars, Next, Access

(* Whatever failed before, the bottom of a DORAM that began full is never  *)
(* rebuilt or grown with an address missing (the count of real entries at  *)
(* lib.rs:1035).                                                           *)
THEOREM BottomStaysWhole ==
  ASSUME DistinctBatches PROVE FailingSpec => BottomBuiltWhole
<1>1. FailingInit => BottomLive
  <2> SUFFICES ASSUME FailingInit, hadInitialBottomLevel
               PROVE  Bottom(config) \in Live
    BY DEF BottomLive
  <2>1. InitBottom /\ config \in Configs
    BY DEF FailingInit, Init, InitEmpty
  <2>2. baseB[Bottom(config)] = 1
    BY <2>1, ConfigFacts DEF InitBottom, OnlyBottomCounted
  <2>3. BottomCounted
    BY InitIInv DEF FailingInit, IInv, Sound
  <2>4. QED
    BY <2>2, <2>3 DEF BottomCounted
<1>2. Sound /\ BottomLive /\ [FailingNext]_failureVars => BottomLive' /\ ReplacedWhole
  BY StepsKeepBottom
<1>3. FailingSpec => []Sound
  BY StoreStaysSound
<1>4. BottomBuiltWhole <=> [][ReplacedWhole]_vars
  BY DEF BottomBuiltWhole, ReplacedWhole
<1> HIDE DEF ReplacedWhole
<1>5. QED
  BY <1>1, <1>2, <1>3, <1>4, PTL DEF FailingSpec

---------------------------------------------------------------------------
(* The schedule.                                                           *)
(* The sizes of the schedule are those of the DORAM.                       *)
LEMMA SameSizes ==
  /\ \A c : /\ Schedule!Levels(c) = Levels(c)
            /\ Schedule!Bottom(c) = Bottom(c)
            /\ Schedule!SpeedCacheSize(c) = SpeedCacheSize(c)
            /\ Schedule!AmpFactor(c) = AmpFactor(c)
  /\ \A c, b : Schedule!RebuildTo(c, b) = RebuildTo(c, b)
  /\ \A c, b, t : Schedule!BaseBAfterRebuild(c, b, t) = BaseBAfterRebuild(c, b, t)
<1>1. \A c : Schedule!Levels(c) = Levels(c)
  BY DEF Schedule!Levels, Levels
<1>2. \A c : Schedule!Bottom(c) = Bottom(c)
  BY DEF Schedule!Bottom, Bottom
<1>3. \A c : Schedule!SpeedCacheSize(c) = SpeedCacheSize(c)
  BY DEF Schedule!SpeedCacheSize, SpeedCacheSize
<1>4. \A c : Schedule!AmpFactor(c) = AmpFactor(c)
  BY DEF Schedule!AmpFactor, AmpFactor
<1>5. \A c, b : Schedule!RebuildTo(c, b) = RebuildTo(c, b)
  BY <1>1, <1>2, <1>4 DEF Schedule!RebuildTo, RebuildTo
<1>6. \A c, b, t : Schedule!BaseBAfterRebuild(c, b, t) = BaseBAfterRebuild(c, b, t)
  BY <1>1, <1>2, <1>4 DEF Schedule!BaseBAfterRebuild, BaseBAfterRebuild
<1>7. QED
  BY <1>1, <1>2, <1>3, <1>4, <1>5, <1>6

---------------------------------------------------------------------------
(* Ages.                                                                   *)

(* Sums down the levels are a function.                                    *)
LEMMA SumsDefined ==
  ASSUME NEW n \in Nat, NEW a \in Int, NEW g \in [0 .. n - 1 -> Int]
  PROVE  \E f \in [0 .. n - 1 -> Int] : \A l \in 0 .. n - 1 :
           f[l] = IF l = 0 THEN a ELSE f[l - 1] + g[l - 1]
<1> DEFINE Sums(f, k) ==
             /\ f \in [0 .. k - 1 -> Int]
             /\ \A l \in 0 .. k - 1 :
                  f[l] = IF l = 0 THEN a ELSE f[l - 1] + g[l - 1]
           Bad == {k \in 0 .. n : ~ \E f : Sums(f, k)}
<1>1. ASSUME NEW k \in Bad, \A j \in Bad : k <= j
      PROVE  FALSE
  <2> HIDE DEF Sums
  <2>1. k \in Nat /\ k <= n /\ ~ \E f : Sums(f, k)
    OBVIOUS
  <2>2. CASE k = 0
    <3> DEFINE e == [i \in 0 .. 0 - 1 |-> a]
    <3>1. Sums(e, 0)
      BY DEF Sums
    <3>2. QED
      BY <2>1, <2>2, <3>1
  <2>3. CASE k # 0
    <3> DEFINE m == k - 1
    <3>1. m \in Nat /\ m + 1 = k /\ m \in 0 .. n /\ m \notin Bad
      <4>1. m \in Nat /\ m + 1 = k /\ m \in 0 .. n /\ ~ (k <= m)
        BY <2>1, <2>3
      <4> HIDE DEF Bad, m
      <4>2. QED
        BY <4>1, <1>1
    <3>2. PICK f : Sums(f, m)
      BY <3>1
    <3> DEFINE h == [l \in 0 .. k - 1 |->
                       IF l < m THEN f[l]
                       ELSE IF l = 0 THEN a ELSE f[l - 1] + g[l - 1]]
    <3> HIDE DEF m
    <3>3. \A l \in 0 .. k - 1 :
            h[l] = IF l = 0 THEN a ELSE h[l - 1] + g[l - 1]
      <4> TAKE l \in 0 .. k - 1
      <4>1. CASE l = m
        <5>1. l # 0 => h[l - 1] = f[l - 1]
          BY <2>1, <3>1, <4>1
        <5>2. QED
          BY <2>1, <3>1, <4>1, <5>1
      <4>2. CASE l # m
        <5>1. l \in 0 .. m - 1 /\ l < m
          BY <2>1, <3>1, <4>2
        <5>2. f[l] = IF l = 0 THEN a ELSE f[l - 1] + g[l - 1]
          BY <3>2, <5>1 DEF Sums
        <5>3. l # 0 => h[l - 1] = f[l - 1]
          BY <2>1, <3>1, <5>1
        <5>4. QED
          BY <5>1, <5>2, <5>3
      <4>3. QED
        BY <4>1, <4>2
    <3>4. Sums(h, k)
      <4>1. \A l \in 0 .. k - 1 : h[l] \in Int
        <5>1. \A l \in 0 .. m - 1 : f[l] \in Int /\ h[l] = f[l]
          BY <3>1, <3>2 DEF Sums
        <5>2. \A l \in 0 .. k - 1 : l # 0 => l - 1 \in 0 .. m - 1 /\ g[l - 1] \in Int
          BY <2>1, <3>1
        <5>3. TAKE l \in 0 .. k - 1
        <5>4. h[l] = IF l = 0 THEN a ELSE h[l - 1] + g[l - 1]
          BY <3>3
        <5> HIDE DEF h
        <5>5. QED
          BY <5>1, <5>2, <5>4
      <4>2. h = [l \in 0 .. k - 1 |-> h[l]]
        OBVIOUS
      <4> HIDE DEF h
      <4>3. QED
        BY <3>3, <4>1, <4>2 DEF Sums
    <3>5. QED
      BY <2>1, <3>4
  <2>4. QED
    BY <2>2, <2>3
<1>2. Bad = {}
  <2>1. Bad \subseteq Nat
    <3> HIDE DEF Sums
    <3>1. QED
      OBVIOUS
  <2> HIDE DEF Bad
  <2>2. QED
    BY <1>1, <2>1, LeastNatural
<1>3. \E f : Sums(f, n)
  <2>1. n \notin Bad
    BY <1>2
  <2>2. n \in 0 .. n
    OBVIOUS
  <2> HIDE DEF Sums
  <2>3. QED
    BY <2>1, <2>2
<1>4. QED
  BY <1>3

(* Every access ages level 0 by one; the others are older by what was      *)
(* collapsed out of the level above.                                       *)
LEMMA AgesAdd ==
  TypeOK => /\ LevelAges = [l \in Levels(config) |-> LevelAges[l]]
            /\ LevelAges[0] = Len(cache) - config.stashSize
            /\ \A l \in Levels(config) \ {Bottom(config)} :
                 LevelAges[l + 1] = LevelAges[l] + baseB[l] * NumDummies(config, l)
            /\ \A l \in Levels(config) : LevelAges[l] \in Int
<1> SUFFICES ASSUME TypeOK
             PROVE  /\ LevelAges = [l \in Levels(config) |-> LevelAges[l]]
                    /\ LevelAges[0] = Len(cache) - config.stashSize
                    /\ \A l \in Levels(config) \ {Bottom(config)} :
                         LevelAges[l + 1] = LevelAges[l] + baseB[l] * NumDummies(config, l)
                    /\ \A l \in Levels(config) : LevelAges[l] \in Int
  OBVIOUS
<1> DEFINE n == config.numLevels
           a == Len(cache) - config.stashSize
           g == [l \in Levels(config) |-> baseB[l] * NumDummies(config, l)]
           Ages(f) == f = [l \in Levels(config) |->
                             IF l = 0 THEN a
                             ELSE f[l - 1] + baseB[l - 1] * NumDummies(config, l - 1)]
<1>1. /\ config \in Configs /\ n \in Nat \ {0} /\ Levels(config) = 0 .. n - 1
      /\ Bottom(config) = n - 1 /\ a \in Int
      /\ \A l \in Levels(config) : baseB[l] \in Nat /\ NumDummies(config, l) \in Nat
  <2>1. config \in Configs /\ baseB \in [Levels(config) -> Nat] /\ Len(cache) \in Nat
    BY StoreTypes DEF TypeOK
  <2>2. /\ config.numLevels \in Nat \ {0} /\ config.stashSize \in Nat
        /\ \A l \in Levels(config) : NumDummies(config, l) \in Nat
    BY <2>1, ConfigFacts
  <2>3. a \in Int
    BY <2>1, <2>2
  <2>4. QED
    BY <2>1, <2>2, <2>3 DEF Levels, Bottom
<1> HIDE DEF n, a
<1>2. \E f : Ages(f)
  <2>1. PICK f \in [0 .. n - 1 -> Int] :
          \A l \in 0 .. n - 1 : f[l] = IF l = 0 THEN a ELSE f[l - 1] + g[l - 1]
    <3>1. n \in Nat /\ a \in Int /\ g \in [0 .. n - 1 -> Int]
      <4>1. \A l \in Levels(config) : baseB[l] * NumDummies(config, l) \in Int
        BY <1>1
      <4>2. QED
        BY <1>1, <4>1
    <3> HIDE DEF g
    <3>2. QED
      BY <3>1, SumsDefined
  <2>2. \A l \in 0 .. n - 1 : l # 0 =>
          g[l - 1] = baseB[l - 1] * NumDummies(config, l - 1)
    BY <1>1
  <2> HIDE DEF g
  <2>3. f = [l \in 0 .. n - 1 |->
               IF l = 0 THEN a ELSE f[l - 1] + baseB[l - 1] * NumDummies(config, l - 1)]
    BY <2>1, <2>2
  <2>4. QED
    BY <1>1, <2>3
<1> DEFINE F == CHOOSE f : Ages(f)
<1>3. Ages(F)
  <2> HIDE DEF Ages
  <2>1. QED
    BY <1>2
<1>4. LevelAges = F
  BY DEF LevelAges, a
<1> HIDE DEF F
<1>5. LevelAges = [l \in Levels(config) |->
                     IF l = 0 THEN a
                     ELSE LevelAges[l - 1] + baseB[l - 1] * NumDummies(config, l - 1)]
  BY <1>3, <1>4
<1>6. LevelAges[0] = a
  BY <1>1, <1>5
<1>7. ASSUME NEW l \in Levels(config) \ {Bottom(config)}
      PROVE  LevelAges[l + 1] = LevelAges[l] + baseB[l] * NumDummies(config, l)
  <2>1. l + 1 \in Levels(config) /\ l + 1 # 0 /\ (l + 1) - 1 = l
    BY <1>1
  <2>2. QED
    BY <1>5, <2>1
<1>8. LevelAges = [l \in Levels(config) |-> LevelAges[l]]
  BY <1>5
<1>9. \A l \in Levels(config) : LevelAges[l] \in Int
  <2> DEFINE S == {l \in Int : LevelAges[l] \in Int}
  <2>1. 0 \in S
    BY <1>1, <1>6
  <2>2. ASSUME NEW l \in Levels(config) \ {Bottom(config)}, l \in S
        PROVE  l + 1 \in S
    <3> DEFINE p == baseB[l] * NumDummies(config, l)
    <3>1. p \in Int /\ LevelAges[l] \in Int /\ l + 1 \in Int
      BY <1>1, <2>2
    <3>2. LevelAges[l + 1] = LevelAges[l] + p
      BY <1>7
    <3> HIDE DEF p
    <3>3. QED
      BY <3>1, <3>2
  <2>3. Levels(config) \subseteq S
    <3> HIDE DEF S
    <3>1. QED
      BY <1>1, <2>1, <2>2, LevelInduction
  <2>4. QED
    BY <2>3
<1>10. QED
  BY <1>6, <1>7, <1>8, <1>9 DEF a

(* The same after a step.                                                  *)
LEMMA AgesAddNext ==
  TypeOK' => (/\ LevelAges = [l \in Levels(config) |-> LevelAges[l]]
              /\ LevelAges[0] = Len(cache) - config.stashSize
              /\ \A l \in Levels(config) \ {Bottom(config)} :
                   LevelAges[l + 1] = LevelAges[l] + baseB[l] * NumDummies(config, l)
              /\ \A l \in Levels(config) : LevelAges[l] \in Int)'
BY AgesAdd, PTL

(* While the counters stay, all levels age alike.                          *)
LEMMA AgesShift ==
  ASSUME TypeOK, TypeOK', config' = config, baseB' = baseB,
         NEW k \in Int, Len(cache') = Len(cache) + k
  PROVE  LevelAges' = [l \in Levels(config) |-> LevelAges[l] + k]
<1> DEFINE S == {l \in Int : LevelAges'[l] = LevelAges[l] + k}
           old == LevelAges
           new == LevelAges'
<1>1. /\ old[0] = Len(cache) - config.stashSize
      /\ \A l \in Levels(config) \ {Bottom(config)} :
           old[l + 1] = old[l] + baseB[l] * NumDummies(config, l)
      /\ \A l \in Levels(config) : old[l] \in Int
  BY AgesAdd
<1>2. /\ new = [l \in Levels(config) |-> new[l]]
      /\ new[0] = Len(cache') - config.stashSize
      /\ \A l \in Levels(config) \ {Bottom(config)} :
           new[l + 1] = new[l] + baseB[l] * NumDummies(config, l)
  BY AgesAddNext
<1>3. /\ config \in Configs /\ Levels(config) \subseteq Int
      /\ Len(cache) \in Int /\ config.stashSize \in Int
      /\ \A l \in Levels(config) : baseB[l] \in Int /\ NumDummies(config, l) \in Int
  <2>1. config \in Configs /\ baseB \in [Levels(config) -> Nat] /\ Len(cache) \in Nat
    BY StoreTypes DEF TypeOK
  <2>2. /\ config.stashSize \in Nat /\ Levels(config) \subseteq Nat
        /\ \A l \in Levels(config) : NumDummies(config, l) \in Nat
    BY <2>1, ConfigFacts DEF Levels
  <2>3. QED
    BY <2>1, <2>2
<1> HIDE DEF old, new
<1>4. S = {l \in Int : new[l] = old[l] + k}
  BY DEF old, new
<1> HIDE DEF S
<1>5. 0 \in S
  <2>1. 0 \in Levels(config)
    BY <1>3, ConfigFacts
  <2>2. old[0] \in Int /\ new[0] = old[0] + k
    BY <1>1, <1>2, <1>3, <2>1
  <2>3. QED
    BY <1>4, <2>2
<1>6. ASSUME NEW l \in Levels(config) \ {Bottom(config)}, l \in S
      PROVE  l + 1 \in S
  <2> DEFINE p == baseB[l] * NumDummies(config, l)
  <2>1. p \in Int /\ old[l] \in Int /\ l + 1 \in Int
    BY <1>1, <1>3
  <2>2. new[l + 1] = new[l] + p /\ old[l + 1] = old[l] + p
    BY <1>1, <1>2
  <2> HIDE DEF p
  <2>3. QED
    BY <1>4, <1>6, <2>1, <2>2
<1>7. Levels(config) \subseteq S
  BY <1>3, <1>5, <1>6, LevelInduction
<1>8. \A l \in Levels(config) : new[l] = old[l] + k
  BY <1>4, <1>7
<1>9. QED
  BY <1>2, <1>8 DEF old, new

---------------------------------------------------------------------------
(* Steps.                                                                  *)

(* The levels that count queries are those that hold a table.              *)
LEMMA CountedTypes ==
  TypeOK => /\ \A l \in Live : CountedQueries(l) \in Int
            /\ \A l \in Live : CountedQueries(l) =
                 levels[l].queryCount - (IF l < nextLevel THEN Len(flight) ELSE 0)
            /\ \A l \in Levels(config) : l \notin Live => CountedQueries(l) = NoTable
            /\ Schedule!Live = Live
<1> SUFFICES ASSUME TypeOK
             PROVE  /\ \A l \in Live : CountedQueries(l) \in Int
                    /\ \A l \in Live : CountedQueries(l) =
                         levels[l].queryCount - (IF l < nextLevel THEN Len(flight) ELSE 0)
                    /\ \A l \in Levels(config) : l \notin Live => CountedQueries(l) = NoTable
                    /\ Schedule!Live = Live
  OBVIOUS
<1>1. ASSUME NEW l \in Live
      PROVE  /\ CountedQueries(l) \in Int
             /\ CountedQueries(l) =
                  levels[l].queryCount - (IF l < nextLevel THEN Len(flight) ELSE 0)
  <2>1. levels[l].queryCount \in Nat /\ Len(flight) \in Nat
    BY StoreTypes, CallTypes DEF TableOf
  <2>2. CountedQueries(l) =
          levels[l].queryCount - (IF l < nextLevel THEN Len(flight) ELSE 0)
    BY DEF CountedQueries
  <2>3. QED
    BY <2>1, <2>2
<1>2. \A l \in Levels(config) : l \notin Live => CountedQueries(l) = NoTable
  BY DEF CountedQueries
<1>3. Schedule!Live = {l \in Levels(config) : CountedQueries(l) # NoTable}
  BY SameSizes DEF Schedule!Live
<1>4. Schedule!Live = Live
  BY <1>1, <1>2, <1>3, NoTableAssumption, StoreTypes
<1>5. QED
  BY <1>1, <1>2, <1>4

(* The same after a step.                                                  *)
LEMMA CountedTypesNext ==
  TypeOK' => (/\ \A l \in Live : CountedQueries(l) \in Int
              /\ \A l \in Live : CountedQueries(l) =
                   levels[l].queryCount - (IF l < nextLevel THEN Len(flight) ELSE 0)
              /\ \A l \in Levels(config) : l \notin Live => CountedQueries(l) = NoTable
              /\ Schedule!Live = Live)'
BY CountedTypes, PTL

(* Between chunks the count of a table is its own.                         *)
LEMMA CountedBetween ==
  IInv /\ pc # "levels" =>
    \A l \in Levels(config) :
      CountedQueries(l) = IF l \in Live THEN levels[l].queryCount ELSE NoTable
<1> SUFFICES ASSUME IInv, pc # "levels", NEW l \in Levels(config)
             PROVE  CountedQueries(l) = IF l \in Live THEN levels[l].queryCount ELSE NoTable
  OBVIOUS
<1>1. nextLevel = 0 /\ l \in Nat
  BY StoreTypes DEF IInv, Sound, CallPhases
<1>2. l \in Live => levels[l].queryCount \in Nat
  BY StoreTypes DEF IInv, Sound, TableOf
<1>3. CASE l \in Live
  <2>1. ~ (l < nextLevel) /\ levels[l].queryCount \in Nat
    BY <1>1, <1>2, <1>3
  <2>2. CountedQueries(l) = levels[l].queryCount - 0
    BY <1>3, <2>1, CountedTypes DEF IInv, Sound
  <2>3. QED
    BY <1>3, <2>1, <2>2
<1>4. CASE l \notin Live
  BY <1>4, CountedTypes DEF IInv, Sound
<1>5. QED
  BY <1>3, <1>4

(* The same after a step.                                                  *)
LEMMA CountedBetweenNext ==
  (IInv /\ pc # "levels")' =>
    (\A l \in Levels(config) :
      CountedQueries(l) = IF l \in Live THEN levels[l].queryCount ELSE NoTable)'
BY CountedBetween, PTL

(* Steps of which the schedule sees nothing.                               *)
LEMMA ScheduleUnseen ==
  ASSUME IInv, IInv', config' = config, baseB' = baseB, Len(cache') = Len(cache),
         \A l \in Levels(config) : CountedQueries(l)' = CountedQueries(l)
  PROVE  UNCHANGED Schedule!vars
<1>1. LevelAges' = LevelAges
  <2>1. Len(cache') = Len(cache) + 0
    BY StoreTypes DEF IInv, Sound
  <2>2. LevelAges' = [l \in Levels(config) |-> LevelAges[l] + 0]
    BY <2>1, AgesShift DEF IInv, Sound
  <2>3. \A l \in Levels(config) : LevelAges[l] + 0 = LevelAges[l]
    BY AgesAdd DEF IInv, Sound
  <2>4. LevelAges = [l \in Levels(config) |-> LevelAges[l]]
    BY AgesAdd DEF IInv, Sound
  <2>5. QED
    BY <2>2, <2>3, <2>4
<1>2. [l \in Levels(config) |-> CountedQueries(l)]'
        = [l \in Levels(config) |-> CountedQueries(l)]
  OBVIOUS
<1>3. QED
  BY <1>1, <1>2 DEF Schedule!vars

(* A call is begun and ended, and empty levels skipped, unseen.            *)
LEMMA CallUnseen ==
  ASSUME IInv, IInv',
         \/ \E ops, isSingle : StartCall(ops, isSingle)
         \/ Return
         \/ UNCHANGED vars
  PROVE  UNCHANGED Schedule!vars
<1>1. UNCHANGED <<store, flight, nextLevel>>
  BY DEF StartCall, Return, vars, call
<1>2. /\ config' = config /\ cache' = cache /\ levels' = levels /\ baseB' = baseB
      /\ flight' = flight /\ nextLevel' = nextLevel /\ Live' = Live
  BY <1>1 DEF store, Live
<1>3. \A l \in Levels(config) : CountedQueries(l)' = CountedQueries(l)
  BY <1>2 DEF CountedQueries
<1>4. QED
  BY <1>2, <1>3, ScheduleUnseen

LEMMA SkipUnseen ==
  ASSUME IInv, IInv', NEW l \in Levels(config), SkipLevel(l)
  PROVE  UNCHANGED Schedule!vars
<1>1. /\ UNCHANGED <<store, flight>>
      /\ nextLevel = l /\ l \notin Live /\ nextLevel' = l + 1
  BY DEF SkipLevel
<1>2. /\ config' = config /\ cache' = cache /\ levels' = levels /\ baseB' = baseB
      /\ flight' = flight /\ Live' = Live
  BY <1>1 DEF store, Live
<1>3. ASSUME NEW m \in Levels(config)
      PROVE  CountedQueries(m)' = CountedQueries(m)
  <2>1. m \in Nat /\ l \in Nat
    BY StoreTypes DEF IInv, Sound
  <2>2. CASE m \in Live
    <3>1. m < l + 1 <=> m < l
      BY <1>1, <2>1, <2>2
    <3>2. QED
      BY <1>1, <1>2, <3>1 DEF CountedQueries
  <2>3. CASE m \notin Live
    BY <1>2, <2>3 DEF CountedQueries
  <2>4. QED
    BY <2>2, <2>3
<1>4. QED
  BY <1>2, <1>3, ScheduleUnseen

(* The cache is queried in place.                                          *)
LEMMA QueryCacheUncounted ==
  ASSUME IInv, IInv', QueryCache
  PROVE  UNCHANGED Schedule!vars
<1>1. /\ pc = "access" /\ nextLevel' = 0
      /\ config' = config /\ levels' = levels /\ baseB' = baseB
  BY DEF QueryCache
<1>2. Len(cache') = Len(cache)
  BY CacheQueried DEF IInv
<1>3. ASSUME NEW l \in Levels(config)
      PROVE  CountedQueries(l)' = CountedQueries(l)
  <2>1. CountedQueries(l) = IF l \in Live THEN levels[l].queryCount ELSE NoTable
    BY <1>1, CountedBetween
  <2>2. Live' = Live /\ l \in Nat
    BY <1>1, StoreTypes DEF Live, IInv, Sound
  <2>3. CASE l \in Live
    <3>1. l \in Live' /\ levels'[l].queryCount \in Nat /\ ~ (l < nextLevel')
      BY <1>1, <2>2, <2>3, StoreTypes DEF IInv, Sound, TableOf
    <3>2. CountedQueries(l)' =
            levels'[l].queryCount - (IF l < nextLevel' THEN Len(flight') ELSE 0)
      BY <3>1, CountedTypesNext DEF IInv, Sound
    <3>3. CountedQueries(l)' = levels'[l].queryCount - 0
      BY <3>1, <3>2
    <3>4. QED
      BY <1>1, <2>1, <2>3, <3>1, <3>3
  <2>4. CASE l \notin Live
    BY <2>1, <2>2, <2>4 DEF CountedQueries
  <2>5. QED
    BY <2>3, <2>4
<1>4. QED
  BY <1>1, <1>2, <1>3, ScheduleUnseen

(* The queries of a chunk are counted when it is written back, not when a  *)
(* table spends its dummies on them.                                       *)
LEMMA QueryLevelUncounted ==
  ASSUME IInv, IInv', NEW l \in Levels(config), QueryLevel(l)
  PROVE  UNCHANGED Schedule!vars
<1>1. /\ config' = config /\ cache' = cache /\ baseB' = baseB
      /\ l \in Live /\ nextLevel = l /\ nextLevel' = l + 1
  BY DEF QueryLevel
<1>2. PICK opened : levels' = [levels EXCEPT ![l] = Spend(l, opened)]
  BY DEF QueryLevel
<1>3. /\ DOMAIN levels = Levels(config) /\ levels[l] \in TableOf(config)
      /\ levels[l].queryCount \in Nat /\ Levels(config) \subseteq Nat
      /\ Live \subseteq Levels(config) /\ Len(flight) \in Nat
  BY <1>1, StoreTypes, CallTypes DEF IInv, Sound, TableOf
<1>4. /\ levels'[l].queryCount = levels[l].queryCount + Len(flight)
      /\ \A m \in Levels(config) : m # l => levels'[m] = levels[m]
  BY <1>2, <1>3 DEF Spend, TableOf
<1>5. Len(flight') = Len(flight)
  <2>1. flight \in Seq(QueryOf(config)) /\ flight' \in Seq(QueryOf(config))
        /\ DOMAIN flight' = DOMAIN flight
    BY LevelQueried DEF IInv, Sound, TypeOK
  <2>2. /\ Len(flight) \in Nat /\ DOMAIN flight = 1 .. Len(flight)
        /\ Len(flight') \in Nat /\ DOMAIN flight' = 1 .. Len(flight')
    BY <2>1, LenProperties
  <2>3. QED
    BY <2>1, <2>2
<1>6. Live' = Live
  <2>1. PICK t \in TableOf(config) : levels' = [levels EXCEPT ![l] = t]
    BY LevelQueried DEF IInv
  <2>2. levels'[l] # NoTable /\ levels[l] # NoTable
    BY <1>1, <1>3, <2>1, NoTableAssumption, StoreTypes DEF IInv, Sound
  <2>3. QED
    BY <1>1, <1>4, <2>2 DEF Live
<1>7. ASSUME NEW m \in Levels(config)
      PROVE  CountedQueries(m)' = CountedQueries(m)
  <2>1. m \in Nat /\ l \in Nat
    BY <1>3
  <2>2. CASE m = l
    <3>1. CountedQueries(l) = levels[l].queryCount
      <4>1. CountedQueries(l) = levels[l].queryCount - 0
        <5>1. ~ (l < nextLevel)
          BY <1>1, <2>1
        <5>2. QED
          BY <1>1, <5>1, CountedTypes DEF IInv, Sound
      <4>2. QED
        BY <1>3, <4>1
    <3>2. CountedQueries(l)' = levels'[l].queryCount - Len(flight')
      <4>1. l < nextLevel' /\ l \in Live'
        BY <1>1, <1>6, <2>1
      <4>2. QED
        BY <4>1, CountedTypesNext DEF IInv, Sound
    <3>3. QED
      BY <1>3, <1>4, <1>5, <2>2, <3>1, <3>2
  <2>3. CASE m # l /\ m \in Live
    <3>1. m < nextLevel' <=> m < nextLevel
      BY <1>1, <2>1, <2>3
    <3>2. m \in Live' /\ levels'[m] = levels[m]
      BY <1>4, <1>6, <2>3
    <3>3. CountedQueries(m)' =
            levels'[m].queryCount - (IF m < nextLevel' THEN Len(flight') ELSE 0)
      BY <3>2, CountedTypesNext DEF IInv, Sound
    <3>4. CountedQueries(m) =
            levels[m].queryCount - (IF m < nextLevel THEN Len(flight) ELSE 0)
      BY <2>3, CountedTypes DEF IInv, Sound
    <3>5. QED
      BY <1>5, <3>1, <3>2, <3>3, <3>4
  <2>4. CASE m \notin Live
    BY <1>6, <2>4 DEF CountedQueries
  <2>5. QED
    BY <2>2, <2>3, <2>4
<1>8. QED
  BY <1>1, <1>7, ScheduleUnseen

(* A chunk written back is so many accesses.                               *)
LEMMA WriteBackAccesses ==
  ASSUME IInv, IInv', WriteBack
  PROVE  Schedule!Access(Len(flight)) \/ UNCHANGED Schedule!vars
<1> DEFINE n == Len(flight)
           C == [l \in Levels(config) |-> CountedQueries(l)]
<1>1. /\ config' = config /\ levels' = levels /\ baseB' = baseB
      /\ pc = "levels" /\ pc' # "levels" /\ nextLevel = config.numLevels
      /\ Len(cache) + n <= SpeedCacheSize(config)
      /\ cache' = cache \o [i \in DOMAIN flight |-> Fresh(flight[i])]
  BY DEF WriteBack, AfterChunk
<1>2. /\ n \in Nat /\ DOMAIN flight = 1 .. n /\ config \in Configs
      /\ cache \in Seq(EntryOf(config)) /\ Len(cache) \in Nat
      /\ Levels(config) = 0 .. config.numLevels - 1 /\ config.numLevels \in Nat
      /\ SpeedCacheSize(config) \in Nat
  BY CallTypes, StoreTypes, ConfigFacts DEF IInv, Sound, Levels
<1>3. Len(cache') = Len(cache) + n
  <2> DEFINE fresh == [i \in DOMAIN flight |-> Fresh(flight[i])]
             T == EntryOf(config) \cup {Fresh(flight[i]) : i \in 1 .. n}
  <2>1. fresh \in Seq(T) /\ Len(fresh) = n
    <3>1. fresh = [i \in 1 .. n |-> fresh[i]] /\ \A i \in 1 .. n : fresh[i] \in T
      BY <1>2
    <3>2. fresh \in [1 .. n -> T]
      <4> HIDE DEF fresh, n, T
      <4>1. QED
        BY <3>1
    <3> HIDE DEF fresh, n, T
    <3>3. QED
      BY <1>2, <3>2, TupleIsSeq
  <2>2. cache \in Seq(T)
    <3>1. EntryOf(config) \subseteq T
      OBVIOUS
    <3> HIDE DEF T
    <3>2. QED
      BY <1>2, <3>1, SeqMonotonic
  <2> HIDE DEF fresh, T, n
  <2>3. QED
    BY <1>1, <2>1, <2>2, ConcatProperties DEF fresh
<1> HIDE DEF n
<1>4. Live' = Live
  BY <1>1 DEF Live
<1>5. ASSUME NEW l \in Levels(config)
      PROVE  CountedQueries(l)' = IF l \in Live THEN CountedQueries(l) + n ELSE NoTable
  <2>1. CountedQueries(l)' = IF l \in Live THEN levels[l].queryCount ELSE NoTable
    BY <1>1, <1>4, CountedBetweenNext
  <2>2. CASE l \in Live
    <3>1. l < nextLevel /\ levels[l].queryCount \in Nat
      BY <1>1, <1>2, <2>2, StoreTypes DEF IInv, Sound, TableOf
    <3>2. CountedQueries(l) = levels[l].queryCount - n
      BY <2>2, <3>1, CountedTypes DEF IInv, Sound, n
    <3>3. QED
      BY <1>2, <2>1, <2>2, <3>1, <3>2
  <2>3. QED
    BY <2>1, <2>2
<1>6. CASE n = 0
  <2>1. \A l \in Levels(config) : CountedQueries(l)' = CountedQueries(l)
    <3> TAKE l \in Levels(config)
    <3>1. CASE l \in Live
      <4>1. CountedQueries(l) \in Int
        BY <3>1, CountedTypes DEF IInv, Sound
      <4>2. QED
        BY <1>5, <1>6, <3>1, <4>1
    <3>2. CASE l \notin Live
      BY <1>5, <3>2, CountedTypes DEF IInv, Sound
    <3>3. QED
      BY <3>1, <3>2
  <2>2. Len(cache') = Len(cache)
    BY <1>2, <1>3, <1>6
  <2>3. QED
    BY <1>1, <2>1, <2>2, ScheduleUnseen
<1>7. CASE n # 0
  <2>1. n \in 1 .. SpeedCacheSize(config) - Len(cache)
    BY <1>1, <1>2, <1>7 DEF n
  <2>2. LevelAges' = [l \in Levels(config) |-> LevelAges[l] + n]
    <3>1. n \in Int
      BY <1>2
    <3>2. QED
      BY <1>1, <1>3, <3>1, AgesShift DEF IInv, Sound
  <2>3. /\ C' = [l \in Levels(config) |-> CountedQueries(l)']
        /\ \A l \in Levels(config) : C[l] = CountedQueries(l)
    BY <1>1
  <2> HIDE DEF C
  <2>4. C' = [l \in Levels(config) |-> IF l \in Live THEN C[l] + n ELSE NoTable]
    BY <1>5, <2>3
  <2>5. n \in 1 .. Schedule!Free
    BY <2>1, SameSizes DEF Schedule!Free
  <2>6. C' = [l \in Schedule!Levels(config) |->
                IF l \in Schedule!Live THEN C[l] + n ELSE NoTable]
    <3>1. Schedule!Live = Live /\ Schedule!Levels(config) = Levels(config)
      BY CountedTypes, SameSizes DEF IInv, Sound
    <3>2. QED
      BY <2>4, <3>1
  <2>7. LevelAges' = [l \in Schedule!Levels(config) |-> LevelAges[l] + n]
    <3>1. Schedule!Levels(config) = Levels(config)
      BY SameSizes
    <3>2. QED
      BY <2>2, <3>1
  <2>8. QED
    BY <1>1, <1>3, <2>5, <2>6, <2>7 DEF Schedule!Access, C, n
<1>8. QED
  BY <1>6, <1>7


---------------------------------------------------------------------------
(* Counters.                                                               *)

(* A level's counter stays below the amplification factor (assertion at    *)
(* lib.rs:860): the level would have been the target before.               *)
CountersBelow ==
  \A l \in Levels(config) \ {Bottom(config)} : baseB[l] < AmpFactor(config)

(* A rebuild finds the counters above its target full and leaves them      *)
(* empty.                                                                  *)
LEMMA RebuildCounts ==
  ASSUME IInv, CountersBelow, Rebuild
  PROVE  /\ CountersBelow'
         /\ \A l \in Levels(config) : l < Target =>
              /\ l # Bottom(config)
              /\ baseB[l] = AmpFactor(config) - 1 /\ baseB'[l] = 0
         /\ Target # Bottom(config) => baseB'[Target] = baseB[Target] + 1
         /\ \A l \in Levels(config) : l > Target => baseB'[l] = baseB[l]
<1> DEFINE T == Target
           B == Bottom(config)
           A == AmpFactor(config)
<1>1. /\ config \in Configs /\ config' = config /\ T \in Levels(config)
      /\ T # B => baseB[T] < A - 1
      /\ baseB' = BaseBAfterRebuild(config, baseB, T)
  BY RebuildBuilds, TargetCollects DEF IInv, Sound, TypeOK
<1>2. /\ A \in Nat \ {0} /\ B \in Levels(config) /\ config.numLevels \in Nat
      /\ Levels(config) = 0 .. config.numLevels - 1 /\ B = config.numLevels - 1
      /\ baseB \in [Levels(config) -> Nat]
  BY <1>1, ConfigFacts DEF IInv, Sound, TypeOK, Levels, Bottom
<1>3. \A l \in 0 .. T - 1 : baseB[l] >= A - 1
  BY <1>1, <1>2, TargetFacts DEF Target
<1>4. baseB' = [l \in Levels(config) |->
                  CASE l < T /\ baseB[l] = A - 1 -> 0
                    [] l = T /\ T = B -> 1
                    [] l = T /\ T # B -> baseB[T] + 1
                    [] OTHER -> baseB[l]]
  BY <1>1 DEF BaseBAfterRebuild
<1>5. \A l \in Levels(config) \ {B} : baseB[l] < A
  BY DEF CountersBelow
<1> HIDE DEF T, B, A
<1>6. ASSUME NEW l \in Levels(config), l < T
      PROVE  l # B /\ baseB[l] = A - 1 /\ baseB'[l] = 0
  <2>1. l \in 0 .. T - 1 /\ l # B /\ baseB[l] \in Nat
    BY <1>1, <1>2, <1>6
  <2>2. baseB[l] = A - 1
    BY <1>2, <1>3, <1>5, <2>1
  <2>3. QED
    BY <1>4, <1>6, <2>1, <2>2
<1>7. T # B => baseB'[T] = baseB[T] + 1
  BY <1>1, <1>2, <1>4
<1>8. \A l \in Levels(config) : l > T => baseB'[l] = baseB[l]
  BY <1>1, <1>2, <1>4
<1>9. CountersBelow'
  <2>1. ASSUME NEW l \in Levels(config) \ {B}
        PROVE  baseB'[l] < A
    <3>1. l \in Int /\ T \in Int /\ baseB[l] \in Nat
      BY <1>1, <1>2
    <3>2. CASE l < T
      BY <1>2, <1>6, <3>2
    <3>3. CASE l = T
      BY <1>1, <1>2, <1>7, <3>1, <3>3
    <3>4. CASE l > T
      BY <1>5, <1>8, <3>4
    <3>5. QED
      BY <3>1, <3>2, <3>3, <3>4
  <2>2. QED
    BY <1>1, <2>1 DEF CountersBelow, A, B
<1>10. QED
  BY <1>6, <1>7, <1>8, <1>9 DEF T, B, A

(* When the cache is full, every level down to the target is as old as the *)
(* dummies of its tables allow; the rebuild makes them new, and those      *)
(* below are none the wiser.                                               *)
LEMMA RebuildAges ==
  ASSUME IInv, IInv', CountersBelow, Rebuild
  PROVE  LevelAges' = [l \in Levels(config) |->
                         IF l <= Target THEN 0 ELSE LevelAges[l]]
<1> DEFINE T == Target
           old == LevelAges
           new == LevelAges'
           D(l) == NumDummies(config, l)
           S == {l \in Int : /\ l <= T => old[l] = D(l) /\ new[l] = 0
                             /\ l > T => new[l] = old[l]}
<1>1. /\ config \in Configs /\ config' = config /\ T \in Levels(config)
      /\ Levels(config) \subseteq Int /\ T \in Int
  BY RebuildBuilds, TargetCollects, StoreTypes DEF IInv, Sound
<1>2. /\ old[0] = Len(cache) - config.stashSize
      /\ \A l \in Levels(config) \ {Bottom(config)} :
           old[l + 1] = old[l] + baseB[l] * D(l)
      /\ \A l \in Levels(config) : old[l] \in Int
  BY AgesAdd DEF IInv, Sound
<1>3. /\ new = [l \in Levels(config) |-> new[l]]
      /\ new[0] = Len(cache') - config.stashSize
      /\ \A l \in Levels(config) \ {Bottom(config)} :
           new[l + 1] = new[l] + baseB'[l] * D(l)
      /\ \A l \in Levels(config) : new[l] \in Int
  BY <1>1, AgesAddNext DEF IInv, Sound
<1>4. /\ \A l \in Levels(config) : D(l) \in Nat /\ D(l + 1) = AmpFactor(config) * D(l)
      /\ D(0) = SpeedCacheSize(config) - config.stashSize
      /\ AmpFactor(config) \in Nat /\ config.stashSize \in Nat /\ 0 \in Levels(config)
      /\ SpeedCacheSize(config) \in Nat
  BY <1>1, ConfigFacts
<1>5. Len(cache) = SpeedCacheSize(config) /\ Len(cache') = config.stashSize
  <2>1. Len(cache') = config.stashSize
    BY RebuildBuilds DEF Shared, IInv
  <2>2. Free = 0 /\ Len(cache) \in Nat
    BY StoreTypes DEF Rebuild, IInv
  <2>3. QED
    BY <1>4, <2>1, <2>2 DEF Free
<1>6. /\ \A l \in Levels(config) : baseB[l] \in Nat /\ baseB'[l] \in Nat
      /\ \A l \in Levels(config) : l < T =>
           baseB[l] = AmpFactor(config) - 1 /\ baseB'[l] = 0
      /\ T # Bottom(config) => baseB'[T] = baseB[T] + 1
      /\ \A l \in Levels(config) : l > T => baseB'[l] = baseB[l]
  BY <1>1, RebuildCounts DEF IInv, Sound, TypeOK
<1> HIDE DEF T, old, new, D
<1>7. 0 \in S
  <2>1. 0 <= T
    <3>1. T \in Nat
      BY TargetCollects DEF T, IInv
    <3>2. QED
      BY <3>1
  <2>2. old[0] = D(0) /\ new[0] = 0
    BY <1>2, <1>3, <1>4, <1>5
  <2>3. QED
    BY <1>1, <2>1, <2>2
<1>8. ASSUME NEW l \in Levels(config) \ {Bottom(config)}, l \in S
      PROVE  l + 1 \in S
  <2> DEFINE d == D(l)
  <2>1. /\ d \in Int /\ l \in Int /\ l + 1 \in Int /\ old[l] \in Int /\ new[l] \in Int
        /\ baseB[l] \in Int /\ baseB'[l] \in Int /\ D(l + 1) = AmpFactor(config) * d
        /\ AmpFactor(config) \in Int
    <3>1. l \in Int /\ l + 1 \in Int
      BY <1>1
    <3>2. d \in Int /\ D(l + 1) = AmpFactor(config) * d /\ AmpFactor(config) \in Int
      <4>1. d \in Nat /\ AmpFactor(config) \in Nat
        BY <1>4
      <4>2. D(l + 1) = AmpFactor(config) * D(l)
        BY <1>4
      <4> HIDE DEF d
      <4>3. d \in Int /\ AmpFactor(config) \in Int
        BY <4>1
      <4>4. QED
        BY <4>2, <4>3 DEF d
    <3>3. /\ old[l] \in Int /\ new[l] \in Int
          /\ baseB[l] \in Int /\ baseB'[l] \in Int
      BY <1>2, <1>3, <1>6
    <3> HIDE DEF d
    <3>4. QED
      BY <3>1, <3>2, <3>3
  <2>2. old[l + 1] = old[l] + baseB[l] * d /\ new[l + 1] = new[l] + baseB'[l] * d
    BY <1>2, <1>3
  <2>3. /\ l <= T => old[l] = d /\ new[l] = 0
        /\ l > T => new[l] = old[l]
    BY <1>8
  <2> HIDE DEF d
  <2>4. CASE l < T
    <3> DEFINE a == AmpFactor(config)
               p == a * d
    <3>1. baseB[l] = a - 1 /\ baseB'[l] = 0
      BY <1>6, <2>4
    <3>2. p \in Int /\ (a - 1) * d = p - d /\ 0 * d = 0
      BY <2>1
    <3>3. D(l + 1) = p
      BY <2>1
    <3>4. old[l + 1] = d + (p - d) /\ new[l + 1] = 0 + 0
      BY <1>1, <2>1, <2>2, <2>3, <2>4, <3>1, <3>2
    <3>5. l + 1 <= T /\ ~ (l + 1 > T)
      BY <1>1, <2>1, <2>4
    <3> HIDE DEF p, a
    <3>6. QED
      BY <2>1, <3>2, <3>3, <3>4, <3>5
  <2>5. CASE l = T
    <3> DEFINE b == baseB[l]
               p == b * d
    <3>1. baseB'[l] = b + 1
      BY <1>6, <2>5
    <3>2. p \in Int /\ (b + 1) * d = p + d
      BY <2>1
    <3>3. old[l + 1] = d + p /\ new[l + 1] = 0 + (p + d)
      BY <1>1, <2>1, <2>2, <2>3, <2>5, <3>1, <3>2
    <3>4. l + 1 > T /\ ~ (l + 1 <= T)
      BY <1>1, <2>1, <2>5
    <3> HIDE DEF p, b
    <3>5. QED
      BY <2>1, <3>2, <3>3, <3>4
  <2>6. CASE l > T
    <3>1. baseB'[l] = baseB[l] /\ new[l] = old[l]
      BY <1>6, <2>3, <2>6
    <3>2. new[l + 1] = old[l + 1]
      BY <2>2, <3>1
    <3>3. l + 1 > T /\ ~ (l + 1 <= T)
      BY <1>1, <2>1, <2>6
    <3>4. QED
      BY <2>1, <3>2, <3>3
  <2>7. QED
    BY <1>1, <2>1, <2>4, <2>5, <2>6
<1>9. Levels(config) \subseteq S
  <2> HIDE DEF S
  <2>1. QED
    BY <1>1, <1>7, <1>8, LevelInduction
<1>10. \A l \in Levels(config) : new[l] = IF l <= T THEN 0 ELSE old[l]
  BY <1>1, <1>9
<1>11. new = [l \in Levels(config) |-> IF l <= T THEN 0 ELSE old[l]]
  BY <1>3, <1>10
<1>12. QED
  BY <1>11 DEF new, old, T


(* A rebuild is the schedule's.                                            *)
LEMMA RebuildRebuilds ==
  ASSUME IInv, IInv', CountersBelow, Rebuild
  PROVE  Schedule!Rebuild
<1> DEFINE T == Target
           C == [l \in Levels(config) |-> CountedQueries(l)]
<1>1. /\ config' = config /\ pc = "access" /\ pc' = "access" /\ T \in Levels(config)
      /\ Levels(config) \subseteq Nat
      /\ baseB' = BaseBAfterRebuild(config, baseB, T)
      /\ \A m \in Levels(config) : m # T =>
           levels'[m] = IF m \in Live /\ T < m THEN levels[m] ELSE NoTable
      /\ levels'[T] \in TableOf(config) /\ levels'[T].queryCount = 0
      /\ Len(cache') = config.stashSize
  BY RebuildBuilds, TargetCollects, StoreTypes DEF IInv, Sound, Shared, call
<1>2. Live' = {m \in Levels(config) : levels'[m] # NoTable}
  BY <1>1 DEF Live
<1>3. /\ T \in Live'
      /\ \A m \in Levels(config) : m # T => (m \in Live' <=> m \in Live /\ T < m)
  <2>1. levels'[T] # NoTable
    BY <1>1, NoTableAssumption, StoreTypes DEF IInv, Sound
  <2>2. \A m \in Live : levels[m] # NoTable
    BY DEF Live
  <2> HIDE DEF T
  <2>3. QED
    BY <1>1, <1>2, <2>1, <2>2
<1>4. ASSUME NEW l \in Levels(config)
      PROVE  CountedQueries(l)' = CASE l < T -> NoTable
                                    [] l = T -> 0
                                    [] OTHER -> CountedQueries(l)
  <2>1. CountedQueries(l)' = IF l \in Live' THEN levels'[l].queryCount ELSE NoTable
    BY <1>1, CountedBetweenNext
  <2>2. CountedQueries(l) = IF l \in Live THEN levels[l].queryCount ELSE NoTable
    BY <1>1, CountedBetween
  <2>3. l \in Nat /\ T \in Nat
    BY <1>1
  <2> HIDE DEF T
  <2>4. CASE l = T
    BY <1>1, <1>3, <2>1, <2>3, <2>4
  <2>5. CASE l < T
    BY <1>3, <2>1, <2>3, <2>5
  <2>6. CASE l > T
    <3>1. l \in Live' <=> l \in Live
      BY <1>3, <2>3, <2>6
    <3>2. l \in Live => levels'[l] = levels[l]
      BY <1>1, <2>3, <2>6
    <3>3. CountedQueries(l)' = CountedQueries(l)
      BY <2>1, <2>2, <3>1, <3>2
    <3>4. QED
      BY <2>3, <2>6, <3>3
  <2>7. QED
    BY <2>3, <2>4, <2>5, <2>6
<1>5. C' = [l \in Schedule!Levels(config) |->
              CASE l < Schedule!Target -> NoTable
                [] l = Schedule!Target -> 0
                [] OTHER -> C[l]]
  <2>1. C' = [l \in Levels(config) |-> CountedQueries(l)']
    BY <1>1
  <2>2. \A l \in Levels(config) : C[l] = CountedQueries(l)
    OBVIOUS
  <2>3. Schedule!Target = T /\ Schedule!Levels(config) = Levels(config)
    BY SameSizes DEF Schedule!Target, Target
  <2> HIDE DEF C, T
  <2>4. QED
    BY <1>4, <2>1, <2>2, <2>3
<1>6. LevelAges' = [l \in Schedule!Levels(config) |->
                      IF l <= Schedule!Target THEN 0 ELSE LevelAges[l]]
  <2>1. Schedule!Target = T /\ Schedule!Levels(config) = Levels(config)
    BY SameSizes DEF Schedule!Target, Target
  <2>2. QED
    BY <2>1, RebuildAges
<1>7. /\ Schedule!Free = 0
      /\ baseB' = Schedule!BaseBAfterRebuild(config, baseB, Schedule!Target)
  <2>1. Free = 0
    BY DEF Rebuild
  <2>2. Schedule!Free = 0
    BY <2>1, SameSizes DEF Schedule!Free, Free
  <2>3. Schedule!Target = T
    BY SameSizes DEF Schedule!Target, Target
  <2>4. QED
    BY <1>1, <2>2, <2>3, SameSizes
<1>8. QED
  BY <1>1, <1>5, <1>6, <1>7 DEF Schedule!Rebuild, C

---------------------------------------------------------------------------
(* Creation and growth.                                                    *)

(* While no level above the bottom has been counted, none is older than    *)
(* the cache.                                                              *)
LEMMA NewAges ==
  TypeOK /\ Len(cache) = config.stashSize
         /\ (\A l \in Levels(config) \ {Bottom(config)} : baseB[l] = 0)
    => LevelAges = [l \in Levels(config) |-> 0]
<1> SUFFICES ASSUME TypeOK, Len(cache) = config.stashSize,
                    \A l \in Levels(config) \ {Bottom(config)} : baseB[l] = 0
             PROVE  LevelAges = [l \in Levels(config) |-> 0]
  OBVIOUS
<1> DEFINE old == LevelAges
           S == {l \in Int : old[l] = 0}
<1>1. /\ old = [l \in Levels(config) |-> old[l]]
      /\ old[0] = Len(cache) - config.stashSize
      /\ \A l \in Levels(config) \ {Bottom(config)} :
           old[l + 1] = old[l] + baseB[l] * NumDummies(config, l)
  BY AgesAdd
<1>2. /\ config \in Configs /\ config.stashSize \in Nat /\ Levels(config) \subseteq Nat
      /\ \A l \in Levels(config) : NumDummies(config, l) \in Nat
  BY StoreTypes, ConfigFacts
<1> HIDE DEF old
<1>3. 0 \in S
  BY <1>1, <1>2
<1>4. ASSUME NEW l \in Levels(config) \ {Bottom(config)}, l \in S
      PROVE  l + 1 \in S
  <2>1. l + 1 \in Int /\ NumDummies(config, l) \in Nat /\ baseB[l] = 0 /\ old[l] = 0
    BY <1>2, <1>4
  <2>2. old[l + 1] = 0 + 0 * NumDummies(config, l)
    BY <1>1, <2>1
  <2>3. QED
    BY <2>1, <2>2
<1>5. Levels(config) \subseteq S
  <2> HIDE DEF S
  <2>1. QED
    BY <1>2, <1>3, <1>4, LevelInduction
<1>6. QED
  BY <1>1, <1>5 DEF old

(* The same after a step.                                                  *)
LEMMA NewAgesNext ==
  (TypeOK /\ Len(cache) = config.stashSize
          /\ (\A l \in Levels(config) \ {Bottom(config)} : baseB[l] = 0))'
    => (LevelAges = [l \in Levels(config) |-> 0])'
BY NewAges, PTL

(* A growth starts the schedule over from the bottom table of the larger   *)
(* address space.                                                          *)
LEMMA GrowthGrows ==
  ASSUME IInv, IInv', NEW c \in Configs, GrowNaturally(c) \/ GrowOnDemand(c)
  PROVE  Schedule!GrowTo(c) /\ CountersBelow'
<1> DEFINE B == Bottom(c)
           C == [l \in Levels(config) |-> CountedQueries(l)]
<1>1. PICK R : /\ config' = c /\ baseB' = OnlyBottomCounted(c)
               /\ UNCHANGED <<hadInitialBottomLevel, call>>
               /\ levels' = [m \in Levels(c) |-> levels'[m]]
               /\ \A m \in Levels(c) : m # B => levels'[m] = NoTable
               /\ Shared(c, B, levels'[B], cache', R)
  BY GrowBuilds, FinishGrowBuilds DEF IInv
<1>2. /\ pc = "idle" /\ pc' = "idle" /\ B \in Levels(c)
      /\ AmpFactor(c) \in Nat \ {0}
  BY <1>1, GrowBuilds, ConfigFacts DEF call, IInv
<1>3. /\ levels'[B] \in TableOf(c) /\ levels'[B].queryCount = 0
      /\ Len(cache') = c.stashSize
  BY <1>1 DEF Shared
<1>4. Live' = {B}
  <2>1. Live' = {m \in Levels(c) : levels'[m] # NoTable}
    BY <1>1 DEF Live
  <2>2. levels'[B] # NoTable
    BY <1>3, NoTableAssumption
  <2> HIDE DEF B
  <2>3. QED
    BY <1>1, <1>2, <2>1, <2>2
<1>5. C' = [l \in Levels(c) |-> IF l = B THEN 0 ELSE NoTable]
  <2>1. ASSUME NEW l \in Levels(c)
        PROVE  CountedQueries(l)' = IF l = B THEN 0 ELSE NoTable
    <3>1. CountedQueries(l)' = IF l \in Live' THEN levels'[l].queryCount ELSE NoTable
      BY <1>1, <1>2, CountedBetweenNext
    <3> HIDE DEF B
    <3>2. QED
      BY <1>3, <1>4, <3>1
  <2>2. C' = [l \in Levels(c) |-> CountedQueries(l)']
    BY <1>1
  <2> HIDE DEF B, C
  <2>3. QED
    BY <2>1, <2>2
<1>6. \A l \in Levels(c) \ {B} : baseB'[l] = 0
  BY <1>1 DEF OnlyBottomCounted
<1>7. LevelAges' = [l \in Levels(c) |-> 0]
  BY <1>1, <1>3, <1>6, NewAgesNext DEF IInv, Sound
<1>8. CountersBelow'
  BY <1>1, <1>2, <1>6 DEF CountersBelow
<1>9. Schedule!Levels(c) = Levels(c) /\ Schedule!Bottom(c) = B
  BY SameSizes
<1>10. QED
  BY <1>1, <1>3, <1>5, <1>7, <1>8, <1>9 DEF Schedule!GrowTo, OnlyBottomCounted, C


(* Empty sequences flatten to an empty one.                                *)
LEMMA EmptyFlattened ==
  ASSUME NEW n \in Nat \ {0}, NEW ss, Len(ss) = n, \A k \in 1 .. n : ss[k] = <<>>
  PROVE  FlattenSeq(ss) = <<>>
<1>1. PICK g : /\ FlattenSeq(ss) = g[n]
               /\ \A i \in 1 .. n :
                    g[i] = IF i = 1 THEN ss[i] ELSE g[i - 1] \o ss[i]
  BY FlattenAppends
<1> DEFINE Bad == {k \in 1 .. n : g[k] # <<>>}
<1>2. ASSUME NEW k \in Bad, \A j \in Bad : k <= j
      PROVE  FALSE
  <2>1. k \in 1 .. n /\ g[k] # <<>> /\ ss[k] = <<>>
    OBVIOUS
  <2>2. k # 1
    BY <1>1, <2>1
  <2>3. k - 1 \in 1 .. n /\ ~ (k <= k - 1)
    BY <2>1, <2>2
  <2>4. g[k - 1] = <<>>
    BY <1>2, <2>3
  <2>5. g[k] = <<>> \o <<>>
    BY <1>1, <2>1, <2>2, <2>4
  <2>6. <<>> \o <<>> = <<>>
    BY EmptySeq, ConcatEmptySeq
  <2>7. QED
    BY <2>1, <2>5, <2>6
<1>3. Bad = {}
  <2>1. Bad \subseteq Nat
    OBVIOUS
  <2> HIDE DEF Bad
  <2>2. QED
    BY <1>2, <2>1, LeastNatural
<1>4. n \in 1 .. n
  OBVIOUS
<1>5. QED
  BY <1>1, <1>3, <1>4

(* Something to extract is an entry in the cache or a table.               *)
LEMMA NothingUntouched ==
  ASSUME IInv, Len(cache) = 0, Live = {}
  PROVE  AllUntouched = <<>>
<1> DEFINE n == config.numLevels
           g == [i \in 1 .. n |->
                   IF i - 1 \in Live
                   THEN ExtractUntouched(config, levels[i - 1]) ELSE <<>>]
           ss == <<cache>> \o g
           s == FlattenSeq(ss)
<1>1. cache = <<>> /\ n \in Nat
  <2>1. cache \in Seq(EntryOf(config)) /\ Len(cache) = 0 /\ n \in Nat
    BY StoreTypes, ConfigFacts DEF IInv, Sound
  <2>2. QED
    BY <2>1, EmptySeq
<1>2. \A i \in 1 .. n : g[i] = <<>>
  OBVIOUS
<1>3. AllUntouched = [i \in DOMAIN s |-> ClearAlibi(s[i])]
  BY DEF AllUntouched
<1>4. g \in Seq({<<>>}) /\ Len(g) = n
  <2>1. g = [i \in 1 .. n |-> g[i]]
    OBVIOUS
  <2> HIDE DEF g, n
  <2>2. g \in [1 .. n -> {<<>>}]
    BY <1>2, <2>1
  <2>3. QED
    BY <1>1, <2>2, TupleIsSeq
<1>5. <<cache>> \in Seq({<<>>}) /\ Len(<<cache>>) = 1 /\ <<cache>>[1] = <<>>
  BY <1>1
<1> HIDE DEF g, n
<1>6. /\ Len(ss) = 1 + n
      /\ \A i \in 1 .. 1 + n : ss[i] = IF i <= 1 THEN <<cache>>[i] ELSE g[i - 1]
  BY <1>4, <1>5, ConcatProperties
<1> HIDE DEF ss
<1>7. ASSUME NEW i \in 1 .. 1 + n
      PROVE  ss[i] = <<>>
  <2>1. i > 1 => i - 1 \in 1 .. n
    BY <1>1
  <2>2. i <= 1 => i = 1
    OBVIOUS
  <2>3. QED
    BY <1>1, <1>2, <1>5, <1>6, <2>1, <2>2
<1>8. s = <<>>
  <2>1. 1 + n \in Nat \ {0}
    BY <1>1
  <2>2. QED
    BY <1>6, <1>7, <2>1, EmptyFlattened
<1> HIDE DEF s
<1>9. QED
  <2>1. DOMAIN s = {}
    BY <1>8
  <2>2. AllUntouched = [i \in {} |-> ClearAlibi(s[i])]
    BY <1>3, <2>1
  <2>3. [i \in {} |-> ClearAlibi(s[i])] = <<>>
    OBVIOUS
  <2>4. QED
    BY <2>2, <2>3

(* A growth is the schedule's.                                             *)
LEMMA GrowthKeepsSchedule ==
  ASSUME IInv, IInv', NEW c \in Configs, GrowNaturally(c) \/ GrowOnDemand(c)
  PROVE  (Schedule!GrowNaturally(c) \/ Schedule!GrowOnDemand(c)) /\ CountersBelow'
<1>1. Schedule!GrowTo(c) /\ CountersBelow'
  BY GrowthGrows
<1>2. Schedule!OneBitLarger(c)
  BY GrowBuilds DEF OneBitLarger, Schedule!OneBitLarger, IInv
<1>3. CASE GrowNaturally(c)
  <2>1. Free = 0 /\ Target = Bottom(config)
    BY <1>3 DEF GrowNaturally, ReadyToGrowNaturally
  <2>2. Schedule!Free = 0
    BY <2>1, SameSizes DEF Schedule!Free, Free
  <2>3. Schedule!Target = Schedule!Bottom(config)
    BY <2>1, SameSizes DEF Schedule!Target, Target
  <2>4. QED
    BY <1>1, <1>2, <2>2, <2>3 DEF Schedule!GrowNaturally, Schedule!ReadyToGrowNaturally
<1>4. CASE GrowOnDemand(c)
  <2>1. AllUntouched # <<>>
    BY <1>4 DEF GrowOnDemand
  <2>2. Len(cache) > 0 \/ Live # {}
    <3>1. Len(cache) \in Nat
      BY StoreTypes DEF IInv, Sound
    <3>2. Len(cache) # 0 \/ Live # {}
      BY <2>1, NothingUntouched
    <3>3. QED
      BY <3>1, <3>2
  <2>3. Schedule!Live = Live
    BY CountedTypes DEF IInv, Sound
  <2>4. QED
    BY <1>1, <1>2, <2>2, <2>3 DEF Schedule!GrowOnDemand
<1>5. QED
  BY <1>1, <1>3, <1>4

(* A DORAM is created as the schedule begins.                              *)
LEMMA InitKeepsSchedule ==
  ASSUME Init
  PROVE  Schedule!Init /\ CountersBelow
<1> DEFINE B == Bottom(config)
           C == [l \in Levels(config) |-> CountedQueries(l)]
<1>1. IInv /\ config \in Configs /\ pc # "levels"
  BY InitIInv DEF Init, NoCall
<1>2. /\ B \in Levels(config) /\ AmpFactor(config) \in Nat \ {0}
      /\ config.stashSize \in Nat
  BY <1>1, ConfigFacts
<1>3. /\ Schedule!Levels(config) = Levels(config)
      /\ Schedule!Bottom(config) = B
  BY SameSizes
<1>4. \A l \in Levels(config) :
        C[l] = IF l \in Live THEN levels[l].queryCount ELSE NoTable
  BY <1>1, CountedBetween
<1>5. C = [l \in Levels(config) |-> C[l]]
  OBVIOUS
<1>6. CASE InitEmpty
  <2>1. Live = {} /\ baseB = [l \in Levels(config) |-> 0]
    BY <1>6 DEF InitEmpty, NoTables, Live
  <2>2. Len(cache) = config.stashSize
    <3> DEFINE n == config.stashSize
               d == DummyEntry(config)
    <3>1. cache = [i \in 1 .. n |-> d]
      BY <1>6 DEF InitEmpty
    <3>2. n \in Nat
      BY <1>2
    <3> HIDE DEF n, d
    <3>3. cache \in [1 .. n -> {d}]
      BY <3>1
    <3>4. Len(cache) = n
      BY <3>2, <3>3, TupleIsSeq
    <3>5. QED
      BY <3>4 DEF n
  <2>3. LevelAges = [l \in Levels(config) |-> 0]
    BY <1>1, <2>1, <2>2, NewAges DEF IInv, Sound
  <2>4. CountersBelow
    BY <1>2, <2>1 DEF CountersBelow
  <2> HIDE DEF C
  <2>5. C = [l \in Levels(config) |-> NoTable]
    BY <1>4, <1>5, <2>1
  <2>6. Schedule!InitEmpty
    BY <1>1, <1>3, <2>1, <2>2, <2>3, <2>5 DEF Schedule!InitEmpty, C
  <2>7. QED
    BY <2>4, <2>6 DEF Schedule!Init
<1>7. CASE InitBottom
  <2>1. baseB = OnlyBottomCounted(config)
    BY <1>1, <1>7, InitBottomBuilds
  <2>2. PICK t, R : /\ levels = [NoTables(config) EXCEPT ![B] = t]
                    /\ Shared(config, B, t, cache, R)
    BY <1>1, <1>7, InitBottomBuilds
  <2>3. /\ t \in TableOf(config) /\ t.queryCount = 0
        /\ Len(cache) = config.stashSize
    BY <2>2 DEF Shared
  <2>4. Live = {B} /\ levels[B] = t
    <3>1. t # NoTable
      BY <1>1, <2>3, NoTableAssumption
    <3> HIDE DEF B
    <3>2. levels[B] = t /\ \A l \in Levels(config) : l # B => levels[l] = NoTable
      BY <1>2, <2>2 DEF NoTables
    <3>3. QED
      BY <1>2, <3>1, <3>2 DEF Live
  <2>5. \A l \in Levels(config) \ {B} : baseB[l] = 0
    BY <2>1 DEF OnlyBottomCounted
  <2>6. LevelAges = [l \in Levels(config) |-> 0]
    BY <1>1, <2>3, <2>5, NewAges DEF IInv, Sound
  <2>7. CountersBelow
    BY <1>2, <2>5 DEF CountersBelow
  <2> HIDE DEF C, B
  <2>8. C = [l \in Levels(config) |-> IF l = B THEN 0 ELSE NoTable]
    BY <1>4, <1>5, <2>3, <2>4
  <2>9. baseB = [l \in Levels(config) |-> IF l = B THEN 1 ELSE 0]
    BY <2>1 DEF OnlyBottomCounted, B
  <2>10. Schedule!InitBottom
    BY <1>1, <1>3, <2>3, <2>6, <2>8, <2>9 DEF Schedule!InitBottom, Schedule!OnlyBottom, C
  <2>11. QED
    BY <2>7, <2>10 DEF Schedule!Init
<1>8. QED
  BY <1>6, <1>7 DEF Init

---------------------------------------------------------------------------
(* The refinement.                                                         *)

(* Counters change only with a rebuild or a growth.                        *)
LEMMA CountersKept ==
  ASSUME CountersBelow, config' = config, baseB' = baseB
  PROVE  CountersBelow'
BY DEF CountersBelow

(* Every step is a step of the schedule, or none.                          *)
LEMMA NextKeepsSchedule ==
  ASSUME IInv, IInv', CountersBelow, [Next]_vars
  PROVE  [Schedule!Next]_(Schedule!vars) /\ CountersBelow'
<1>1. ASSUME NEW ops, NEW isSingle, StartCall(ops, isSingle)
      PROVE  UNCHANGED Schedule!vars /\ CountersBelow'
  <2>1. config' = config /\ baseB' = baseB
    BY <1>1 DEF StartCall, store
  <2>2. QED
    BY <1>1, <2>1, CallUnseen, CountersKept
<1>2. ASSUME Return \/ UNCHANGED vars
      PROVE  UNCHANGED Schedule!vars /\ CountersBelow'
  <2>1. config' = config /\ baseB' = baseB
    BY <1>2 DEF Return, store, vars
  <2>2. QED
    BY <1>2, <2>1, CallUnseen, CountersKept
<1>3. ASSUME Rebuild
      PROVE  Schedule!Next /\ CountersBelow'
  BY <1>3, RebuildRebuilds, RebuildCounts DEF Schedule!Next
<1>4. ASSUME QueryCache
      PROVE  UNCHANGED Schedule!vars /\ CountersBelow'
  <2>1. config' = config /\ baseB' = baseB
    BY <1>4 DEF QueryCache
  <2>2. QED
    BY <1>4, <2>1, QueryCacheUncounted, CountersKept
<1>5. ASSUME NEW l \in Levels(config), QueryLevel(l)
      PROVE  UNCHANGED Schedule!vars /\ CountersBelow'
  <2>1. config' = config /\ baseB' = baseB
    BY <1>5 DEF QueryLevel
  <2>2. QED
    BY <1>5, <2>1, QueryLevelUncounted, CountersKept
<1>6. ASSUME NEW l \in Levels(config), SkipLevel(l)
      PROVE  UNCHANGED Schedule!vars /\ CountersBelow'
  <2>1. config' = config /\ baseB' = baseB
    BY <1>6 DEF SkipLevel, store
  <2>2. QED
    BY <1>6, <2>1, SkipUnseen, CountersKept
<1>7. ASSUME WriteBack
      PROVE  [Schedule!Next]_(Schedule!vars) /\ CountersBelow'
  <2>1. config' = config /\ baseB' = baseB
    BY <1>7 DEF WriteBack
  <2>2. Schedule!Access(Len(flight)) \/ UNCHANGED Schedule!vars
    BY <1>7, WriteBackAccesses
  <2>3. Schedule!Access(Len(flight)) => Len(flight) \in 1 .. Schedule!Free
    BY DEF Schedule!Access
  <2>4. QED
    BY <2>1, <2>2, <2>3, CountersKept DEF Schedule!Next
<1>8. ASSUME NEW c \in Configs, GrowNaturally(c) \/ GrowOnDemand(c)
      PROVE  Schedule!Next /\ CountersBelow'
  BY <1>8, GrowthKeepsSchedule DEF Schedule!Next
<1>9. QED
  BY <1>1, <1>2, <1>3, <1>4, <1>5, <1>6, <1>7, <1>8 DEF Next, Access

(* Levels are rebuilt, and their dummies spent, as RebuildSchedule says:   *)
(* lib.rs:835 (rebuild), lib.rs:860 and the budget of ohtable.rs:385.      *)
THEOREM ScheduleKept == ASSUME DistinctBatches PROVE Spec => KeepsSchedule
<1>1. Init => Schedule!Init /\ CountersBelow
  BY InitKeepsSchedule
<1>2. IInv /\ IInv' /\ CountersBelow /\ [Next]_vars =>
        [Schedule!Next]_(Schedule!vars) /\ CountersBelow'
  BY NextKeepsSchedule
<1>3. Spec => []IInv
  BY StoreInvariant
<1>4. QED
  BY <1>1, <1>2, <1>3, PTL DEF Spec, KeepsSchedule, Schedule!Spec

---------------------------------------------------------------------------
(* Lengths of sequences and of tables.                                     *)

(* The sequences ss of elements of S are together f[k] long up to the k-th *)
LengthsAdd(S, n, ss, f) ==
  /\ n \in Nat \ {0} /\ Len(ss) = n
  /\ \A k \in 1 .. n : ss[k] \in Seq(S)
  /\ f[1] = Len(ss[1])
  /\ \A k \in 1 .. n : k # n => f[k + 1] = f[k] + Len(ss[k + 1])

(* The length of what sequences flatten to.                                *)
LEMMA FlattenedLength ==
  ASSUME NEW S, NEW n, NEW ss, NEW f, LengthsAdd(S, n, ss, f)
  PROVE  FlattenSeq(ss) \in Seq(S) /\ Len(FlattenSeq(ss)) = f[n]
<1> USE DEF LengthsAdd
<1>1. PICK g : /\ DOMAIN g = 1 .. n /\ FlattenSeq(ss) = g[n]
               /\ \A i \in 1 .. n :
                    g[i] = IF i = 1 THEN ss[i] ELSE g[i - 1] \o ss[i]
  BY FlattenAppends
<1> DEFINE Bad == {k \in 1 .. n : ~ (g[k] \in Seq(S) /\ Len(g[k]) = f[k])}
<1>2. ASSUME NEW k \in Bad, \A j \in Bad : k <= j
      PROVE  FALSE
  <2>1. k \in 1 .. n /\ ~ (g[k] \in Seq(S) /\ Len(g[k]) = f[k]) /\ ss[k] \in Seq(S)
    OBVIOUS
  <2>2. k # 1
    BY <1>1, <2>1
  <2> DEFINE j == k - 1
  <2>3. j \in 1 .. n /\ ~ (k <= j) /\ j + 1 = k /\ j # n
    BY <2>1, <2>2
  <2>4. g[j] \in Seq(S) /\ Len(g[j]) = f[j]
    <3>1. j \notin Bad
      <4> HIDE DEF Bad, j
      <4>1. QED
        BY <1>2, <2>3
    <3> HIDE DEF j
    <3>2. QED
      BY <2>3, <3>1
  <2>5. g[k] = g[j] \o ss[k]
    BY <1>1, <2>1, <2>2
  <2> HIDE DEF j
  <2>6. f[k] = f[j] + Len(ss[k])
    BY <2>3
  <2>7. g[k] \in Seq(S) /\ Len(g[k]) = Len(g[j]) + Len(ss[k])
    BY <2>1, <2>4, <2>5, ConcatProperties
  <2>8. QED
    BY <2>1, <2>4, <2>6, <2>7
<1>3. Bad = {}
  <2>1. Bad \subseteq Nat
    OBVIOUS
  <2> HIDE DEF Bad
  <2>2. QED
    BY <1>2, <2>1, LeastNatural
<1>4. n \in 1 .. n
  OBVIOUS
<1>5. QED
  BY <1>1, <1>3, <1>4

(* Padding reaches its length.                                             *)
LEMMA PaddedLength ==
  ASSUME NEW S, NEW s \in Seq(S), NEW e \in S, NEW n \in Int, Len(s) <= n
  PROVE  PadTo(s, n, e) \in Seq(S) /\ Len(PadTo(s, n, e)) = n
<1> DEFINE m == n - Len(s)
           p == [i \in 1 .. m |-> e]
<1>1. m \in Nat /\ Len(s) \in Nat
  BY LenProperties
<1>2. p \in [1 .. m -> S]
  OBVIOUS
<1>3. p \in Seq(S) /\ Len(p) = m
  <2> HIDE DEF p, m
  <2>1. QED
    BY <1>1, <1>2, TupleIsSeq
<1>4. PadTo(s, n, e) = s \o p
  BY DEF PadTo
<1> HIDE DEF p
<1>5. QED
  BY <1>1, <1>3, <1>4, ConcatProperties

(* Every table holds as many elements as its level's counter says.         *)
TablesFull ==
  \A l \in Live : levels[l].numElements = NumElementsAt(config, l, baseB[l])

(* A table that has spent its budget is extracted at its nominal size.     *)
LEMMA ExtractedLength ==
  ASSUME IInv, NEW l \in Live, Extractable(l),
         levels[l].numElements = NumElementsAt(config, l, baseB[l])
  PROVE  Len(ExtractPadded(l)) = NumElementsAt(config, l, baseB[l])
<1> DEFINE t == levels[l]
           c == config
           S == t.entries
           n == NumElementsAt(c, l, baseB[l])
           s == InSomeOrder(S)
           d == DummyEntry(c)
           p == [i \in 1 .. t.dummies |-> d]
           u == ExtractUntouched(c, t)
<1>1. /\ c \in Configs /\ t \in TableOf(c) /\ l \in Levels(c)
      /\ S \subseteq EntryOf(c) /\ IsFiniteSet(S) /\ baseB[l] \in Nat
      /\ t.dummies \in Nat /\ t.queryCount \in Nat
  BY StoreTypes DEF IInv, Sound, TypeOK, TableOf
<1>2. n \in Nat /\ NumDummies(c, l) \in Nat /\ c.stashSize \in Nat
  BY <1>1, LevelFits, ConfigFacts
<1>3. Cardinality(S) + t.dummies + t.queryCount + c.stashSize
        = t.numElements + NumDummies(c, l)
  BY DEF IInv, Sound, SlotsCounted
<1>4. t.queryCount = NumDummies(c, l) /\ t.numElements = n
  BY DEF Extractable
<1>5. Lists(s, S)
  <2>1. \A e, f \in S : e.x = f.x => e = f
    BY DEF IInv, Sound, TablesTidy
  <2>2. BottomNumElements(c) \in Nat
    BY <1>1, LabelFacts
  <2>3. \A e \in S : e.x \in Int
    BY <1>1, <2>2 DEF EntryOf
  <2> HIDE DEF S
  <2>4. QED
    BY <1>1, <2>1, <2>3, SomeOrderLists
<1>6. d \in EntryOf(c)
  BY <1>1, LabelFacts DEF DummyEntry, Entry, EntryOf, DummyX, Zero, Values
<1> HIDE DEF d, n, c
<1>7. Cardinality(S) \in Nat /\ Len(s) = Cardinality(S) /\ s \in Seq(EntryOf(c))
  <2> HIDE DEF S, s
  <2>1. s \in Seq(S)
    BY <1>5 DEF Lists
  <2>2. QED
    BY <1>1, <1>5, <2>1, ListedSize, SeqMonotonic, FS_CardinalityType
<1>8. p \in Seq(EntryOf(c)) /\ Len(p) = t.dummies
  <2> DEFINE m == t.dummies
  <2> HIDE DEF t
  <2>1. p \in [1 .. m -> EntryOf(c)]
    BY <1>6
  <2> HIDE DEF p, m
  <2>2. QED
    BY <1>1, <2>1, TupleIsSeq DEF m
<1>9. u = s \o p
  BY DEF ExtractUntouched, d
<1>10. u \in Seq(EntryOf(c)) /\ Len(u) = Cardinality(S) + t.dummies
  <2>1. s \in Seq(EntryOf(c)) /\ p \in Seq(EntryOf(c)) /\ u = s \o p
    BY <1>7, <1>8, <1>9
  <2> HIDE DEF u, s, p
  <2>2. u \in Seq(EntryOf(c)) /\ Len(u) = Len(s) + Len(p)
    BY <2>1, ConcatProperties
  <2>3. Len(s) = Cardinality(S) /\ Len(p) = t.dummies
    BY <1>7, <1>8
  <2> HIDE DEF S, t
  <2>4. QED
    BY <2>2, <2>3
<1>11. Len(u) <= n
  <2> DEFINE D == NumDummies(c, l)
             q == t.queryCount
             r == t.dummies
             k == Cardinality(S)
             N == t.numElements
             z == c.stashSize
  <2>1. k \in Nat /\ r \in Nat /\ z \in Nat /\ n \in Nat /\ D \in Nat
    BY <1>1, <1>2, <1>7
  <2>2. k + r + q + z = N + D /\ q = D /\ N = n /\ Len(u) = k + r
    BY <1>3, <1>4, <1>10 DEF c
  <2> HIDE DEF D, q, r, k, N, z, u
  <2>3. QED
    BY <2>1, <2>2
<1>12. ExtractPadded(l) = PadTo(u, n, d)
  BY DEF ExtractPadded, d, n, c
<1> HIDE DEF u
<1>13. QED
  BY <1>2, <1>6, <1>10, <1>11, <1>12, PaddedLength DEF n, c

(* Entries of one table of a level, when its counter is one.               *)
Width(c, l) == 2 ^ (l * c.logAmpFactor + c.logSpeedCacheSize)

(* A level is wider than the one above by the amplification factor, and a  *)
(* table is as many widths long as its level's counter says.               *)
LEMMA WidthFacts ==
  ASSUME NEW c \in Configs
  PROVE  /\ Width(c, 0) = SpeedCacheSize(c)
         /\ Width(c, Bottom(c)) = BottomNumElements(c)
         /\ \A l \in Levels(c) : Width(c, l) \in Nat
         /\ \A l \in Levels(c) \ {Bottom(c)} :
              /\ Width(c, l + 1) = AmpFactor(c) * Width(c, l)
              /\ \A b : NumElementsAt(c, l, b) = b * Width(c, l)
         /\ \A b : NumElementsAt(c, Bottom(c), b) = BottomNumElements(c)
<1> DEFINE A == AmpFactor(c)
           Z == SpeedCacheSize(c)
           W(l) == Width(c, l)
<1>1. /\ c.logAmpFactor \in Nat /\ c.logSpeedCacheSize \in Nat
      /\ c.logAddressSpaceSize = c.logSpeedCacheSize + (c.numLevels - 1) * c.logAmpFactor
      /\ c.numLevels \in Nat \ {0}
  BY ConfigsValid DEF Valid, ConfigFields
<1>2. A \in Nat /\ Z \in Nat /\ 0 \in Levels(c) /\ Levels(c) = 0 .. c.numLevels - 1
  BY ConfigFacts DEF Levels
<1>3. W(0) = Z
  <2>1. 0 * c.logAmpFactor + c.logSpeedCacheSize = c.logSpeedCacheSize
    BY <1>1
  <2>2. QED
    BY <2>1 DEF Width, SpeedCacheSize
<1>4. W(Bottom(c)) = BottomNumElements(c)
  <2>1. (c.numLevels - 1) * c.logAmpFactor + c.logSpeedCacheSize = c.logAddressSpaceSize
    <3> DEFINE p == (c.numLevels - 1) * c.logAmpFactor
    <3>1. p \in Int
      BY <1>1
    <3>2. c.logAddressSpaceSize = c.logSpeedCacheSize + p
      BY <1>1
    <3> HIDE DEF p
    <3>3. p + c.logSpeedCacheSize = c.logAddressSpaceSize
      BY <1>1, <3>1, <3>2
    <3>4. QED
      BY <3>3 DEF p
  <2>2. QED
    BY <2>1 DEF Width, Bottom, BottomNumElements
<1>5. \A l \in Levels(c) : W(l) = A ^ l * Z /\ A ^ l \in Nat /\ A ^ (l + 1) = A * A ^ l
  BY LevelSize, PowerLaws DEF Width
<1>6. ASSUME NEW l \in Levels(c)
      PROVE  W(l) \in Nat
  <2> DEFINE p == A ^ l
  <2>1. p \in Nat /\ W(l) = p * Z
    BY <1>5
  <2> HIDE DEF p, A, Z, W
  <2>2. QED
    BY <1>2, <2>1
<1>7. ASSUME NEW l \in Levels(c) \ {Bottom(c)}
      PROVE  W(l + 1) = A * W(l)
  <2>1. l + 1 \in Levels(c) /\ l \in Levels(c)
    <3>1. c.numLevels \in Nat
      BY <1>1
    <3>2. l \in 0 .. c.numLevels - 1 /\ l # c.numLevels - 1
      BY DEF Levels, Bottom
    <3>3. QED
      BY <3>1, <3>2 DEF Levels
  <2> DEFINE p == A ^ l
             q == A ^ (l + 1)
  <2>2. p \in Nat /\ q = A * p /\ W(l) = p * Z /\ W(l + 1) = q * Z
    BY <1>5, <2>1
  <2> HIDE DEF p, q, A, Z, W
  <2>3. (A * p) * Z = A * (p * Z)
    BY <1>2, <2>2
  <2>4. QED
    BY <2>2, <2>3
<1>8. \A l \in Levels(c) \ {Bottom(c)} : \A b : NumElementsAt(c, l, b) = b * W(l)
  BY DEF NumElementsAt, Width
<1>9. \A b : NumElementsAt(c, Bottom(c), b) = BottomNumElements(c)
  BY DEF NumElementsAt
<1>10. QED
  BY <1>3, <1>4, <1>6, <1>7, <1>8, <1>9

(* What the schedule says of the state: counters tell which levels hold a  *)
(* table, free slots of the cache fit the budgets, and the tables above a  *)
(* full cache's target have spent theirs.                                  *)
Budgets ==
  /\ \A l \in Levels(config) \ {Bottom(config)} :
       baseB[l] < AmpFactor(config) /\ (l \in Live <=> baseB[l] # 0)
  /\ \A l \in Live : CountedQueries(l) + Free <= NumDummies(config, l)
  /\ Free = 0 => \A l \in Live : l < LastLevelToExtract =>
                   CountedQueries(l) = NumDummies(config, l)

(* A full cache collects, down to its target, just what fits there.        *)
LEMMA CollapsedLength ==
  ASSUME IInv, Budgets, TablesFull, pc # "levels", Free = 0
  PROVE  /\ \A l \in Live : l < LastLevelToExtract => Extractable(l)
         /\ Target # Bottom(config) =>
              Len(Collapsed) = NumElementsAt(config, Target, baseB[Target] + 1)
         /\ Target = Bottom(config) => Len(Collapsed) >= BottomNumElements(config)
<1> DEFINE c == config
           T == Target
           K == LastLevelToExtract
           A == AmpFactor(c)
           W(l) == Width(c, l)
           E(l) == ExtractPadded(l)
           n == K + 1
           e == [i \in 1 .. K |-> E(i - 1)]
           ss == <<cache>> \o e
           f == [k \in 1 .. n |-> IF k <= T + 1 THEN W(k - 1)
                                  ELSE W(T) + NumElementsAt(c, T, baseB[T])]
<1>1. /\ c \in Configs /\ T \in Levels(c) /\ T \in Nat /\ K \in {T, T + 1} /\ K \in Nat
      /\ T # Bottom(c) => baseB[T] < A - 1
      /\ T \in Live => K = T + 1
      /\ Live \subseteq Levels(c) /\ Levels(c) \subseteq Nat
      /\ Levels(c) = 0 .. c.numLevels - 1 /\ Bottom(c) = c.numLevels - 1
      /\ K \in 0 .. c.numLevels /\ c.numLevels \in Nat
      /\ \A l \in Levels(c) : baseB[l] \in Nat
      /\ cache \in Seq(EntryOf(c)) /\ A \in Nat
  <2>1. TypeOK
    BY DEF IInv, Sound
  <2>2. /\ T \in Levels(c) /\ T \in Nat /\ K \in {T, T + 1} /\ K \in 0 .. c.numLevels
        /\ T # Bottom(c) => baseB[T] < A - 1
        /\ T \in Live => K = T + 1
    BY TargetCollects DEF IInv
  <2>3. /\ Live \subseteq Levels(c) /\ Levels(c) \subseteq Nat
        /\ cache \in Seq(EntryOf(c)) /\ c \in Configs
    BY <2>1, StoreTypes
  <2>4. A \in Nat /\ c.numLevels \in Nat
    BY <2>3, ConfigFacts
  <2>5. \A l \in Levels(c) : baseB[l] \in Nat
    BY <2>1 DEF TypeOK
  <2>6. Levels(c) = 0 .. c.numLevels - 1 /\ Bottom(c) = c.numLevels - 1
    BY DEF Levels, Bottom
  <2>7. K \in Nat
    BY <2>2
  <2>8. QED
    BY <2>2, <2>3, <2>4, <2>5, <2>6, <2>7
<1>2. Len(cache) = SpeedCacheSize(c)
  <2>1. Len(cache) \in Nat /\ SpeedCacheSize(c) \in Nat /\ Free = 0
    BY <1>1, LenProperties, ConfigFacts
  <2>2. QED
    BY <2>1 DEF Free
<1>3. /\ W(0) = SpeedCacheSize(c) /\ W(Bottom(c)) = BottomNumElements(c)
      /\ \A l \in Levels(c) : W(l) \in Nat
      /\ \A l \in Levels(c) \ {Bottom(c)} :
           /\ W(l + 1) = A * W(l)
           /\ \A b : NumElementsAt(c, l, b) = b * W(l)
      /\ \A b : NumElementsAt(c, Bottom(c), b) = BottomNumElements(c)
  BY <1>1, WidthFacts
<1>4. \A l \in Live : l < K => Extractable(l)
  <2> TAKE l \in Live
  <2> HAVE l < K
  <2>1. CountedQueries(l) = NumDummies(c, l)
    BY DEF Budgets
  <2>2. CountedQueries(l) = levels[l].queryCount
    BY <1>1, CountedBetween
  <2>3. QED
    BY <2>1, <2>2 DEF Extractable
<1>5. ASSUME NEW l \in Levels(c), l < K
      PROVE  /\ E(l) \in Seq(EntryOf(c))
             /\ l \in Live => Len(E(l)) = NumElementsAt(c, l, baseB[l])
             /\ l \notin Live => Len(E(l)) = 0
  <2>1. CASE l \in Live
    <3>1. Extractable(l) /\ levels[l].numElements = NumElementsAt(c, l, baseB[l])
      BY <1>4, <1>5, <2>1 DEF TablesFull
    <3>2. Len(E(l)) = NumElementsAt(c, l, baseB[l])
      BY <2>1, <3>1, ExtractedLength
    <3>3. E(l) \in Seq(EntryOf(c))
      BY <2>1, Extracted DEF Carries, IInv
    <3>4. QED
      BY <2>1, <3>2, <3>3
  <2>2. CASE l \notin Live
    <3>1. E(l) = <<>>
      BY <2>2 DEF ExtractPadded
    <3>2. QED
      BY <2>2, <3>1, EmptySeq
  <2>3. QED
    BY <2>1, <2>2
<1>6. \A l \in 0 .. T - 1 : baseB[l] >= A - 1
  BY <1>1, TargetFacts DEF Target, IInv, Sound, TypeOK
<1> HIDE DEF c, T, K, A, W, E
<1>7. ASSUME NEW l \in Levels(c), l < T
      PROVE  l # Bottom(c) /\ W(l + 1) = W(l) + Len(E(l))
  <2>1. l \in 0 .. T - 1 /\ l # Bottom(c) /\ l < K
    BY <1>1, <1>7
  <2>2. baseB[l] < A /\ (l \in Live <=> baseB[l] # 0)
    <3>1. l \in Levels(config) \ {Bottom(config)}
      BY <1>7, <2>1 DEF c
    <3>2. baseB[l] < AmpFactor(config) /\ (l \in Live <=> baseB[l] # 0)
      BY <3>1 DEF Budgets
    <3>3. QED
      BY <3>2 DEF A, c
  <2>3. baseB[l] = A - 1
    BY <1>1, <1>6, <2>1, <2>2
  <2>4. Len(E(l)) = (A - 1) * W(l)
    <3>1. CASE l \in Live
      BY <1>3, <1>5, <2>1, <2>3, <3>1
    <3>2. CASE l \notin Live
      <4>1. A - 1 = 0 /\ Len(E(l)) = 0 /\ W(l) \in Nat
        BY <1>3, <1>5, <2>1, <2>2, <2>3, <3>2
      <4>2. QED
        BY <4>1
    <3>3. QED
      BY <3>1, <3>2
  <2>5. W(l + 1) = A * W(l) /\ W(l) \in Nat
    BY <1>3, <2>1
  <2> DEFINE w == W(l)
             p == A * w
  <2>6. (A - 1) * w = p - w /\ p \in Int
    BY <1>1, <2>5
  <2>7. W(l + 1) = p /\ w \in Nat /\ Len(E(l)) = p - w
    BY <2>4, <2>5, <2>6
  <2> HIDE DEF p, w
  <2>8. W(l + 1) = w + Len(E(l))
    BY <2>6, <2>7
  <2>9. QED
    BY <2>1, <2>8 DEF w
<1>8. /\ Len(ss) = n /\ ss[1] = cache /\ n \in Nat \ {0}
      /\ \A k \in 1 .. n : k # 1 => ss[k] = E(k - 2) /\ k - 2 \in Levels(c) /\ k - 2 < K
  <2> DEFINE S == {cache} \cup {e[i] : i \in 1 .. K}
  <2>1. e \in [1 .. K -> S]
    OBVIOUS
  <2>2. <<cache>> \in Seq(S) /\ Len(<<cache>>) = 1 /\ <<cache>>[1] = cache
    OBVIOUS
  <2>3. \A i \in 1 .. K : e[i] = E(i - 1)
    OBVIOUS
  <2> HIDE DEF S, e
  <2>4. e \in Seq(S) /\ Len(e) = K
    BY <1>1, <2>1, TupleIsSeq
  <2>5. /\ Len(ss) = 1 + K
        /\ \A i \in 1 .. 1 + K : ss[i] = IF i <= 1 THEN <<cache>>[i] ELSE e[i - 1]
    BY <2>2, <2>4, ConcatProperties
  <2> HIDE DEF ss
  <2>6. ss[1] = cache
    <3>1. 1 \in 1 .. 1 + K
      BY <1>1
    <3>2. QED
      BY <2>2, <2>5, <3>1
  <2>7. ASSUME NEW k \in 1 .. n, k # 1
        PROVE  ss[k] = E(k - 2) /\ k - 2 \in Levels(c) /\ k - 2 < K
    <3>1. /\ k \in 1 .. 1 + K /\ ~ (k <= 1) /\ k - 1 \in 1 .. K /\ (k - 1) - 1 = k - 2
          /\ k - 2 \in Levels(c) /\ k - 2 < K
      BY <1>1, <2>7
    <3>2. QED
      BY <2>3, <2>5, <3>1
  <2>8. QED
    BY <1>1, <2>5, <2>6, <2>7
<1>9. \A k \in 1 .. n : ss[k] \in Seq(EntryOf(c))
  <2> HIDE DEF ss, n
  <2>1. QED
    BY <1>1, <1>5, <1>8
<1>10. f[1] = Len(ss[1])
  <2>1. 1 \in 1 .. n /\ 1 <= T + 1 /\ 1 - 1 = 0
    BY <1>1
  <2> HIDE DEF n, ss
  <2>2. f[1] = W(0)
    BY <2>1
  <2>3. QED
    BY <1>2, <1>3, <1>8, <2>2
<1>11. ASSUME NEW k \in 1 .. n, k # n
       PROVE  f[k + 1] = f[k] + Len(ss[k + 1])
  <2>1. /\ k + 1 \in 1 .. n /\ k + 1 # 1 /\ (k + 1) - 2 = k - 1 /\ (k + 1) - 1 = k
        /\ k - 1 <= T /\ k <= T + 1 /\ k - 1 \in Nat
    BY <1>1, <1>11
  <2>2. ss[k + 1] = E(k - 1) /\ k - 1 \in Levels(c) /\ k - 1 < K
    <3> HIDE DEF ss, n
    <3>1. QED
      BY <1>8, <2>1
  <2>3. f[k] = W(k - 1)
    BY <2>1
  <2>4. CASE k <= T
    <3>1. f[k + 1] = W(k)
      BY <1>1, <2>1, <2>4
    <3>2. k - 1 < T /\ (k - 1) + 1 = k
      BY <1>1, <2>1, <2>4
    <3> HIDE DEF f, ss
    <3>3. W(k) = W(k - 1) + Len(E(k - 1))
      <4> DEFINE j == k - 1
      <4>1. j \in Levels(c) /\ j < T /\ j + 1 = k
        BY <2>2, <3>2
      <4> HIDE DEF j
      <4>2. W(j + 1) = W(j) + Len(E(j))
        BY <1>7, <4>1
      <4>3. QED
        BY <4>1, <4>2 DEF j
    <3>4. QED
      BY <2>2, <2>3, <3>1, <3>3
  <2>5. CASE ~ (k <= T)
    <3>1. k - 1 = T /\ ~ (k + 1 <= T + 1) /\ K = T + 1
      BY <1>1, <2>1, <2>2, <2>5
    <3>2. f[k + 1] = W(T) + NumElementsAt(c, T, baseB[T])
      BY <2>1, <3>1
    <3> HIDE DEF f, ss
    <3>3. T \in Live
      <4>1. NeedToExtract(config, baseB, Live)
        <5>1. T + 0 # T + 1
          BY <1>1
        <5>2. QED
          BY <3>1, <5>1 DEF LastLevelToExtract, T, K
      <4>2. QED
        BY <4>1 DEF NeedToExtract, T, Target, IInv, Sound, BottomCounted
    <3>4. Len(E(T)) = NumElementsAt(c, T, baseB[T])
      BY <1>1, <1>5, <2>2, <3>1, <3>3
    <3>5. QED
      BY <2>2, <2>3, <3>1, <3>2, <3>4
  <2>6. QED
    BY <2>4, <2>5
<1>12. FlattenSeq(ss) \in Seq(EntryOf(c)) /\ Len(FlattenSeq(ss)) = f[n]
  <2> HIDE DEF ss, f, n
  <2>1. /\ n \in Nat \ {0} /\ Len(ss) = n
        /\ \A k \in 1 .. n : ss[k] \in Seq(EntryOf(c))
        /\ f[1] = Len(ss[1])
    BY <1>8, <1>9, <1>10
  <2>2. \A k \in 1 .. n : k # n => f[k + 1] = f[k] + Len(ss[k + 1])
    BY <1>11
  <2> DEFINE S == EntryOf(c)
  <2>3. LengthsAdd(S, n, ss, f)
    BY <2>1, <2>2 DEF LengthsAdd
  <2> HIDE DEF S
  <2>4. FlattenSeq(ss) \in Seq(S) /\ Len(FlattenSeq(ss)) = f[n]
    BY <2>3, FlattenedLength
  <2>5. QED
    BY <2>4 DEF S
<1>13. Len(Collapsed) = f[n]
  <2> DEFINE s == FlattenSeq(ss)
             q == [i \in DOMAIN s |-> ClearAlibi(s[i])]
             m == Len(s)
  <2>1. Collapsed = q
    BY DEF Collapsed, E, K
  <2> HIDE DEF ss, f, n
  <2>2. m \in Nat /\ DOMAIN s = 1 .. m
    BY <1>12, LenProperties
  <2> HIDE DEF s, m
  <2>3. q = [i \in 1 .. m |-> q[i]]
    BY <2>2
  <2> HIDE DEF q
  <2>4. q \in [1 .. m -> {q[i] : i \in 1 .. m}]
    BY <2>3
  <2>5. Len(q) = m
    BY <2>2, <2>4, TupleIsSeq
  <2>6. QED
    BY <1>12, <2>1, <2>5 DEF m, s
<1>14. Len(Collapsed) = IF K = T THEN W(T) ELSE W(T) + NumElementsAt(c, T, baseB[T])
  <2>1. n \in 1 .. n /\ (n <= T + 1 <=> K = T) /\ n - 1 = K
    BY <1>1
  <2> HIDE DEF n
  <2>2. QED
    BY <1>13, <2>1
<1> HIDE DEF f, ss, n
<1>15. ASSUME T # Bottom(c)
       PROVE  Len(Collapsed) = NumElementsAt(c, T, baseB[T] + 1)
  <2> DEFINE b == baseB[T]
             w == W(T)
             p == b * w
  <2>1. b \in Nat /\ w \in Nat /\ p \in Nat
    BY <1>1, <1>3
  <2>2. NumElementsAt(c, T, b + 1) = p + w
    <3>1. NumElementsAt(c, T, b + 1) = (b + 1) * w
      BY <1>1, <1>3, <1>15
    <3>2. (b + 1) * w = b * w + w
      BY <2>1
    <3>3. QED
      BY <3>1, <3>2
  <2>3. NumElementsAt(c, T, b) = p
    BY <1>1, <1>3, <1>15
  <2>4. K = T => p = 0
    <3>1. K = T => b = 0
      BY <1>1, <1>15 DEF Budgets, c
    <3>2. QED
      BY <2>1, <3>1
  <2>5. Len(Collapsed) = IF K = T THEN w ELSE w + p
    BY <1>14, <2>3
  <2> HIDE DEF p, w, b
  <2>6. NumElementsAt(c, T, b + 1) = Len(Collapsed)
    BY <2>1, <2>2, <2>4, <2>5
  <2>7. QED
    BY <2>6 DEF b
<1>16. ASSUME T = Bottom(c)
       PROVE  Len(Collapsed) >= BottomNumElements(c)
  <2> DEFINE N == BottomNumElements(c)
  <2>1. N \in Nat /\ W(T) = N /\ NumElementsAt(c, T, baseB[T]) = N
    BY <1>1, <1>3, <1>16
  <2>2. Len(Collapsed) = IF K = T THEN N ELSE N + N
    BY <1>14, <2>1
  <2> HIDE DEF N
  <2>3. Len(Collapsed) >= N
    BY <2>1, <2>2
  <2>4. QED
    BY <2>3 DEF N
<1>17. QED
  BY <1>4, <1>15, <1>16 DEF c, T, K

---------------------------------------------------------------------------
(* Budgets.                                                                *)

(* RebuildSchedule and its proofs, on the DORAM's state.                   *)
Kept == INSTANCE RebuildScheduleProofs WITH
  Configs <- Configs, NoLevel <- NoTable,
  config <- config, numStored <- Len(cache), baseB <- baseB,
  queryCount <- [l \in Levels(config) |-> CountedQueries(l)],
  age <- LevelAges

(* The sizes there are the DORAM's.                                        *)
LEMMA KeptSizes ==
  /\ \A c : /\ Kept!Levels(c) = Levels(c)
            /\ Kept!Bottom(c) = Bottom(c)
            /\ Kept!SpeedCacheSize(c) = SpeedCacheSize(c)
            /\ Kept!AmpFactor(c) = AmpFactor(c)
            /\ Kept!Valid(c) <=> Valid(c)
            /\ \A l : Kept!NumDummies(c, l) = NumDummies(c, l)
  /\ \A c, b : Kept!RebuildTo(c, b) = RebuildTo(c, b)
  /\ \A c, b, t : Kept!BaseBAfterRebuild(c, b, t) = BaseBAfterRebuild(c, b, t)
<1>1. \A c : Kept!Levels(c) = Levels(c)
  BY DEF Kept!Levels, Levels
<1>2. \A c : Kept!Bottom(c) = Bottom(c)
  BY DEF Kept!Bottom, Bottom
<1>3. \A c : Kept!SpeedCacheSize(c) = SpeedCacheSize(c)
  BY DEF Kept!SpeedCacheSize, SpeedCacheSize
<1>4. \A c : Kept!AmpFactor(c) = AmpFactor(c)
  BY DEF Kept!AmpFactor, AmpFactor
<1>5. \A c : Kept!Valid(c) <=> Valid(c)
  BY <1>3 DEF Kept!Valid, Valid, Kept!ConfigFields, ConfigFields
<1>6. \A c, l : Kept!NumDummies(c, l) = NumDummies(c, l)
  BY <1>3, <1>4 DEF Kept!NumDummies, NumDummies, Kept!FillTime, FillTime
<1>7. \A c, b : Kept!RebuildTo(c, b) = RebuildTo(c, b)
  BY <1>1, <1>2, <1>4 DEF Kept!RebuildTo, RebuildTo
<1>8. \A c, b, t : Kept!BaseBAfterRebuild(c, b, t) = BaseBAfterRebuild(c, b, t)
  BY <1>1, <1>2, <1>4 DEF Kept!BaseBAfterRebuild, BaseBAfterRebuild
<1>9. QED
  BY <1>1, <1>2, <1>3, <1>4, <1>5, <1>6, <1>7, <1>8

(* What is proved of the schedule, of the DORAM's.                         *)
LEMMA KeptInvariants ==
  Kept!Spec => [](Kept!BudgetCovers /\ Kept!ExtractedSpent /\ Kept!LiveIffCounted)
<1>1. \A c \in Configs : Kept!Valid(c)
  BY ConfigsValid, KeptSizes
<1>2. \A c \in Configs :
        /\ Kept!SpeedCacheSize(c) \in Nat \ {0}
        /\ Kept!AmpFactor(c) \in Nat \ {0}
        /\ Kept!AmpFactor(c) ^ 0 = 1
        /\ \A l \in Kept!Levels(c) : /\ Kept!AmpFactor(c) ^ l \in Nat \ {0}
                                     /\ Kept!AmpFactor(c) ^ (l + 1)
                                          = Kept!AmpFactor(c) * Kept!AmpFactor(c) ^ l
  BY PowerLaws, KeptSizes
<1>3. NoTable \notin Nat
  BY NoTableAssumption
<1>4. Kept!Spec => []Kept!BudgetCovers
  BY <1>1, <1>2, <1>3, PowersOfTwo, Kept!BudgetNeverOverrun
<1>5. Kept!Spec => []Kept!ExtractedSpent
  BY <1>1, <1>2, <1>3, PowersOfTwo, Kept!RebuildExtractsSpentTables
<1>6. Kept!Spec => []Kept!LiveIffCounted
  BY <1>1, <1>2, <1>3, PowersOfTwo, Kept!CountersTellLiveLevels
<1>7. QED
  BY <1>4, <1>5, <1>6, PTL

(* The schedule the DORAM keeps is the one those proofs are about.         *)
LEMMA KeptSteps ==
  /\ Schedule!Init => Kept!Init
  /\ [Schedule!Next]_(Schedule!vars) => [Kept!Next]_(Kept!vars)
<1> USE SameSizes, KeptSizes
<1>1. /\ Kept!Free = Schedule!Free /\ Kept!Target = Schedule!Target
      /\ Kept!Live = Schedule!Live /\ Kept!vars = Schedule!vars
  BY
     DEF Kept!Free, Schedule!Free, Kept!Target, Schedule!Target, Kept!Live,
         Schedule!Live,
         Kept!vars, Schedule!vars
<1>2. Schedule!Init => Kept!Init
  BY
     DEF Schedule!Init, Schedule!InitEmpty, Schedule!InitBottom,
         Schedule!OnlyBottom,
         Kept!Init, Kept!InitEmpty, Kept!InitBottom, Kept!OnlyBottom
<1>3. Schedule!Rebuild => Kept!Rebuild
  BY <1>1 DEF Schedule!Rebuild, Kept!Rebuild
<1>4. \A k : Schedule!Access(k) => Kept!Access(k)
  BY <1>1 DEF Schedule!Access, Kept!Access
<1>5. \A c : Schedule!GrowTo(c) => Kept!GrowTo(c)
  BY DEF Schedule!GrowTo, Kept!GrowTo
<1>6. \A c : Schedule!GrowNaturally(c) => Kept!GrowNaturally(c)
  BY <1>1, <1>5
     DEF Schedule!GrowNaturally, Kept!GrowNaturally, Schedule!OneBitLarger,
         Kept!OneBitLarger,
        Schedule!ReadyToGrowNaturally, Kept!ReadyToGrowNaturally
<1>7. \A c : Schedule!GrowOnDemand(c) => Kept!GrowOnDemand(c)
  BY <1>1, <1>5
     DEF Schedule!GrowOnDemand, Kept!GrowOnDemand, Schedule!OneBitLarger,
         Kept!OneBitLarger
<1>8. (UNCHANGED Schedule!vars) => UNCHANGED Kept!vars
  BY DEF Schedule!vars, Kept!vars
<1>9. QED
  BY <1>1, <1>2, <1>3, <1>4, <1>6, <1>7, <1>8 DEF Schedule!Next, Kept!Next

(* Three invariants of the schedule make the budgets.                      *)
LEMMA BudgetsKept ==
  TypeOK /\ Kept!BudgetCovers /\ Kept!ExtractedSpent /\ Kept!LiveIffCounted => Budgets
<1> SUFFICES ASSUME TypeOK, Kept!BudgetCovers, Kept!ExtractedSpent, Kept!LiveIffCounted
             PROVE  Budgets
  OBVIOUS
<1> USE KeptSizes
<1> DEFINE C == [l \in Levels(config) |-> CountedQueries(l)]
<1>1. Kept!Live = Live
  <2>1. Schedule!Live = Live
    BY CountedTypes
  <2>2. QED
    BY <2>1, SameSizes DEF Kept!Live, Schedule!Live
<1>2. Live \subseteq Levels(config) /\ \A l \in Live : C[l] = CountedQueries(l)
  BY StoreTypes
<1>3. Kept!Free = Free /\ Kept!Target = Target
  BY DEF Kept!Free, Free, Kept!Target, Target
<1>4. \A l \in Live : CountedQueries(l) + Free <= NumDummies(config, l)
  <2>1. \A l \in Live : C[l] + Free <= NumDummies(config, l)
    BY <1>1, <1>3 DEF Kept!BudgetCovers
  <2> HIDE DEF C
  <2>2. QED
    BY <1>2, <2>1
<1>5. \A l \in Levels(config) \ {Bottom(config)} :
        baseB[l] < AmpFactor(config) /\ (l \in Live <=> baseB[l] # 0)
  BY <1>1 DEF Kept!LiveIffCounted
<1>6. ASSUME Free = 0, NEW l \in Live, l < LastLevelToExtract
      PROVE  CountedQueries(l) = NumDummies(config, l)
  <2>1. l \in Kept!Extracted
    <3>1. Kept!Extracted = {m \in Live : m < Target \/ (m = Target /\
                                          NeedToExtract(config, baseB, Live))}
      BY <1>1
         DEF Kept!Extracted, Kept!LevelsToExtract, Kept!NeedToExtract,
             NeedToExtract, Target
    <3>2. l \in Nat /\ Target \in Nat
      BY <1>2, StoreTypes, TargetFacts DEF Target, TypeOK
    <3>3. CASE NeedToExtract(config, baseB, Live)
      <4>1. LastLevelToExtract = Target + 1
        BY <3>3 DEF LastLevelToExtract
      <4>2. l < Target \/ l = Target
        BY <1>6, <3>2, <4>1
      <4>3. QED
        BY <3>1, <3>3, <4>2
    <3>4. CASE ~ NeedToExtract(config, baseB, Live)
      <4>1. LastLevelToExtract = Target + 0
        BY <3>4 DEF LastLevelToExtract
      <4>2. l < Target
        BY <1>6, <3>2, <4>1
      <4>3. QED
        BY <3>1, <4>2
    <3>5. QED
      BY <3>3, <3>4
  <2>2. C[l] = NumDummies(config, l)
    BY <1>3, <1>6, <2>1 DEF Kept!ExtractedSpent
  <2> HIDE DEF C
  <2>3. QED
    BY <1>2, <2>2
<1>7. QED
  BY <1>4, <1>5, <1>6 DEF Budgets

(* The budgets are as the schedule says.                                   *)
LEMMA BudgetsAlways == ASSUME DistinctBatches PROVE Spec => []Budgets
<1>1. Spec => Schedule!Spec
  BY ScheduleKept DEF KeepsSchedule
<1>2. Schedule!Spec => Kept!Spec
  BY KeptSteps, PTL DEF Schedule!Spec, Kept!Spec
<1>3. Spec => []TypeOK
  BY StoreTypeOK
<1>4. QED
  BY <1>1, <1>2, <1>3, KeptInvariants, BudgetsKept, PTL

---------------------------------------------------------------------------
(* Queries.                                                                *)

(* The queries of a chunk find room in the cache.                          *)
FlightFits == pc = "levels" => Len(cache) + Len(flight) <= SpeedCacheSize(config)

(* Every step keeps that so.                                               *)
LEMMA FlightFitsNext ==
  ASSUME IInv, FlightFits, [Next]_vars
  PROVE  FlightFits'
<1> SUFFICES ASSUME pc' = "levels"
             PROVE  Len(cache') + Len(flight') <= SpeedCacheSize(config')
  BY DEF FlightFits
<1>1. CASE QueryCache
  <2>1. PICK count \in Nat : /\ count <= Free /\ Len(cache') = Len(cache)
                             /\ DOMAIN flight' = 1 .. count
                             /\ flight' \in Seq(QueryOf(config))
    BY <1>1, CacheQueried DEF IInv
  <2>2. Len(flight') = count
    BY <2>1, LenProperties
  <2>3. /\ Len(cache) \in Nat /\ SpeedCacheSize(config) \in Nat
        /\ config' = config
    BY <1>1, StoreTypes, ConfigFacts DEF IInv, Sound, QueryCache
  <2>4. QED
    BY <2>1, <2>2, <2>3 DEF Free
<1>2. ASSUME NEW l \in Levels(config), QueryLevel(l)
      PROVE  Len(cache') + Len(flight') <= SpeedCacheSize(config')
  <2>1. pc = "levels" /\ cache' = cache /\ config' = config
    BY <1>2 DEF QueryLevel
  <2>2. /\ flight' \in Seq(QueryOf(config)) /\ DOMAIN flight' = DOMAIN flight
        /\ flight \in Seq(QueryOf(config))
    BY <1>2, LevelQueried DEF IInv, Sound, TypeOK
  <2>3. Len(flight') = Len(flight)
    BY <2>2, LenProperties
  <2>4. QED
    BY <2>1, <2>3 DEF FlightFits
<1>3. ASSUME NEW l \in Levels(config), SkipLevel(l)
      PROVE  Len(cache') + Len(flight') <= SpeedCacheSize(config')
  BY <1>3 DEF SkipLevel, store, FlightFits
<1>4. CASE UNCHANGED vars
  BY <1>4 DEF vars, store, call, FlightFits
<1>5. ASSUME NEW ops, NEW b, StartCall(ops, b)
      PROVE  FALSE
  BY <1>5 DEF StartCall
<1>6. CASE Rebuild
  BY <1>6 DEF Rebuild, call
<1>7. CASE WriteBack
  BY <1>7 DEF WriteBack, AfterChunk
<1>8. CASE Return
  BY <1>8 DEF Return
<1>9. ASSUME NEW c \in Configs, GrowNaturally(c) \/ GrowOnDemand(c)
      PROVE  FALSE
  <2>1. UNCHANGED call /\ pc = "idle"
    BY <1>9 DEF GrowNaturally, GrowOnDemand, FinishGrow
  <2>2. QED
    BY <2>1 DEF call
<1>10. QED
  BY <1>1, <1>2, <1>3, <1>4, <1>5, <1>6, <1>7, <1>8, <1>9 DEF Next, Access

(* Two queries of a chunk touch different slots.                           *)
LEMMA TouchedApart ==
  ASSUME IInv, NEW l \in Live
  PROVE  LET hits == {i \in DOMAIN flight : HitBy(flight[i], l) # {}}
         IN  Cardinality(UNION {HitBy(flight[i], l) : i \in hits}) = Cardinality(hits)
<1> DEFINE hit(i) == HitBy(flight[i], l)
           hits == {i \in DOMAIN flight : hit(i) # {}}
           opened == UNION {hit(i) : i \in hits}
           f == [i \in hits |-> CHOOSE e \in hit(i) : TRUE]
<1>1. \A i \in hits : f[i] \in hit(i) /\ i \in DOMAIN flight
  OBVIOUS
<1>2. \A i \in DOMAIN flight : \A e \in hit(i) : e \in levels[l].entries /\ e.x = flight[i].x
  BY DEF HitBy
<1>3. \A i \in hits : \A e \in hit(i) : e = f[i]
  <2>1. \A e, g \in levels[l].entries : e.x = g.x => e = g
    BY DEF IInv, Sound, TablesTidy
  <2> HIDE DEF f, hit
  <2>2. QED
    BY <1>1, <1>2, <2>1
<1>4. \A i, j \in hits : f[i] = f[j] => i = j
  <2>1. \A i, j \in DOMAIN flight : flight[i].x = flight[j].x => i = j
    BY DEF IInv, Sound, QueriedApart
  <2> HIDE DEF f, hit, hits
  <2>2. QED
    BY <1>1, <1>2, <2>1
<1>5. opened = {f[i] : i \in hits}
  <2> HIDE DEF f, hit, hits
  <2>1. QED
    BY <1>1, <1>3
<1>6. IsFiniteSet(hits)
  <2> DEFINE n == Len(flight)
  <2>1. n \in Nat /\ hits \subseteq 1 .. n
    BY CallTypes DEF IInv, Sound
  <2> HIDE DEF n, hits
  <2>2. IsFiniteSet(1 .. n)
    BY <2>1, FS_Interval
  <2>3. QED
    BY <2>1, <2>2, FS_Subset
<1>7. DOMAIN f = hits
  OBVIOUS
<1> HIDE DEF f, hit, hits, opened
<1>8. f \in Bijection(hits, opened)
  <2>1. f \in [hits -> opened]
    <3>1. f = [i \in hits |-> f[i]]
      BY DEF f
    <3>2. QED
      BY <1>5, <3>1
  <2>2. QED
    BY <1>4, <1>5, <2>1 DEF Bijection, Injection, Surjection, IsInjective
<1>9. Cardinality(opened) = Cardinality(hits)
  BY <1>6, <1>8, FS_Bijection DEF ExistsBijection
<1>10. QED
  BY <1>9 DEF opened, hits, hit

(* Every assertion about a chunk holds.                                    *)
LEMMA QueriesAllSucceed ==
  IInv /\ Budgets /\ FlightFits => QueriesSucceed
<1> SUFFICES ASSUME IInv, Budgets, FlightFits, pc = "levels"
             PROVE  /\ Len(cache) + Len(flight) <= SpeedCacheSize(config)
                    /\ \A l \in Live : l = nextLevel =>
                         LET hits == {i \in DOMAIN flight : HitBy(flight[i], l) # {}}
                         IN  /\ levels[l].queryCount + Len(flight) <= NumDummies(config, l)
                             /\ Cardinality(UNION {HitBy(flight[i], l) : i \in hits})
                                  = Cardinality(hits)
  BY DEF QueriesSucceed
<1>1. Len(cache) + Len(flight) <= SpeedCacheSize(config)
  BY DEF FlightFits
<1>2. ASSUME NEW l \in Live, l = nextLevel
      PROVE  levels[l].queryCount + Len(flight) <= NumDummies(config, l)
  <2>1. CountedQueries(l) + Free <= NumDummies(config, l)
    BY DEF Budgets
  <2>2. /\ l \in Levels(config) /\ l \in Nat /\ levels[l].queryCount \in Nat
        /\ Len(cache) \in Nat /\ config \in Configs
    BY StoreTypes DEF IInv, Sound, TableOf
  <2>3. SpeedCacheSize(config) \in Nat /\ NumDummies(config, l) \in Nat
    BY <2>2, ConfigFacts
  <2>4. Len(flight) \in Nat
    BY CallTypes DEF IInv, Sound
  <2>5. CountedQueries(l) = levels[l].queryCount - (IF l < nextLevel THEN Len(flight) ELSE 0)
    BY CountedTypes DEF IInv, Sound
  <2>6. ~ (l < nextLevel)
    BY <1>2, <2>2
  <2>7. CountedQueries(l) = levels[l].queryCount
    BY <2>2, <2>5, <2>6
  <2>8. QED
    BY <1>1, <2>1, <2>2, <2>3, <2>4, <2>7 DEF Free
<1>3. QED
  BY <1>1, <1>2, TouchedApart

---------------------------------------------------------------------------
(* Rebuilds.                                                               *)

(* The bottom gets an entry for every address of a DORAM that began with   *)
(* them all.                                                               *)
LEMMA AllCleansed ==
  ASSUME IInv, pc # "levels", NEW K, \A l \in Live : l < K,
         NEW s, Bared(config, s, StoredAbove(K))
  PROVE  CleanseSucceeds(s)
<1> SUFFICES ASSUME hadInitialBottomLevel
             PROVE  Len(Reals(config, s)) = BottomNumElements(config)
  BY DEF CleanseSucceeds, FinalizeBottomLevel
<1> DEFINE c == config
           N == BottomNumElements(c)
           r == Reals(c, s)
           n == Len(r)
           D == 1 .. n
           A == Addresses(c)
           f == [i \in D |-> r[i].x]
           R == StoredAbove(K)
<1>1. /\ c \in Configs /\ N \in Nat /\ A = 0 .. N - 1
  BY LabelFacts DEF IInv, Sound, TypeOK
<1>2. Labelled(c, r, R) /\ \A i \in DOMAIN r : r[i].x \in A
  <2> HIDE DEF R
  <2>1. c \in Configs /\ Bared(c, s, R)
    BY <1>1 DEF R
  <2>2. QED
    BY <2>1, BaredReals
<1>3. n \in Nat /\ DOMAIN r = D
  <2>1. Carries(c, r, R)
    BY <1>2 DEF Labelled, Bared
  <2> HIDE DEF R, r
  <2>2. QED
    BY <2>1, CarriedEntries
<1>4. \A x \in A : \E q \in R : q.x = x
  <2> TAKE x \in A
  <2>1. Held(x)
    BY DEF IInv, Sound, AllHeld
  <2>2. flight = <<>>
    BY DEF IInv, Sound, CallPhases
  <2>3. \/ \E i \in DOMAIN cache : cache[i].x = x
        \/ \E l \in Live : l < K /\ \E e \in levels[l].entries : e.x = x
    BY <2>1, <2>2 DEF Held
  <2>4. QED
    BY <2>3, StoredAboveFacts
<1>5. f \in Bijection(D, A)
  <2>1. f \in [D -> A]
    BY <1>2, <1>3
  <2>2. \A i, j \in D : r[i].x = r[j].x => i = j
    BY <1>2, <1>3 DEF Labelled
  <2>3. ASSUME NEW x \in A
        PROVE  \E i \in D : r[i].x = x
    <3>1. PICK q \in R : q.x = x
      BY <1>4
    <3> HIDE DEF R, r
    <3>2. PICK i \in DOMAIN r : Bare(r[i]) = q
      BY <1>2 DEF Labelled, Bared, Carries
    <3>3. r[i].x = x
      BY <3>1, <3>2 DEF Bare, Entry
    <3>4. QED
      BY <1>3, <3>3
  <2>4. \A i \in D : f[i] = r[i].x
    OBVIOUS
  <2> HIDE DEF f, D, A, r
  <2>5. QED
    BY <2>1, <2>2, <2>3, <2>4 DEF Bijection, Injection, Surjection, IsInjective
<1>6. IsFiniteSet(A) /\ Cardinality(A) = N /\ IsFiniteSet(D) /\ Cardinality(D) = n
  <2> HIDE DEF N, n, A, f
  <2>1. PICK m : m = N - 1
    OBVIOUS
  <2>2. 0 \in Int /\ m \in Int /\ 1 \in Int /\ n \in Int
    BY <1>1, <1>3, <2>1
  <2>3. /\ IsFiniteSet(0 .. m)
        /\ Cardinality(0 .. m) = IF 0 > m THEN 0 ELSE m - 0 + 1
    BY <2>2, FS_Interval, Zenon
  <2>4. /\ IsFiniteSet(1 .. n)
        /\ Cardinality(1 .. n) = IF 1 > n THEN 0 ELSE n - 1 + 1
    BY <2>2, FS_Interval, Zenon
  <2>5. Cardinality(0 .. m) = N
    BY <1>1, <2>1, <2>3
  <2>6. Cardinality(1 .. n) = n
    BY <1>3, <2>4
  <2>7. QED
    BY <1>1, <2>1, <2>3, <2>4, <2>5, <2>6
<1> HIDE DEF f, D, A, n, N
<1>7. n = N
  BY <1>5, <1>6, FS_Bijection DEF ExistsBijection
<1>8. QED
  BY <1>7 DEF n, N

(* No rebuild and no growth fails.                                         *)
LEMMA RebuildsAllSucceed ==
  IInv /\ Budgets /\ TablesFull => RebuildsSucceed
<1> SUFFICES ASSUME IInv, Budgets, TablesFull, pc # "levels"
             PROVE  /\ CleanseSucceeds(AllUntouched)
                    /\ Free = 0 =>
                         /\ \A l \in 0 .. LastLevelToExtract - 1 : l \in Live => Extractable(l)
                         /\ IF Target = Bottom(config)
                            THEN CleanseSucceeds(Collapsed)
                            ELSE Len(Collapsed)
                                   = NumElementsAt(config, Target, baseB[Target] + 1)
  BY DEF RebuildsSucceed
<1> DEFINE n == config.numLevels
           L == LastLevelToExtract
<1>1. \A l \in Live : l \in 0 .. n - 1 /\ l < n
  BY StoreTypes, ConfigFacts DEF IInv, Sound, Levels
<1>2. CleanseSucceeds(AllUntouched)
  <2>1. Bared(config, AllUntouched, StoredAbove(n))
    BY CollapsedCarries DEF IInv
  <2> HIDE DEF n
  <2>2. QED
    BY <1>1, <2>1, AllCleansed
<1>3. ASSUME Target = Bottom(config)
      PROVE  CleanseSucceeds(Collapsed)
  <2>1. Bared(config, Collapsed, StoredAbove(L))
    BY CollapsedCarries DEF IInv
  <2>2. \A l \in Live : l < L
    <3>1. n \in Nat /\ Target = n - 1 /\ L \in {Target, Target + 1}
          /\ (Target \in Live => L = Target + 1)
      BY <1>3, TargetCollects, ConfigFacts DEF IInv, Sound, TypeOK, Bottom
    <3> HIDE DEF L, n
    <3>2. TAKE l \in Live
    <3>3. l \in 0 .. n - 1 /\ (l = n - 1 => Target \in Live)
      BY <1>1, <3>1
    <3>4. QED
      BY <3>1, <3>3
  <2> HIDE DEF L
  <2>3. QED
    BY <2>1, <2>2, AllCleansed
<1>4. ASSUME Free = 0
      PROVE  /\ \A l \in 0 .. LastLevelToExtract - 1 : l \in Live => Extractable(l)
             /\ Target # Bottom(config) =>
                  Len(Collapsed) = NumElementsAt(config, Target, baseB[Target] + 1)
  <2>1. \A l \in Live : l < L => Extractable(l)
    BY <1>4, CollapsedLength
  <2>2. Target # Bottom(config) =>
          Len(Collapsed) = NumElementsAt(config, Target, baseB[Target] + 1)
    BY <1>4, CollapsedLength
  <2>3. L \in Nat
    BY TargetCollects DEF IInv
  <2> HIDE DEF L
  <2>4. \A l \in 0 .. L - 1 : l < L
    BY <2>3
  <2>5. QED
    BY <2>1, <2>2, <2>4 DEF L
<1>5. QED
  BY <1>2, <1>3, <1>4

---------------------------------------------------------------------------
(* Relabelling keeps the length.                                           *)
LEMMA RelabelledLength ==
  ASSUME NEW c, NEW s, NEW S, s \in Seq(S)
  PROVE  Len(RelabelDummies(c, s)) = Len(s)
<1> DEFINE n == Len(s)
           t == RelabelDummies(c, s)
<1>1. n \in Nat /\ DOMAIN s = 1 .. n
  BY LenProperties
<1>2. t = [i \in 1 .. n |-> t[i]]
  BY <1>1 DEF RelabelDummies
<1> HIDE DEF n, t
<1>3. t \in [1 .. n -> {t[i] : i \in 1 .. n}]
  BY <1>2
<1>4. Len(t) = n
  BY <1>1, <1>3, TupleIsSeq
<1>5. QED
  BY <1>4 DEF n, t

(* Putting the dummies behind the real entries loses nothing.              *)
LEMMA SortedLength ==
  ASSUME NEW c, NEW S, NEW s \in Seq(S)
  PROVE  /\ Reals(c, s) \o Dummies(c, s) \in Seq(S)
         /\ Len(Reals(c, s) \o Dummies(c, s)) = Len(s)
<1> DEFINE P == {i \in DOMAIN s : ~ IsDummy(c, s[i].x)}
           Q == {i \in DOMAIN s : IsDummy(c, s[i].x)}
           n == Len(s)
           r == Select(s, P)
           d == Select(s, Q)
<1>1. n \in Nat /\ DOMAIN s = 1 .. n
  BY LenProperties
<1>2. P \cup Q = 1 .. n /\ P \cap Q = {} /\ P \in SUBSET DOMAIN s /\ Q \in SUBSET DOMAIN s
  BY <1>1
<1> HIDE DEF P, Q
<1>3. /\ r \in Seq(S) /\ Len(r) = Cardinality(P) /\ Cardinality(P) \in Nat
      /\ d \in Seq(S) /\ Len(d) = Cardinality(Q) /\ Cardinality(Q) \in Nat
  <2>1. r \in Seq(S) /\ Len(r) = Cardinality(P) /\ Cardinality(P) \in 0 .. Len(s)
    BY <1>2, SelectTakes
  <2>2. d \in Seq(S) /\ Len(d) = Cardinality(Q) /\ Cardinality(Q) \in 0 .. Len(s)
    BY <1>2, SelectTakes
  <2>3. QED
    BY <2>1, <2>2
<1> HIDE DEF r, d, n
<1>4. Cardinality(P) + Cardinality(Q) = n
  <2>1. IsFiniteSet(1 .. n) /\ Cardinality(1 .. n) = n
    BY <1>1, FS_Interval
  <2>2. IsFiniteSet(P) /\ IsFiniteSet(Q)
    BY <1>1, <1>2, <2>1, FS_Subset
  <2>3. Cardinality(P \cup Q) = Cardinality(P) + Cardinality(Q) - Cardinality(P \cap Q)
    BY <2>2, FS_Union
  <2>4. Cardinality(P \cap Q) = 0
    BY <1>2, FS_EmptySet
  <2> DEFINE k == Cardinality(P)
             m == Cardinality(Q)
  <2>5. k \in Nat /\ m \in Nat /\ n = k + m - 0
    <3>1. Cardinality(P \cup Q) = n
      BY <1>2, <2>1
    <3>2. QED
      BY <1>3, <2>3, <2>4, <3>1
  <2> HIDE DEF k, m
  <2>6. k + m = n
    BY <1>1, <2>5
  <2>7. QED
    BY <2>6 DEF k, m
<1>5. r \o d \in Seq(S) /\ Len(r \o d) = Len(r) + Len(d)
  BY <1>3, ConcatProperties
<1>6. r \o d \in Seq(S) /\ Len(r \o d) = n
  BY <1>3, <1>4, <1>5
<1>7. QED
  BY <1>6 DEF Reals, Dummies, r, d, n, P, Q

(* Without an initial bottom level as many entries are left as there are,  *)
(* up to one for every address.                                            *)
LEMMA FinalizedLength ==
  ASSUME config \in Configs, NEW s \in Seq(EntryOf(config)), CleanseSucceeds(s),
         ~ hadInitialBottomLevel => Len(s) >= BottomNumElements(config)
  PROVE  Len(FinalizeBottomLevel(s)) = BottomNumElements(config)
<1>1. CASE hadInitialBottomLevel
  BY <1>1 DEF CleanseSucceeds
<1>2. CASE ~ hadInitialBottomLevel
  <2> DEFINE N == BottomNumElements(config)
             sorted == Reals(config, s) \o Dummies(config, s)
             m == Len(sorted)
             kept == Min({m, N})
             t == SubSeq(sorted, 1, kept)
             E == EntryOf(config)
  <2>1. N \in Nat \ {0}
    BY LabelFacts
  <2>2. FinalizeBottomLevel(s) = RelabelDummies(config, t)
    BY <1>2 DEF FinalizeBottomLevel
  <2>3. sorted \in Seq(E) /\ m = Len(s)
    BY SortedLength
  <2>4. m \in Nat /\ \A i \in 1 .. m : sorted[i] \in E
    <3> HIDE DEF sorted, E
    <3>1. QED
      BY <2>3, LenProperties, ElementOfSeq
  <2>5. m >= N
    BY <1>2, <2>3
  <2>6. kept = N
    <3> HIDE DEF m, N
    <3>1. \A x \in {m, N} : N <= x
      BY <2>1, <2>4, <2>5
    <3>2. kept \in {m, N} /\ kept <= N
      <4>1. m \in Int /\ N \in Int
        BY <2>1, <2>4
      <4>2. kept = Min({m, N})
        OBVIOUS
      <4> HIDE DEF kept
      <4>3. QED
        BY <4>1, <4>2, MinOfTwo
    <3>3. N <= kept
      BY <3>1, <3>2
    <3>4. kept \in Nat
      BY <2>1, <2>4, <3>2
    <3> HIDE DEF kept
    <3>5. QED
      BY <2>1, <3>2, <3>3, <3>4
  <2>7. t \in Seq(E) /\ Len(t) = N
    <3> HIDE DEF m, N, E, sorted
    <3>1. 1 \in Int /\ N \in Int /\ 1 <= N /\ N - 1 + 1 = N
      BY <2>1
    <3>2. \A i \in 1 .. N : sorted[i] \in E
      BY <2>1, <2>4, <2>5
    <3>3. t = SubSeq(sorted, 1, N)
      BY <2>6
    <3> HIDE DEF t, kept
    <3>4. /\ SubSeq(sorted, 1, N) \in Seq(E)
          /\ Len(SubSeq(sorted, 1, N)) = IF 1 <= N THEN N - 1 + 1 ELSE 0
      BY <3>1, <3>2, SubSeqProperties
    <3>5. QED
      BY <3>1, <3>3, <3>4
  <2>8. Len(RelabelDummies(config, t)) = N
    <3> HIDE DEF t, N, E
    <3>1. QED
      BY <2>7, RelabelledLength
  <2>9. QED
    BY <2>2, <2>8
<1>3. QED
  BY <1>1, <1>2

(* A level is built with all entries it is given.                          *)
LEMMA BuiltFull ==
  ASSUME NEW c, NEW K, NEW old, NEW s, BuildLevel(c, K, old, s), K \in DOMAIN old
  PROVE  levels'[K].numElements = Len(s)
<1>1. PICK key, stash : levels' = [old EXCEPT ![K] = NewTable(c, K, key, s, stash)]
  BY DEF BuildLevel
<1>2. NewTable(c, K, key, s, stash).numElements = Len(s)
  BY DEF NewTable
<1>3. QED
  BY <1>1, <1>2

(* A rebuild fills the table of its target.                                *)
LEMMA RebuildFills ==
  ASSUME IInv, Budgets, TablesFull, Rebuild
  PROVE  TablesFull'
<1> DEFINE T == Target
           B == Bottom(config)
           kept == [l \in Levels(config) |->
                      IF l < LastLevelToExtract THEN NoTable ELSE levels[l]]
<1>1. /\ config \in Configs /\ config' = config /\ pc = "access" /\ Free = 0
      /\ T \in Levels(config) /\ Levels(config) \subseteq Nat /\ Live \subseteq Levels(config)
      /\ baseB' = BaseBAfterRebuild(config, baseB, T)
      /\ \A m \in Levels(config) : m # T =>
           levels'[m] = IF m \in Live /\ T < m THEN levels[m] ELSE NoTable
  BY RebuildBuilds, TargetCollects, StoreTypes DEF IInv, Sound, Rebuild
<1>2. levels'[T].numElements = NumElementsAt(config, T, baseB'[T])
  <2>1. CASE T = B
    <3> DEFINE s == FinalizeBottomLevel(Collapsed)
    <3>1. CleanseSucceeds(Collapsed) /\ BuildLevel(config, T, kept, s)
      BY <2>1 DEF Rebuild
    <3>2. T \in DOMAIN kept
      BY <1>1
    <3>3. levels'[T].numElements = Len(s)
      <4> HIDE DEF T, kept, s
      <4>1. QED
        BY <3>1, <3>2, BuiltFull
    <3>4. Collapsed \in Seq(EntryOf(config))
      BY CollapsedCarries DEF Bared, Carries, IInv
    <3>5. Len(Collapsed) >= BottomNumElements(config)
      BY <1>1, <2>1, CollapsedLength
    <3>6. Len(s) = BottomNumElements(config)
      BY <1>1, <3>1, <3>4, <3>5, FinalizedLength
    <3>7. QED
      BY <2>1, <3>3, <3>6 DEF NumElementsAt
  <2>2. CASE T # B
    <3> DEFINE s == RelabelDummies(config, Collapsed)
    <3>1. /\ Len(Collapsed) = NumElementsAt(config, T, baseB[T] + 1)
          /\ BuildLevel(config, T, kept, s)
      BY <2>2 DEF Rebuild
    <3>2. T \in DOMAIN kept
      BY <1>1
    <3>3. levels'[T].numElements = Len(s)
      <4> HIDE DEF T, kept, s
      <4>1. QED
        BY <3>1, <3>2, BuiltFull
    <3>4. Collapsed \in Seq(EntryOf(config))
      BY CollapsedCarries DEF Bared, Carries, IInv
    <3>5. Len(s) = Len(Collapsed)
      BY <3>4, RelabelledLength
    <3>6. baseB'[T] = baseB[T] + 1
      <4> HIDE DEF T
      <4>1. T \in Nat
        BY <1>1
      <4>2. ~ (T < T)
        BY <4>1
      <4>3. QED
        BY <1>1, <2>2, <4>2 DEF BaseBAfterRebuild
    <3>7. QED
      BY <3>1, <3>3, <3>5, <3>6
  <2>3. QED
    BY <2>1, <2>2
<1>3. ASSUME NEW m \in Live', m # T
      PROVE  levels'[m].numElements = NumElementsAt(config, m, baseB'[m])
  <2>1. m \in Levels(config) /\ levels'[m] # NoTable
    BY <1>1, <1>3 DEF Live
  <2>2. m \in Live /\ T < m /\ levels'[m] = levels[m]
    BY <1>1, <1>3, <2>1
  <2>3. baseB'[m] = baseB[m]
    <3> HIDE DEF T
    <3>1. m \in Nat /\ T \in Nat /\ ~ (m < T) /\ m # T
      BY <1>1, <1>3, <2>1, <2>2
    <3>2. QED
      BY <1>1, <2>1, <3>1 DEF BaseBAfterRebuild
  <2>4. QED
    BY <2>2, <2>3 DEF TablesFull
<1>4. QED
  BY <1>1, <1>2, <1>3 DEF TablesFull

(* A growth fills the table of the larger address space.                   *)
LEMMA GrowthFills ==
  ASSUME IInv, NEW c \in Configs, GrowNaturally(c) \/ GrowOnDemand(c)
  PROVE  TablesFull'
<1> DEFINE B == Bottom(c)
           old == BottomNumElements(config)
           new == BottomNumElements(c)
<1>1. PICK L, e : /\ Bared(config, e, StoredAbove(L)) /\ CleanseSucceeds(e)
                  /\ FinishGrow(c, FinalizeBottomLevel(e))
  BY GrowBuilds DEF IInv
<1>2. /\ config \in Configs /\ OneBitLarger(c) /\ B \in Levels(c)
  BY GrowBuilds, ConfigFacts DEF IInv, Sound, TypeOK
<1>3. /\ config' = c /\ baseB' = OnlyBottomCounted(c)
      /\ \A m \in Levels(c) : m # B => levels'[m] = NoTable
  <2> DEFINE R == StoredAbove(L)
  <2>1. Bared(config, e, R)
    BY <1>1
  <2> HIDE DEF R
  <2>2. QED
    BY <1>1, <1>2, <2>1, FinishGrowBuilds DEF IInv
<1>4. old \in Nat \ {0} /\ new = 2 * old
  <2>1. new = 2 * old
    <3>1. config.logAddressSpaceSize \in 0 .. config.logAddressSpaceSize + 1
      BY <1>2, ConfigsValid DEF Valid, ConfigFields
    <3>2. QED
      BY <1>2, <3>1, PowersOfTwo DEF OneBitLarger, BottomNumElements
  <2>2. QED
    BY <1>2, <2>1, LabelFacts
<1> DEFINE s == FinalizeBottomLevel(e)
           E == EntryOf(config)
           d == DummyEntry(config)
           fresh == [i \in 1 .. new - old |-> Entry(old + i - 1, Zero)]
           p == PadTo(s, new, d)
           replaced == [i \in DOMAIN p |->
                          IF IsDummy(config, p[i].x)
                          THEN [p[i] EXCEPT !.x = new + i - 1]
                          ELSE p[i]]
           u == IF hadInitialBottomLevel THEN s \o fresh ELSE replaced
<1>5. BuildLevel(c, B, NoTables(c), u)
  BY <1>1 DEF FinishGrow
<1>6. s \in Seq(E) /\ Len(s) \in Nat /\ Len(s) <= old
  <2> DEFINE R == StoredAbove(L)
  <2>1. Bared(config, e, R)
    BY <1>1
  <2> HIDE DEF R
  <2>2. Labelled(config, s, R) /\ Len(s) <= old
    BY <1>2, <2>1, FinalizedLabelled
  <2>3. QED
    BY <2>2, CarriedEntries DEF Labelled, Bared, Carries
<1>7. hadInitialBottomLevel => Len(s) = old
  BY <1>1 DEF CleanseSucceeds
<1>8. d \in E
  BY <1>2, LabelFacts DEF DummyEntry, Entry, EntryOf, DummyX, Zero, Values
<1>9. \A i \in 1 .. new - old : fresh[i] = Entry(old + i - 1, Zero)
  OBVIOUS
<1>10. fresh = [i \in 1 .. new - old |-> fresh[i]]
  OBVIOUS
<1>11. replaced = [i \in DOMAIN p |-> replaced[i]]
  OBVIOUS
<1>12. u = IF hadInitialBottomLevel THEN s \o fresh ELSE replaced
  OBVIOUS
<1>13. p = PadTo(s, new, d)
  OBVIOUS
<1> HIDE DEF s, E, d, fresh, p, replaced, u, old, new, B
<1>14. ASSUME hadInitialBottomLevel
       PROVE  Len(u) = new
  <2> DEFINE S == E \cup {fresh[i] : i \in 1 .. new - old}
  <2>1. new - old \in Nat /\ E \subseteq S
    BY <1>4
  <2>2. fresh \in [1 .. new - old -> S]
    BY <1>10
  <2> HIDE DEF S
  <2>3. fresh \in Seq(S) /\ Len(fresh) = new - old
    BY <2>1, <2>2, TupleIsSeq
  <2>4. s \in Seq(S)
    BY <1>6, <2>1, SeqMonotonic
  <2>5. Len(s \o fresh) = Len(s) + Len(fresh)
    BY <2>3, <2>4, ConcatProperties
  <2>6. Len(u) = old + (new - old)
    BY <1>7, <1>12, <1>14, <2>3, <2>5
  <2>7. old + (new - old) = new
    BY <1>4
  <2>8. Len(u) = new
    BY <2>6, <2>7
  <2>9. QED
    BY <2>8
<1>15. ASSUME ~ hadInitialBottomLevel
       PROVE  Len(u) = new
  <2>1. new \in Int /\ Len(s) <= new /\ new \in Nat
    BY <1>4, <1>6
  <2>2. p \in Seq(E) /\ Len(p) = new
    BY <1>6, <1>8, <1>13, <2>1, PaddedLength
  <2>3. DOMAIN p = 1 .. new
    BY <2>2, LenProperties
  <2>4. replaced \in [1 .. new -> {replaced[i] : i \in 1 .. new}]
    BY <1>11, <2>3
  <2>5. Len(replaced) = new
    BY <2>1, <2>4, TupleIsSeq
  <2>6. QED
    BY <1>12, <1>15, <2>5
<1>16. Len(u) = new
  BY <1>14, <1>15
<1>17. levels'[B].numElements = new
  <2>1. B \in DOMAIN NoTables(c)
    BY <1>2 DEF NoTables
  <2>2. QED
    BY <1>5, <1>16, <2>1, BuiltFull
<1>18. ASSUME NEW m \in Live'
       PROVE  m = B
  <2>1. m \in Levels(c) /\ levels'[m] # NoTable
    BY <1>3 DEF Live
  <2>2. QED
    BY <1>3, <2>1
<1>19. NumElementsAt(c, B, baseB'[B]) = new
  BY DEF NumElementsAt, B, new
<1>20. QED
  BY <1>3, <1>17, <1>18, <1>19 DEF TablesFull

(* A DORAM begins with full tables.                                        *)
LEMMA InitFull == Init => TablesFull
<1> SUFFICES ASSUME Init
             PROVE  TablesFull
  OBVIOUS
<1>1. config \in Configs /\ (InitEmpty \/ InitBottom)
  BY DEF Init
<1>2. CASE InitEmpty
  BY <1>2 DEF InitEmpty, NoTables, Live, TablesFull
<1>3. CASE InitBottom
  <2> DEFINE c == config
             N == BottomNumElements(c)
             B == Bottom(c)
  <2>1. PICK s, stash :
          /\ \E ys : s = [i \in 1 .. N |-> Entry(i - 1, ys[i - 1])]
          /\ levels = [NoTables(c) EXCEPT ![B] = NewTable(c, B, 0, s, stash)]
    BY <1>3 DEF InitBottom
  <2>2. N \in Nat /\ B \in Levels(c)
    BY <1>1, LabelFacts, ConfigFacts
  <2>3. Len(s) = N
    <3>1. PICK ys : s = [i \in 1 .. N |-> Entry(i - 1, ys[i - 1])]
      BY <2>1
    <3> HIDE DEF N
    <3>2. s = [i \in 1 .. N |-> s[i]]
      BY <3>1
    <3>3. s \in [1 .. N -> {s[i] : i \in 1 .. N}]
      BY <3>2
    <3>4. QED
      BY <2>2, <3>3, TupleIsSeq
  <2>4. levels[B].numElements = N
    <3>1. NewTable(c, B, 0, s, stash).numElements = N
      BY <2>3 DEF NewTable
    <3>2. B \in DOMAIN NoTables(c)
      BY <2>2 DEF NoTables
    <3>3. QED
      BY <2>1, <3>1, <3>2
  <2>5. ASSUME NEW l \in Live
        PROVE  l = B
    <3>1. l \in Levels(c) /\ levels[l] # NoTable
      BY DEF Live
    <3> HIDE DEF B
    <3>2. l # B => levels[l] = NoTable
      BY <2>1, <3>1 DEF NoTables
    <3>3. QED
      BY <3>1, <3>2
  <2>6. NumElementsAt(c, B, baseB[B]) = N
    BY DEF NumElementsAt
  <2>7. QED
    BY <2>4, <2>5, <2>6 DEF TablesFull
<1>4. QED
  BY <1>1, <1>2, <1>3

(* Every step keeps the tables full: queries leave a table as long as it   *)
(* is, a rebuild and a growth fill the one they build.                     *)
LEMMA FullNext ==
  ASSUME IInv, Budgets, TablesFull, [Next]_vars
  PROVE  TablesFull'
<1>1. ASSUME config' = config, levels' = levels, baseB' = baseB
      PROVE  TablesFull'
  BY <1>1 DEF TablesFull, Live
<1>2. ASSUME NEW ops, NEW b, StartCall(ops, b)
      PROVE  TablesFull'
  BY <1>1, <1>2 DEF StartCall, store
<1>3. CASE Rebuild
  BY <1>3, RebuildFills
<1>4. CASE QueryCache
  BY <1>1, <1>4 DEF QueryCache
<1>5. ASSUME NEW l \in Levels(config), QueryLevel(l)
      PROVE  TablesFull'
  <2>1. config' = config /\ baseB' = baseB /\ l \in Live
    BY <1>5 DEF QueryLevel
  <2>2. PICK opened : levels' = [levels EXCEPT ![l] = Spend(l, opened)]
    BY <1>5 DEF QueryLevel
  <2>3. /\ DOMAIN levels = Levels(config) /\ levels[l] \in TableOf(config)
        /\ Live \subseteq Levels(config)
    BY <2>1, StoreTypes DEF IInv, Sound
  <2>4. /\ levels'[l].numElements = levels[l].numElements
        /\ \A m \in Levels(config) : m # l => levels'[m] = levels[m]
    BY <2>2, <2>3 DEF Spend, TableOf
  <2>5. ASSUME NEW m \in Live'
        PROVE  m \in Live /\ levels'[m].numElements = levels[m].numElements
    <3>1. m \in Levels(config) /\ levels'[m] # NoTable
      BY <2>1 DEF Live
    <3>2. m # l => m \in Live
      BY <2>4, <3>1 DEF Live
    <3>3. QED
      BY <2>1, <2>4, <3>1, <3>2
  <2>6. QED
    BY <2>1, <2>5 DEF TablesFull
<1>6. ASSUME NEW l \in Levels(config), SkipLevel(l)
      PROVE  TablesFull'
  BY <1>1, <1>6 DEF SkipLevel, store
<1>7. CASE WriteBack
  BY <1>1, <1>7 DEF WriteBack
<1>8. CASE Return
  BY <1>1, <1>8 DEF Return, store
<1>9. ASSUME NEW c \in Configs, GrowNaturally(c) \/ GrowOnDemand(c)
      PROVE  TablesFull'
  BY <1>9, GrowthFills
<1>10. CASE UNCHANGED vars
  BY <1>1, <1>10 DEF vars, store
<1>11. QED
  BY <1>2, <1>3, <1>4, <1>5, <1>6, <1>7, <1>8, <1>9, <1>10 DEF Next, Access

(* Every table was built within the bounds that are asserted of it.        *)
LEMMA BuildsAllSucceeded ==
  ASSUME IInv, Budgets, TablesFull
  PROVE  BuildsSucceeded
<1> SUFFICES ASSUME NEW l \in Live
             PROVE  /\ l = Bottom(config) \/ baseB[l] < AmpFactor(config)
                    /\ config.stashSize <= levels[l].numElements
                    /\ \A bounds \in ChtBounds :
                         levels[l].numElements + NumDummies(config, l)
                           <= ChtFullTableLength(config, bounds, l, baseB[l])
  BY DEF BuildsSucceeded
<1>1. config \in Configs /\ l \in Levels(config)
  BY StoreTypes DEF IInv, Sound, TypeOK
<1>2. levels[l].numElements = NumElementsAt(config, l, baseB[l])
  BY DEF TablesFull
<1>3. baseB[l] \in Nat \ {0}
  <2>1. baseB[l] \in Nat
    BY <1>1, StoreTypes DEF IInv, Sound, TypeOK
  <2>2. baseB[l] # 0
    BY <1>1 DEF Budgets, IInv, Sound, BottomCounted, Live
  <2>3. QED
    BY <2>1, <2>2
<1>4. l = Bottom(config) \/ baseB[l] < AmpFactor(config)
  BY <1>1 DEF Budgets
<1>5. ASSUME NEW bounds \in ChtBounds
      PROVE  /\ config.stashSize <= levels[l].numElements
             /\ levels[l].numElements + NumDummies(config, l)
                  <= ChtFullTableLength(config, bounds, l, baseB[l])
  BY <1>1, <1>2, <1>3, <1>4, ColumnsSuffice
<1>6. ChtBounds # {}
  BY DEF ChtBounds
<1>7. QED
  BY <1>4, <1>5, <1>6

(* No assertion of the code about a query, a rebuild or a growth fails:    *)
(* the cache has room (speed_cache.rs:216), dummies suffice                *)
(* (ohtable.rs:304), no slot is touched twice (ohtable.rs:278), tables are *)
(* collapsed when they are spent (ohtable.rs:385), the next table gets as  *)
(* many entries as it has room for (lib.rs:805), the bottom keeps an entry *)
(* for every address (lib.rs:1035), and a cuckoo table has a slot for every*)
(* entry and every dummy (ohtable.rs:62).                                  *)
THEOREM NoAssertionFails == ASSUME DistinctBatches PROVE Spec => []AssertionsHold
<1>1. Spec => []IInv
  BY StoreInvariant
<1>2. Spec => []Budgets
  BY BudgetsAlways
<1>3. Init => FlightFits /\ TablesFull
  BY InitFull DEF Init, NoCall, FlightFits
<1>4. IInv /\ Budgets /\ FlightFits /\ TablesFull /\ [Next]_vars
        => FlightFits' /\ TablesFull'
  BY FlightFitsNext, FullNext
<1>5. IInv /\ Budgets /\ FlightFits /\ TablesFull => AssertionsHold
  BY QueriesAllSucceed, RebuildsAllSucceed, BuildsAllSucceeded
     DEF AssertionsHold
<1>6. QED
  BY <1>1, <1>2, <1>3, <1>4, <1>5, PTL DEF Spec
=============================================================================
