# GigaDORAM: models and proofs

TLA+ models of `gigadoram-rs`, a hierarchical distributed oblivious RAM for three
parties: what the code promises, how the hierarchy keeps the promise, how three parties
work the tables, caches, shuffles and sorts below it, and why the many assertions never
fail. Model-checked with TLC; the hierarchy, its rebuild schedule, the hash table of three
parties and the oblivious sort are also proved with TLAPS. For every configuration the
DORAM is a memory, keeps one copy of every address, shows no tag twice and fails no
assertion; for every size, stash and sequence of calls three parties and their messages
make one oblivious table; for every length and number of columns they sort stably,
whatever the order of their messages. Paths below are relative to `src/crates/`.

## The system

| component | state | operations | what makes it correct |
| --- | --- | --- | --- |
| **Configuration** `doram/src/lib.rs` `GigaDoramConfig` | logarithms of address space, cache and amplification; levels; stash size | `with_*`, `validate` | the sizes of all levels add up: what is collapsed fits its target |
| **GigaDoram** `doram/src/lib.rs` | speed cache, one optional table per level, `base_b_state_vec`, packed round keys, `had_initial_bottom_level` | `read`, `write`, `batch_*`, `grow_naturally`, `grow_on_demand`; inside: `rebuild`, bottom cleanse | behaves as a memory; one live copy per address; every table is rebuilt exactly when its dummies are spent; no tag is revealed twice |
| **SpeedCache** `data-structures/src/speed_cache.rs` | `num_stored` shared (address, record) pairs | `query`, `query_many`, `write`, `skip`, `extract` | a match is returned once and blinded |
| **OhTable** `data-structures/src/ohtable.rs` | builder and receiver orders, dummy indices, stash, `touched`, `query_count` | `new`/`build`, `query(_many)`, `extract(_untouched)` | every query touches one fresh slot; the untouched slots are the entries never returned |
| **Cuckoo hash table** `data-structures/src/cht.rs`, `circuits/src/cht_lookup.rs` | two columns and a stash | `build`, `lookup` | every entry is in one of its two cells or stashed; a lookup on shares finds it |
| **Records** `primitives/src/value.rs`, `bigintshare.rs`, `cast.rs` | a shared value and its alibi byte | to and from blocks, masks, alibi bits | a value comes out of the blocks as it went in; alibi bits are public when set |
| **Permutations, array shuffle** `primitives/src/permutation.rs`, `array_shuffle.rs` | local permutations per pair of parties | sampling, `forward` | parties that share a permutation draw the same one; the result is a reordering |
| **Oblivious sort** `circuits/src/oblivious_sort.rs` | none | `sort` by one bit | dummies end up behind real entries |
| **Sharing primitives** `primitives/src/types.rs`, `utils.rs` | shares | promote, reshare 3 to 2 and back, input, reveal, compare, select | what is opened is what was shared |
| **Circuits, LowMC** `circuits/src` | none | relabel dummies, match-and-select, the PRF in three layouts | a function of the shared values; the layouts agree |
| **Communication timer** `primitives/src/timed_network.rs` | accumulated time | start, stop | – |
| **Benchmark driver** `doram/src/bin` | – | a workload of queries | – |

`GigaDoram` owns the cache and the tables. An access queries the cache, then every live
table from the top; each step passes on the accumulated value, a `found` bit and the
alibi bits that choose between the item's own tag and a random one. The result, or the
value written, becomes a new cache entry. When the cache is full it is collapsed, with
all full levels above the first that still has room, into a new table there; the entries
the new table's cuckoo table cannot place are its stash and start the next cache, each
marked with the level that stashed it (its *alibi*). All three parties run the same
program in lockstep on shares of the same values, and exchange messages in each phase.

**What is hard.** Histories: a budget that is off by one shows only after a level has
been rebuilt and collapsed several times. Relations kept by distant code: base-b counters and
live levels, alibis and stashes, cached keys and tables, dummy labels and the address
space they must stay out of, which moves when the DORAM grows. Calls cut in the
middle: a batch is split wherever the cache runs full. Below the hierarchy: three
parties in different roles whose sends and receives must match. Nothing is persisted,
and no party runs threads of its own, so crash recovery and shared memory races do
not occur; but a network phase may return an error in the middle of a call, and the DORAM
can be used again after it. `PROJECT.json` lists the hazards line by line with the properties that
cover them.

## Modules

| module | models | kind |
| --- | --- | --- |
| `DoramConfig` | sizes, budgets, rebuild target of a configuration | operators |
| `DoramConfigProofs` | what the sizes of a valid configuration satisfy | proofs |
| `RebuildSchedule` | counters, fill level and query counts; the abstract schedule | specification |
| `RebuildScheduleProofs` | its inductive invariant and the theorems | proofs |
| `Ram` | what a caller may rely on: a memory that serves calls in order and can double | abstract specification |
| `GigaDoram` | the hierarchy with its entries, in the phases of an access | specification |
| `GigaDoramProperties` | its invariants; the refinements to `Ram` and `RebuildSchedule` | properties |
| `GigaDoramProofs` | what the operators that collect, relabel and build keep of the entries; the inductive invariant of the hierarchy and what follows from it | proofs |
| `GigaDoramRefinementProofs` | `GigaDoram` implements `Ram` and `RebuildSchedule`, with failing phases `LossyRam`, and stays sound; no assertion of the hierarchy fails | proofs |
| `LossyRam` | what is left of `Ram` when phases may fail | abstract specification |
| `GigaDoramFailures` | `GigaDoram` with failing phases; the refinement to `LossyRam` | specification |
| `Rep3` | replicated XOR shares: promote, reveal, three to two and back, local parts of AND | operators |
| `LocalPermutation` | permutations as Fisher-Yates choices | operators |
| `RecordValues` | field values as limbs and blocks | operators |
| `LowMC` | the cipher on shares in its three layouts | operators |
| `SpeedCacheRounds` | three parties query a cache in the rounds of the cipher | specification |
| `Calls` | how many queries a sequence of calls makes | operators |
| `ObliviousTable` | what a table promises to its level | abstract specification |
| `OhTable` | the three parties of a table and their messages | specification |
| `OhTableProperties` | their agreement; the refinement to `ObliviousTable` | properties |
| `OhTableProofs` | their inductive invariant, and that they implement `ObliviousTable` | proofs |
| `Cht` | the builder's cuckoo hash table, and what lookups find in it | specification |
| `ChtLookup` | a lookup on the three parties' shares | operators |
| `ChtProofs` | cells are claimed once, the stash is smallest, lookups find what was placed | proofs |
| `ArrayShuffle` | three parties shuffle shared arrays | specification |
| `ArrayShuffleProperties` | what its callers rely on | properties |
| `ArrayShuffleProofs` | streams stay aligned, each step permutes, places are found again | proofs |
| `ObliviousSort` | three parties sort shared rows by a bit | specification |
| `ObliviousSortProofs` | they sort stably, open only shuffled places and leave streams aligned | proofs |
| `MC...` | instances for TLC | model checking |

### `DoramConfig` and `RebuildSchedule`

`DoramConfig` is shared: a configuration is a record, and `NumDummies`, `NumElementsAt`,
`RebuildTo`, `BaseBAfterRebuild` are the functions of the code with the same meaning.
`RebuildSchedule` keeps only `config`, `numStored`, `baseB` (`base_b_state_vec`) and
`queryCount` (one number per live table), and its actions are `Access(k)` (a chunk of k
queries), `Rebuild`, `GrowNaturally`, `GrowOnDemand`. One history variable, `age`,
counts the accesses since a level was last built or collapsed. The assertions of the
code about budgets are *not* guards here: that they hold is what `BudgetCovers` and
`ExtractedSpent` say. The same holds for the length of the cuckoo tables
(`LogSingleColLen`, from `new_ohtable_of_level`, with `cht_bounds` as a parameter), which
`OHTableParams::validate` asserts to be enough: `TablesFit`.

### `GigaDoram`

State: the cache is the sequence of its stored entries `[x, y, alibi]`; a table is a
record with the untouched real and relabelled entries, the number of untouched table
dummies, `queryCount`, a key, and, as history, the addresses whose tag was revealed;
`packedQueryKey` and `packedBatchQueryKeys` are the cached round keys. A call in
progress is `pc`, `remaining` (operations not started), `flight` (the queries of the
current chunk: value, alibi and found bit accumulated so far) and `nextLevel`.

| action | code |
| --- | --- |
| `StartCall` | `read`, `write`, `batch_read`, `batch_write`, `batch_access` entered; an empty batch is refused |
| `Rebuild` | `rebuild`, with the extraction, the cleanse or relabelling, `delete_level`, `new_ohtable_of_level`, `insert_stash` |
| `QueryCache` | the round keys and tags of a chunk, and the query of the speed cache |
| `QueryLevel(l)`, `SkipLevel(l)` | one turn of the loop over the levels |
| `WriteBack` | outputs and fresh cache entries |
| `Return` | the call returns |
| `GrowNaturally`, `GrowOnDemand` | the two ways to grow, with `finish_grow` |

Abstractions, and why they lose nothing the properties need:

* *Shares are the values they stand for.* All parties hold shares of the same values
  and take the same branches of this layer (every condition in it is public). The
  messages of the layers below are in the modules below.
* *Values are sets of bits,* so XOR is symmetric difference; one bit tells a written
  value from the default and shows a value XORed in twice.
* *Tags are a key and an address.* A query fits a table if it was made with the
  table's key. A random tag misses: the PRF's collisions are not modelled.
* *Which entries are stashed* depends on the random tags and is a free choice
  (`StashesOf`), as is the order inside a table, which no one observes.
* *Assertions and `ensure!`s are guards.* If one could fail the call would have no
  next step; the passing runs check for deadlock. `AssertionsHold` says it for each guard
  by name, and of what is asserted of a table when it is built; it is proved. Network
  errors are in `GigaDoramFailures`.

Dummies keep their left-over values, as in the code: a value must not come back when a
dummy's label becomes an address.

### `GigaDoramFailures` and `LossyRam`

An error in a network phase leaves `batch_access` through `?`, wherever it is, and keeps
what has been assigned so far. `FailQueryCache`: round keys are packed, nothing else has
happened. `FailQueryLevel(l)`: the cache entry found is blinded, the tables above are
queried, nothing is written back. `FailRebuild`: the cache has been replaced
(`doram/src/lib.rs:757`), tables and counters have not. A failing growth has assigned
nothing and is a stutter; a failing table build is an `expect` and a panic. The caller
may go on, so `GigaDoram`'s `Next` follows.

`LossyRam` says what the caller gets: the call ends without results, and addresses of the
failed access, or those the cache held for a failed rebuild, may have fallen back to the
default value; no other address changes, and none takes an older or mixed value. After an
error the DORAM is thus a memory that may have lost entries without telling.
`BottomBuiltWhole`: when an initialised DORAM has lost one, the cleanse (`ensure!` at
`doram/src/lib.rs:1035`) refuses every later rebuild of the bottom, so it is never built
with an address missing.

After an error the touched assertion (`ohtable.rs:368`) or a budget assertion can stop
the parties, since a level may be asked for what it has returned already:
`SlotsUntouched` is a guard, `touched` the history it needs, and the run allows the
system to stop. The three parties are taken to see the same phase fail; messages left
over from it are not modelled, and `NoTagRevealedTwice` is claimed only without errors.

### `OhTable` and `ObliviousTable`

Each party has a script, the sends and blocking receives of the operation it is in, and
works it off at its own pace (`Send`, `Receive`); channels keep their order. `Request`
is the callers' query, the same at all three; `StartQuery` and `Touch` are the two ends
of `query_many`, `FinishBuild` the end of `place_stash`. The builder is party 0
(`BUILDER_ID`). Rows are numbered, dummies behind the entries; `builderOrder` and
`receiverShuffle` are the two shuffles, drawn from sets an instance names, and `stashed`
is any choice of entries.

A message that carries a share stands for the value it lets its receiver reconstruct,
and a message without one has no body; messages inside `and_vec`, LowMC, `y2b` and
garbling, which belong to the external backend, are left out: they make the parties wait
for each other more often, never less. The receivers' bookkeeping is the code's: slots
of receiver order from slots of builder order, `touched`, `query_count`, dummy indices.

`ObliviousTable` has only the rows left, the queries served and their answers; it says
that a query for an entry that is not stashed returns it, once, that a miss uses up a
dummy of its own, and that there are as many queries as dummies. A call of `OhTable`
counts as served when the last party has finished it.

### `Cht`

`cht.rs` literally, one action per iteration of its loops: a vertex is skipped
(`SkipVertex`) or starts a component (`StartComponent`), the explicit stack is popped (`Pop`), the
edges of the vertex are looked at in their order and grow the tree, become the extra
edge, are stashed or were seen before (`GrowTree`, `KeepExtra`, `StashEdge`, `PassEdge`).
`EndSearch` is the end of the inner loop; the path above the extra edge is turned around one
edge at a time (`TurnEdge`, `EndComponent`). Then comes the placement with the stash topped
up (`Place`), or the panic (`Overflow`). Which cells a tag hashes to is the input.

`ChtLookup` is a lookup on shares, from `lookup_from_2shares` down to the circuit: the
receivers' halves of the two cells and the tag become replicated shares (`From2Shares`),
tags and indices of neighbouring blocks are packed into three words
(`PackTagAndIndex`), the garblers enter the components for the evaluator
(`GarblerInput`), the circuit compares and selects, and the index is revealed to the
receivers while the found bit stays shared. Blocks are sets of bits; garbled labels and
`y2b` are external, a circuit being what its gates compute. `Cht` looks every entry up in
every table it builds, with the builder's indices and a tag's lower bits arbitrary.

### `Rep3`, `LocalPermutation`, `ArrayShuffle`, `ObliviousSort`

`ArrayShuffle` has the arrays of shares of all three parties, the streams each pair of
neighbours draws from with everybody's position in them, and the permutations. A step of
the shuffle is `BeginStep`, up to the message, and `EndStep`; `New` samples the
permutations. `SampleIndices` draws again, as the code does, while either of a party's two
elements is above the zone; in `shuffle` no element is, in `sampling` the first may be.
`ObliviousSort` follows the protocol's roles, one action for each stretch of a party
between two receives. Left out: a `shuffle_many` of inverse arrays alone, which nothing
calls; and the multiplication inside `gen_bit_perm` with `bit_inject`, arithmetic of the
backend, so that the sort starts from shares of the places. Places are counted modulo a
`Ring` of 4 elements instead of 2^32; `random_perm` may be any permutation.

### `LowMC`, `RecordValues`, `SpeedCacheRounds`

`LowMC` has the cipher on shares. The linear layer is the code's: sums over the subsets
of a window in Gray code order (`Subsums`), precomputed per window for blocks
(`LinearTables`, `LinearLayer`), or formed of wires (`LinearWires`). Wires are sets of
bit and lane; `LinearLanes` is `four_russians_into`, which turns the lanes in use into
blocks and back. `SboxLocal` is `packed_u64`'s S-box by shifts, `PackedRound` and `SlicedRound` the rounds of the two layouts without a cache. `M4R_MASKS`, the round
constants and the sizes are constants of the module: any values will do, and none of the
2232 lines of `parameters.rs` matters to whether three layouts agree.

`RecordValues` has a field value as limbs: two limbs make a block, `AllOnes` is
`bit_to_mask`, `SampledBits` what a random mask of a value covers. The components of a
share that has come out of blocks have bits above the modulus, as in the code; the
instance gives every cached value such bits. Ring values (`impl_ring_value`) are the case
of one block that the value does not fill, as the alibi byte is.

In `SpeedCacheRounds` each round of a party is `SendRound`, in which it computes its part
of a batch of AND gates, and `EndRound`; `Answer` is what `query_many` does when the
selection is there. Gates of the cipher and of the comparison lie in one batch and are
taken apart by position. Lanes are filled query by query, one per live level, into groups
of a byte; the last group may be partly used, and its unused lanes go through the S-boxes
with the others. The selection has addresses, value blocks and alibis, each in its own
type; without a live level the rounds are those of `is_zero_many` and `cmux_many_custom`,
with their other pairing of the chunks and other masks. Alibi bits are set on shares by
`SetAlibiBit` (`Rep3`), and `UseDummy` is the bit the next table is given. Masks are a
fixed function of party, round and gate.

`GigaDoram` uses what these modules show: that a table answers as `ObliviousTable`, that
a query of the cache returns what it holds and blinds it, that the sort is stable, that a
query's tag is the entry's. The link is by statement; no module instantiates `OhTable` inside `GigaDoram`, where the two
state spaces would multiply.

## Runs

| run | instance | shows |
| --- | --- | --- |
| `schedule` | twelve configurations, amplification 1 to 8 | budgets, counters, column lengths, the inductive invariant |
| `levels` | 3 levels, cache 2, stash 1, and 2 levels, cache 4, stash 2; 8 addresses, users of 2; singles write one address and read the other, batches of 2 the other way round | a memory through rebuilds into every level; single copy, alibis, labels and slots of tables, cached keys, tags; the inductive invariant of the proofs |
| `split` | 3 levels, cache 2, batches of 3, 3 addresses used | calls cut by rebuilds: the schedule, assertions, every call returns |
| `growth` | from 4 to 8 addresses, cache 2 to 4; addresses 0 and 4 used: both read, 0 written | growth keeps contents and adds defaults; types |
| `failures` | 2 levels, cache 2, stash 1, 4 addresses; users of 2; singles and batches of 2; at most 2 errors | what errors may lose, that the store stays sound, and that the bottom is whole |
| `repeated` | 2 levels, cache 4, batches that repeat an address | the first finding below |
| `rounds` | caches of 0 to 3 entries, 1 to 3 queries, 0 to 3 live levels, addresses of 16 bits, groups of 4 lanes, values of 5 bits in 2 blocks | tags in three layouts, answers and blinding, whether the rounds are shared or not |
| `table` | 3 entries, 3 dummies, stash 1, single queries and batches of 2 | messages match, parties agree, `ObliviousTable` holds, calls finish |
| `cuckoo` | every input of 2 to 6 entries, columns of 2 cells, stash 2; tags and indices of 3 bits | cells, lookups on shares, smallest possible stash |
| `shuffle` | every triple of permutations of 3, with and without inverse | streams aligned, result, inverse, permutations known to two |
| `sampling` | streams whose first element may be above the zone | the second finding below |
| `sort` | every 3 bits, 2 columns, every triple of permutations of 3 | streams aligned, stable, places opened only shuffled |

All except `repeated` and `sampling` pass, and all passing ones except `failures` check
that there is no deadlock. Most take seconds, those of `GigaDoram` and `table` a minute
or two (`levels`, the largest, has 575 000 states).

**Bounds.** Nothing in the models grows without bound: keys are reused as soon as no
live table holds them, tags are remembered per table, so the state spaces are finite
and explored to the end; histories are of any length. What is bounded is the shape: the configurations, the addresses callers
use (`Users`), the operations per batch (`MaxBatch`), the values (`Bits`), and the errors
of a behaviour (`MaxFailures`: two, so that one can meet what another has lost). Three levels and amplification 2 are the
smallest shape in which a middle level is collapsed, kept, and rebuilt in place;
`RebuildSchedule` covers larger counters. Two levels with a cache of four give chunks
of more than one query, which a cache of two does not. Address 4 in `growth` is the
first dummy label of the smaller address space. Addresses no caller uses still fill
the tables and matter only as such: `UserStash` therefore picks, up to renaming, every
stash. In `levels` and `split` a batch lists its addresses in increasing order. In `levels` a
call's shape says what it reads and writes: address 0 is written alone and read in a
batch, address 1 the other way round, so that each kind of call meets what the other has
left. The proofs are about any calls.

`table` is finite because the budget is: three dummies let a batch of two follow a
single query, and the other way round, and two dummies meet in a batch. Two orders of
the rows, with dummies in front of and between the entries, and a shuffle without fixed
points keep slots of the two orders apart. Two columns of two cells with six entries
contain every shape of component the builder tells apart: trees, a cycle of two parallel
edges, a cycle of four with the path to the root turned, and excess edges in either.
`shuffle` and `sort` try all permutations of three elements, the smallest length with a
permutation other than its inverse, for every pair of parties independently. In `rounds` three entries
and three queries put more than one entry and query into every batch of gates, and up to
nine lanes into groups of four, so that queries share groups, the levels of one query fall into
two, and the last is partly used; two S-boxes leave ten bits of the block untouched; four bits
to a byte make two rounds of shifts within a byte, by different distances, and queries differ
from an entry in a single bit that only the first of them, only the second, or only another
chunk brings into the comparison; five bits in
three limbs of two leave part of a limb and of a block unused; an entry already at the sentinel, an entry under a dummy's label beside the one
whose address it extends, and queries that match nothing are among them. In
`cuckoo`, words of three bits of tag and three of index show every component that is
dropped or misplaced, and two choices of randomness, different for each party and word,
one that does not cancel out.

**Fairness.** `FairSpec` says that a call under way goes on (`CallsRunOn`, weak
fairness of the steps of an access): the program is sequential, and each of its network
phases completes when the three parties run it. No caller has to make a call, and
nobody has to grow. `split` then shows that the loop of `batch_access` ends.
`OhTable`'s says that a party that can take a step takes it (weak fairness of `Step(p)` for
each party); receives block, so this is no more than that no party stops. Callers
need not query (`Request` has no fairness, and `Spent` stands for callers that
collapse the table). `CallsFinish` therefore finds parties that wait for each other, which the
deadlock check would not while callers can still ask.

**What the properties say.** `IsMemory`: the outputs of a call are the values last written,
each operation atomic at its chunk's write-back, and rebuilds and growth invisible.
`KeepsSchedule`: `GigaDoram` implements `RebuildSchedule`, so the theorems about
budgets hold of it. `AssertionsHold`: a chunk finds room in the cache and dummies in every
table, and touches no slot twice; the tables a rebuild collapses are spent; what is
collected is as much as the next table is made for, with no address of an initialised
DORAM missing; and it fits the cuckoo table. `OneLiveCopy`, `TablesConsistent`, `CachedKeysCurrent`,
`AlibisHold` are the invariants behind these; `NoTagRevealedTwice` is the obliviousness
condition on what receivers see, as a step property.

`IsTable`: the three parties of a table are together an `ObliviousTable`. `SlotsFresh`
is the code's own assertion, at every party; `PartiesAgree` says that three sets of
bookkeeping, fed by different messages, describe one table; `MessagesMeant`,
`NothingLeftOver` and `CallsFinish` that the three branches of every protocol step fit
together. `TagsUndisturbed`, `QueriesAnswered` and `MatchedBlinded` say that sharing
rounds changes neither cipher nor cache, and that the tag of a query is the one
`packed_u64` stored the entry under. `IsLossyMemory`, `BottomBuiltWhole` and `Sound` (no
address twice, alibis true, slots accounted for, whatever has failed before) bound what an
error can do. `CellsClaimedOnce` and `LookupsAnswer` are the
table's correctness up to the shares its queries return, `StashMinimal` its quality: no placement of the entries stashes
fewer. `StreamsAligned` is what every later use of the common random streams rests on,
in the shuffle and in the sort; `ShuffledBySteps`, `InverseTellsPlaces` and `KnownToTwo`
are what `OhTable` assumes of its orders; `SortedStably` is what the cleanse assumes,
and `OpenedShuffled` that the opened places are in an order no party knows alone.

**Variants.** Definitions marked *faulty variant* are plausible mistakes in the code
(a counter never reset, a stale key cache, a missing relabelling, ...). Substituted for
the definition they precede, each makes TLC refute a property of a run:
`PROJECT.json` pairs them.

## Findings

`batch_access` does not require the addresses of a batch to differ. If two operations
name the same address, both find the state before the batch and both leave a live entry
(`doram/src/lib.rs:481`): the cache then breaks the invariant the integration tests
assert after every operation, "There are no duplicate live real addresses"
(`doram/tests/gigadoram.rs:745`), and a later read XORs the two values. If the address
is in a table both queries hit one slot and `ohtable.rs:368` panics. The benchmark
driver never builds such a batch, and no document rules it out. Run `repeated`.

`sample_indices` (`primitives/src/array_shuffle.rs:194`) draws from both of a party's
streams again when either element is above the zone. Each neighbour has only one of the
streams in common with it and may have accepted: from then on the two are at different
positions of a common stream, and the permutations and masks they take from it differ,
although `next_shared_perm` of one should be `prev_shared_perm` of the other
(`array_shuffle.rs:14`). Elements have 128 bits, so one draw is rejected with a
probability of about the bound over 2^128, less than 2^-96: a fault of principle. Run
`sampling`, with elements of three bits.

## Proofs

Every theorem is about every value of the constants that the assumptions admit: any set of
valid configurations, of any sizes, and any calls; histories are of any length.

### What is assumed

* `ConfigsValid`: what `validate` asserts. `NoLevelAssumption`, `NoTableAssumption`: the
  value for "no table" is not a number and not a table. `CallsAssumption`: a call is a
  sequence of operations, a single one has length one. `InitialYsAssumption`: initial
  contents are values.
* `PowerLaws`, `PowersOfTwo`: powers of two are positive, `a ^ (l + 1) = a * a ^ l`, and
  the same for base two within the exponents a configuration uses. These are facts of
  arithmetic which the provers do not know; TLC evaluates them, as all assumptions, for
  the configurations of the runs. `PowerSum` derives from them that exponents add up.
* `LengthAssumption`, `RingAssumption`, `InputsAssumption` (`ObliviousSort`): there are
  rows (`chunks_exact` panics on a length of zero), finitely many columns, fewer rows than the ring
  has elements, flags are bits, and the masks of places are elements of the ring.
* `SizesAssumption`, `OrdersAssumption` (`OhTable`): sizes are numbers, there are entries
  enough to stash, a miss is not a row, and the orders are bijections of rows and slots (what
  a shuffle gives, whichever it is).
* `InputsAssumption`, `StatesAssumption`, `RandsAssumption`, `NumbersAssumption` (`Cht`): there are
  cells, an entry has a cell in either column, at least as many entries as stash places, the
  states that are not vertices are told apart from numbers and each other; words have as many bits as a tag
  and an index; and an entry's number, which stands for its tag, fits a tag and an index
  in binary, which no two numbers share. The last is again arithmetic that the provers do not know.
* `StreamsAssumption`, `SecretsAssumption`, `NoneAssumption` (`ArrayShuffle`): streams are
  numbers, enough of them for the choices, arrays have the given length, and "none" is not
  a party nor a pair of permutations.
* `NoneRejected`: no stream has an element above the zone among those the choices are taken
  from. It is a hypothesis of the theorems about `ArrayShuffle`, and what holds of real
  streams but for a probability of less than 2^-96 a draw; without it they are false, as the
  second finding shows.
* `DistinctBatches`: no batch names an address twice. It is a hypothesis of the theorems
  about `GigaDoram`, not an assumption of the module; without it they are false, as the
  first finding shows.

### The schedule (`DoramConfigProofs`, `RebuildScheduleProofs`)

`Spec` implies `IInv`, `TypeOK`, `BudgetCovers`, `ExtractedSpent`, `LiveIffCounted` and
`TablesFit` always.

* *The invariant.* `BudgetCovers` and `ExtractedSpent` are not inductive: after a rebuild they depend on how
  old the levels below are. `Ages` says it for all levels, empty ones included: level 0
  is as old as the cache is filled beyond its stash, and level l + 1 is older than level
  l by one full budget of l per rebuild l's counter counts. A live table's query count
  is its age.
* *The argument.* An access adds k to the cache and to all ages. At a rebuild the
  cache is full, all counters above the target are at their maximum; by
  `TargetSpent` (by natural-number minimality on levels) the ages of these levels are
  exactly their budgets, so the tables collapsed are spent, and the target's age plus
  the new budget re-establishes the sum.
  `AgePlusFreeFits` is the same sum for an arbitrary level, and gives `BudgetCovers`.
* *Column lengths.* `TablesAlwaysFit` needs no more of the history than that counters stay
  below the amplification. `Ilog2Facts`: the logarithm of n is below K if n is below 2^K, and
  twice its power exceeds n; `LevelSize` writes what a level holds per counter value as
  one power of two; `ColumnsSuffice` joins them: for a counter s the two columns have more
  cells than twice floor(1.2 s) (or 2 s) such powers, and the entries and dummies need no more than s + 1 of them.

### The store (`GigaDoramProofs`)

`StoreInvariant`: `Spec` implies `IInv` always, and with it `TypeOK`, `CachedKeysCurrent`,
`TablesConsistent`, `AlibisHold`, `OneLiveCopy`, and the action property
`NoTagRevealedTwice`.

* *The invariant.* `IInv` is `Sound`, what holds even after errors (below), with `AllHeld` and
  `SeenMeansAbove`, which errors break. `OneLiveCopy` counts copies; to be kept by a query it must be known
  where the copy is not while the query is under way. `QueriedApart` says so: a query has
  taken its entry out of the cache, or of the tables it has passed, and a query that has
  not found it carries nothing. `StoredOnce` is the rest of the copies, `AllHeld` that none is
  lost from an initialised DORAM. `AlibisHold` is about the state between
  calls; `AlibisGood` says it of queries for the levels they have still to pass.
  `NoTagRevealedTwice` needs to know where an address is whose tag a level has shown:
  `SeenMeansAbove`, in the cache without that alibi, in a table above, or with a query
  that passes the level under a random tag. `TagsFit`, `TablesTidy`, `SlotsCounted`,
  `BottomCounted` and `CallPhases` make the steps possible: keys fit tables, no table has
  two entries of one label, the dummies left cover the budget left.
* *A query* (`QueryCacheKeeps`, `QueryLevelKeeps`, `WriteBackKeeps`). At most one entry of
  the cache or of a table matches (`AtMostOne`), so the XOR over the matches is that entry
  (`XorOfOne`), and the alibis it adds are its own.
* *A rebuild or a growth.* One chain of lemmas follows the entries through the code's
  operators, each with a statement of what it keeps: `Carries` (a sequence holds the real
  entries of a set, each once, and otherwise dummies: `CarriesConcat`, `CarriesPadded`,
  `CarriesCleared`, ...), `Bared` (without alibis), `Labelled` (no label twice, dummies
  included), `Shared` (between a new table and the stash in the cache; the initial bottom
  level is shared so too).
  `RestoredKeeps` shows that a store that shares all that was stored in this way is a
  good one; a rebuild (`RebuildKeeps`) and both growths (`GrowKeeps`) use it alike. Which
  entries are stashed, and in what order, is arbitrary.

### The memory (`GigaDoramRefinementProofs`)

`DoramIsMemory`: `Spec` implies `IsMemory`, that is `Ram` under the mapping in
`GigaDoramProperties`. `ValueAt` chooses a copy; with `IInv` there is one, so it is
determined by `Holds` (`HeldValue`), and a step that keeps what holds keeps the memory
(`ValuesKept`). Every step but `WriteBack`, the calls' start and return and a growth is a
stutter: a query carries the value it took, and a rebuild or a growth holds after it the
real entries it held before. `WriteBack` serves the chunk at once, which is
the operations performed one after another because they have different addresses
(`PerformApart`).

### Network errors (`GigaDoramRefinementProofs`)

`FailingSpec` implies `Sound` always, `IsLossyMemory` and `BottomBuiltWhole`: for any number
of errors, in any phases that can fail, and whatever calls follow.

* *The invariant.* `IInv` is not one any more: a lost entry is held nowhere (`AllHeld`), and
  an address whose tag a level has shown may be back in no place above it
  (`SeenMeansAbove`). Every lemma about a step therefore asks for `Sound` alone, and gives
  these two only to those who had them (`StillSound`). That the rest can be kept without them is
  the point: labels, alibis, slots and copies never rest on nothing having been lost.
  `FailureSound` adds the steps that fail. A chunk that failed is in no one's hands, and
  `FailRebuild` has emptied the cache, so nothing is twice; a table whose query failed has
  shown at most tags of that chunk, and no alibi is left for those.
* *The refinement.* Steps without an error are those of `Ram` under `Sound` (`NextIsMemory`),
  and `LossyRam` does them all (`StillMemory`). An error keeps what holds of every address but the ones
  at risk, and of these nothing holds after it (`CopiesLost`): no value comes back that was
  overwritten. At risk are the addresses of the chunk (`FlightPending`), or the cached ones
  (`FailureLoses`).
* *The bottom.* `CountedIsComplete` is a pigeonhole: as many real entries as addresses, with
  distinct labels that are addresses, are all of them. The count of the cleanse thus
  suffices without `AllHeld`, for a rebuild of the bottom (`RebuildBottom`) and both growths (`GrowBottom`);
  all other steps leave the bottom table or count further queries (`BottomUntouched`).

### The schedule kept, and the assertions (`GigaDoramRefinementProofs`)

`ScheduleKept`: `Spec` implies `KeepsSchedule`. A chunk is so many accesses when it is
written back (`CountedQueries` leaves out what tables above have served already), a level's age is what
the counters say (`LevelAges`, `AgesAdd`), and a rebuild or growth is the schedule's
(`RebuildAges`).

`NoAssertionFails`: `Spec` implies `AssertionsHold` always. The theorems about the
schedule hold of the DORAM through the refinement: `Kept` is `RebuildScheduleProofs` on its
state, and `BudgetsAlways` what it says there. With the budgets, every table
holds as many elements as its counter says (`TablesFull`), and so the lengths of what is
extracted, padded and joined add up to just the length of the next table
(`CollapsedLength`): the cache and the levels above the target, each with its counter at
the maximum, are together one width of the target. `AllCleansed` counts addresses: in an
initialised DORAM each is held once, so exactly 2^N real entries come out of the cleanse;
`FinalizedLength` is the other case, where at least as many entries are collected.
`TouchedApart`: two queries of a chunk that hit, hit different entries. `FlightFits`: the
chunk was cut to the free part of the cache, which no one has filled since.
`BuildsAllSucceeded`: the columns suffice for a table of that many elements.

### The table (`OhTableProofs`)

`Spec` implies `IInv`, `TypeOK`, `SlotsFresh`, `MessagesMeant`, `NothingLeftOver` and
`PartiesAgree` always, and `IsTable`: for every number of entries and dummies, every stash,
every two orders of the rows, batches of any size and every interleaving of the three.

* *The invariant.* `MessagesMeant` says what is at the head of a channel when a receive
  waits for it; to be kept by a step it must be known what is behind the head, and how
  far the others can be. `Scripts`: each party has the rest of its script of call n before it.
  `InOrder`: a channel from p to q holds as many messages as p's script has sent (`Sent`)
  less those q's has received (`Received`), and the i-th of them is the one that the
  sender's scripts put there as number `Received + i`, counted from the build on
  (`Before`), with its body. `Learned` and `Kept` are a party's books: slots it has
  been told, `touched`, `query_count` and answers as functions of the calls it has finished.
* *Scripts.* `BuildLine` and `QueryLine` write them out, `BuildScripts` and
  `QueryScripts` show that the code's composition of phases yields them. `StepFits` tells
  of each step what it does to the counts: that the k-th receive of a script is the one for
  the k-th send of the other is then arithmetic over 70 steps, done once (`ScriptsFit`).
* *Messages.* `HeadMeant`: the head of the channel is number `Received + 1`; the receive waits
  for just that number, and no other message of any call has it (`PlaceUnique`). Channels are
  enough to keep the parties together (`OneCallApart`): `NothingLeftOver`.
* *Slots.* `RowsDistinct`: two queries return different rows, because no entry is asked
  for twice and the dummies are counted by `Asked`; `StashRows`: none of them is stashed.
  Both orders are bijections, so the slots touched are distinct (`AboutDistinct`,
  `AboutFresh`), which is the code's assertion.
* *The refinement.* A call is served when the slowest party has finished it (`StepServes`:
  one at a time). `Mapped` says what the rows left, and the answers, are then; `QueryServed`
  is the abstract step, every other step is unseen (`Unserved`).

That an order is a bijection is what `StepsShuffle` and `PermutationsTyped` prove of the
shuffle. The
callers are assumed to keep their side (`Request`): which `GigaDoram` does, by
`OneLiveCopy`, `AlibisHold` and `AssertionsHold`.

### The shuffle (`ArrayShuffleProofs`)

If `NoneRejected`, `Spec` implies `IInv`, `StreamsAligned`, `ShuffledBySteps`,
`InverseTellsPlaces` and `KnownToTwo` always: for arrays of any length, any streams, any
first components, and however far one party runs ahead of another.

* *The invariant.* The properties speak of parties that have come equally far; in between a
  party's shares belong to another step than its neighbours'. But all the parties compute
  is determined by the components at first: `IInv` says there are `V` and `U`, the components
  after each step (`Computed`), such that every party holds its share of those after the
  steps it has ended, each at the place of the streams its number of steps gives (`PartyAt`), and
  a channel holds the components of the steps its receiver has not ended (`ChannelAt`).
* *The choices.* `SampledAtOnce`: no draw is repeated, so the i-th choice is the i-th element
  (`DrawnAtOnce`), and neighbours take the same from the stream they share.
* *Permutations.* Fisher-Yates choices exchange one pair after another. A run of exchanges on
  any array is the run on the indices, looked up (`RunIsAfter`), and the run in the opposite
  order leads back (`RunBack`): `Shuffle` and `InverseShuffle` are inverse to each other
  (`ShuffleUndone`).
* *A step.* `StepSends`: what `BeginStep` sends is the party's component after the step, also
  of the party that knows neither half. In the sum of the three the masks cancel and the
  pair's halves add up to the permuted array (`StepPermutes`).
* *The arrays.* `AfterIsSum` follows the forward array through the steps. The inverse array goes
  through the inverse permutations in the opposite order, so an element's index meets the
  same exchanges backwards.

### The sort (`ObliviousSortProofs`)

`Spec` implies `IInv`, `StreamsAligned`, `OpenedShuffled` and `SortedStably` always.

* *The invariant.* The parties choose nothing after the start, so `IInv` says outright what
  everything is when the three are at given labels: the positions drawn up to
  (`PositionOf`), each queue between two parties (`NetOf`), what was opened and kept
  (`OpenedOf`, `LocalOf`, `ResultOf`), and which labels occur together (`Labels`). The three
  properties are far from inductive: they speak of the end only, or of one variable.
* *The steps.* One lemma for each action and party. The message lemmas (`SendsRows0`,
  `SendsRand2`, `Exchanged1`, ...) evaluate what is sent from what has arrived, and
  `KeptFollows`, `PositionsDrawn` and `OthersStay` say that the other parties' parts stay.
* *The values.* `PlacesOpened`: the residues of the two masked halves add up to the place
  (`SumOfResidue`), which is below the ring. `XorCancels` and `RowsShuffled`: every mask is
  in the rows twice, or again in the new shares, so that these open to the shuffled row.
* *The order.* `PlaceIsRank`: what `gen_bit_perm` counts is one more than the number of rows
  that belong before, equal flags in their old order; `RanksDiffer`: no two rows have the
  same. As the permutations reach every index, each place has a row, and only one
  (`RowAtItsPlace`).

`BitPerm` is the value of the places; that the shares of them add up to it is where the
model starts. Secrecy is not stated: `OpenedShuffled` says which values are opened.

### The cuckoo table (`ChtProofs`)

`Spec` implies `IInv`, `CellsClaimedOnce`, `StashMinimal` and `LookupsAnswer` always: for columns
and stashes of any size, every input and any randomness of a lookup.

* *The invariant.* `CellsClaimedOnce` speaks of the times between components only; while one
  is searched, the extra edge points at a cell that a tree edge has too, and while its path is turned
  around there is always one cell with two claims, which moves towards the root.
  `ClaimsInv` says where it may be; `SearchInv` that in the component nothing but the
  tree's edges and the extra one point anywhere; `TurnInv` and `PointsDown` that above
  `away` the tree is not turned yet. The tree is one because of a rank (`RankInv`), which
  grows from parent to child. `EdgeInv` accounts for the edges not looked at: they hang on
  the stack or on the vertex popped last, so that a finished component has none.
* *The stash.* An edge is stashed only after an extra one was kept, so every cell of its
  component is taken in the end. `FullInv` keeps these cells: as many entries point into
  them as they are, and the stashed ones are on top. This set of entries is the witness of
  `StashMinimal`: no placement, by whatever algorithm, sets fewer aside.
* *The table.* `PlaceBuilds`: with one claim per cell nothing is overwritten, and the top-up
  (`CountFirst`: the first d members of a finite set are d) makes the stash exactly as
  large as it must be. `BuiltInvariant`: every other entry is in one of its two cells, and
  in no other place.
* *Lookups.* `TwoSharesJoin`: what the garblers enter between them for a word that two
  parties hold is the word, the streams cancel. Packing commutes with XOR (`PackedJoins`), so the
  circuit compares and selects what it should (`CircuitChooses`), and its output is
  opened at the receivers and stays shared at all (`ComputeReveals`). `CellParts`: a cell's
  tag is the one asked for only if the entry is there. So of the two comparisons one
  succeeds for a placed entry, none for a stashed one.

### What is only model-checked

The cache's rounds (`SpeedCacheRounds`), and liveness. Liveness (`CallsReturn`,
`CallsFinish`) and `ENABLED` are beyond the prover: the absence of deadlock is proved only
in the form of `AssertionsHold`, that each assertion's condition holds where the code
evaluates it. `SpeedCacheRounds` is dominated by operators on finite data and by folds
whose results need induction over the data, for which TLC's enumeration says more.

## Not modelled

* Garbling (labels, transfer of wires) and the sharing arithmetic of the external
  `mpc-core`: fixed functions without state. Circuits are taken for what they compute.
* The shares inside `gen_bit_perm` and `bit_inject`; the traces kept for tests.
* The values of `parameters.rs`: the matrices are parameters of `LowMC`, and no property
  depends on them.
* `primitives/src/timed_network.rs`: adds up wall-clock time; no behaviour depends on it.
* Networking (`mpc-net`) and benchmark driver: no state of their own that the
  behaviour of the DORAM depends on.
* Errors that only some parties see, and the messages such an error leaves in the
  channels: the code has no protocol for resynchronising.

## Plan

Done: the schedule, the hierarchy and its failures, the cache's rounds and the cipher's
layouts, the table with its cuckoo table and lookups, the shuffle, the sort; the proofs
of the schedule, of the hierarchy with and without errors, of the table, of the cuckoo table and its
lookups, of the shuffle and of the sort. Next:

1. `Rep3` as a component of its own: shares stay replicated and resharing keeps the value, as
   `ChtProofs` shows it for the words of a lookup and `ArrayShuffleProofs` for a step.
