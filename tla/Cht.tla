-------------------------------- MODULE Cht --------------------------------
(***************************************************************************)
(* The builder's cuckoo hash table (data-structures/src/cht.rs).  The      *)
(* cells of the two columns are vertices, the entries are edges between    *)
(* their two cells.  A depth first search orients every edge of a spanning *)
(* tree away from the root, so that it owns the cell it points at; one     *)
(* more edge per component fits by turning the path to the root around;    *)
(* the rest goes to the stash, which is topped up to its fixed size.       *)
(***************************************************************************)
EXTENDS ChtLookup

CONSTANTS
  Rands,       (* the randomness a lookup may run under, see ChtLookup     *)
  ColumnLen,   (* cells in a column, 2^log_single_col_len                  *)
  Inputs,      (* the inputs: sequences of entries [left, right], the      *)
               (* cells h0 and h1 of their tags                            *)
  StashSize,
  Unvisited, Stashed, None, Root   (* the StashStates that are not Vertex  *)

Vertices == 0 .. 2 * ColumnLen - 1

(* h0 is a cell of the left column, h1 one of the right.                   *)
Entry == [left: 0 .. ColumnLen - 1, right: ColumnLen .. 2 * ColumnLen - 1]

ASSUME InputsAssumption ==
  /\ ColumnLen \in Nat \ {0} /\ StashSize \in Nat
  /\ \A input \in Inputs : input \in Seq(Entry) /\ StashSize <= Len(input)

(* The bits of a word: a tag above an index.                               *)
Words == SUBSET (0 .. KeyTagBits + IndexBits - 1)

ASSUME RandsAssumption ==
  /\ KeyTagBits \in Nat /\ IndexBits \in Nat
  /\ \A rand \in Rands :
       /\ \A i \in 1 .. 3 : rand[i] \in [Parties -> Words]
       /\ rand[5] \subseteq 0 .. IndexBits - 1
       /\ rand[6] \in Words /\ rand[7] \in Words

(* An entry's number fits an index, and in binary it stands for a tag.     *)
ASSUME NumbersAssumption ==
  \A input \in Inputs : \A e \in DOMAIN input :
    /\ BitsOf(e - 1) \subseteq 0 .. IndexBits - 1
    /\ BitsOf(e) \subseteq 0 .. KeyTagBits - 1 /\ BitsOf(e) # {}
    /\ \A f \in DOMAIN input : BitsOf(e) = BitsOf(f) => e = f

ASSUME StatesAssumption ==
  /\ {Unvisited, Stashed, None, Root} \cap Nat = {}
  /\ Unvisited # Stashed /\ None # Root

VARIABLES
  input,         (* input_array                                            *)
  state,         (* of every edge                                          *)
  parentVertex,  (* of every vertex, in the search tree                    *)
  parentEdge,
  dfs,           (* the stack of the search                                *)
  component,     (* the vertices taken from it                             *)
  curr, todo,    (* curr_vertex and its edges still to look at             *)
  extraEdge,     (* the component's edge outside the tree that fits        *)
  away,          (* vertex_to_reorient_away_from                           *)
  start,         (* starting_vertex                                        *)
  pc,
  table,         (* the entry in each cell, None for an empty one          *)
  stash          (* the entries handed back                                *)

forest == <<parentVertex, parentEdge>>
walk == <<dfs, component, curr, todo>>
output == <<table, stash>>
vars == <<input, state, forest, walk, extraEdge, away, start, pc, output>>

Edges == DOMAIN input

Ends(e) == {input[e].left, input[e].right}

OtherEnd(e, v) == IF v = input[e].left THEN input[e].right ELSE input[e].left

(* edges[v]: they are pushed, and looked at, in the order of their numbers.*)
Incident(v) == {e \in Edges : v \in Ends(e)}

---------------------------------------------------------------------------
Init ==
  /\ input \in Inputs
  /\ state = [e \in Edges |-> Unvisited]
  /\ parentVertex = [v \in Vertices |-> None]
  /\ parentEdge = [v \in Vertices |-> None]
  /\ dfs = <<>> /\ component = {} /\ curr = 0 /\ todo = {}
  /\ extraEdge = None /\ away = 0
  /\ start = 0 /\ pc = "scan"
  /\ table = [v \in Vertices |-> None] /\ stash = {}

(* Faulty variant of StartComponent: the extra edge is not reset.          *)
StartKeepingExtra ==
  /\ pc = "scan" /\ start \in Vertices /\ parentVertex[start] = None
  /\ parentVertex' = [parentVertex EXCEPT ![start] = Root]
  /\ parentEdge' = [parentEdge EXCEPT ![start] = Root]
  /\ dfs' = <<start>> /\ component' = {}
  /\ pc' = "search"
  /\ UNCHANGED <<input, state, curr, todo, extraEdge, away, start, output>>

StartComponent ==
  /\ pc = "scan" /\ start \in Vertices /\ parentVertex[start] = None
  /\ extraEdge' = None
  /\ parentVertex' = [parentVertex EXCEPT ![start] = Root]
  /\ parentEdge' = [parentEdge EXCEPT ![start] = Root]
  /\ dfs' = <<start>> /\ component' = {}
  /\ pc' = "search"
  /\ UNCHANGED <<input, state, curr, todo, away, start, output>>

SkipVertex ==
  /\ pc = "scan" /\ start \in Vertices /\ parentVertex[start] # None
  /\ start' = start + 1
  /\ UNCHANGED <<input, state, forest, walk, extraEdge, away, pc, output>>

Pop ==
  /\ pc = "search" /\ todo = {} /\ dfs # <<>>
  /\ curr' = Last(dfs)
  /\ dfs' = Front(dfs)
  /\ component' = component \cup {Last(dfs)}
  /\ todo' = Incident(Last(dfs))
  /\ UNCHANGED <<input, state, forest, extraEdge, away, start, pc, output>>

(* The search looks at e, the next edge of curr.                           *)
Looks(e) ==
  /\ pc = "search"
  /\ e \in todo /\ \A f \in todo : e <= f
  /\ todo' = todo \ {e}
  /\ UNCHANGED <<input, component, curr, away, start, pc, output>>

PassEdge(e) ==
  /\ Looks(e) /\ state[e] # Unvisited
  /\ UNCHANGED <<state, forest, dfs, extraEdge>>

(* It leads to a new vertex: into the tree with it.                        *)
GrowTree(e) ==
  LET w == OtherEnd(e, curr)
  IN  /\ Looks(e) /\ state[e] = Unvisited /\ parentVertex[w] = None
      /\ parentVertex' = [parentVertex EXCEPT ![w] = curr]
      /\ parentEdge' = [parentEdge EXCEPT ![w] = e]
      /\ state' = [state EXCEPT ![e] = w]
      /\ dfs' = Append(dfs, w)
      /\ UNCHANGED extraEdge

KeepExtra(e) ==
  LET w == OtherEnd(e, curr)
  IN  /\ Looks(e) /\ state[e] = Unvisited /\ parentVertex[w] # None
      /\ extraEdge = None
      /\ extraEdge' = e
      /\ state' = [state EXCEPT ![e] = w]
      /\ UNCHANGED <<forest, dfs>>

StashEdge(e) ==
  /\ Looks(e) /\ state[e] = Unvisited /\ parentVertex[OtherEnd(e, curr)] # None
  /\ extraEdge # None
  /\ state' = [state EXCEPT ![e] = Stashed]
  /\ UNCHANGED <<forest, dfs, extraEdge>>

(* The stack is empty; the tree's path to the cell that the extra edge     *)
(* points at, if there is one, is turned around next.                      *)
EndSearch ==
  /\ pc = "search" /\ todo = {} /\ dfs = <<>>
  /\ \A v \in component : parentEdge[v] # None   (* asserted *)
  /\ IF extraEdge = None
     THEN pc' = "scan" /\ start' = start + 1 /\ UNCHANGED away
     ELSE pc' = "turn" /\ away' = state[extraEdge] /\ UNCHANGED start
  /\ UNCHANGED <<input, state, forest, walk, extraEdge, output>>

(* Faulty variant of AtRoot: the loop ends one edge short of the root.     *)
NearRoot ==
  parentVertex[away] = Root \/ parentVertex[parentVertex[away]] = Root

AtRoot == parentVertex[away] = Root

(* The edge between away and its parent is turned towards the root.        *)
TurnEdge ==
  /\ pc = "turn" /\ ~AtRoot
  /\ state' = [state EXCEPT ![parentEdge[away]] = parentVertex[away]]
  /\ away' = parentVertex[away]
  /\ UNCHANGED <<input, forest, walk, extraEdge, start, pc, output>>

EndComponent ==
  /\ pc = "turn" /\ AtRoot
  /\ pc' = "scan" /\ start' = start + 1
  /\ UNCHANGED <<input, state, forest, walk, extraEdge, away, output>>

MarkedStashed == {e \in Edges : state[e] = Stashed}

(* The first regular entries fill the stash up.                            *)
TopUp ==
  LET deficit == StashSize - Cardinality(MarkedStashed)
  IN  {e \in Edges \ MarkedStashed :
         Cardinality({f \in Edges \ MarkedStashed : f < e}) < deficit}

(* Later entries overwrite earlier ones in a cell: there should be none.   *)
Place ==
  LET placed == Edges \ (MarkedStashed \cup TopUp)
      claims(v) == {e \in placed : state[e] = v}
  IN  /\ pc = "scan" /\ start \notin Vertices
      /\ Cardinality(MarkedStashed) <= StashSize
      /\ \A e \in Edges : state[e] # Unvisited   (* asserted *)
      /\ table' = [v \in Vertices |->
                     IF claims(v) = {} THEN None ELSE Max(claims(v))]
      /\ stash' = MarkedStashed \cup TopUp
      /\ pc' = "built"
      /\ UNCHANGED <<input, state, forest, walk, extraEdge, away, start>>

(* The assertion on the stash size panics: the tags were unlucky.          *)
Overflow ==
  /\ pc = "scan" /\ start \notin Vertices
  /\ Cardinality(MarkedStashed) > StashSize
  /\ pc' = "overflow"
  /\ UNCHANGED <<input, state, forest, walk, extraEdge, away, start, output>>

(* build has returned, or panicked.                                        *)
Done == pc \in {"built", "overflow"} /\ UNCHANGED vars

Next ==
  \/ StartComponent
  \/ SkipVertex
  \/ Pop
  \/ \E e \in Edges : PassEdge(e) \/ GrowTree(e) \/ KeepExtra(e) \/ StashEdge(e)
  \/ EndSearch
  \/ TurnEdge
  \/ EndComponent
  \/ Place
  \/ Overflow
  \/ Done

Spec == Init /\ [][Next]_vars

---------------------------------------------------------------------------
(* An entry's block: its tag, above the index set_low_u32 puts there. The  *)
(* number of an entry stands for the tag, of which no two entries share    *)
(* one; empty cells hold the zero block, whose tag no entry has.           *)
Tag(e) == {IndexBits + bit : bit \in BitsOf(e)}
Block(e) == Tag(e) \cup BitsOf(e - 1)

(* The receivers' halves of a cell.                                        *)
Halves(v, mask) ==
  LET cell == IF table[v] = None THEN {} ELSE Block(table[v])
  IN  [p \in Parties |->
         CASE p = Builder         -> {}
           [] p = NextId(Builder) -> mask
           [] p = PrevId(Builder) -> Xor(cell, mask)]

(* The lookup of the tag of entry e, the bits below the tag being any.     *)
Lookup(e, dummyIndex, rand) ==
  LookupFrom2Shares(Tag(e) \cup rand[5], Halves(input[e].left, rand[6]),
                    Halves(input[e].right, rand[7]),
                    Y2B(dummyIndex, rand[8]), rand)

---------------------------------------------------------------------------
(* Between components no two entries point at the same cell, and nothing   *)
(* of a component that has been searched is left unvisited.                *)
CellsClaimedOnce ==
  pc \notin {"search", "turn"} =>
    /\ \A e, f \in Edges :
         e # f /\ state[e] \in Vertices => state[e] # state[f]
    /\ \A e \in Edges :
         state[e] = Unvisited <=> \A v \in Ends(e) : parentVertex[v] = None

(* A built table answers: both receivers find the entries not stashed,     *)
(* under the index of the entry, and get the dummy's index for the stashed *)
(* ones, exactly StashSize many; and the parties share which it was.       *)
LookupsAnswer ==
  pc = "built" =>
    /\ Cardinality(stash) = StashSize
    /\ \A e \in Edges, rand \in Rands :
         LET dummyIndex == 0 .. IndexBits - 1
             result == Lookup(e, dummyIndex, rand)
         IN  /\ \A p \in Receivers :
                  result.index[p] = IF e \in stash THEN dummyIndex ELSE BitsOf(e - 1)
             /\ Replicated(result.found)
             /\ RevealTo(0, result.found) = IF e \in stash THEN {} ELSE {0}

(* No more entries are set aside than any placement must set aside: a set  *)
(* of entries with fewer cells than members witnesses every one of them,   *)
(* so the builder gives up only if the tags leave it no choice.            *)
StashMinimal ==
  pc = "scan" /\ start \notin Vertices =>
    \E S \in SUBSET Edges :
      Cardinality(MarkedStashed) <= Cardinality(S) - Cardinality(UNION {Ends(e) : e \in S})
=============================================================================
