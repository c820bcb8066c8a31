----------------------------- MODULE ChtProofs -----------------------------
(***************************************************************************)
(* Proofs about Cht, for every input, column length and stash size: no two *)
(* entries point at the same cell, and no more entries are set aside than  *)
(* any placement must set aside.                                           *)
(***************************************************************************)
EXTENDS Cht, FiniteSetTheorems, SequenceTheorems, WellFoundedInduction, TLAPS

---------------------------------------------------------------------------
(* The inductive invariant.                                                *)
TypeInv ==
  /\ input \in Inputs
  /\ state \in [Edges -> Vertices \cup {Unvisited, Stashed}]
  /\ parentVertex \in [Vertices -> Vertices \cup {None, Root}]
  /\ parentEdge \in [Vertices -> Edges \cup {None, Root}]
  /\ dfs \in Seq(Vertices) /\ component \subseteq Vertices
  /\ curr \in Vertices /\ todo \subseteq Edges
  /\ extraEdge \in Edges \cup {None}
  /\ away \in Vertices
  /\ start \in 0 .. 2 * ColumnLen
  /\ pc \in {"scan", "search", "turn", "built", "overflow"}

Visited(v) == parentVertex[v] # None

(* Above every vertex that has been visited the tree goes on up to a root. *)
TreeInv ==
  \A v \in Vertices :
    /\ parentVertex[v] = None <=> parentEdge[v] = None
    /\ parentVertex[v] = Root <=> parentEdge[v] = Root
    /\ parentVertex[v] \in Vertices =>
         /\ parentEdge[v] \in Edges
         /\ Ends(parentEdge[v]) = {v, parentVertex[v]}
         /\ Visited(parentVertex[v])
         /\ state[parentEdge[v]] \in Vertices

(* The vertices of the component that is being searched.                   *)
Stack == {dfs[i] : i \in 1 .. Len(dfs)}
Searching == pc \in {"search", "turn"}
Comp == IF Searching THEN component \cup Stack ELSE {}

(* A parent comes before its children, and the tree above away still       *)
(* points downwards.                                                       *)
Ordered(rank) ==
  \A v \in Vertices : parentVertex[v] \in Vertices => rank[parentVertex[v]] < rank[v]

PointsDown(rank) ==
  \A v \in component :
    rank[v] <= rank[away] /\ parentVertex[v] \in Vertices => state[parentEdge[v]] = v

RankInv ==
  \E rank \in [Vertices -> Nat] : Ordered(rank) /\ (pc = "turn" => PointsDown(rank))

(* An edge is looked at once an end of it has been.                        *)
EdgeInv ==
  \A e \in Edges :
    /\ state[e] \in Vertices => state[e] \in Ends(e)
    /\ state[e] # Unvisited =>
         /\ \A v \in Ends(e) : Visited(v)
         /\ Ends(e) \subseteq Comp \/ Ends(e) \cap Comp = {}
    /\ state[e] = Unvisited =>
         \A v \in Ends(e) :
           Visited(v) => pc = "search" /\ (v \in Stack \/ (v = curr /\ e \in todo))

CompInv ==
  /\ pc # "search" => dfs = <<>> /\ todo = {}
  /\ pc = "search" => \A e \in todo : curr \in Ends(e)
  /\ todo # {} => curr \in component
  /\ Searching => start \in Comp /\ parentVertex[start] = Root
  /\ \A v \in Comp :
       /\ Visited(v)
       /\ parentVertex[v] = Root => v = start
       /\ parentVertex[v] \in Vertices => parentVertex[v] \in Comp

(* In the component only the tree's edges point at cells, each at its      *)
(* child, and the extra edge.                                              *)
SearchInv ==
  pc = "search" =>
    /\ \A v \in Comp : parentVertex[v] \in Vertices => state[parentEdge[v]] = v
    /\ extraEdge # None =>
         state[extraEdge] \in Comp /\ \A v \in Vertices : parentEdge[v] # extraEdge
    /\ \A e \in Edges : state[e] \in Comp => e \in {extraEdge, parentEdge[state[e]]}
    /\ \A e \in Edges : state[e] = Stashed /\ Ends(e) \subseteq Comp => extraEdge # None

(* One edge too many points at away; when that is the root, it is the      *)
(* only one, and every cell of the component is taken.                     *)
TurnInv ==
  pc = "turn" =>
    /\ away \in component
    /\ \E e \in Edges : state[e] = away /\ e # parentEdge[away]
    /\ \A v \in component \ {start} : \E e \in Edges : state[e] = v
    /\ away # start => \A e \in Edges : state[e] # start

ClaimsInv ==
  \A e, f \in Edges :
    e # f /\ state[e] \in Vertices /\ state[e] = state[f] =>
      \/ pc = "search" /\ state[e] \in Comp
      \/ pc = "turn" /\ state[e] = away /\ parentEdge[away] \in {e, f}

(* F: the cells of the components with an entry that does not fit.  All of *)
(* them are taken.                                                         *)
FullyTaken(F) ==
  /\ F \cap Comp = {}
  /\ \A v \in F : Visited(v) /\ \E e \in Edges : state[e] = v /\ Ends(e) \subseteq F
  /\ \A e \in Edges : state[e] = Stashed => Ends(e) \subseteq F \/ Ends(e) \subseteq Comp

FullInv == \E F \in SUBSET Vertices : FullyTaken(F)

ScanInv ==
  /\ \A v \in Vertices : v < start => Visited(v)
  /\ pc \in {"built", "overflow"} => start \notin Vertices

IInv ==
  /\ TypeInv /\ TreeInv /\ RankInv /\ EdgeInv /\ CompInv /\ SearchInv
  /\ TurnInv /\ ClaimsInv /\ FullInv /\ ScanInv

---------------------------------------------------------------------------
(* Edges are numbers, with an end in each column; the states that are not  *)
(* vertices are no edges either.                                           *)
LEMMA Graph ==
  ASSUME input \in Inputs
  PROVE  /\ Edges = 1 .. Len(input) /\ Len(input) \in Nat /\ StashSize <= Len(input)
         /\ \A e \in Edges :
              /\ input[e].left \in Vertices /\ input[e].right \in Vertices
              /\ input[e].left # input[e].right
              /\ Ends(e) \subseteq Vertices /\ Ends(e) # {}
         /\ \A x \in {Unvisited, Stashed, None, Root} : x \notin Vertices /\ x \notin Edges
<1>1. input \in Seq(Entry) /\ ColumnLen \in Nat \ {0} /\ StashSize <= Len(input)
  BY InputsAssumption
<1>2. Edges = 1 .. Len(input) /\ Len(input) \in Nat
  BY <1>1 DEF Edges
<1>3. ASSUME NEW e \in Edges
      PROVE  /\ input[e].left \in Vertices /\ input[e].right \in Vertices
             /\ input[e].left # input[e].right
  <2>1. input[e] \in Entry
    BY <1>1, <1>2
  <2>2. input[e].left \in 0 .. ColumnLen - 1 /\ input[e].right \in ColumnLen .. 2 * ColumnLen - 1
    BY <2>1 DEF Entry
  <2> QED
    BY <1>1, <2>2 DEF Vertices
<1>4. \A x \in {Unvisited, Stashed, None, Root} : x \notin Nat
  BY StatesAssumption
<1>5. Vertices \subseteq Nat /\ Edges \subseteq Nat
  BY <1>1, <1>2 DEF Vertices
<1> QED
  BY <1>1, <1>2, <1>3, <1>4, <1>5 DEF Ends

(* Seen from one of its ends, an edge leads to the other.                  *)
LEMMA OtherEndIs ==
  ASSUME input \in Inputs, NEW e \in Edges, NEW v \in Ends(e)
  PROVE  /\ OtherEnd(e, v) \in Vertices /\ OtherEnd(e, v) # v
         /\ Ends(e) = {v, OtherEnd(e, v)}
BY Graph DEF OtherEnd, Ends

(* What is not started is not searched.                                    *)
LEMMA InitInv == Init => IInv
<1> SUFFICES ASSUME Init PROVE IInv
  OBVIOUS
<1>1. input \in Inputs
  BY DEF Init
<1>2. 0 \in Vertices /\ 0 \in 0 .. 2 * ColumnLen
  BY InputsAssumption DEF Vertices
<1>3. TypeInv
  BY <1>1, <1>2 DEF Init, TypeInv
<1>4. None \notin Vertices /\ Root # None /\ Unvisited \notin Vertices /\ Unvisited # Stashed
  BY <1>1, Graph, StatesAssumption
<1>5. Comp = {}
  BY DEF Init, Comp, Searching
<1>6. TreeInv /\ EdgeInv /\ CompInv /\ SearchInv /\ TurnInv /\ ClaimsInv
  <2>1. \A v \in Vertices : parentVertex[v] = None /\ parentEdge[v] = None
    BY DEF Init
  <2>2. \A e \in Edges : state[e] = Unvisited
    BY DEF Init
  <2>3. \A e \in Edges : Ends(e) \subseteq Vertices
    BY <1>1, Graph
  <2> QED
    BY <1>4, <1>5, <2>1, <2>2, <2>3
    DEF Init, TreeInv, EdgeInv, CompInv, SearchInv, TurnInv, ClaimsInv, Visited, Searching
<1>7. RankInv
  <2> DEFINE rank == [v \in Vertices |-> 0]
  <2>1. rank \in [Vertices -> Nat]
    OBVIOUS
  <2>2. Ordered(rank) /\ pc # "turn"
    BY <1>4 DEF Init, Ordered
  <2> QED
    BY <2>1, <2>2 DEF RankInv
<1>8. FullInv
  <2>1. FullyTaken({})
    BY <1>4 DEF Init, FullyTaken
  <2> QED
    BY <2>1 DEF FullInv
<1>9. ScanInv
  BY DEF Init, ScanInv, Vertices
<1> QED
  BY <1>3, <1>6, <1>7, <1>8, <1>9 DEF IInv

---------------------------------------------------------------------------
(* One lemma per action: it keeps the invariant.                           *)
LEMMA StartInv ==
  ASSUME IInv, StartComponent
  PROVE  IInv'
<1> USE DEF Visited, Searching
<1>1. input \in Inputs /\ TypeInv
  BY DEF IInv, TypeInv
<1>2. /\ Edges' = Edges /\ state' = state /\ start' = start /\ \A e : Ends(e)' = Ends(e)
      /\ pc = "scan" /\ pc' = "search" /\ start \in Vertices /\ parentVertex[start] = None
      /\ extraEdge' = None /\ component' = {} /\ curr' = curr /\ todo' = todo
  BY DEF StartComponent, Edges, Ends
<1>3. /\ parentVertex' = [parentVertex EXCEPT ![start] = Root]
      /\ parentEdge' = [parentEdge EXCEPT ![start] = Root]
      /\ parentVertex \in [Vertices -> Vertices \cup {None, Root}]
      /\ parentEdge \in [Vertices -> Edges \cup {None, Root}]
  BY <1>1 DEF StartComponent, TypeInv
<1>4. /\ parentVertex'[start] = Root /\ parentEdge'[start] = Root
      /\ \A v \in Vertices \ {start} : parentVertex'[v] = parentVertex[v] /\ parentEdge'[v] = parentEdge[v]
  BY <1>2, <1>3
<1>5. Stack' = {start}
  BY <1>2 DEF Stack, StartComponent
<1>6. Comp = {} /\ Comp' = {start} /\ todo = {}
  BY <1>2, <1>5 DEF Comp, IInv, CompInv
<1>7. /\ \A x \in {Unvisited, Stashed, None, Root} : x \notin Vertices /\ x \notin Edges
      /\ \A e \in Edges : Ends(e) \subseteq Vertices /\ Ends(e) # {}
      /\ None # Root /\ Unvisited # Stashed
  BY <1>1, Graph, StatesAssumption
<1>8. TypeInv'
  <2>1. <<start>> \in Seq(Vertices)
    BY <1>2
  <2> QED
    BY <1>1, <1>2, <1>3, <2>1 DEF TypeInv, StartComponent
<1>9. TreeInv'
  <2>1. TreeInv
    BY DEF IInv
  <2>2. \A v \in Vertices : parentVertex[v] \in Vertices => parentVertex[v] # start
    BY <1>2, <2>1 DEF TreeInv
  <2> QED
    BY <1>2, <1>4, <1>7, <2>1, <2>2 DEF TreeInv
<1>10. RankInv'
  <2>1. PICK rank \in [Vertices -> Nat] : Ordered(rank)
    BY DEF IInv, RankInv
  <2>2. Ordered(rank)'
    BY <1>4, <1>7, <2>1 DEF Ordered
  <2> QED
    BY <1>2, <2>1, <2>2 DEF RankInv
<1>11. \A e \in Edges : state[e] # Unvisited => start \notin Ends(e)
  BY <1>2 DEF IInv, EdgeInv
<1>12. EdgeInv'
  <2>1. EdgeInv
    BY DEF IInv
  <2> QED
    BY <1>2, <1>4, <1>5, <1>6, <1>7, <1>11, <2>1 DEF EdgeInv
<1>13. CompInv'
  BY <1>2, <1>4, <1>6, <1>7 DEF CompInv
<1>14. SearchInv' /\ TurnInv'
  <2>1. \A e \in Edges : state[e] # start /\ ~(state[e] = Stashed /\ Ends(e) \subseteq {start})
    <3> SUFFICES ASSUME NEW e \in Edges, state[e] = start \/ (state[e] = Stashed /\ Ends(e) \subseteq {start})
                 PROVE FALSE
      OBVIOUS
    <3>1. state[e] # Unvisited /\ start \in Ends(e)
      BY <1>2, <1>7 DEF IInv, EdgeInv
    <3> QED
      BY <1>11, <3>1
  <2> QED
    BY <1>2, <1>4, <1>6, <1>7, <2>1 DEF SearchInv, TurnInv
<1>15. ClaimsInv'
  BY <1>2 DEF IInv, ClaimsInv
<1>16. FullInv'
  <2>1. PICK F \in SUBSET Vertices : FullyTaken(F)
    BY DEF IInv, FullInv
  <2>2. start \notin F
    BY <1>2, <2>1 DEF FullyTaken
  <2>3. FullyTaken(F)'
    BY <1>2, <1>4, <1>6, <1>7, <2>1, <2>2 DEF FullyTaken
  <2> QED
    BY <2>3 DEF FullInv
<1>17. ScanInv'
  BY <1>2, <1>4, <1>7 DEF IInv, ScanInv
<1> QED
  BY <1>8, <1>9, <1>10, <1>12, <1>13, <1>14, <1>15, <1>16, <1>17 DEF IInv

LEMMA SkipInv ==
  ASSUME IInv, SkipVertex
  PROVE  IInv'
<1>1. /\ input' = input /\ UNCHANGED <<state, forest, walk, extraEdge, away, pc>> /\ pc = "scan"
      /\ start' = start + 1 /\ start \in Vertices /\ Visited(start)
  BY DEF SkipVertex, Visited
<1>2. Comp = {} /\ Comp' = {} /\ Edges' = Edges /\ \A e : Ends(e)' = Ends(e)
  BY <1>1 DEF Comp, Searching, Edges, Ends
<1>3. TypeInv' /\ ScanInv'
  BY <1>1, <1>2, InputsAssumption DEF IInv, TypeInv, ScanInv, Visited, Vertices, forest, walk
<1>4. TreeInv' /\ RankInv'
  BY <1>1, <1>2 DEF IInv, TreeInv, RankInv, Ordered, PointsDown, Visited, forest, walk
<1>5. EdgeInv' /\ CompInv'
  BY <1>1, <1>2 DEF IInv, EdgeInv, CompInv, Searching, Visited, forest, walk
<1>6. SearchInv' /\ TurnInv' /\ ClaimsInv'
  BY <1>1, <1>2 DEF IInv, SearchInv, TurnInv, ClaimsInv, forest, walk
<1>7. FullInv'
  BY <1>1, <1>2 DEF IInv, FullInv, FullyTaken, Visited, forest, walk
<1> QED
  BY <1>3, <1>4, <1>5, <1>6, <1>7 DEF IInv

LEMMA PopInv ==
  ASSUME IInv, Pop
  PROVE  IInv'
<1> DEFINE c == Last(dfs)
<1>1. /\ input \in Inputs /\ TypeInv /\ dfs \in Seq(Vertices)
      /\ pc = "search" /\ pc' = "search" /\ todo = {} /\ dfs # <<>>
      /\ UNCHANGED <<input, state, forest, extraEdge, away, start>>
      /\ curr' = c /\ dfs' = Front(dfs) /\ component' = component \cup {c} /\ todo' = Incident(c)
  BY DEF IInv, TypeInv, Pop
<1>2. /\ Edges' = Edges /\ (\A e : Ends(e)' = Ends(e)) /\ parentVertex' = parentVertex
      /\ parentEdge' = parentEdge /\ \A v : Visited(v)' = Visited(v)
  BY <1>1 DEF Edges, Ends, forest, Visited
<1>3. /\ dfs' \in Seq(Vertices) /\ c \in Vertices /\ c = dfs[Len(dfs)] /\ Len(dfs) \in Nat \ {0}
      /\ Len(dfs') = Len(dfs) - 1 /\ \A i \in 1 .. Len(dfs) - 1 : dfs'[i] = dfs[i]
  <2>1. Len(dfs) \in Nat \ {0} /\ c = dfs[Len(dfs)] /\ dfs' = SubSeq(dfs, 1, Len(dfs) - 1)
    BY <1>1, EmptySeq DEF Front, Last
  <2>2. c \in Vertices
    BY <1>1, <2>1
  <2>3. /\ dfs' \in Seq(Vertices) /\ Len(dfs') = Len(dfs) - 1
        /\ \A i \in 1 .. Len(dfs) - 1 : dfs'[i] = dfs[i]
    <3> DEFINE n == Len(dfs) - 1
    <3>1. n \in Int /\ n >= 0 /\ 1 \in Int /\ \A i \in 1 .. n : dfs[i] \in Vertices
      BY <1>1, <2>1
    <3>2. /\ SubSeq(dfs, 1, n) \in Seq(Vertices)
          /\ Len(SubSeq(dfs, 1, n)) = IF 1 <= n THEN n - 1 + 1 ELSE 0
          /\ \A i \in 1 .. n - 1 + 1 : SubSeq(dfs, 1, n)[i] = dfs[1 + i - 1]
      BY <3>1, SubSeqProperties
    <3>3. n - 1 + 1 = n /\ \A i \in 1 .. n : 1 + i - 1 = i
      BY <3>1
    <3>4. /\ dfs' = SubSeq(dfs, 1, n) /\ Len(SubSeq(dfs, 1, n)) = n
          /\ \A i \in 1 .. n : SubSeq(dfs, 1, n)[i] = dfs[i]
      BY <2>1, <3>1, <3>2, <3>3
    <3> QED
      BY <3>2, <3>4
  <2> QED
    BY <2>1, <2>2, <2>3
<1>4. Stack = Stack' \cup {c} /\ Comp' = Comp /\ c \in Comp
  BY <1>1, <1>3 DEF Stack, Comp, Searching
<1> HIDE DEF c
<1>5. TypeInv'
  <2>1. Incident(c) \subseteq Edges
    BY DEF Incident
  <2> QED
    BY <1>1, <1>2, <1>3, <2>1 DEF TypeInv
<1>6. TreeInv' /\ RankInv' /\ ScanInv'
  BY <1>1, <1>2 DEF IInv, TreeInv, RankInv, Ordered, ScanInv
<1>7. EdgeInv'
  <2>1. EdgeInv
    BY DEF IInv
  <2>2. \A e \in Edges : c \in Ends(e) => e \in todo'
    BY <1>1 DEF Incident
  <2> QED
    BY <1>1, <1>2, <1>4, <2>1, <2>2 DEF EdgeInv
<1>8. CompInv'
  <2>1. \A e \in todo' : c \in Ends(e)
    BY <1>1 DEF Incident
  <2> QED
    BY <1>1, <1>2, <1>4, <2>1 DEF IInv, CompInv, Searching
<1>9. SearchInv' /\ TurnInv' /\ ClaimsInv'
  BY <1>1, <1>2, <1>4 DEF IInv, SearchInv, TurnInv, ClaimsInv
<1>10. FullInv'
  BY <1>1, <1>2, <1>4 DEF IInv, FullInv, FullyTaken
<1> QED
  BY <1>5, <1>6, <1>7, <1>8, <1>9, <1>10 DEF IInv

(* What holds while the search looks at an edge: the edge leads to a       *)
(* vertex of the component, or to one that nothing has been seen of.       *)
LEMMA LookFacts ==
  ASSUME IInv, NEW e \in Edges, Looks(e)
  PROVE  /\ pc = "search" /\ pc' = "search" /\ e \in todo /\ todo' = todo \ {e}
         /\ input' = input /\ component' = component /\ curr' = curr /\ away' = away /\ start' = start
         /\ Edges' = Edges /\ \A f : Ends(f)' = Ends(f)
         /\ curr \in component /\ curr \in Comp /\ component \subseteq Comp
         /\ OtherEnd(e, curr) \in Vertices /\ OtherEnd(e, curr) # curr
         /\ Ends(e) = {curr, OtherEnd(e, curr)}
         /\ state[e] = Unvisited /\ Visited(OtherEnd(e, curr)) => OtherEnd(e, curr) \in Stack
<1>1. /\ pc = "search" /\ pc' = "search" /\ e \in todo /\ todo' = todo \ {e}
      /\ input' = input /\ component' = component /\ curr' = curr /\ away' = away /\ start' = start
  BY DEF Looks
<1>2. Edges' = Edges /\ \A f : Ends(f)' = Ends(f)
  BY <1>1 DEF Edges, Ends
<1>3. curr \in component /\ curr \in Comp /\ component \subseteq Comp /\ \A f \in todo : curr \in Ends(f)
  BY <1>1 DEF IInv, CompInv, Comp, Searching
<1>4. curr \in Ends(e) /\ input \in Inputs
  BY <1>1, <1>3 DEF IInv, TypeInv
<1>5. /\ OtherEnd(e, curr) \in Vertices /\ OtherEnd(e, curr) # curr
      /\ Ends(e) = {curr, OtherEnd(e, curr)}
  BY <1>4, OtherEndIs
<1>6. state[e] = Unvisited /\ Visited(OtherEnd(e, curr)) => OtherEnd(e, curr) \in Stack
  BY <1>5 DEF IInv, EdgeInv
<1> QED
  BY <1>1, <1>2, <1>3, <1>5, <1>6

LEMMA PassInv ==
  ASSUME IInv, NEW e \in Edges, PassEdge(e)
  PROVE  IInv'
<1>1. Looks(e) /\ state[e] # Unvisited /\ UNCHANGED <<state, forest, dfs, extraEdge>>
  BY DEF PassEdge
<1>2. /\ pc = "search" /\ pc' = "search" /\ e \in todo /\ todo' = todo \ {e}
      /\ input' = input /\ component' = component /\ curr' = curr /\ away' = away /\ start' = start
      /\ Edges' = Edges /\ (\A f : Ends(f)' = Ends(f))
  BY <1>1, LookFacts
<1>3. /\ Stack' = Stack /\ Comp' = Comp /\ parentVertex' = parentVertex
      /\ parentEdge' = parentEdge /\ \A v : Visited(v)' = Visited(v)
  BY <1>1, <1>2 DEF Stack, Comp, Searching, forest, Visited
<1>4. TypeInv' /\ TreeInv' /\ RankInv' /\ ScanInv'
  BY <1>1, <1>2, <1>3 DEF IInv, TypeInv, TreeInv, RankInv, Ordered, ScanInv
<1>5. EdgeInv'
  BY <1>1, <1>2, <1>3 DEF IInv, EdgeInv
<1>6. CompInv'
  BY <1>1, <1>2, <1>3 DEF IInv, CompInv, Searching
<1>7. SearchInv' /\ TurnInv' /\ ClaimsInv'
  BY <1>1, <1>2, <1>3 DEF IInv, SearchInv, TurnInv, ClaimsInv
<1>8. FullInv'
  BY <1>1, <1>2, <1>3 DEF IInv, FullInv, FullyTaken
<1> QED
  BY <1>4, <1>5, <1>6, <1>7, <1>8 DEF IInv

LEMMA GrowInv ==
  ASSUME IInv, NEW e \in Edges, GrowTree(e)
  PROVE  IInv'
<1> PICK w : w = OtherEnd(e, curr)
  OBVIOUS
<1>1. /\ Looks(e) /\ state[e] = Unvisited /\ parentVertex[w] = None
      /\ parentVertex' = [parentVertex EXCEPT ![w] = curr]
      /\ parentEdge' = [parentEdge EXCEPT ![w] = e]
      /\ state' = [state EXCEPT ![e] = w]
      /\ dfs' = Append(dfs, w) /\ extraEdge' = extraEdge
  BY DEF GrowTree
<1>2. /\ pc = "search" /\ pc' = "search" /\ e \in todo /\ todo' = todo \ {e}
      /\ input' = input /\ component' = component /\ curr' = curr /\ away' = away /\ start' = start
      /\ Edges' = Edges /\ (\A f : Ends(f)' = Ends(f))
      /\ curr \in component /\ curr \in Comp /\ component \subseteq Comp
      /\ w \in Vertices /\ w # curr /\ Ends(e) = {curr, w}
  BY <1>1, LookFacts
<1>3. /\ TypeInv /\ input \in Inputs /\ curr \in Vertices
      /\ parentVertex \in [Vertices -> Vertices \cup {None, Root}]
      /\ parentEdge \in [Vertices -> Edges \cup {None, Root}]
      /\ state \in [Edges -> Vertices \cup {Unvisited, Stashed}]
  BY DEF IInv, TypeInv
<1>4. /\ \A x \in {Unvisited, Stashed, None, Root} : x \notin Vertices /\ x \notin Edges
      /\ \A f \in Edges : Ends(f) \subseteq Vertices /\ Ends(f) # {}
      /\ None # Root /\ Unvisited # Stashed
  BY <1>3, Graph, StatesAssumption
<1>5. /\ parentVertex'[w] = curr /\ parentEdge'[w] = e /\ state'[e] = w
      /\ \A v \in Vertices \ {w} : parentVertex'[v] = parentVertex[v] /\ parentEdge'[v] = parentEdge[v]
      /\ \A f \in Edges \ {e} : state'[f] = state[f]
  BY <1>1, <1>2, <1>3
<1>6. /\ \A v \in Vertices \ {w} : Visited(v)' <=> Visited(v)
      /\ Visited(w)' /\ ~Visited(w)
  BY <1>1, <1>3, <1>4, <1>5 DEF Visited
<1>7. Stack' = Stack \cup {w} /\ dfs' \in Seq(Vertices)
  BY <1>1, <1>2, <1>3 DEF Stack, TypeInv
<1>8. Comp' = Comp \cup {w} /\ Comp \subseteq Vertices /\ w \notin Comp
  <2>1. Stack \subseteq Vertices /\ component \subseteq Vertices
    BY <1>3 DEF Stack, TypeInv
  <2>2. w \notin Comp
    BY <1>6 DEF IInv, CompInv
  <2> QED
    BY <1>2, <1>7, <2>1, <2>2 DEF Comp, Searching
<1>9. TypeInv'
  BY <1>1, <1>2, <1>3, <1>7 DEF TypeInv
(* Nothing in the tree or in the graph seen so far touches w.              *)
<1>10. /\ \A v \in Vertices : parentVertex[v] # w /\ parentEdge[v] # e
       /\ \A f \in Edges : state[f] # Unvisited => w \notin Ends(f)
       /\ \A f \in Edges : state[f] # w
  <2>1. /\ \A v \in Vertices : parentVertex[v] \in Vertices => Visited(parentVertex[v])
        /\ \A v \in Vertices : parentVertex[v] \in Vertices => state[parentEdge[v]] \in Vertices
        /\ \A v \in Vertices : parentEdge[v] \in Edges => parentVertex[v] \in Vertices
    <3>1. \A v \in Vertices : parentVertex[v] \in Vertices \cup {None, Root}
      BY <1>3
    <3> QED
      BY <1>4, <3>1 DEF IInv, TreeInv
  <2>2. /\ \A f \in Edges : state[f] # Unvisited => w \notin Ends(f)
        /\ \A f \in Edges : state[f] \in Vertices => state[f] \in Ends(f)
    BY <1>6 DEF IInv, EdgeInv
  <2> QED
    BY <1>1, <1>2, <1>4, <1>6, <2>1, <2>2
<1>11. TreeInv'
  <2>1. TreeInv /\ Visited(curr)
    BY <1>2 DEF IInv, CompInv
  <2>2. ASSUME NEW v \in Vertices, v # w
        PROVE  /\ parentVertex'[v] = None <=> parentEdge'[v] = None
               /\ parentVertex'[v] = Root <=> parentEdge'[v] = Root
               /\ parentVertex'[v] \in Vertices =>
                    /\ parentEdge'[v] \in Edges /\ Ends(parentEdge'[v]) = {v, parentVertex'[v]}
                    /\ Visited(parentVertex[v])' /\ state'[parentEdge'[v]] \in Vertices
    BY <1>5, <1>6, <1>10, <2>1, <2>2 DEF TreeInv, Visited
  <2> QED
    BY <1>2, <1>4, <1>5, <1>6, <2>1, <2>2 DEF TreeInv, Visited
<1>12. RankInv'
  <2>1. PICK rank \in [Vertices -> Nat] : Ordered(rank)
    BY DEF IInv, RankInv
  <2>2. PICK below \in [Vertices -> Nat] : below = [rank EXCEPT ![w] = rank[curr] + 1]
    <3>1. rank[curr] + 1 \in Nat
      BY <1>3, <2>1
    <3>2. [rank EXCEPT ![w] = rank[curr] + 1] \in [Vertices -> Nat]
      BY <2>1, <3>1
    <3> QED
      BY <3>2
  <2>3. below[w] = rank[curr] + 1 /\ \A v \in Vertices \ {w} : below[v] = rank[v]
    BY <1>2, <2>2
  <2>4. Ordered(below)'
    <3> SUFFICES ASSUME NEW v \in Vertices, parentVertex'[v] \in Vertices
                 PROVE  below[parentVertex'[v]] < below[v]
      BY DEF Ordered
    <3>1. CASE v = w
      <4>1. parentVertex'[v] = curr /\ below[curr] = rank[curr] /\ rank[curr] \in Nat
        BY <1>2, <1>3, <1>5, <2>1, <2>3, <3>1
      <4> QED
        BY <2>3, <3>1, <4>1
    <3>2. CASE v # w
      <4>1. parentVertex'[v] = parentVertex[v] /\ parentVertex[v] # w
        BY <1>5, <1>10, <3>2
      <4>2. rank[parentVertex[v]] < rank[v]
        BY <2>1, <4>1 DEF Ordered
      <4> QED
        BY <2>3, <3>2, <4>1, <4>2
    <3> QED
      BY <3>1, <3>2
  <2> QED
    BY <1>2, <2>2, <2>4 DEF RankInv
<1>13. EdgeInv'
  <2>1. EdgeInv
    BY DEF IInv
  <2>2. Visited(curr)'
    BY <1>2, <1>3, <1>6 DEF IInv, CompInv
  <2>3. ASSUME NEW f \in Edges, f # e
        PROVE  /\ state'[f] \in Vertices => state'[f] \in Ends(f)
               /\ state'[f] # Unvisited =>
                    /\ \A v \in Ends(f) : Visited(v)'
                    /\ Ends(f) \subseteq Comp' \/ Ends(f) \cap Comp' = {}
               /\ state'[f] = Unvisited =>
                    \A v \in Ends(f) : Visited(v)' => v \in Stack' \/ (v = curr /\ f \in todo')
    BY <1>2, <1>4, <1>5, <1>6, <1>7, <1>8, <1>10, <2>1, <2>3 DEF EdgeInv
  <2> QED
    BY <1>2, <1>4, <1>5, <1>6, <1>8, <2>2, <2>3 DEF EdgeInv
<1>14. CompInv'
  <2>1. CompInv
    BY DEF IInv
  <2> QED
    BY <1>2, <1>3, <1>4, <1>5, <1>6, <1>8, <1>10, <2>1 DEF CompInv, Searching
<1>15. SearchInv'
  <2>1. SearchInv
    BY DEF IInv
  <2>2. \A v \in Comp' : parentVertex'[v] \in Vertices => state'[parentEdge'[v]] = v
    <3> SUFFICES ASSUME NEW v \in Comp', v # w, parentVertex'[v] \in Vertices
                 PROVE  state'[parentEdge'[v]] = v
      BY <1>5
    <3>1. v \in Comp /\ v \in Vertices /\ parentVertex[v] \in Vertices /\ parentEdge'[v] = parentEdge[v]
      BY <1>5, <1>8
    <3>2. parentEdge[v] \in Edges \ {e}
      BY <1>10, <3>1 DEF IInv, TreeInv
    <3> QED
      BY <1>2, <1>5, <2>1, <3>1, <3>2 DEF SearchInv
  <2>3. extraEdge' # None => state'[extraEdge'] \in Comp' /\ \A v \in Vertices : parentEdge'[v] # extraEdge'
    <3> SUFFICES ASSUME extraEdge # None
                 PROVE  state'[extraEdge] \in Comp' /\ \A v \in Vertices : parentEdge'[v] # extraEdge
      BY <1>1
    <3>1. extraEdge \in Edges /\ state[extraEdge] \in Comp /\ \A v \in Vertices : parentEdge[v] # extraEdge
      BY <1>2, <1>3, <2>1 DEF SearchInv, TypeInv
    <3>2. extraEdge # e
      BY <1>1, <1>4, <1>8, <3>1
    <3> QED
      BY <1>5, <1>8, <3>1, <3>2
  <2>4. ASSUME NEW f \in Edges, state'[f] \in Comp'
        PROVE  f \in {extraEdge, parentEdge'[state'[f]]}
    <3>1. CASE f = e
      BY <1>5, <3>1
    <3>2. CASE f # e
      BY <1>2, <1>5, <1>8, <1>10, <2>1, <2>4, <3>2 DEF SearchInv
    <3> QED
      BY <3>1, <3>2
  <2>5. ASSUME NEW f \in Edges, state'[f] = Stashed, Ends(f) \subseteq Comp'
        PROVE  extraEdge # None
    <3>1. f # e /\ state[f] = Stashed
      BY <1>2, <1>4, <1>5, <2>5
    <3>2. Ends(f) \subseteq Comp
      BY <1>4, <1>8, <1>10, <2>5, <3>1
    <3> QED
      BY <1>2, <2>1, <3>1, <3>2 DEF SearchInv
  <2> QED
    BY <1>1, <1>2, <2>2, <2>3, <2>4, <2>5 DEF SearchInv
<1>16. TurnInv'
  BY <1>2 DEF TurnInv
<1>17. ClaimsInv'
  <2>1. ClaimsInv
    BY DEF IInv
  <2> QED
    BY <1>2, <1>5, <1>8, <1>10, <2>1 DEF ClaimsInv
<1>18. FullInv'
  <2>1. PICK F \in SUBSET Vertices : FullyTaken(F)
    BY DEF IInv, FullInv
  <2>2. w \notin F
    BY <1>6, <2>1 DEF FullyTaken
  <2>3. FullyTaken(F)'
    <3>1. F \cap Comp' = {}
      BY <1>8, <2>1, <2>2 DEF FullyTaken
    <3>2. ASSUME NEW v \in F
          PROVE  Visited(v)' /\ \E f \in Edges : state'[f] = v /\ Ends(f) \subseteq F
      <4>1. PICK f \in Edges : state[f] = v /\ Ends(f) \subseteq F
        BY <2>1 DEF FullyTaken
      <4>2. f # e /\ Visited(v) /\ v \in Vertices \ {w}
        BY <1>2, <2>1, <2>2, <4>1 DEF FullyTaken
      <4> QED
        BY <1>5, <1>6, <4>1, <4>2
    <3>3. ASSUME NEW f \in Edges, state'[f] = Stashed
          PROVE  Ends(f) \subseteq F \/ Ends(f) \subseteq Comp'
      <4>1. f # e /\ state[f] = Stashed
        BY <1>2, <1>4, <1>5, <3>3
      <4> QED
        BY <1>8, <2>1, <4>1 DEF FullyTaken
    <3> QED
      BY <1>2, <3>1, <3>2, <3>3 DEF FullyTaken
  <2> QED
    BY <2>3 DEF FullInv
<1>19. ScanInv'
  BY <1>2, <1>6 DEF IInv, ScanInv
<1> QED
  BY <1>9, <1>11, <1>12, <1>13, <1>14, <1>15, <1>16, <1>17, <1>18, <1>19 DEF IInv

(* What KeepExtra and StashEdge have in common.                            *)
LEMMA OffTree ==
  ASSUME IInv, NEW e \in Edges, Looks(e), state[e] = Unvisited, Visited(OtherEnd(e, curr)),
         NEW x \in Vertices \cup {Stashed}, x \in Ends(e) \cup {Stashed},
         state' = [state EXCEPT ![e] = x], UNCHANGED <<forest, dfs>>
  PROVE  /\ Stack' = Stack /\ Comp' = Comp /\ Ends(e) \subseteq Comp
         /\ parentVertex' = parentVertex /\ parentEdge' = parentEdge
         /\ state'[e] = x /\ \A f \in Edges \ {e} : state'[f] = state[f]
         /\ state' \in [Edges -> Vertices \cup {Unvisited, Stashed}]
         /\ \A v \in Vertices : parentEdge[v] # e
         /\ TreeInv' /\ RankInv' /\ EdgeInv' /\ CompInv' /\ FullInv' /\ ScanInv'
<1>1. /\ pc = "search" /\ pc' = "search" /\ e \in todo /\ todo' = todo \ {e}
      /\ input' = input /\ component' = component /\ curr' = curr /\ away' = away /\ start' = start
      /\ Edges' = Edges /\ (\A f : Ends(f)' = Ends(f))
      /\ curr \in component /\ curr \in Comp
      /\ Ends(e) = {curr, OtherEnd(e, curr)} /\ OtherEnd(e, curr) \in Stack
  BY LookFacts
<1>2. TypeInv /\ input \in Inputs /\ state \in [Edges -> Vertices \cup {Unvisited, Stashed}]
  BY DEF IInv, TypeInv
<1>3. /\ \A y \in {Unvisited, Stashed, None, Root} : y \notin Vertices /\ y \notin Edges
      /\ Unvisited # Stashed /\ \A f \in Edges : Ends(f) # {}
  BY <1>2, Graph, StatesAssumption
<1>4. /\ Stack' = Stack /\ Comp' = Comp /\ parentVertex' = parentVertex
      /\ parentEdge' = parentEdge /\ \A v : Visited(v)' = Visited(v)
  BY <1>1 DEF Stack, Comp, Searching, forest, Visited
<1>5. Ends(e) \subseteq Comp
  BY <1>1 DEF Comp, Searching
<1>6. /\ state'[e] = x /\ (\A f \in Edges \ {e} : state'[f] = state[f])
      /\ state' \in [Edges -> Vertices \cup {Unvisited, Stashed}] /\ x # Unvisited
  BY <1>2, <1>3
<1>7. \A v \in Vertices : parentEdge[v] # e
  <2> SUFFICES ASSUME NEW v \in Vertices, parentEdge[v] = e PROVE FALSE
    OBVIOUS
  <2>1. parentVertex[v] \in Vertices \cup {None, Root}
    BY <1>2 DEF TypeInv
  <2>2. parentVertex[v] \in Vertices
    BY <1>3, <2>1 DEF IInv, TreeInv
  <2>3. state[e] \in Vertices
    BY <2>2 DEF IInv, TreeInv
  <2> QED
    BY <1>3, <2>3
<1>8. TreeInv' /\ ScanInv'
  BY <1>1, <1>4, <1>6, <1>7 DEF IInv, TreeInv, ScanInv, Visited
<1>9. RankInv'
  BY <1>1, <1>4 DEF IInv, RankInv, Ordered
<1>10. EdgeInv'
  <2>1. EdgeInv /\ \A v \in Comp : Visited(v)
    BY DEF IInv, CompInv
  <2>2. ASSUME NEW f \in Edges, f # e
        PROVE  /\ state'[f] \in Vertices => state'[f] \in Ends(f)
               /\ state'[f] # Unvisited =>
                    /\ \A v \in Ends(f) : Visited(v)'
                    /\ Ends(f) \subseteq Comp' \/ Ends(f) \cap Comp' = {}
               /\ state'[f] = Unvisited =>
                    \A v \in Ends(f) : Visited(v)' => v \in Stack' \/ (v = curr /\ f \in todo')
    BY <1>1, <1>4, <1>6, <2>1, <2>2 DEF EdgeInv
  <2> QED
    BY <1>1, <1>3, <1>4, <1>5, <1>6, <2>1, <2>2 DEF EdgeInv
<1>11. CompInv'
  BY <1>1, <1>4 DEF IInv, CompInv, Searching
<1>12. FullInv'
  <2>1. PICK F \in SUBSET Vertices : FullyTaken(F)
    BY DEF IInv, FullInv
  <2>2. ASSUME NEW v \in F
        PROVE  Visited(v)' /\ \E f \in Edges : state'[f] = v /\ Ends(f) \subseteq F
    <3>1. PICK f \in Edges : state[f] = v /\ Ends(f) \subseteq F
      BY <2>1 DEF FullyTaken
    <3>2. f # e /\ Visited(v)
      BY <1>3, <2>1, <3>1 DEF FullyTaken
    <3> QED
      BY <1>4, <1>6, <3>1, <3>2
  <2>3. ASSUME NEW f \in Edges, state'[f] = Stashed
        PROVE  Ends(f) \subseteq F \/ Ends(f) \subseteq Comp
    BY <1>5, <1>6, <2>1, <2>3 DEF FullyTaken
  <2>4. FullyTaken(F)'
    BY <1>1, <1>4, <2>1, <2>2, <2>3 DEF FullyTaken
  <2> QED
    BY <2>4 DEF FullInv
<1> QED
  BY <1>4, <1>5, <1>6, <1>7, <1>8, <1>9, <1>10, <1>11, <1>12

LEMMA KeepInv ==
  ASSUME IInv, NEW e \in Edges, KeepExtra(e)
  PROVE  IInv'
<1> PICK w : w = OtherEnd(e, curr)
  OBVIOUS
<1>1. /\ Looks(e) /\ state[e] = Unvisited /\ Visited(w) /\ extraEdge = None
      /\ extraEdge' = e /\ state' = [state EXCEPT ![e] = w] /\ UNCHANGED <<forest, dfs>>
  BY DEF KeepExtra, Visited
<1>2. /\ pc = "search" /\ pc' = "search" /\ todo' = todo \ {e} /\ input' = input
      /\ component' = component /\ curr' = curr /\ away' = away /\ start' = start
      /\ Edges' = Edges /\ (\A f : Ends(f)' = Ends(f)) /\ w \in Vertices /\ w \in Ends(e)
  BY <1>1, LookFacts
<1>3. /\ Stack' = Stack /\ Comp' = Comp /\ Ends(e) \subseteq Comp
      /\ parentVertex' = parentVertex /\ parentEdge' = parentEdge
      /\ state'[e] = w /\ (\A f \in Edges \ {e} : state'[f] = state[f])
      /\ state' \in [Edges -> Vertices \cup {Unvisited, Stashed}]
      /\ \A v \in Vertices : parentEdge[v] # e
      /\ TreeInv' /\ RankInv' /\ EdgeInv' /\ CompInv' /\ FullInv' /\ ScanInv'
  BY <1>1, <1>2, OffTree
<1>4. TypeInv'
  BY <1>1, <1>2, <1>3 DEF IInv, TypeInv, forest
<1>5. /\ TypeInv /\ input \in Inputs
      /\ \A x \in {Unvisited, Stashed, None, Root} : x \notin Vertices /\ x \notin Edges
  BY Graph DEF IInv, TypeInv
<1>6. SearchInv'
  <2>1. SearchInv
    BY DEF IInv
  <2>2. ASSUME NEW v \in Comp, parentVertex[v] \in Vertices
        PROVE  state'[parentEdge[v]] = v
    <3>1. v \in Vertices
      BY <1>2, <1>5 DEF Comp, Stack, Searching, TypeInv
    <3>2. parentEdge[v] \in Edges \ {e}
      BY <1>3, <2>2, <3>1 DEF IInv, TreeInv
    <3> QED
      BY <1>2, <1>3, <2>1, <2>2, <3>2 DEF SearchInv
  <2>3. ASSUME NEW f \in Edges, state'[f] \in Comp
        PROVE  f \in {e, parentEdge[state'[f]]}
    BY <1>1, <1>2, <1>3, <1>5, <2>1, <2>3 DEF SearchInv
  <2> QED
    BY <1>1, <1>2, <1>3, <1>5, <2>2, <2>3 DEF SearchInv
<1>7. TurnInv'
  BY <1>2 DEF TurnInv
<1>8. ClaimsInv'
  <2>1. ClaimsInv
    BY DEF IInv
  <2> QED
    BY <1>2, <1>3, <2>1 DEF ClaimsInv
<1> QED
  BY <1>3, <1>4, <1>6, <1>7, <1>8 DEF IInv

LEMMA StashInv ==
  ASSUME IInv, NEW e \in Edges, StashEdge(e)
  PROVE  IInv'
<1>1. /\ Looks(e) /\ state[e] = Unvisited /\ Visited(OtherEnd(e, curr)) /\ extraEdge # None
      /\ extraEdge' = extraEdge /\ state' = [state EXCEPT ![e] = Stashed] /\ UNCHANGED <<forest, dfs>>
  BY DEF StashEdge, Visited
<1>2. /\ pc = "search" /\ pc' = "search" /\ todo' = todo \ {e} /\ input' = input
      /\ component' = component /\ curr' = curr /\ away' = away /\ start' = start
      /\ Edges' = Edges /\ (\A f : Ends(f)' = Ends(f))
  BY <1>1, LookFacts
<1>3. /\ Stack' = Stack /\ Comp' = Comp /\ Ends(e) \subseteq Comp
      /\ parentVertex' = parentVertex /\ parentEdge' = parentEdge
      /\ state'[e] = Stashed /\ (\A f \in Edges \ {e} : state'[f] = state[f])
      /\ state' \in [Edges -> Vertices \cup {Unvisited, Stashed}]
      /\ \A v \in Vertices : parentEdge[v] # e
      /\ TreeInv' /\ RankInv' /\ EdgeInv' /\ CompInv' /\ FullInv' /\ ScanInv'
  BY <1>1, OffTree
<1>4. TypeInv'
  BY <1>1, <1>2, <1>3 DEF IInv, TypeInv, forest
<1>5. /\ TypeInv /\ input \in Inputs
      /\ \A x \in {Unvisited, Stashed, None, Root} : x \notin Vertices /\ x \notin Edges
  BY Graph DEF IInv, TypeInv
<1>6. Comp \subseteq Vertices
  BY <1>2, <1>5 DEF Comp, Stack, Searching, TypeInv
<1>7. SearchInv'
  <2>1. SearchInv
    BY DEF IInv
  <2>2. ASSUME NEW v \in Comp, parentVertex[v] \in Vertices
        PROVE  state'[parentEdge[v]] = v
    <3>1. parentEdge[v] \in Edges \ {e}
      BY <1>3, <1>6, <2>2 DEF IInv, TreeInv
    <3> QED
      BY <1>2, <1>3, <2>1, <2>2, <3>1 DEF SearchInv
  <2>3. extraEdge \in Edges /\ state[extraEdge] \in Comp /\ extraEdge # e
    BY <1>1, <1>2, <1>5, <1>6, <2>1 DEF SearchInv, TypeInv
  <2>4. ASSUME NEW f \in Edges, state'[f] \in Comp
        PROVE  f \in {extraEdge, parentEdge[state'[f]]}
    BY <1>2, <1>3, <1>5, <1>6, <2>1, <2>4 DEF SearchInv
  <2> QED
    BY <1>1, <1>2, <1>3, <2>1, <2>2, <2>3, <2>4 DEF SearchInv
<1>8. TurnInv'
  BY <1>2 DEF TurnInv
<1>9. ClaimsInv'
  <2>1. ClaimsInv
    BY DEF IInv
  <2> QED
    BY <1>2, <1>3, <1>5, <2>1 DEF ClaimsInv
<1> QED
  BY <1>3, <1>4, <1>7, <1>8, <1>9 DEF IInv

(* A search that ends has looked at every edge of its component.           *)
LEMMA EndSearchInv ==
  ASSUME IInv, EndSearch
  PROVE  IInv'
<1>1. /\ pc = "search" /\ todo = {} /\ dfs = <<>>
      /\ UNCHANGED <<input, state, forest, walk, extraEdge>>
      /\ IF extraEdge = None
         THEN pc' = "scan" /\ start' = start + 1 /\ away' = away
         ELSE pc' = "turn" /\ away' = state[extraEdge] /\ start' = start
  BY DEF EndSearch
<1>2. /\ input' = input /\ state' = state /\ parentVertex' = parentVertex /\ parentEdge' = parentEdge
      /\ dfs' = dfs /\ component' = component /\ curr' = curr /\ todo' = todo /\ extraEdge' = extraEdge
      /\ Edges' = Edges /\ (\A e : Ends(e)' = Ends(e)) /\ \A v : Visited(v)' = Visited(v)
  BY <1>1 DEF forest, walk, Edges, Ends, Visited
<1>3. Stack = {} /\ Stack' = {} /\ Comp = component
  BY <1>1, <1>2 DEF Stack, Comp, Searching
<1>4. /\ TypeInv /\ input \in Inputs /\ component \subseteq Vertices /\ extraEdge \in Edges \cup {None}
      /\ \A x \in {Unvisited, Stashed, None, Root} : x \notin Vertices /\ x \notin Edges
      /\ \A e \in Edges : Ends(e) # {} /\ Ends(e) \subseteq Vertices
  BY Graph DEF IInv, TypeInv
<1>5. SearchInv /\ CompInv /\ start \in component /\ start \in Vertices /\ parentVertex[start] = Root
  BY <1>1, <1>3, <1>4 DEF IInv, CompInv, Searching
<1>6. parentEdge[start] = Root
  BY <1>5 DEF IInv, TreeInv
<1>7. \A e \in Edges : state[e] = Unvisited => \A v \in Ends(e) : ~Visited(v)
  BY <1>1, <1>3 DEF IInv, EdgeInv
<1>8. TreeInv'
  BY <1>2 DEF IInv, TreeInv
(* Claims on one cell of the component: the extra edge's and the tree's.   *)
<1>9. ASSUME NEW e \in Edges, NEW f \in Edges, e # f, state[e] \in Vertices, state[e] = state[f]
      PROVE  /\ extraEdge # None /\ state[e] = state[extraEdge]
             /\ parentEdge[state[e]] \in {e, f}
  <2>1. state[e] \in component
    BY <1>1, <1>3, <1>9 DEF IInv, ClaimsInv
  <2>2. e \in {extraEdge, parentEdge[state[e]]} /\ f \in {extraEdge, parentEdge[state[e]]}
    BY <1>1, <1>3, <1>5, <1>9, <2>1 DEF SearchInv
  <2> QED
    BY <1>4, <1>9, <2>2
<1>10. CASE extraEdge = None
  <2>1. pc' = "scan" /\ start' = start + 1 /\ away' = away /\ Comp' = {}
    BY <1>1, <1>10 DEF Comp, Searching
  <2>2. TypeInv' /\ ScanInv'
    <3>1. start + 1 \in 0 .. 2 * ColumnLen
      BY <1>5, InputsAssumption DEF Vertices
    <3>2. Visited(start)
      BY <1>3, <1>5 DEF CompInv
    <3>3. \A v \in Vertices : v < start + 1 => v < start \/ v = start
      BY <1>5, InputsAssumption DEF Vertices
    <3> QED
      BY <1>2, <1>4, <2>1, <3>1, <3>2, <3>3 DEF IInv, TypeInv, ScanInv
  <2>3. RankInv'
    BY <1>2, <2>1 DEF IInv, RankInv, Ordered
  <2>4. EdgeInv' /\ CompInv'
    BY <1>1, <1>2, <1>7, <2>1 DEF IInv, EdgeInv, CompInv, Searching
  <2>5. SearchInv' /\ TurnInv' /\ ClaimsInv'
    BY <1>2, <1>9, <1>10, <2>1 DEF SearchInv, TurnInv, ClaimsInv
  <2>6. FullInv'
    <3>1. PICK F \in SUBSET Vertices : FullyTaken(F)
      BY DEF IInv, FullInv
    <3>2. \A e \in Edges : state[e] = Stashed => Ends(e) \subseteq F
      BY <1>1, <1>5, <1>10, <3>1 DEF FullyTaken, SearchInv
    <3>3. FullyTaken(F)'
      BY <1>2, <2>1, <3>1, <3>2 DEF FullyTaken
    <3> QED
      BY <3>3 DEF FullInv
  <2> QED
    BY <1>8, <2>2, <2>3, <2>4, <2>5, <2>6 DEF IInv
<1>11. CASE extraEdge # None
  <2>1. pc' = "turn" /\ away' = state[extraEdge] /\ start' = start /\ Comp' = Comp /\ extraEdge \in Edges
    BY <1>1, <1>2, <1>3, <1>4, <1>11 DEF Comp, Searching
  <2>2. away' \in component /\ away' \in Vertices /\ \A v \in Vertices : parentEdge[v] # extraEdge
    BY <1>1, <1>3, <1>4, <1>5, <1>11, <2>1 DEF SearchInv
  <2>3. TypeInv' /\ ScanInv'
    BY <1>2, <1>4, <2>1, <2>2 DEF IInv, TypeInv, ScanInv
  <2>4. RankInv'
    <3>1. PICK rank \in [Vertices -> Nat] : Ordered(rank)
      BY DEF IInv, RankInv
    <3>2. Ordered(rank)'
      BY <1>2, <3>1 DEF Ordered
    <3>3. PointsDown(rank)'
      BY <1>1, <1>2, <1>3, <1>5 DEF PointsDown, SearchInv
    <3> QED
      BY <3>2, <3>3 DEF RankInv
  <2>5. EdgeInv' /\ CompInv'
    BY <1>1, <1>2, <1>7, <2>1 DEF IInv, EdgeInv, CompInv, Searching
  <2>6. SearchInv'
    BY <2>1 DEF SearchInv
  <2>7. TurnInv'
    <3>1. \E e \in Edges : state[e] = away' /\ e # parentEdge[away']
      BY <2>1, <2>2
    <3>2. ASSUME NEW v \in component \ {start}
          PROVE  \E e \in Edges : state[e] = v
      <4>1. parentVertex[v] \in Vertices \cup {None, Root} /\ v \in Vertices
        BY <1>4 DEF TypeInv
      <4>2. parentVertex[v] \in Vertices
        BY <1>3, <1>5, <3>2, <4>1 DEF CompInv, Visited
      <4>3. parentEdge[v] \in Edges
        BY <4>1, <4>2 DEF IInv, TreeInv
      <4>4. state[parentEdge[v]] = v
        BY <1>1, <1>3, <1>5, <4>2 DEF SearchInv
      <4> QED
        BY <4>3, <4>4
    <3>3. ASSUME away' # start, NEW e \in Edges
          PROVE  state[e] # start
      <4>1. state[e] = start => e \in {extraEdge, parentEdge[start]}
        BY <1>1, <1>3, <1>5 DEF SearchInv
      <4> QED
        BY <1>4, <1>6, <2>1, <3>3, <4>1
    <3> QED
      BY <1>2, <2>1, <2>2, <3>1, <3>2, <3>3 DEF TurnInv
  <2>8. ClaimsInv'
    <3>1. ASSUME NEW e \in Edges, NEW f \in Edges, e # f, state[e] \in Vertices, state[e] = state[f]
          PROVE  state[e] = away' /\ parentEdge[away'] \in {e, f}
      BY <1>9, <2>1, <3>1
    <3> QED
      BY <1>2, <2>1, <3>1 DEF ClaimsInv
  <2>9. FullInv'
    BY <1>2, <2>1 DEF IInv, FullInv, FullyTaken
  <2> QED
    BY <1>8, <2>3, <2>4, <2>5, <2>6, <2>7, <2>8, <2>9 DEF IInv
<1> QED
  BY <1>10, <1>11

(* A turned edge leaves the cell that was taken twice to the other edge,   *)
(* and takes the parent's, so far its parent edge's alone.                 *)
LEMMA TurnEdgeInv ==
  ASSUME IInv, TurnEdge
  PROVE  IInv'
<1> PICK p, g : p = parentVertex[away] /\ g = parentEdge[away]
  OBVIOUS
<1>1. /\ pc = "turn" /\ pc' = "turn" /\ p # Root /\ state' = [state EXCEPT ![g] = p] /\ away' = p
      /\ UNCHANGED <<input, forest, walk, extraEdge, start>>
  BY DEF TurnEdge, AtRoot
<1>2. /\ input' = input /\ parentVertex' = parentVertex /\ parentEdge' = parentEdge
      /\ dfs' = dfs /\ component' = component /\ curr' = curr /\ todo' = todo /\ extraEdge' = extraEdge
      /\ start' = start /\ Edges' = Edges /\ (\A e : Ends(e)' = Ends(e)) /\ \A v : Visited(v)' = Visited(v)
  BY <1>1 DEF forest, walk, Edges, Ends, Visited
<1>3. /\ TypeInv /\ input \in Inputs /\ component \subseteq Vertices /\ away \in Vertices
      /\ state \in [Edges -> Vertices \cup {Unvisited, Stashed}]
      /\ \A x \in {Unvisited, Stashed, None, Root} : x \notin Vertices /\ x \notin Edges
      /\ \A e \in Edges : Ends(e) # {} /\ Ends(e) \subseteq Vertices
  BY Graph DEF IInv, TypeInv
<1>4. dfs = <<>> /\ Stack = {} /\ Comp = component /\ Comp' = Comp /\ Stack' = Stack
  BY <1>1, <1>2 DEF Stack, Comp, Searching, IInv, CompInv
<1>5. TurnInv /\ CompInv /\ away \in component /\ start \in component /\ parentVertex[start] = Root
  BY <1>1, <1>4 DEF IInv, CompInv, TurnInv, Searching
<1>6. p \in Vertices /\ p \in component /\ away # start
  <2>1. p \in Vertices \cup {None, Root}
    BY <1>3 DEF TypeInv
  <2>2. p \in Vertices
    BY <1>1, <1>4, <1>5, <2>1 DEF CompInv, Visited
  <2> QED
    BY <1>1, <1>4, <1>5, <2>2 DEF CompInv
<1>7. g \in Edges /\ Ends(g) = {away, p} /\ state[g] \in Vertices
  BY <1>3, <1>6 DEF IInv, TreeInv
<1>8. PICK rank \in [Vertices -> Nat] : Ordered(rank) /\ PointsDown(rank)
  BY <1>1 DEF IInv, RankInv
<1>9. rank[p] < rank[away] /\ p # away
  BY <1>3, <1>6, <1>8 DEF Ordered
<1>10. state[g] = away
  BY <1>3, <1>5, <1>6, <1>8 DEF PointsDown
<1>11. state'[g] = p /\ \A e \in Edges \ {g} : state'[e] = state[e]
  BY <1>1, <1>3, <1>7
(* No other vertex has g as its parent edge.                               *)
<1>12. ASSUME NEW v \in Vertices, parentEdge[v] = g
       PROVE  v = away
  <2>1. parentVertex[v] \in Vertices \cup {None, Root}
    BY <1>3 DEF TypeInv
  <2>2. parentVertex[v] \in Vertices
    BY <1>3, <1>7, <1>12, <2>1 DEF IInv, TreeInv
  <2>3. {v, parentVertex[v]} = {away, p} /\ rank[parentVertex[v]] < rank[v]
    BY <1>7, <1>8, <1>12, <2>2 DEF IInv, TreeInv, Ordered
  <2>4. rank[v] \in Nat /\ rank[p] \in Nat /\ rank[away] \in Nat
    BY <1>3, <1>6
  <2> QED
    BY <1>9, <2>3, <2>4
<1>13. TypeInv'
  BY <1>1, <1>2, <1>3, <1>6, <1>7 DEF TypeInv
<1>14. TreeInv' /\ ScanInv'
  BY <1>1, <1>2, <1>6, <1>7, <1>11, <1>12 DEF IInv, TreeInv, ScanInv
<1>15. RankInv'
  <2>1. Ordered(rank)'
    BY <1>2, <1>8 DEF Ordered
  <2>2. PointsDown(rank)'
    <3> SUFFICES ASSUME NEW v \in component, rank[v] <= rank[p], parentVertex[v] \in Vertices
                 PROVE  state'[parentEdge[v]] = v
      BY <1>1, <1>2 DEF PointsDown
    <3>1. v \in Vertices /\ rank[v] \in Nat /\ rank[p] \in Nat /\ rank[away] \in Nat
      BY <1>3, <1>6
    <3>2. rank[v] <= rank[away] /\ v # away
      BY <1>9, <3>1
    <3>3. state[parentEdge[v]] = v /\ parentEdge[v] \in Edges
      BY <1>8, <3>1, <3>2 DEF PointsDown, IInv, TreeInv
    <3> QED
      BY <1>11, <1>12, <3>1, <3>2, <3>3
  <2> QED
    BY <2>1, <2>2 DEF RankInv
<1>16. EdgeInv'
  BY <1>1, <1>2, <1>3, <1>4, <1>6, <1>7, <1>11 DEF IInv, EdgeInv
<1>17. CompInv'
  BY <1>1, <1>2, <1>4 DEF IInv, CompInv, Searching
<1>18. SearchInv'
  BY <1>1 DEF SearchInv
<1>19. TurnInv'
  <2>1. g # parentEdge[p]
    BY <1>6, <1>9, <1>12
  <2>2. ASSUME NEW v \in component \ {start}
        PROVE  \E e \in Edges : state'[e] = v
    <3>1. CASE v = away
      BY <1>1, <1>5, <1>11, <3>1 DEF TurnInv
    <3>2. CASE v # away
      <4>1. PICK e \in Edges : state[e] = v
        BY <1>1, <1>5 DEF TurnInv
      <4> QED
        BY <1>10, <1>11, <3>2, <4>1
    <3> QED
      BY <3>1, <3>2
  <2>3. p # start => \A e \in Edges : state'[e] # start
    BY <1>1, <1>5, <1>6, <1>11 DEF TurnInv
  <2> QED
    BY <1>1, <1>2, <1>6, <1>7, <1>11, <2>1, <2>2, <2>3 DEF TurnInv
<1>20. ClaimsInv'
  <2>1. ClaimsInv
    BY DEF IInv
  (* What pointed at p before the turn is its parent edge.                 *)
  <2>2. ASSUME NEW f \in Edges, f # g, state[f] = p
        PROVE  f = parentEdge[p]
    <3>1. p # start
      BY <1>1, <1>5, <1>6, <2>2 DEF TurnInv
    <3>2. parentVertex[p] \in Vertices \cup {None, Root}
      BY <1>3, <1>6 DEF TypeInv
    <3>3. parentVertex[p] \in Vertices
      BY <1>4, <1>5, <1>6, <3>1, <3>2 DEF CompInv, Visited
    <3>4. rank[p] <= rank[away]
      BY <1>3, <1>6, <1>9
    <3>5. state[parentEdge[p]] = p /\ parentEdge[p] \in Edges
      BY <1>6, <1>8, <3>3, <3>4 DEF PointsDown, IInv, TreeInv
    <3> QED
      BY <1>1, <1>6, <1>9, <2>1, <2>2, <3>5 DEF ClaimsInv
  <2>3. ASSUME NEW e \in Edges, NEW f \in Edges, e # f, state'[e] \in Vertices, state'[e] = state'[f]
        PROVE  state'[e] = p /\ parentEdge[p] \in {e, f}
    <3>1. CASE e = g
      BY <1>11, <2>2, <2>3, <3>1
    <3>2. CASE f = g
      BY <1>11, <2>2, <2>3, <3>2
    <3>3. CASE e # g /\ f # g
      BY <1>1, <1>11, <2>1, <2>3, <3>3 DEF ClaimsInv
    <3> QED
      BY <3>1, <3>2, <3>3
  <2> QED
    BY <1>1, <1>2, <2>3 DEF ClaimsInv
<1>21. FullInv'
  <2>1. PICK F \in SUBSET Vertices : FullyTaken(F)
    BY DEF IInv, FullInv
  <2>2. ~(Ends(g) \subseteq F)
    BY <1>4, <1>5, <1>7, <2>1 DEF FullyTaken
  <2>3. ASSUME NEW v \in F
        PROVE  Visited(v)' /\ \E f \in Edges : state'[f] = v /\ Ends(f) \subseteq F
    <3>1. PICK f \in Edges : state[f] = v /\ Ends(f) \subseteq F
      BY <2>1 DEF FullyTaken
    <3> QED
      BY <1>2, <1>11, <2>1, <2>2, <3>1 DEF FullyTaken
  <2>4. ASSUME NEW f \in Edges, state'[f] = Stashed
        PROVE  Ends(f) \subseteq F \/ Ends(f) \subseteq Comp
    BY <1>3, <1>6, <1>11, <2>1, <2>4 DEF FullyTaken
  <2>5. FullyTaken(F)'
    BY <1>2, <1>4, <2>1, <2>3, <2>4 DEF FullyTaken
  <2> QED
    BY <2>5 DEF FullInv
<1> QED
  BY <1>13, <1>14, <1>15, <1>16, <1>17, <1>18, <1>19, <1>20, <1>21 DEF IInv

LEMMA EndComponentInv ==
  ASSUME IInv, EndComponent
  PROVE  IInv'
<1>1. /\ pc = "turn" /\ pc' = "scan" /\ parentVertex[away] = Root /\ start' = start + 1
      /\ UNCHANGED <<input, state, forest, walk, extraEdge, away>>
  BY DEF EndComponent, AtRoot
<1>2. /\ input' = input /\ parentVertex' = parentVertex /\ parentEdge' = parentEdge /\ state' = state
      /\ dfs' = dfs /\ component' = component /\ curr' = curr /\ todo' = todo /\ extraEdge' = extraEdge
      /\ away' = away /\ Edges' = Edges /\ (\A e : Ends(e)' = Ends(e)) /\ \A v : Visited(v)' = Visited(v)
  BY <1>1 DEF forest, walk, Edges, Ends, Visited
<1>3. /\ TypeInv /\ input \in Inputs /\ component \subseteq Vertices /\ away \in Vertices
      /\ \A x \in {Unvisited, Stashed, None, Root} : x \notin Vertices /\ x \notin Edges
  BY Graph DEF IInv, TypeInv
<1>4. dfs = <<>> /\ Stack = {} /\ Comp = component /\ Comp' = {}
  BY <1>1, <1>2 DEF Stack, Comp, Searching, IInv, CompInv
<1>5. TurnInv /\ CompInv /\ away = start /\ start \in component
  BY <1>1, <1>4 DEF IInv, CompInv, TurnInv, Searching
<1>6. start \in Vertices /\ Visited(start) /\ parentEdge[away] \notin Edges
  BY <1>1, <1>3, <1>4, <1>5 DEF IInv, CompInv, TreeInv
<1>7. TypeInv' /\ ScanInv'
  <2>1. start + 1 \in 0 .. 2 * ColumnLen /\ \A v \in Vertices : v < start + 1 => v < start \/ v = start
    BY <1>6, InputsAssumption DEF Vertices
  <2> QED
    BY <1>1, <1>2, <1>3, <1>6, <2>1 DEF IInv, TypeInv, ScanInv
<1>8. TreeInv' /\ RankInv'
  BY <1>1, <1>2 DEF IInv, TreeInv, RankInv, Ordered
<1>9. EdgeInv' /\ CompInv'
  BY <1>1, <1>2, <1>4 DEF IInv, EdgeInv, CompInv, Searching
<1>10. SearchInv' /\ TurnInv' /\ ClaimsInv'
  BY <1>1, <1>2, <1>6 DEF IInv, SearchInv, TurnInv, ClaimsInv
<1>11. FullInv'
  <2>1. PICK F \in SUBSET Vertices : FullyTaken(F)
    BY DEF IInv, FullInv
  <2>2. PICK G \in SUBSET Vertices : G = F \cup component
    BY <1>3
  <2>3. ASSUME NEW v \in component
        PROVE  Visited(v) /\ \E e \in Edges : state[e] = v /\ Ends(e) \subseteq component
    <3>1. PICK e \in Edges : state[e] = v
      BY <1>1, <1>5 DEF TurnInv
    <3>2. v \in Ends(e) /\ state[e] # Unvisited
      BY <1>3, <3>1 DEF IInv, EdgeInv
    <3>3. Ends(e) \subseteq component
      BY <1>4, <3>2 DEF IInv, EdgeInv
    <3> QED
      BY <1>4, <1>5, <3>1, <3>3 DEF CompInv
  <2>4. FullyTaken(G)'
    <3>1. ASSUME NEW v \in G
          PROVE  Visited(v) /\ \E e \in Edges : state[e] = v /\ Ends(e) \subseteq G
      <4>1. CASE v \in component
        BY <2>2, <2>3, <4>1
      <4>2. CASE v \in F
        BY <2>1, <2>2, <4>2 DEF FullyTaken
      <4> QED
        BY <2>2, <4>1, <4>2
    <3>2. \A e \in Edges : state[e] = Stashed => Ends(e) \subseteq G
      BY <1>4, <2>1, <2>2 DEF FullyTaken
    <3> QED
      BY <1>2, <1>4, <3>1, <3>2 DEF FullyTaken
  <2> QED
    BY <2>4 DEF FullInv
<1> QED
  BY <1>7, <1>8, <1>9, <1>10, <1>11 DEF IInv

(* What changes nothing but the table, or nothing at all.                  *)
LEMMA RestInv ==
  ASSUME IInv, Place \/ Overflow \/ UNCHANGED vars
  PROVE  IInv'
<1>1. /\ UNCHANGED <<input, state, forest, walk, extraEdge, away, start>>
      /\ pc' = pc \/ (pc = "scan" /\ pc' \in {"built", "overflow"} /\ start \notin Vertices)
  BY DEF Place, Overflow, vars
<1>2. /\ input' = input /\ state' = state /\ parentVertex' = parentVertex /\ parentEdge' = parentEdge
      /\ dfs' = dfs /\ component' = component /\ curr' = curr /\ todo' = todo
      /\ extraEdge' = extraEdge /\ away' = away /\ start' = start
      /\ Edges' = Edges /\ (\A e : Ends(e)' = Ends(e)) /\ \A v : Visited(v)' = Visited(v)
  BY <1>1 DEF forest, walk, Edges, Ends, Visited
<1>3. Stack' = Stack /\ Comp' = Comp /\ Searching' = Searching
  BY <1>1, <1>2 DEF Stack, Comp, Searching
<1>4. TypeInv' /\ TreeInv' /\ ScanInv'
  BY <1>1, <1>2 DEF IInv, TypeInv, TreeInv, ScanInv
<1>5. RankInv'
  BY <1>1, <1>2 DEF IInv, RankInv, Ordered, PointsDown
<1>6. EdgeInv' /\ CompInv'
  BY <1>1, <1>2, <1>3 DEF IInv, EdgeInv, CompInv
<1>7. SearchInv' /\ TurnInv' /\ ClaimsInv'
  BY <1>1, <1>2, <1>3 DEF IInv, SearchInv, TurnInv, ClaimsInv
<1>8. FullInv'
  BY <1>2, <1>3 DEF IInv, FullInv, FullyTaken
<1> QED
  BY <1>4, <1>5, <1>6, <1>7, <1>8 DEF IInv

LEMMA StepInv == IInv /\ [Next]_vars => IInv'
<1> SUFFICES ASSUME IInv, [Next]_vars PROVE IInv'
  OBVIOUS
<1>1. CASE StartComponent
  BY <1>1, StartInv
<1>2. CASE SkipVertex
  BY <1>2, SkipInv
<1>3. CASE Pop
  BY <1>3, PopInv
<1>4. CASE \E e \in Edges : PassEdge(e) \/ GrowTree(e) \/ KeepExtra(e) \/ StashEdge(e)
  BY <1>4, PassInv, GrowInv, KeepInv, StashInv
<1>5. CASE EndSearch
  BY <1>5, EndSearchInv
<1>6. CASE TurnEdge
  BY <1>6, TurnEdgeInv
<1>7. CASE EndComponent
  BY <1>7, EndComponentInv
<1>8. CASE Place \/ Overflow \/ Done \/ UNCHANGED vars
  BY <1>8, RestInv DEF Done
<1> QED
  BY <1>1, <1>2, <1>3, <1>4, <1>5, <1>6, <1>7, <1>8 DEF Next

LEMMA Invariant == Spec => []IInv
BY InitInv, StepInv, PTL DEF Spec

---------------------------------------------------------------------------
(* Between components no two entries point at the same cell, for every     *)
(* input and column length, and every edge of a component has been seen.   *)
THEOREM CellsDistinct == Spec => []CellsClaimedOnce
<1>1. IInv => CellsClaimedOnce
  <2> SUFFICES ASSUME IInv, pc \notin {"search", "turn"} PROVE CellsClaimedOnce
    BY DEF CellsClaimedOnce
  <2>1. ASSUME NEW e \in Edges, NEW f \in Edges, e # f, state[e] \in Vertices
        PROVE  state[e] # state[f]
    BY <2>1 DEF IInv, ClaimsInv
  <2>2. ASSUME NEW e \in Edges
        PROVE  state[e] = Unvisited <=> \A v \in Ends(e) : parentVertex[v] = None
    <3>1. Ends(e) # {}
      BY Graph DEF IInv, TypeInv
    <3> QED
      BY <3>1 DEF IInv, EdgeInv, Visited
  <2> QED
    BY <2>1, <2>2 DEF CellsClaimedOnce
<1> QED
  BY <1>1, Invariant, PTL

(* The builder sets aside no more entries than the tags force any builder  *)
(* to: the cells of the components with an entry too many are all taken,   *)
(* by the entries that only fit there.                                     *)
THEOREM StashIsSmallest == Spec => []StashMinimal
<1>1. IInv => StashMinimal
  <2> SUFFICES ASSUME IInv, pc = "scan"
               PROVE  \E S \in SUBSET Edges :
                        Cardinality(MarkedStashed) <= Cardinality(S) - Cardinality(UNION {Ends(e) : e \in S})
    BY DEF StashMinimal
  <2>1. PICK F \in SUBSET Vertices : FullyTaken(F)
    BY DEF IInv, FullInv
  <2>2. Comp = {} /\ input \in Inputs
    BY DEF Comp, Searching, IInv, TypeInv
  <2>3. Edges = 1 .. Len(input) /\ Len(input) \in Nat /\ \A e \in Edges : Ends(e) # {}
    BY <2>2, Graph
  <2>4. PICK S \in SUBSET Edges : S = {e \in Edges : Ends(e) \subseteq F}
    OBVIOUS
  <2>5. IsFiniteSet(Edges) /\ IsFiniteSet(S)
    <3>1. IsFiniteSet(1 .. Len(input))
      BY <2>3, FS_Interval
    <3> QED
      BY <2>3, <3>1, FS_Subset
  <2>6. MarkedStashed \subseteq S
    BY <2>1, <2>2, <2>3, <2>4 DEF FullyTaken, MarkedStashed
  <2>7. UNION {Ends(e) : e \in S} = F
    <3>1. \A v \in F : \E e \in S : v \in Ends(e)
      <4> TAKE v \in F
      <4>1. PICK e \in Edges : state[e] = v /\ Ends(e) \subseteq F
        BY <2>1 DEF FullyTaken
      <4>2. v \in Ends(e)
        BY <4>1 DEF IInv, EdgeInv
      <4> QED
        BY <2>4, <4>1, <4>2
    <3> QED
      BY <2>4, <3>1
  <2> PICK T : T = S \ MarkedStashed
    OBVIOUS
  <2>8. IsFiniteSet(T) /\ Cardinality(T) = Cardinality(S) - Cardinality(MarkedStashed)
    <3>1. S \cap MarkedStashed = MarkedStashed
      BY <2>6
    <3>2. /\ IsFiniteSet(S \ MarkedStashed)
          /\ Cardinality(S \ MarkedStashed) = Cardinality(S) - Cardinality(S \cap MarkedStashed)
      BY <2>5, FS_Difference
    <3> QED
      BY <3>1, <3>2
  <2>9. Cardinality(F) <= Cardinality(T)
    <3> DEFINE taker == [v \in F |-> CHOOSE e \in Edges : state[e] = v /\ Ends(e) \subseteq F]
    <3>1. ASSUME NEW v \in F
          PROVE  taker[v] \in T /\ state[taker[v]] = v
      <4>1. taker[v] \in Edges /\ state[taker[v]] = v /\ Ends(taker[v]) \subseteq F
        BY <2>1 DEF FullyTaken
      <4>2. taker[v] \notin MarkedStashed
        BY <2>2, <4>1, Graph DEF MarkedStashed
      <4> QED
        BY <2>4, <4>1, <4>2
    <3>2. taker \in [F -> T]
      BY <3>1
    <3>3. \A v, w \in F : taker[v] = taker[w] => v = w
      BY <3>1
    <3> HIDE DEF taker
    <3>4. taker \in Injection(F, T)
      BY <3>2, <3>3 DEF Injection, IsInjective
    <3> QED
      BY <2>8, <3>4, FS_Injection
  <2>10. /\ Cardinality(F) \in Nat /\ Cardinality(S) \in Nat /\ Cardinality(MarkedStashed) \in Nat
    <3>1. IsFiniteSet(Vertices)
      BY InputsAssumption, FS_Interval DEF Vertices
    <3> QED
      BY <2>1, <2>5, <2>6, <3>1, FS_Subset, FS_CardinalityType
  <2>11. Cardinality(MarkedStashed) <= Cardinality(S) - Cardinality(F)
    BY <2>8, <2>9, <2>10
  <2> QED
    BY <2>7, <2>11
<1> QED
  BY <1>1, Invariant, PTL

---------------------------------------------------------------------------
(* What is handed back.                                                    *)
LEMMA LeastEdge ==
  ASSUME NEW S, S \subseteq Nat, S # {}
  PROVE  \E m \in S : \A n \in S : m <= n
<1>1. IsWellFoundedOn(OpToRel(<, Nat), Nat)
  BY NatLessThanWellFounded
<1>2. PICK m \in S : \A n \in S : ~ (<<n, m>> \in OpToRel(<, Nat))
  BY <1>1, WFMin, Zenon
<1>3. \A n \in S : ~ (n < m)
  BY <1>2 DEF OpToRel
<1> QED
  BY <1>3

Below(R, e) == {f \in R : f < e}
FirstOf(R, d) == {e \in R : Cardinality(Below(R, e)) < d}

(* The elements with fewer than d elements below them are d many.          *)
LEMMA CountFirst ==
  ASSUME NEW R, R \subseteq Nat, IsFiniteSet(R),
         NEW d \in Nat, d <= Cardinality(R)
  PROVE  Cardinality(FirstOf(R, d)) = d
<1>1. \A S \in SUBSET R : IsFiniteSet(S) /\ Cardinality(S) \in Nat
  BY FS_Subset, FS_CardinalityType
<1>2. \A e : Below(R, e) \in SUBSET R
  BY DEF Below
<1> DEFINE Wrong == {n \in Nat : n <= Cardinality(R) /\ Cardinality(FirstOf(R, n)) # n}
<1> SUFFICES ASSUME Wrong # {} PROVE FALSE
  OBVIOUS
<1>3. PICK m \in Wrong : \A n \in Wrong : m <= n
  BY LeastEdge
<1>4. m \in Nat /\ m <= Cardinality(R) /\ Cardinality(FirstOf(R, m)) # m
  BY <1>3
<1>5. m # 0
  <2>1. FirstOf(R, 0) = {}
    BY <1>1, <1>2 DEF FirstOf
  <2> QED
    BY <1>4, <2>1, FS_EmptySet
<1>6. PICK n \in Nat : m = n + 1
  BY <1>4, <1>5
<1> PICK X \in SUBSET R : X = FirstOf(R, n)
  BY DEF FirstOf
<1>7. Cardinality(X) = n /\ IsFiniteSet(X) /\ Cardinality(R) \in Nat
  BY <1>1, <1>3, <1>4, <1>6
<1>8. X # R
  BY <1>4, <1>6, <1>7
<1>9. PICK k \in R \ X : \A y \in R \ X : k <= y
  <2>1. R \ X # {} /\ R \ X \subseteq Nat
    BY <1>8
  <2> QED
    BY <2>1, LeastEdge
<1>10. Below(R, k) = X
  <2>1. \A f \in Below(R, k) : f \in X
    BY <1>9 DEF Below
  <2>2. ASSUME NEW x \in X
        PROVE  x \in Below(R, k)
    <3> SUFFICES ASSUME k < x PROVE FALSE
      BY <1>9 DEF Below
    <3>1. Below(R, k) \in SUBSET Below(R, x)
      <4>1. k \in Nat /\ x \in Nat /\ \A f \in R : f \in Nat
        BY <1>9
      <4>2. \A f \in R : f < k => f < x
        BY <4>1
      <4> QED
        BY <4>2 DEF Below
    <3>2. Cardinality(Below(R, k)) <= Cardinality(Below(R, x))
      BY <1>1, <1>2, <3>1, FS_Subset
    <3>3. Cardinality(Below(R, x)) < n
      BY DEF FirstOf
    <3>4. Cardinality(Below(R, k)) < n
      BY <1>1, <1>2, <3>2, <3>3
    <3> QED
      BY <1>9, <3>4 DEF FirstOf
  <2> QED
    BY <2>1, <2>2
<1>11. Cardinality(X \cup {k}) = n + 1
  <2>1. k \notin X
    BY <1>9
  <2>2. Cardinality(X \cup {k}) = IF k \in X THEN Cardinality(X) ELSE Cardinality(X) + 1
    BY <1>7, FS_AddElement
  <2> QED
    BY <1>7, <2>1, <2>2
<1>12. FirstOf(R, m) = X \cup {k}
  <2>1. ASSUME NEW y \in R, y \notin X, y # k
        PROVE  ~(Cardinality(Below(R, y)) < m)
    <3>1. k < y
      BY <1>9, <2>1
    <3>2. X \cup {k} \in SUBSET Below(R, y)
      <4>1. k \in Nat /\ y \in Nat /\ \A f \in R : f \in Nat
        BY <1>9
      <4>2. \A f \in R : f < k => f < y
        BY <3>1, <4>1
      <4>3. \A f \in X : f \in R /\ f < k
        BY <1>10 DEF Below
      <4> QED
        BY <1>9, <3>1, <4>2, <4>3 DEF Below
    <3>3. Cardinality(X \cup {k}) = n + 1
      BY <1>11
    <3>4. Cardinality(X \cup {k}) <= Cardinality(Below(R, y))
      BY <1>1, <1>2, <3>2, FS_Subset
    <3> QED
      BY <1>1, <1>2, <1>6, <3>3, <3>4
  <2>2. ASSUME NEW x \in X
        PROVE  Cardinality(Below(R, x)) < m
    <3>1. Cardinality(Below(R, x)) < n /\ Cardinality(Below(R, x)) \in Nat
      BY <1>1, <1>2 DEF FirstOf
    <3> QED
      BY <1>6, <3>1
  <2>3. Cardinality(Below(R, k)) < m
    BY <1>6, <1>7, <1>10
  <2> QED
    BY <1>9, <2>1, <2>2, <2>3 DEF FirstOf
<1> QED
  BY <1>4, <1>6, <1>11, <1>12

(* A built table has every entry in one of its two cells, but for exactly  *)
(* StashSize many, which are handed back.                                  *)
BuiltInv ==
  pc = "built" =>
    /\ stash \subseteq Edges /\ Cardinality(stash) = StashSize
    /\ \A v \in Vertices : table[v] \in Edges \cup {None}
    /\ \A e \in Edges \ stash : state[e] \in Vertices
    /\ \A e \in Edges, v \in Vertices : table[v] = e <=> e \notin stash /\ state[e] = v

LEMMA PlaceBuilds ==
  ASSUME IInv, Place
  PROVE  BuiltInv'
<1> PICK M : M = MarkedStashed
  OBVIOUS
<1> PICK R : R = Edges \ M
  OBVIOUS
<1> PICK T : T = TopUp
  OBVIOUS
<1> DEFINE placed == Edges \ (M \cup T)
           claims(v) == {e \in placed : state[e] = v}
<1>1. /\ pc = "scan" /\ start \notin Vertices /\ Cardinality(M) <= StashSize
      /\ table' = [v \in Vertices |-> IF claims(v) = {} THEN None ELSE Max(claims(v))]
      /\ stash' = M \cup T /\ input' = input /\ state' = state
  BY DEF Place
<1>2. Edges' = Edges
  BY <1>1 DEF Edges
<1>3. /\ input \in Inputs /\ Edges = 1 .. Len(input) /\ Len(input) \in Nat /\ StashSize <= Len(input)
      /\ StashSize \in Nat /\ state \in [Edges -> Vertices \cup {Unvisited, Stashed}]
      /\ \A x \in {Unvisited, Stashed, None, Root} : x \notin Vertices /\ x \notin Edges
      /\ \A e \in Edges : Ends(e) # {} /\ Ends(e) \subseteq Vertices
  BY Graph, InputsAssumption DEF IInv, TypeInv
<1>4. \A e \in Edges : state[e] # Unvisited
  BY DEF Place
<1>5. \A e \in Edges : e \notin M <=> state[e] \in Vertices
  BY <1>3, <1>4 DEF MarkedStashed
<1>6. IsFiniteSet(Edges) /\ Cardinality(Edges) = Len(input)
  <2>1. 1 \in Int /\ Len(input) \in Int
    BY <1>3
  <2>2. IsFiniteSet(1 .. Len(input)) /\ Cardinality(1 .. Len(input)) = IF 1 > Len(input) THEN 0 ELSE Len(input) - 1 + 1
    BY <2>1, FS_Interval
  <2> QED
    BY <1>3, <2>2
<1>7. /\ M \subseteq Edges /\ IsFiniteSet(M) /\ Cardinality(M) \in Nat
      /\ IsFiniteSet(R) /\ Cardinality(R) = Len(input) - Cardinality(M) /\ R \subseteq Nat
  <2>1. M \subseteq Edges
    BY DEF MarkedStashed
  <2>2. IsFiniteSet(M)
    BY <1>6, <2>1, FS_Subset
  <2>3. Cardinality(M) \in Nat
    BY <2>2, FS_CardinalityType
  <2>4. IsFiniteSet(Edges \ M) /\ Cardinality(Edges \ M) = Cardinality(Edges) - Cardinality(Edges \cap M)
    BY <1>6, FS_Difference
  <2>5. Edges \cap M = M
    BY <2>1
  <2>6. R \subseteq Nat
    BY <1>3
  <2> QED
    BY <1>6, <2>1, <2>2, <2>3, <2>4, <2>5, <2>6
<1>8. T \subseteq R /\ Cardinality(T) = StashSize - Cardinality(M)
  <2> PICK d : d = StashSize - Cardinality(M)
    OBVIOUS
  <2>1. T = FirstOf(R, d)
    BY DEF TopUp, FirstOf, Below
  <2>2. d \in Nat /\ d <= Cardinality(R)
    BY <1>1, <1>3, <1>7
  <2>3. Cardinality(FirstOf(R, d)) = d
    BY <1>7, <2>2, CountFirst
  <2> QED
    BY <2>1, <2>3 DEF FirstOf
<1>9. Cardinality(M \cup T) = StashSize
  <2>1. IsFiniteSet(T) /\ M \cap T = {}
    BY <1>7, <1>8, FS_Subset
  <2>2. Cardinality(M \cup T) = Cardinality(M) + Cardinality(T) - Cardinality(M \cap T)
    BY <1>7, <2>1, FS_Union
  <2>3. Cardinality(M \cap T) = 0
    BY <2>1, FS_EmptySet
  <2> QED
    BY <1>3, <1>7, <1>8, <2>2, <2>3
<1>10. stash' \subseteq Edges /\ \A e \in Edges \ stash' : state[e] \in Vertices
  BY <1>1, <1>5, <1>7, <1>8
(* What has a cell of its own is what is found there.                      *)
<1>11. ASSUME NEW v \in Vertices, NEW e \in claims(v)
       PROVE  claims(v) = {e} /\ table'[v] = e
  <2>1. claims(v) = {e}
    BY <1>1, <1>11 DEF IInv, ClaimsInv
  <2>2. Max({e}) = e
    <3>1. e \in Int
      BY <1>3
    <3> QED
      BY <3>1 DEF Max
  <2> QED
    BY <1>1, <2>1, <2>2
<1>12. ASSUME NEW v \in Vertices
       PROVE  /\ table'[v] \in Edges \cup {None}
              /\ \A e \in Edges : table'[v] = e <=> e \notin stash' /\ state[e] = v
  <2>1. CASE claims(v) = {}
    BY <1>1, <1>3, <2>1
  <2>2. CASE claims(v) # {}
    <3>1. PICK e \in claims(v) : claims(v) = {e} /\ table'[v] = e
      BY <1>11, <2>2
    <3>2. ASSUME NEW f \in Edges, f \notin stash', state[f] = v
          PROVE  f = e
      <4>1. f \in claims(v)
        BY <1>1, <3>2
      <4> QED
        BY <3>1, <4>1
    <3> QED
      BY <1>1, <3>1, <3>2
  <2> QED
    BY <2>1, <2>2
<1> QED
  BY <1>1, <1>2, <1>9, <1>10, <1>12 DEF BuiltInv

LEMMA BuiltInvariant == Spec => [](IInv /\ BuiltInv)
<1>1. Init => BuiltInv
  BY DEF Init, BuiltInv
<1>2. IInv /\ BuiltInv /\ [Next]_vars => BuiltInv'
  <2> SUFFICES ASSUME IInv, BuiltInv, [Next]_vars PROVE BuiltInv'
    OBVIOUS
  <2>1. CASE Place
    BY <2>1, PlaceBuilds
  <2>2. CASE pc' # "built"
    BY <2>2 DEF BuiltInv
  <2>3. CASE Done \/ UNCHANGED vars
    <3>1. pc' = pc /\ input' = input /\ state' = state /\ table' = table /\ stash' = stash
      BY <2>3 DEF Done, vars, output
    <3>2. Edges' = Edges
      BY <3>1 DEF Edges
    <3> QED
      BY <3>1, <3>2 DEF BuiltInv
  <2>4. Place \/ pc' # "built" \/ Done \/ UNCHANGED vars
    BY DEF Next, StartComponent, SkipVertex, Pop, PassEdge, GrowTree, KeepExtra, StashEdge, Looks,
           EndSearch, TurnEdge, EndComponent, Overflow
  <2> QED
    BY <2>1, <2>2, <2>3, <2>4
<1> QED
  BY <1>1, <1>2, InitInv, StepInv, PTL DEF Spec

---------------------------------------------------------------------------
(* Lookups.                                                                *)
LEMMA XorBit ==
  ASSUME NEW x, NEW y, NEW b
  PROVE  b \in Xor(x, y) <=> ~(b \in x <=> b \in y)
BY DEF Xor

(* What the garblers enter for a word between them.                        *)
Joint(share) == Xor(Xor(share[1].a, share[1].b), share[2].a)

LEMMA XorWord ==
  ASSUME NEW x \in Words, NEW y \in Words
  PROVE  Xor(x, y) \in Words
BY DEF Xor, Words

LEMMA TwoSharesJoin ==
  ASSUME NEW half \in [Parties -> Words], NEW stream \in [Parties -> Words]
  PROVE  /\ Joint(From2Shares(half, stream)) = Xor(half[1], half[2])
         /\ From2Shares(half, stream)[1].a \in Words /\ From2Shares(half, stream)[1].b \in Words
         /\ From2Shares(half, stream)[2].a \in Words
<1> DEFINE w == From2Shares(half, stream)
           c(p) == LocalComponent(p, half[p], PrevId(Builder), NextId(Builder),
                                  stream[p], stream[PrevId(p)])
<1>1. /\ PrevId(Builder) = 2 /\ NextId(Builder) = 1
      /\ PrevId(0) = 2 /\ PrevId(1) = 0 /\ PrevId(2) = 1 /\ 1 \in Parties /\ 2 \in Parties
      /\ (1 + 1) % 3 = 2 /\ (2 + 1) % 3 = 0
  BY DEF Builder, PrevId, NextId, Parties
<1>2. /\ w[1] = [a |-> c(1), b |-> c(0)] /\ w[2] = [a |-> c(2), b |-> c(1)]
  BY <1>1 DEF From2Shares, Recombine
<1>3. /\ c(0) = Xor(Xor(stream[0], stream[2]), {})
      /\ c(1) = Xor(Xor(stream[1], stream[0]), half[1])
      /\ c(2) = Xor(Xor(stream[2], stream[1]), half[2])
  BY <1>1 DEF LocalComponent
<1>4. Joint(w) = Xor(Xor(c(1), c(0)), c(2))
  BY <1>2 DEF Joint
<1> HIDE DEF w, c
<1>5. \A b : b \in Xor(Xor(c(1), c(0)), c(2)) <=> b \in Xor(half[1], half[2])
  BY <1>3, XorBit
<1>6. Joint(w) = Xor(half[1], half[2])
  BY <1>4, <1>5
<1>7. c(0) \in Words /\ c(1) \in Words /\ c(2) \in Words
  <2>1. /\ stream[0] \in Words /\ stream[1] \in Words /\ stream[2] \in Words
        /\ half[1] \in Words /\ half[2] \in Words /\ {} \in Words
    BY DEF Words, Parties
  <2> QED
    BY <1>3, <2>1, XorWord
<1> QED
  BY <1>2, <1>6, <1>7 DEF w

(* A packed word: the tag below, the index above it.                       *)
LEMMA PackedBits ==
  ASSUME NEW t \in Words, NEW i
  PROVE  Packed(t, i) = {x \in 0 .. KeyTagBits + IndexBits - 1 :
                           IF x < KeyTagBits THEN x + IndexBits \in t ELSE x - KeyTagBits \in i}
<1>1. KeyTagBits \in Nat /\ IndexBits \in Nat /\ t \subseteq 0 .. KeyTagBits + IndexBits - 1
  BY RandsAssumption DEF Words
<1> DEFINE P == {x \in 0 .. KeyTagBits + IndexBits - 1 :
                   IF x < KeyTagBits THEN x + IndexBits \in t ELSE x - KeyTagBits \in i}
<1>2. ASSUME NEW x \in Packed(t, i)
      PROVE  x \in P
  <2>1. CASE \E bit \in t : bit >= IndexBits /\ x = bit - IndexBits
    <3>1. PICK bit \in t : bit >= IndexBits /\ x = bit - IndexBits
      BY <2>1
    <3>2. bit \in 0 .. KeyTagBits + IndexBits - 1
      BY <1>1
    <3>3. x \in 0 .. KeyTagBits + IndexBits - 1 /\ x < KeyTagBits /\ x + IndexBits = bit
      BY <1>1, <3>1, <3>2
    <3> QED
      BY <3>3
  <2>2. CASE \E bit \in i \cap (0 .. IndexBits - 1) : x = KeyTagBits + bit
    <3>1. PICK bit \in i \cap (0 .. IndexBits - 1) : x = KeyTagBits + bit
      BY <2>2
    <3>2. x \in 0 .. KeyTagBits + IndexBits - 1 /\ ~(x < KeyTagBits) /\ x - KeyTagBits = bit
      BY <1>1, <3>1
    <3> QED
      BY <3>1, <3>2
  <2> QED
    BY <2>1, <2>2 DEF Packed
<1>3. ASSUME NEW x \in P
      PROVE  x \in Packed(t, i)
  <2>1. CASE x < KeyTagBits
    <3>1. x + IndexBits \in t /\ x + IndexBits >= IndexBits /\ x = (x + IndexBits) - IndexBits
      BY <1>1, <2>1
    <3> QED
      BY <3>1 DEF Packed
  <2>2. CASE ~(x < KeyTagBits)
    <3>1. x - KeyTagBits \in i /\ x - KeyTagBits \in 0 .. IndexBits - 1 /\ x = KeyTagBits + (x - KeyTagBits)
      BY <1>1, <2>2
    <3> QED
      BY <3>1 DEF Packed
  <2> QED
    BY <2>1, <2>2
<1> QED
  BY <1>2, <1>3

LEMMA PackedJoins ==
  ASSUME NEW t1 \in Words, NEW t2 \in Words, NEW i1, NEW i2
  PROVE  Xor(Packed(t1, i1), Packed(t2, i2)) = Packed(Xor(t1, t2), Xor(i1, i2))
<1>1. Xor(t1, t2) \in Words
  BY XorWord
<1>2. ASSUME NEW x
      PROVE  x \in Xor(Packed(t1, i1), Packed(t2, i2)) <=> x \in Packed(Xor(t1, t2), Xor(i1, i2))
  <2>1. CASE x \in 0 .. KeyTagBits + IndexBits - 1 /\ x < KeyTagBits
    BY <1>1, <2>1, PackedBits, XorBit
  <2>2. CASE x \in 0 .. KeyTagBits + IndexBits - 1 /\ ~(x < KeyTagBits)
    BY <1>1, <2>2, PackedBits, XorBit
  <2>3. CASE x \notin 0 .. KeyTagBits + IndexBits - 1
    BY <1>1, <2>3, PackedBits, XorBit
  <2> QED
    BY <2>1, <2>2, <2>3
<1> QED
  BY <1>2

(* What a packed word is compared and selected by.                         *)
TagPart(word) == {x \in 0 .. KeyTagBits - 1 : x + IndexBits \in word}
IndexPart(word) == word \cap (0 .. IndexBits - 1)

LEMMA PackedParts ==
  ASSUME NEW t \in Words, NEW i
  PROVE  TagOf(Packed(t, i)) = TagPart(t) /\ IndexOf(Packed(t, i)) = IndexPart(i)
<1>1. KeyTagBits \in Nat /\ IndexBits \in Nat
  BY RandsAssumption
<1>2. ASSUME NEW x
      PROVE  x \in TagOf(Packed(t, i)) <=> x \in TagPart(t)
  <2>1. CASE x \in 0 .. KeyTagBits - 1
    <3>1. x \in 0 .. KeyTagBits + IndexBits - 1 /\ x < KeyTagBits
      BY <1>1, <2>1
    <3> QED
      BY <2>1, <3>1, PackedBits DEF TagOf, TagPart
  <2> QED
    BY <2>1 DEF TagOf, TagPart
<1>3. ASSUME NEW x \in IndexOf(Packed(t, i))
      PROVE  x \in IndexPart(i)
  <2>1. PICK bit \in Packed(t, i) : bit >= KeyTagBits /\ x = bit - KeyTagBits
    BY DEF IndexOf
  <2>2. bit \in 0 .. KeyTagBits + IndexBits - 1 /\ (~(bit < KeyTagBits) => bit - KeyTagBits \in i)
    BY PackedBits
  <2>3. ~(bit < KeyTagBits) /\ x \in 0 .. IndexBits - 1
    BY <1>1, <2>1, <2>2
  <2> QED
    BY <2>1, <2>2, <2>3 DEF IndexPart
<1>4. ASSUME NEW x \in IndexPart(i)
      PROVE  x \in IndexOf(Packed(t, i))
  <2>1. x \in i /\ x \in 0 .. IndexBits - 1
    BY DEF IndexPart
  <2> PICK bit : bit = x + KeyTagBits
    OBVIOUS
  <2>2. /\ bit \in 0 .. KeyTagBits + IndexBits - 1 /\ ~(bit < KeyTagBits)
        /\ bit >= KeyTagBits /\ bit - KeyTagBits = x
    BY <1>1, <2>1
  <2>3. bit \in Packed(t, i)
    BY <2>1, <2>2, PackedBits
  <2> QED
    BY <2>2, <2>3 DEF IndexOf
<1> QED
  BY <1>2, <1>3, <1>4

LEMMA PackedJoinsThrice ==
  ASSUME NEW t1 \in Words, NEW t2 \in Words, NEW t3 \in Words, NEW i1, NEW i2, NEW i3
  PROVE  Xor(Xor(Packed(t1, i1), Packed(t2, i2)), Packed(t3, i3))
           = Packed(Xor(Xor(t1, t2), t3), Xor(Xor(i1, i2), i3))
<1>1. Xor(Packed(t1, i1), Packed(t2, i2)) = Packed(Xor(t1, t2), Xor(i1, i2))
  BY PackedJoins
<1>2. Xor(t1, t2) \in Words
  BY XorWord
<1>3. Xor(Packed(Xor(t1, t2), Xor(i1, i2)), Packed(t3, i3))
        = Packed(Xor(Xor(t1, t2), t3), Xor(Xor(i1, i2), i3))
  BY <1>2, PackedJoins
<1> QED
  BY <1>1, <1>3

LEMMA PackedShares ==
  ASSUME NEW w, w[1].a \in Words, w[1].b \in Words, w[2].a \in Words, NEW i
  PROVE  Xor(Xor(Packed(w[1].a, i[1].a), Packed(w[1].b, i[1].b)), Packed(w[2].a, i[2].a))
           = Packed(Joint(w), Joint(i))
<1> DEFINE t1 == w[1].a  t2 == w[1].b  t3 == w[2].a  i1 == i[1].a  i2 == i[1].b  i3 == i[2].a
<1>1. t1 \in Words /\ t2 \in Words /\ t3 \in Words
  OBVIOUS
<1>2. Joint(w) = Xor(Xor(t1, t2), t3) /\ Joint(i) = Xor(Xor(i1, i2), i3)
  BY DEF Joint
<1>3. Xor(Xor(Packed(t1, i1), Packed(t2, i2)), Packed(t3, i3))
        = Packed(Xor(Xor(t1, t2), t3), Xor(Xor(i1, i2), i3))
  <2> HIDE DEF t1, t2, t3, i1, i2, i3
  <2> QED
    BY <1>1, PackedJoinsThrice
<1> QED
  BY <1>2, <1>3

(* What the circuit yields, of the words in the clear.                     *)
Chosen(key, b0, b1, dummyIndex) ==
  LET equals0 == TagPart(key) = TagPart(b0)
      equals1 == TagPart(key) = TagPart(b1)
      b1OrDummy == IF equals1 THEN IndexPart(b1) ELSE IndexPart(dummyIndex)
  IN  (IF equals0 THEN IndexPart(b0) ELSE b1OrDummy)
        \cup (IF equals0 # equals1 THEN {IndexBits} ELSE {})

Entered(words, dummyIndex, p) ==
  [i \in 1 .. 3 |-> GarblerInput(p, PackLookupInputs(words[1][p], words[2][p], words[3][p],
                                                     dummyIndex[p])[i])]

LEMMA CircuitChooses ==
  ASSUME NEW words, NEW dummyIndex,
         \A i \in 1 .. 3 : words[i][1].a \in Words /\ words[i][1].b \in Words /\ words[i][2].a \in Words,
         \A i \in 1 .. 3 : Joint(words[i]) \in Words
  PROVE  EvaluateLookupCircuit(Entered(words, dummyIndex, 1), Entered(words, dummyIndex, 2))
           = Chosen(Joint(words[1]), Joint(words[2]), Joint(words[3]), Joint(dummyIndex))
<1> DEFINE x01 == Entered(words, dummyIndex, 1)
           x2 == Entered(words, dummyIndex, 2)
           inputs == [i \in 1 .. 3 |-> Xor(x01[i], x2[i])]
<1>1. /\ x01[1] = Xor(Packed(words[1][1].a, words[2][1].a), Packed(words[1][1].b, words[2][1].b))
      /\ x01[2] = Xor(Packed(words[2][1].a, words[3][1].a), Packed(words[2][1].b, words[3][1].b))
      /\ x01[3] = Xor(Packed(words[3][1].a, dummyIndex[1].a), Packed(words[3][1].b, dummyIndex[1].b))
  BY DEF Entered, GarblerInput, PackLookupInputs, PackTagAndIndex
<1>2. /\ x2[1] = Packed(words[1][2].a, words[2][2].a)
      /\ x2[2] = Packed(words[2][2].a, words[3][2].a)
      /\ x2[3] = Packed(words[3][2].a, dummyIndex[2].a)
  BY DEF Entered, GarblerInput, PackLookupInputs, PackTagAndIndex
<1>3. /\ inputs[1] = Packed(Joint(words[1]), Joint(words[2]))
      /\ inputs[2] = Packed(Joint(words[2]), Joint(words[3]))
      /\ inputs[3] = Packed(Joint(words[3]), Joint(dummyIndex))
  <2>1. inputs[1] = Xor(x01[1], x2[1]) /\ inputs[2] = Xor(x01[2], x2[2]) /\ inputs[3] = Xor(x01[3], x2[3])
    OBVIOUS
  <2> HIDE DEF x01, x2, inputs
  <2>2. inputs[1] = Packed(Joint(words[1]), Joint(words[2]))
    BY <1>1, <1>2, <2>1, PackedShares
  <2>3. inputs[2] = Packed(Joint(words[2]), Joint(words[3]))
    BY <1>1, <1>2, <2>1, PackedShares
  <2>4. inputs[3] = Packed(Joint(words[3]), Joint(dummyIndex))
    BY <1>1, <1>2, <2>1, PackedShares
  <2> QED
    BY <2>2, <2>3, <2>4
<1>4. /\ TagOf(inputs[1]) = TagPart(Joint(words[1])) /\ IndexOf(inputs[1]) = IndexPart(Joint(words[2]))
      /\ TagOf(inputs[2]) = TagPart(Joint(words[2])) /\ IndexOf(inputs[2]) = IndexPart(Joint(words[3]))
      /\ TagOf(inputs[3]) = TagPart(Joint(words[3])) /\ IndexOf(inputs[3]) = IndexPart(Joint(dummyIndex))
  BY <1>3, PackedParts
<1> QED
  BY <1>4 DEF EvaluateLookupCircuit, Chosen

(* Whatever the circuit yields, the receivers read its index and the       *)
(* parties hold its found bit.                                             *)
Found(c) == IF IndexBits \in c THEN {0} ELSE {}

LEMMA ComputeReveals ==
  ASSUME NEW words, NEW dummyIndex, NEW rand, NEW out,
         out = EvaluateLookupCircuit(Entered(words, dummyIndex, 1), Entered(words, dummyIndex, 2))
  PROVE  LET result == Compute(words, dummyIndex, rand)
             found == [p \in Parties |-> result[p].found]
         IN  /\ \A p \in Receivers :
                  RevealTo(p, [q \in Parties |-> result[q].index]) = IndexPart(out)
             /\ Replicated(found)
             /\ RevealTo(0, found) = Found(out)
<1> DEFINE result == Compute(words, dummyIndex, rand)
           indices == [p \in Parties |-> result[p].index]
           found == [p \in Parties |-> result[p].found]
           shared == Y2B(out, rand)
           c == <<rand[0], rand[1], Xor(out, Xor(rand[0], rand[1]))>>
<1>1. /\ PrevId(Builder) = 2 /\ NextId(Builder) = 1
      /\ PrevId(0) = 2 /\ PrevId(1) = 0 /\ PrevId(2) = 1 /\ Parties = {0, 1, 2}
      /\ 0 + 1 = 1 /\ 1 + 1 = 2 /\ 2 + 1 = 3
  BY DEF Builder, PrevId, NextId, Parties
<1>2. result = [p \in Parties |->
                  [index |-> [a |-> IndexPart(shared[p].a), b |-> IndexPart(shared[p].b)],
                   found |-> [a |-> Found(shared[p].a), b |-> Found(shared[p].b)]]]
  <2> DEFINE inputs == [p \in Parties |-> PackLookupInputs(words[1][p], words[2][p],
                                             words[3][p], dummyIndex[p])]
             entered(p) == [i \in 1 .. 3 |-> GarblerInput(p, inputs[p][i])]
             given == Y2B(EvaluateLookupCircuit(entered(1), entered(2)), rand)
  <2>1. entered(1) = Entered(words, dummyIndex, 1) /\ entered(2) = Entered(words, dummyIndex, 2)
    BY DEF Entered, Parties
  <2>2. given = shared
    BY <2>1
  <2>3. result = [p \in Parties |->
                    [index |-> OnShare(LAMBDA x : x \cap (0 .. IndexBits - 1), given[p]),
                     found |-> OnShare(LAMBDA x : IF IndexBits \in x THEN {0} ELSE {}, given[p])]]
    BY DEF Compute
  <2> HIDE DEF given, result, shared
  <2> QED
    BY <2>2, <2>3 DEF OnShare, IndexPart, Found
<1>3. /\ indices[0] = [a |-> IndexPart(c[1]), b |-> IndexPart(c[3])]
      /\ indices[1] = [a |-> IndexPart(c[2]), b |-> IndexPart(c[1])]
      /\ indices[2] = [a |-> IndexPart(c[3]), b |-> IndexPart(c[2])]
      /\ found[0] = [a |-> Found(c[1]), b |-> Found(c[3])]
      /\ found[1] = [a |-> Found(c[2]), b |-> Found(c[1])]
      /\ found[2] = [a |-> Found(c[3]), b |-> Found(c[2])]
  <2>1. /\ shared[0].a = c[1] /\ shared[0].b = c[3] /\ shared[1].a = c[2]
        /\ shared[1].b = c[1] /\ shared[2].a = c[3] /\ shared[2].b = c[2]
    BY <1>1 DEF Y2B
  <2> HIDE DEF result, shared, c
  <2>2. ASSUME NEW p \in Parties
        PROVE  /\ indices[p] = [a |-> IndexPart(shared[p].a), b |-> IndexPart(shared[p].b)]
               /\ found[p] = [a |-> Found(shared[p].a), b |-> Found(shared[p].b)]
    BY <1>2
  <2> QED
    BY <1>1, <2>1, <2>2
<1>4. c[1] = rand[0] /\ c[2] = rand[1] /\ c[3] = Xor(out, Xor(rand[0], rand[1]))
  OBVIOUS
<1> HIDE DEF result, indices, found, c
<1>5. \A p \in Receivers : RevealTo(p, indices) = IndexPart(out)
  <2>1. RevealTo(1, indices) = Xor(Xor(IndexPart(c[2]), IndexPart(c[1])), IndexPart(c[3]))
    BY <1>1, <1>3 DEF RevealTo
  <2>2. RevealTo(2, indices) = Xor(Xor(IndexPart(c[3]), IndexPart(c[2])), IndexPart(c[1]))
    BY <1>1, <1>3 DEF RevealTo
  <2>3. \A b : /\ b \in Xor(Xor(IndexPart(c[2]), IndexPart(c[1])), IndexPart(c[3])) <=> b \in IndexPart(out)
               /\ b \in Xor(Xor(IndexPart(c[3]), IndexPart(c[2])), IndexPart(c[1])) <=> b \in IndexPart(out)
    BY <1>4, XorBit DEF IndexPart
  <2>4. RevealTo(1, indices) = IndexPart(out) /\ RevealTo(2, indices) = IndexPart(out)
    BY <2>1, <2>2, <2>3
  <2> QED
    BY <1>1, <2>4 DEF Receivers
<1>6. Replicated(found)
  BY <1>1, <1>3 DEF Replicated
<1>7. RevealTo(0, found) = Found(out)
  <2>1. RevealTo(0, found) = Xor(Xor(Found(c[1]), Found(c[3])), Found(c[2]))
    BY <1>1, <1>3 DEF RevealTo
  <2>2. IndexBits \in c[3] <=> ~(IndexBits \in out <=> ~(IndexBits \in c[1] <=> IndexBits \in c[2]))
    BY <1>4, XorBit
  <2>3. \A b : b \in Xor(Xor(Found(c[1]), Found(c[3])), Found(c[2])) <=> b \in Found(out)
    BY <2>2, XorBit DEF Found
  <2> QED
    BY <2>1, <2>3
<1> QED
  BY <1>5, <1>6, <1>7 DEF result, indices, found

LEMMA LookupChooses ==
  ASSUME NEW key \in Words, NEW half0 \in [Parties -> Words], NEW half1 \in [Parties -> Words],
         NEW dummyIndex, NEW r, NEW rand, \A i \in 1 .. 3 : rand[i] \in [Parties -> Words]
  PROVE  LET result == LookupFrom2Shares(key, half0, half1, Y2B(dummyIndex, r), rand)
             out == Chosen(key, Xor(half0[1], half0[2]), Xor(half1[1], half1[2]), dummyIndex)
         IN  /\ \A p \in Receivers : result.index[p] = IndexPart(out)
             /\ Replicated(result.found)
             /\ RevealTo(0, result.found) = Found(out)
<1> DEFINE result == LookupFrom2Shares(key, half0, half1, Y2B(dummyIndex, r), rand)
           half == [p \in Parties |-> IF p = NextId(Builder) THEN key ELSE {}]
           words == LookupWords(key, half0, half1, rand)
           d == Y2B(dummyIndex, r)
           out == Chosen(key, Xor(half0[1], half0[2]), Xor(half1[1], half1[2]), dummyIndex)
           computed == Compute(words, d, rand[4])
<1>1. /\ words[1] = From2Shares(half, rand[1]) /\ words[2] = From2Shares(half0, rand[2])
      /\ words[3] = From2Shares(half1, rand[3])
  <2> DEFINE halves == <<half, half0, half1>>
  <2>1. words = [i \in 1 .. 3 |-> From2Shares(halves[i], rand[i])]
    BY DEF LookupWords
  <2>2. halves[1] = half /\ halves[2] = half0 /\ halves[3] = half1
    OBVIOUS
  <2> HIDE DEF words, halves, half
  <2> QED
    BY <2>1, <2>2
<1>2. /\ half \in [Parties -> Words] /\ half[1] = key /\ half[2] = {}
  <2>1. {} \in Words /\ NextId(Builder) = 1 /\ 1 \in Parties /\ 2 \in Parties
    BY DEF Words, NextId, Builder, Parties
  <2> QED
    BY <2>1
<1>3. Joint(d) = dummyIndex
  <2>1. /\ d[1].a = r[1] /\ d[1].b = r[0] /\ d[2].a = Xor(dummyIndex, Xor(r[0], r[1]))
    <3>1. PrevId(1) = 0 /\ 1 \in Parties /\ 2 \in Parties
      BY DEF PrevId, Parties
    <3> QED
      BY <3>1 DEF Y2B
  <2> HIDE DEF d
  <2>2. \A b : b \in Joint(d) <=> b \in dummyIndex
    BY <2>1, XorBit DEF Joint
  <2> QED
    BY <2>2
<1>4. result = LET indices == [p \in Parties |-> computed[p].index]
               IN  [index |-> [p \in Receivers |-> RevealTo(p, indices)],
                    found |-> [p \in Parties |-> computed[p].found]]
  BY DEF LookupFrom2Shares
<1> HIDE DEF words, half, d, computed, result
<1>5. /\ Joint(words[1]) = Xor(half[1], half[2]) /\ Joint(words[2]) = Xor(half0[1], half0[2])
      /\ Joint(words[3]) = Xor(half1[1], half1[2])
      /\ \A i \in 1 .. 3 : words[i][1].a \in Words /\ words[i][1].b \in Words /\ words[i][2].a \in Words
  <2>1. rand[1] \in [Parties -> Words] /\ rand[2] \in [Parties -> Words] /\ rand[3] \in [Parties -> Words]
    OBVIOUS
  <2>2. /\ Joint(words[1]) = Xor(half[1], half[2])
        /\ words[1][1].a \in Words /\ words[1][1].b \in Words /\ words[1][2].a \in Words
    BY <1>1, <1>2, <2>1, TwoSharesJoin
  <2>3. /\ Joint(words[2]) = Xor(half0[1], half0[2])
        /\ words[2][1].a \in Words /\ words[2][1].b \in Words /\ words[2][2].a \in Words
    BY <1>1, <2>1, TwoSharesJoin
  <2>4. /\ Joint(words[3]) = Xor(half1[1], half1[2])
        /\ words[3][1].a \in Words /\ words[3][1].b \in Words /\ words[3][2].a \in Words
    BY <1>1, <2>1, TwoSharesJoin
  <2> QED
    BY <2>2, <2>3, <2>4
<1>6. \A i \in 1 .. 3 : Joint(words[i]) \in Words
  <2>1. half[1] \in Words /\ half[2] \in Words /\ half0[1] \in Words /\ half0[2] \in Words
        /\ half1[1] \in Words /\ half1[2] \in Words
    BY <1>2 DEF Parties
  <2> QED
    BY <1>5, <2>1, XorWord
<1>7. Xor(half[1], half[2]) = key
  BY <1>2 DEF Xor
<1>8. out = EvaluateLookupCircuit(Entered(words, d, 1), Entered(words, d, 2))
  BY <1>3, <1>5, <1>6, <1>7, CircuitChooses
<1> HIDE DEF out
<1>9. LET found == [p \in Parties |-> computed[p].found]
      IN  /\ \A p \in Receivers :
               RevealTo(p, [q \in Parties |-> computed[q].index]) = IndexPart(out)
          /\ Replicated(found)
          /\ RevealTo(0, found) = Found(out)
  BY <1>8, ComputeReveals DEF computed
<1>10. /\ \A p \in Receivers : result.index[p] = IndexPart(out)
       /\ Replicated(result.found)
       /\ RevealTo(0, result.found) = Found(out)
  BY <1>4, <1>9
<1> QED
  BY <1>10 DEF result, out, d

LEMMA ChosenParts ==
  ASSUME NEW key, NEW b0, NEW b1, NEW dummyIndex, NEW out, out = Chosen(key, b0, b1, dummyIndex)
  PROVE  /\ TagPart(key) = TagPart(b0) => IndexPart(out) = IndexPart(b0)
         /\ TagPart(key) # TagPart(b0) /\ TagPart(key) = TagPart(b1) =>
              IndexPart(out) = IndexPart(b1)
         /\ TagPart(key) # TagPart(b0) /\ TagPart(key) # TagPart(b1) =>
              IndexPart(out) = IndexPart(dummyIndex)
         /\ (TagPart(key) = TagPart(b0) <=> TagPart(key) = TagPart(b1)) => Found(out) = {}
         /\ (TagPart(key) = TagPart(b0) <=> TagPart(key) # TagPart(b1)) => Found(out) = {0}
<1>1. IndexBits \notin 0 .. IndexBits - 1
  BY RandsAssumption
<1>2. \A s : IndexPart(IndexPart(s) \cup {IndexBits}) = IndexPart(s) /\ IndexPart(IndexPart(s)) = IndexPart(s)
             /\ IndexPart(IndexPart(s) \cup {}) = IndexPart(s)
             /\ IndexBits \notin IndexPart(s)
  BY <1>1 DEF IndexPart
<1> QED
  BY <1>2 DEF Chosen, Found

(* Blocks are told apart by their tags, and hold their entry's index.      *)
LEMMA BlockParts ==
  ASSUME input \in Inputs, NEW e \in Edges
  PROVE  /\ Block(e) \in Words /\ TagPart(Block(e)) = BitsOf(e) /\ IndexPart(Block(e)) = BitsOf(e - 1)
         /\ \A low \in SUBSET (0 .. IndexBits - 1) :
              Tag(e) \cup low \in Words /\ TagPart(Tag(e) \cup low) = BitsOf(e)
<1> PICK tag : tag = BitsOf(e)
  OBVIOUS
<1> PICK number : number = BitsOf(e - 1)
  OBVIOUS
<1>1. /\ tag \subseteq 0 .. KeyTagBits - 1 /\ number \subseteq 0 .. IndexBits - 1
      /\ KeyTagBits \in Nat /\ IndexBits \in Nat
  BY NumbersAssumption, RandsAssumption DEF Edges
<1> PICK high : high = {IndexBits + bit : bit \in tag}
  OBVIOUS
<1>2. Tag(e) = high /\ Block(e) = high \cup number
  BY DEF Tag, Block
<1>3. ASSUME NEW low \in SUBSET (0 .. IndexBits - 1)
      PROVE  /\ high \cup low \in Words /\ TagPart(high \cup low) = tag
             /\ IndexPart(high \cup low) = low
  <2>1. \A x \in high : x \in 0 .. KeyTagBits + IndexBits - 1 /\ ~(x < IndexBits)
    <3> TAKE x \in high
    <3>1. PICK bit \in tag : x = IndexBits + bit
      OBVIOUS
    <3>2. bit \in 0 .. KeyTagBits - 1
      BY <1>1
    <3> QED
      BY <1>1, <3>1, <3>2
  <2>2. \A x \in low : x \in 0 .. KeyTagBits + IndexBits - 1 /\ x < IndexBits
    BY <1>1
  <2>3. high \cup low \in Words
    BY <2>1, <2>2 DEF Words
  <2>4. IndexPart(high \cup low) = low
    <3>1. ASSUME NEW x \in IndexPart(high \cup low)
          PROVE  x \in low
      <4>1. x \in high \cup low /\ x \in 0 .. IndexBits - 1
        BY DEF IndexPart
      <4>2. x < IndexBits
        BY <1>1, <4>1
      <4> QED
        BY <2>1, <4>1, <4>2
    <3>2. low \subseteq IndexPart(high \cup low)
      BY DEF IndexPart
    <3> QED
      BY <3>1, <3>2
  <2>5. ASSUME NEW x \in TagPart(high \cup low)
        PROVE  x \in tag
    <3>1. x \in 0 .. KeyTagBits - 1 /\ x + IndexBits \in high \cup low
      BY DEF TagPart
    <3>2. x + IndexBits \in high
      BY <1>1, <2>2, <3>1
    <3>3. PICK bit \in tag : x + IndexBits = IndexBits + bit
      BY <3>2
    <3>4. bit \in 0 .. KeyTagBits - 1
      BY <1>1
    <3>5. x = bit
      BY <1>1, <3>1, <3>3, <3>4
    <3> QED
      BY <3>5
  <2>6. ASSUME NEW x \in tag
        PROVE  x \in TagPart(high \cup low)
    <3>1. x \in 0 .. KeyTagBits - 1
      BY <1>1
    <3>2. x + IndexBits = IndexBits + x
      BY <1>1, <3>1
    <3>3. x + IndexBits \in high
      BY <3>2
    <3> QED
      BY <3>1, <3>3 DEF TagPart
  <2> QED
    BY <2>3, <2>4, <2>5, <2>6
<1> QED
  BY <1>1, <1>2, <1>3

LEMMA HalvesJoin ==
  ASSUME NEW v, NEW cell \in Words, cell = (IF table[v] = None THEN {} ELSE Block(table[v])),
         NEW mask \in Words
  PROVE  /\ Halves(v, mask) \in [Parties -> Words]
         /\ Xor(Halves(v, mask)[1], Halves(v, mask)[2]) = cell
<1> PICK halves : halves = Halves(v, mask)
  OBVIOUS
<1>1. halves = [p \in Parties |->
                  CASE p = 0 -> {} [] p = 1 -> mask [] p = 2 -> Xor(cell, mask)]
  BY DEF Halves, Builder, NextId, PrevId
<1>2. Parties = {0, 1, 2} /\ {} \in Words /\ Xor(cell, mask) \in Words
  BY XorWord DEF Parties, Words
<1>3. halves \in [Parties -> Words] /\ halves[1] = mask /\ halves[2] = Xor(cell, mask)
  BY <1>1, <1>2
<1>4. \A b : b \in Xor(mask, Xor(cell, mask)) <=> b \in cell
  BY XorBit
<1>5. Xor(mask, Xor(cell, mask)) = cell
  BY <1>4
<1> QED
  BY <1>3, <1>5

(* What a lookup of e compares with: a cell's tag is that of e only if e   *)
(* is what it holds.                                                       *)
LEMMA CellParts ==
  ASSUME IInv, BuiltInv, pc = "built", NEW e \in Edges, NEW v \in Vertices, NEW cell,
         cell = (IF table[v] = None THEN {} ELSE Block(table[v]))
  PROVE  /\ cell \in Words
         /\ BitsOf(e) = TagPart(cell) <=> table[v] = e
         /\ table[v] = e => IndexPart(cell) = BitsOf(e - 1)
<1>1. input \in Inputs /\ None \notin Edges /\ table[v] \in Edges \cup {None}
  BY Graph DEF IInv, TypeInv, BuiltInv
<1>2. BitsOf(e) # {} /\ \A f \in Edges : BitsOf(e) = BitsOf(f) => e = f
  BY <1>1, NumbersAssumption DEF Edges
<1>3. CASE table[v] = None
  <2>1. cell = {} /\ {} \in Words /\ TagPart({}) = {}
    BY <1>3 DEF Words, TagPart
  <2> QED
    BY <1>1, <1>2, <1>3, <2>1
<1>4. CASE table[v] # None
  <2> PICK f \in Edges : f = table[v]
    BY <1>1, <1>4
  <2>1. cell = Block(f)
    BY <1>4
  <2>2. cell \in Words /\ TagPart(cell) = BitsOf(f) /\ IndexPart(cell) = BitsOf(f - 1)
    BY <1>1, <2>1, BlockParts
  <2> QED
    BY <1>2, <2>2
<1> QED
  BY <1>3, <1>4

(* Whatever the input and the randomness, a built table answers: both      *)
(* receivers find the entries that are not stashed under their indices,    *)
(* get the dummy's index for the stashed ones, and the parties share which *)
(* it was.                                                                 *)
THEOREM TableAnswers == Spec => []LookupsAnswer
<1>1. IInv /\ BuiltInv => LookupsAnswer
  <2> SUFFICES ASSUME IInv, BuiltInv, pc = "built" PROVE LookupsAnswer
    BY DEF LookupsAnswer
  <2>1. input \in Inputs /\ stash \subseteq Edges /\ Cardinality(stash) = StashSize
    BY DEF IInv, TypeInv, BuiltInv
  <2> SUFFICES ASSUME NEW e \in Edges, NEW rand \in Rands
               PROVE  LET dummyIndex == 0 .. IndexBits - 1
                          result == Lookup(e, dummyIndex, rand)
                      IN  /\ \A p \in Receivers :
                               result.index[p] = IF e \in stash THEN dummyIndex ELSE BitsOf(e - 1)
                          /\ Replicated(result.found)
                          /\ RevealTo(0, result.found) = IF e \in stash THEN {} ELSE {0}
    BY <2>1 DEF LookupsAnswer
  <2>2. PICK dummyIndex : dummyIndex = 0 .. IndexBits - 1
    OBVIOUS
  <2>3. PICK result : result = Lookup(e, dummyIndex, rand)
    OBVIOUS
  <2>4. PICK l, r : l = input[e].left /\ r = input[e].right
    OBVIOUS
  <2>5. PICK cell0, cell1 :
         /\ cell0 = (IF table[l] = None THEN {} ELSE Block(table[l]))
         /\ cell1 = (IF table[r] = None THEN {} ELSE Block(table[r]))
    OBVIOUS
  <2>6. PICK key : key = Tag(e) \cup rand[5]
    OBVIOUS
  <2>7. PICK out : out = Chosen(key, cell0, cell1, dummyIndex)
    OBVIOUS
  <2>8. Ends(e) = {l, r} /\ l \in Vertices /\ r \in Vertices /\ l # r
    BY <2>1, <2>4, Graph DEF Ends
  <2>9. /\ \A i \in 1 .. 3 : rand[i] \in [Parties -> Words]
        /\ rand[5] \subseteq 0 .. IndexBits - 1 /\ rand[6] \in Words /\ rand[7] \in Words
    BY RandsAssumption
  <2>10. key \in Words /\ TagPart(key) = BitsOf(e)
    BY <2>1, <2>6, <2>9, BlockParts
  <2>11. /\ cell0 \in Words /\ (BitsOf(e) = TagPart(cell0) <=> table[l] = e)
         /\ table[l] = e => IndexPart(cell0) = BitsOf(e - 1)
    BY <2>5, <2>8, CellParts
  <2>12. /\ cell1 \in Words /\ (BitsOf(e) = TagPart(cell1) <=> table[r] = e)
         /\ table[r] = e => IndexPart(cell1) = BitsOf(e - 1)
    BY <2>5, <2>8, CellParts
  <2>13. /\ \A p \in Receivers : result.index[p] = IndexPart(out)
         /\ Replicated(result.found)
         /\ RevealTo(0, result.found) = Found(out)
    <3>0. PICK half0, half1 : half0 = Halves(l, rand[6]) /\ half1 = Halves(r, rand[7])
      OBVIOUS
    <3>1. half0 \in [Parties -> Words] /\ Xor(half0[1], half0[2]) = cell0
      BY <2>5, <2>9, <2>11, <3>0, HalvesJoin
    <3>2. half1 \in [Parties -> Words] /\ Xor(half1[1], half1[2]) = cell1
      BY <2>5, <2>9, <2>12, <3>0, HalvesJoin
    <3>3. result = LookupFrom2Shares(key, half0, half1, Y2B(dummyIndex, rand[8]), rand)
      BY <2>3, <2>4, <2>6, <3>0 DEF Lookup
    <3> QED
      BY <2>7, <2>9, <2>10, <3>1, <3>2, <3>3, LookupChooses
  <2>14. IndexPart(dummyIndex) = dummyIndex
    BY <2>2 DEF IndexPart
  (* e is in one of its cells, and if it is stashed in none.               *)
  <2>15. /\ table[l] = e <=> e \notin stash /\ state[e] = l
         /\ table[r] = e <=> e \notin stash /\ state[e] = r
         /\ e \notin stash => state[e] = l \/ state[e] = r
    <3>1. \A v \in Vertices : table[v] = e <=> e \notin stash /\ state[e] = v
      BY DEF BuiltInv
    <3>2. e \notin stash => state[e] = l \/ state[e] = r
      BY <2>8 DEF BuiltInv, IInv, EdgeInv
    <3> QED
      BY <2>8, <3>1, <3>2
  <2>16. /\ TagPart(key) = TagPart(cell0) => IndexPart(out) = IndexPart(cell0)
         /\ TagPart(key) # TagPart(cell0) /\ TagPart(key) = TagPart(cell1) =>
              IndexPart(out) = IndexPart(cell1)
         /\ TagPart(key) # TagPart(cell0) /\ TagPart(key) # TagPart(cell1) =>
              IndexPart(out) = IndexPart(dummyIndex)
         /\ (TagPart(key) = TagPart(cell0) <=> TagPart(key) = TagPart(cell1)) => Found(out) = {}
         /\ (TagPart(key) = TagPart(cell0) <=> TagPart(key) # TagPart(cell1)) => Found(out) = {0}
    BY <2>7, ChosenParts
  <2>17. /\ TagPart(key) = TagPart(cell0) <=> table[l] = e
         /\ TagPart(key) = TagPart(cell1) <=> table[r] = e
    BY <2>10, <2>11, <2>12
  <2>18. CASE e \in stash
    <3>1. IndexPart(out) = dummyIndex /\ Found(out) = {}
      BY <2>14, <2>15, <2>16, <2>17, <2>18
    <3> QED
      BY <2>2, <2>3, <2>13, <2>18, <3>1
  <2>19. CASE e \notin stash
    <3>1. IndexPart(out) = BitsOf(e - 1) /\ Found(out) = {0}
      BY <2>8, <2>11, <2>12, <2>15, <2>16, <2>17, <2>19
    <3> QED
      BY <2>2, <2>3, <2>13, <2>19, <3>1
  <2> QED
    BY <2>18, <2>19
<1> QED
  BY <1>1, BuiltInvariant, PTL
=============================================================================
