--------------------- MODULE ConnectedComponentsProofs ----------------------
(***************************************************************************)
(* The search of the registry finds one peer of each connected component,  *)
(* for every set of peers and every graph: proofs about                    *)
(* ConnectedComponents.                                                    *)
(***************************************************************************)
EXTENDS ConnectedComponents, FiniteSetTheorems, SequenceTheorems, TLAPS

-----------------------------------------------------------------------------
(* Paths. *)

(* A peer of the graph has a path to itself. *)
LEMMA ReachesItself ==
    ASSUME NEW N, NEW next, NEW p \in N
    PROVE  Reaches(p, p, N, next)
BY DEF Reaches

(* A path goes on to the neighbours of its end. *)
LEMMA ReachesNeighbour ==
    ASSUME NEW N, NEW next, NEW p, NEW q, NEW r \in next[q] \cap N,
           Reaches(p, q, N, next)
    PROVE  Reaches(p, r, N, next)
BY DEF Reaches, Closed

(* A path does not leave a closed set of peers. *)
LEMMA ClosedKeepsPaths ==
    ASSUME NEW N, NEW next, NEW S \in SUBSET N, Closed(S, N, next),
           NEW p \in S, NEW q, q \notin S
    PROVE  ~Reaches(p, q, N, next)
BY DEF Reaches

(* The links that are searched go both ways (graph.go:49). *)
LEMMA UndirectedIsSymmetric ==
    ASSUME nodes \subseteq Peers, links \in [Peers -> SUBSET Peers],
           NEW p \in nodes, NEW q \in nodes, p \in Graph[q]
    PROVE  q \in Graph[p]
<1>1. p \in links[q] \/ q \in links[p]
  BY DEF Graph, Undirected
<1>2. Graph[p] = links[p] \cup {r \in nodes : p \in links[r]}
  BY DEF Graph, Undirected
<1> QED
  BY <1>1, <1>2

(* The graph that is searched is over the same peers. *)
LEMMA GraphType ==
    ASSUME nodes \subseteq Peers, links \in [Peers -> SUBSET Peers]
    PROVE  Graph \in [Peers -> SUBSET Peers]
BY DEF Graph, Undirected

-----------------------------------------------------------------------------
(* The type invariant. *)

(* Nothing is visited at the start. *)
LEMMA InitType == Init => TypeOK
BY DEF Init, TypeOK

(* The last call on the stack (graph.go:84) is of a peer of the graph. *)
LEMMA TopOfPath ==
    ASSUME path \in Seq(nodes), path # <<>>
    PROVE  /\ Len(path) \in Nat /\ Len(path) # 0
           /\ Top \in nodes /\ OnPath(Top)
BY DEF Top, OnPath

(* Every step of the search keeps the types. *)
LEMMA NextType == TypeOK /\ [Next]_vars => TypeOK'
<1> SUFFICES ASSUME TypeOK, [Next]_vars PROVE TypeOK'
  OBVIOUS
<1> USE DEF TypeOK
<1>1. CASE BuildGraph
  BY <1>1, GraphType DEF BuildGraph
<1>2. ASSUME NEW p \in Peers, StartComponent(p) PROVE TypeOK'
  BY <1>2 DEF StartComponent
<1>3. ASSUME NEW p \in Peers, VisitNeighbour(p) PROVE TypeOK'
  BY <1>3 DEF VisitNeighbour, ToVisit
<1>4. CASE Return
  BY <1>4 DEF Return
<1>5. CASE ReturnComponents
  BY <1>5 DEF ReturnComponents
<1>6. CASE UNCHANGED vars
  BY <1>6 DEF vars
<1> QED
  BY <1>1, <1>2, <1>3, <1>4, <1>5, <1>6 DEF Next

(* Every variable of the search keeps its type. *)
THEOREM TypeCorrect == Spec => []TypeOK
<1> QED
  BY InitType, NextType, PTL DEF Spec

-----------------------------------------------------------------------------
(* The inductive invariant. *)

(* The invariant holds before the graph is built. *)
LEMMA InitInv == Init => Inv
<1> SUFFICES ASSUME Init PROVE Inv
  OBVIOUS
<1>1. TypeOK
  BY InitType
<1>2. SearchInv
  BY DEF Init, SearchInv
<1> QED
  BY <1>1, <1>2 DEF Inv

(* buildGraph leaves a graph whose links go both ways. *)
LEMMA BuildInv == Inv /\ BuildGraph => SearchInv'
<1> SUFFICES ASSUME Inv, BuildGraph PROVE SearchInv'
  OBVIOUS
<1> USE DEF Inv, TypeOK
<1>1. visited = {} /\ path = <<>> /\ roots = <<>>
  BY DEF BuildGraph, SearchInv
<1>2. \A p, q \in nodes : p \in links'[q] => q \in links'[p]
  BY UndirectedIsSymmetric DEF BuildGraph
<1> QED
  BY <1>1, <1>2 DEF BuildGraph, SearchInv

(* A new search starts when what has been visited is closed: no path leads *)
(* from it to the new peer, nor back.                                      *)
LEMMA NewRootIsApart ==
    ASSUME Inv, NEW p, StartComponent(p)
    PROVE  \A i \in DOMAIN roots : /\ ~Reaches(roots[i], p, nodes, links)
                                   /\ ~Reaches(p, roots[i], nodes, links)
<1> USE DEF Inv, TypeOK
<1>1. /\ path = <<>> /\ p \in nodes \ visited /\ visited \subseteq nodes
      /\ \A i \in DOMAIN roots : roots[i] \in visited
  BY DEF StartComponent, SearchInv
<1>2. Closed(visited, nodes, links)
  BY <1>1 DEF SearchInv, Closed, OnPath
<1>3. Closed(nodes \ visited, nodes, links)
  <2>1. \A q, r \in nodes : q \in links[r] => r \in links[q]
    BY DEF StartComponent, SearchInv
  <2> QED
    BY <2>1, <1>1, <1>2 DEF Closed
<1> TAKE i \in DOMAIN roots
<1>4. ~Reaches(roots[i], p, nodes, links)
  BY <1>1, <1>2, ClosedKeepsPaths
<1>5. ~Reaches(p, roots[i], nodes, links)
  <2>1. roots[i] \notin nodes \ visited /\ p \in nodes \ visited
    BY <1>1
  <2> QED
    BY <2>1, <1>3, ClosedKeepsPaths
<1> QED
  BY <1>4, <1>5

(* A new search (graph.go:70) starts in a component of its own. *)
LEMMA StartInv == \A p \in Peers : Inv /\ StartComponent(p) => SearchInv'
<1> SUFFICES ASSUME NEW p \in Peers, Inv, StartComponent(p) PROVE SearchInv'
  OBVIOUS
<1> USE DEF Inv, TypeOK
<1>1. /\ pc = "visit" /\ pc' = "visit" /\ nodes' = nodes /\ links' = links
      /\ path = <<>> /\ path' = <<p>> /\ p \in nodes \ visited
      /\ visited' = visited \cup {p} /\ roots' = Append(roots, p)
  BY DEF StartComponent
<1>2. /\ DOMAIN roots = 1..Len(roots) /\ Len(roots) \in Nat
      /\ DOMAIN roots' = 1..(Len(roots) + 1)
      /\ roots'[Len(roots) + 1] = p
      /\ \A i \in DOMAIN roots : i \in DOMAIN roots' /\ roots'[i] = roots[i]
      /\ \A i \in DOMAIN roots' : i \in DOMAIN roots \/ i = Len(roots) + 1
  BY <1>1
<1>3. \A i \in DOMAIN path' : path'[i] \in visited'
  BY <1>1
<1>4. \A i \in DOMAIN roots' : roots'[i] \in visited'
  BY <1>1, <1>2 DEF SearchInv
<1>5. \A q \in visited' : ~OnPath(q)' => links'[q] \cap nodes' \subseteq visited'
  <2>1. OnPath(p)'
    BY <1>1 DEF OnPath
  <2>2. \A q \in visited : ~OnPath(q)
    BY <1>1 DEF OnPath
  <2> QED
    BY <1>1, <2>1, <2>2 DEF SearchInv
<1>6. \A q \in visited' : \E i \in DOMAIN roots' : Reaches(roots'[i], q, nodes, links)
  <2>1. Reaches(roots'[Len(roots) + 1], p, nodes, links)
    BY <1>1, <1>2, ReachesItself
  <2>2. \A q \in visited : \E i \in DOMAIN roots : Reaches(roots[i], q, nodes, links)
    BY DEF SearchInv
  <2>3. Len(roots) + 1 \in DOMAIN roots'
    BY <1>2
  <2> QED
    BY <1>1, <1>2, <2>1, <2>2, <2>3
<1>7. \A i, j \in DOMAIN roots' : i # j => ~Reaches(roots'[i], roots'[j], nodes, links)
  <2>1. \A i, j \in DOMAIN roots : i # j => ~Reaches(roots[i], roots[j], nodes, links)
    BY DEF SearchInv
  <2> QED
    BY <1>2, <2>1, NewRootIsApart
<1>8. \A q, r \in nodes : q \in links[r] => r \in links[q]
  BY <1>1 DEF SearchInv
<1> QED
  BY <1>1, <1>3, <1>4, <1>5, <1>6, <1>7, <1>8 DEF SearchInv

(* A call of the recursion reaches the neighbour it visits. *)
LEMMA VisitInv == \A p \in Peers : Inv /\ VisitNeighbour(p) => SearchInv'
<1> SUFFICES ASSUME NEW p \in Peers, Inv, VisitNeighbour(p) PROVE SearchInv'
  OBVIOUS
<1> USE DEF Inv, TypeOK
<1>1. /\ pc = "visit" /\ pc' = "visit" /\ nodes' = nodes /\ links' = links
      /\ path # <<>> /\ path' = Append(path, p) /\ p \in links[Top] \cap nodes
      /\ visited' = visited \cup {p} /\ roots' = roots
  BY DEF VisitNeighbour, ToVisit
<1>2. /\ DOMAIN path = 1..Len(path) /\ Len(path) \in Nat
      /\ DOMAIN path' = 1..(Len(path) + 1)
      /\ path'[Len(path) + 1] = p
      /\ \A i \in DOMAIN path : i \in DOMAIN path' /\ path'[i] = path[i]
      /\ \A i \in DOMAIN path' : i \in DOMAIN path \/ i = Len(path) + 1
  BY <1>1
<1>3. \A i \in DOMAIN path' : path'[i] \in visited'
  BY <1>1, <1>2 DEF SearchInv
<1>4. \A i \in DOMAIN roots : roots[i] \in visited'
  BY <1>1 DEF SearchInv
<1>5. \A q \in visited' : ~OnPath(q)' => links[q] \cap nodes \subseteq visited'
  <2>1. OnPath(p)'
    <3>1. Len(path) + 1 \in DOMAIN path'
      BY <1>2
    <3> QED
      BY <1>2, <3>1 DEF OnPath
  <2>2. \A q : OnPath(q) => OnPath(q)'
    BY <1>2 DEF OnPath
  <2> QED
    BY <1>1, <2>1, <2>2 DEF SearchInv
<1>6. \A q \in visited' : \E i \in DOMAIN roots : Reaches(roots[i], q, nodes, links)
  <2>1. Top \in visited
    BY <1>1, TopOfPath DEF SearchInv, OnPath
  <2>2. PICK i \in DOMAIN roots : Reaches(roots[i], Top, nodes, links)
    BY <2>1 DEF SearchInv
  <2>3. Reaches(roots[i], p, nodes, links)
    BY <1>1, <2>2, ReachesNeighbour
  <2> QED
    BY <1>1, <2>3 DEF SearchInv
<1>7. /\ \A i, j \in DOMAIN roots : i # j => ~Reaches(roots[i], roots[j], nodes, links)
      /\ \A q, r \in nodes : q \in links[r] => r \in links[q]
  BY <1>1 DEF SearchInv
<1> QED
  BY <1>1, <1>3, <1>4, <1>5, <1>6, <1>7 DEF SearchInv

(* A call that returns has only visited neighbours. *)
LEMMA ReturnInv == Inv /\ Return => SearchInv'
<1> SUFFICES ASSUME Inv, Return PROVE SearchInv'
  OBVIOUS
<1> USE DEF Inv, TypeOK
<1>1. /\ pc = "visit" /\ pc' = "visit" /\ nodes' = nodes /\ links' = links
      /\ path # <<>> /\ path' = SubSeq(path, 1, Len(path) - 1)
      /\ links[Top] \cap nodes \subseteq visited
      /\ visited' = visited /\ roots' = roots
  BY DEF Return, ToVisit
<1>2. /\ DOMAIN path = 1..Len(path) /\ Len(path) \in Nat \ {0}
      /\ DOMAIN path' = 1..(Len(path) - 1)
      /\ \A i \in DOMAIN path' : i \in DOMAIN path /\ path'[i] = path[i]
      /\ \A i \in DOMAIN path : i \in DOMAIN path' \/ i = Len(path)
  BY <1>1
<1>3. \A i \in DOMAIN path' : path'[i] \in visited
  BY <1>2 DEF SearchInv
<1>4. \A q : OnPath(q) => OnPath(q)' \/ q = Top
  BY <1>2 DEF OnPath, Top
<1>5. \A q \in visited : ~OnPath(q)' => links[q] \cap nodes \subseteq visited
  BY <1>1, <1>4 DEF SearchInv
<1> QED
  BY <1>1, <1>3, <1>5 DEF SearchInv

(* The end of the search changes nothing the invariant reads. *)
LEMMA SameInv ==
    Inv /\ (ReturnComponents \/ UNCHANGED vars) => SearchInv'
<1> SUFFICES ASSUME Inv, ReturnComponents \/ UNCHANGED vars PROVE SearchInv'
  OBVIOUS
<1>1. /\ UNCHANGED <<nodes, links, visited, path, roots>>
      /\ \/ pc' = pc
         \/ pc = "visit" /\ pc' = "done" /\ path = <<>> /\ nodes \subseteq visited
  BY DEF ReturnComponents, vars
<1> QED
  BY <1>1 DEF Inv, SearchInv, OnPath

(* The invariant is inductive. *)
LEMMA NextInv == Inv /\ [Next]_vars => Inv'
<1> SUFFICES ASSUME Inv, [Next]_vars PROVE Inv'
  OBVIOUS
<1>1. TypeOK'
  BY NextType DEF Inv
<1>2. SearchInv'
  BY BuildInv, StartInv, VisitInv, ReturnInv, SameInv DEF Next
<1> QED
  BY <1>1, <1>2 DEF Inv

(* A visited peer that is not on the stack has visited neighbours only,    *)
(* and no root of the recursion (graph.go:86) reaches another.             *)
THEOREM SearchInvariant == Spec => []Inv
BY InitInv, NextInv, PTL DEF Spec

(* When it is done, the search has found one peer of each connected        *)
(* component of the graph and no two of the same one (graph.go:64-96).     *)
THEOREM OnePerComponentAlways == Spec => []OnePerComponent
<1>1. Inv => OnePerComponent
  BY DEF Inv, TypeOK, SearchInv, OnePerComponent, OneOfEach
<1> QED
  BY SearchInvariant, <1>1, PTL

-----------------------------------------------------------------------------
(* The search ends. *)

(* The parts of the measure are natural numbers. *)
LEMMA StepsLeftType ==
    ASSUME TypeOK
    PROVE  /\ IsFiniteSet(nodes \ visited)
           /\ Cardinality(nodes \ visited) \in Nat
           /\ Len(path) \in Nat
           /\ StepsLeft \in Nat
<1>1. IsFiniteSet(nodes \ visited)
  BY PeersAssumption, FS_Subset DEF TypeOK
<1>2. Cardinality(nodes \ visited) \in Nat
  BY <1>1, FS_CardinalityType
<1>3. Len(path) \in Nat
  BY DEF TypeOK
<1> QED
  BY <1>1, <1>2, <1>3 DEF StepsLeft, TypeOK

(* A call visits a peer for the first time. *)
LEMMA VisitDescends ==
    ASSUME TypeOK, NEW p \in nodes \ visited, nodes' = nodes, visited' = visited \cup {p}
    PROVE  Cardinality((nodes \ visited)') = Cardinality(nodes \ visited) - 1
<1>1. (nodes \ visited)' = (nodes \ visited) \ {p}
  OBVIOUS
<1>2. IsFiniteSet(nodes \ visited)
  BY StepsLeftType
<1>3. Cardinality((nodes \ visited) \ {p}) = Cardinality(nodes \ visited) - 1
  BY <1>2, FS_RemoveElement
<1> QED
  BY <1>1, <1>3

(* Every step of the search and of its recursion (graph.go:64-96) leaves   *)
(* fewer: there is no search without an end, whatever the cycles of the    *)
(* graph.                                                                  *)
THEOREM SearchAlwaysDescends == Spec => SearchDescends
<1>1. ASSUME TypeOK, TypeOK', Next PROVE StepsLeft' \in 0..(StepsLeft - 1)
  <2> DEFINE unvisited == Cardinality(nodes \ visited)
  <2>1. /\ unvisited \in Nat /\ Len(path) \in Nat
        /\ unvisited' \in Nat /\ Len(path') \in Nat /\ StepsLeft' \in Nat
    <3>1. (IsFiniteSet(nodes \ visited) /\ unvisited \in Nat)'
      <4>1. IsFiniteSet((nodes \ visited)')
        BY <1>1, PeersAssumption, FS_Subset DEF TypeOK
      <4> QED BY <4>1, FS_CardinalityType
    <3>2. Len(path') \in Nat
      BY <1>1 DEF TypeOK
    <3>3. StepsLeft' \in Nat
      BY <1>1, <3>1, <3>2 DEF StepsLeft, TypeOK
    <3> QED BY <1>1, <3>1, <3>2, <3>3, StepsLeftType
  <2>2. CASE BuildGraph
    <3>1. pc = "build" /\ pc' = "visit" /\ unvisited' = unvisited /\ path' = path
      BY <2>2 DEF BuildGraph
    <3> QED BY <2>1, <3>1 DEF StepsLeft
  <2>3. ASSUME NEW p \in Peers, StartComponent(p) \/ VisitNeighbour(p)
        PROVE  StepsLeft' \in 0..(StepsLeft - 1)
    <3>1. /\ pc = "visit" /\ pc' = "visit" /\ nodes' = nodes
          /\ p \in nodes \ visited /\ visited' = visited \cup {p}
      BY <2>3 DEF StartComponent, VisitNeighbour, ToVisit
    <3>2. unvisited' = unvisited - 1
      BY <1>1, <3>1, VisitDescends
    <3>3. Len(path') = Len(path) + 1
      <4>1. path \in Seq(nodes) /\ p \in nodes
        BY <1>1, <3>1 DEF TypeOK
      <4>2. (path = <<>> /\ path' = <<p>>) \/ path' = Append(path, p)
        BY <2>3 DEF StartComponent, VisitNeighbour
      <4>3. path = <<>> => <<p>> = Append(path, p)
        OBVIOUS
      <4>4. path' = Append(path, p)
        BY <4>2, <4>3
      <4> QED BY <4>1, <4>4, AppendProperties
    <3> HIDE DEF unvisited
    <3> QED BY <2>1, <3>1, <3>2, <3>3 DEF StepsLeft, unvisited
  <2>4. CASE Return
    <3>1. pc = "visit" /\ pc' = "visit" /\ unvisited' = unvisited
      BY <2>4 DEF Return
    <3>2. Len(path') = Len(path) - 1
      <4>1. path \in Seq(nodes) /\ path # <<>> /\ path' = SubSeq(path, 1, Len(path) - 1)
        BY <1>1, <2>4 DEF Return, TypeOK
      <4>2. Len(path) \in Nat \ {0}
        BY <4>1
      <4>3. Len(SubSeq(path, 1, Len(path) - 1)) = Len(path) - 1
        <5> DEFINE k == Len(path) - 1
        <5>1. k \in Nat /\ \A i \in 1..k : path[i] \in nodes
          BY <4>1, <4>2
        <5> HIDE DEF k
        <5>2. 1 \in Int /\ k \in Int
          BY <5>1
        <5>3. Len(SubSeq(path, 1, k)) = IF 1 <= k THEN k - 1 + 1 ELSE 0
          BY <5>1, <5>2, SubSeqProperties
        <5>4. Len(SubSeq(path, 1, k)) = k
          BY <5>1, <5>3
        <5> QED BY <5>4 DEF k
      <4> QED BY <4>1, <4>3
    <3> QED BY <2>1, <3>1, <3>2 DEF StepsLeft
  <2>5. CASE ReturnComponents
    <3>1. pc = "visit" /\ pc' = "done" /\ unvisited' = unvisited /\ path' = path
      BY <2>5 DEF ReturnComponents
    <3> QED BY <2>1, <3>1 DEF StepsLeft
  <2> QED BY <1>1, <2>2, <2>3, <2>4, <2>5 DEF Next
<1>2. TypeOK /\ [Next]_vars => TypeOK'
  BY NextType
<1> QED
  BY <1>1, <1>2, TypeCorrect, PTL DEF Spec, SearchDescends

-----------------------------------------------------------------------------
(* The search implements ComponentSearch. *)

(* The graph that buildGraph leaves is the one it is, undirected again.    *)
LEMMA UndirectedIsIdempotent ==
    ASSUME nodes \subseteq Peers, links \in [Peers -> SUBSET Peers]
    PROVE  Undirected(nodes, Graph) = Undirected(nodes, links)
<1>1. Graph \in [Peers -> SUBSET Peers]
  BY GraphType
<1>2. \A p \in nodes : {q \in nodes : p \in Graph[q]} \subseteq Graph[p]
  BY UndirectedIsSymmetric
<1>3. ASSUME NEW p \in Peers
      PROVE  Undirected(nodes, Graph)[p] = Graph[p]
  <2>1. CASE p \in nodes
    BY <1>1, <1>2, <2>1 DEF Undirected
  <2>2. CASE p \notin nodes
    BY <1>1, <2>2 DEF Graph, Undirected
  <2> QED BY <2>1, <2>2
<1>4. DOMAIN Undirected(nodes, Graph) = Peers /\ DOMAIN Graph = Peers
  BY <1>1 DEF Undirected
<1> QED
  BY <1>3, <1>4 DEF Graph, Undirected

(* Two graphs with the same links between the peers have the same paths.   *)
LEMMA SameLinksSamePaths ==
    ASSUME NEW N, NEW next, NEW other, \A p \in N : next[p] \cap N = other[p] \cap N,
           NEW p, NEW q, Reaches(p, q, N, next)
    PROVE  Reaches(p, q, N, other)
<1>1. \A S \in SUBSET N : Closed(S, N, other) => Closed(S, N, next)
  BY DEF Closed
<1> QED
  BY <1>1 DEF Reaches

(* One peer of each component of one is one of each of the other.          *)
LEMMA SameLinksSameComponents ==
    ASSUME NEW N, NEW next, NEW other, \A p \in N : next[p] \cap N = other[p] \cap N,
           NEW found, OneOfEach(found, N, next)
    PROVE  OneOfEach(found, N, other)
<1>1. \A p, q : Reaches(p, q, N, next) <=> Reaches(p, q, N, other)
  BY SameLinksSamePaths
<1> QED
  BY <1>1 DEF OneOfEach

(* The search starts as the promise does. *)
LEMMA InitSearch == Init => Search!Init
<1> SUFFICES ASSUME Init PROVE Search!Init
  OBVIOUS
<1>1. nodes \subseteq Peers /\ links \in [Peers -> SUBSET Peers] /\ pc = "build"
  BY DEF Init
<1>2. Undirected(nodes, links) \in [Peers -> SUBSET Peers]
  BY <1>1, GraphType DEF Graph
<1>3. \A p, q \in nodes :
          p \in Undirected(nodes, links)[q] => q \in Undirected(nodes, links)[p]
  BY <1>1, UndirectedIsSymmetric DEF Graph
<1> QED
  BY <1>1, <1>2, <1>3 DEF Search!Init

(* Each step of the search is the one of the promise, when it returns, or  *)
(* none at all.                                                            *)
LEMMA NextSearch == Inv /\ Inv' /\ [Next]_vars => [Search!Find]_(Search!vars)
<1> SUFFICES ASSUME Inv, Inv', [Next]_vars PROVE [Search!Find]_(Search!vars)
  OBVIOUS
<1> USE DEF Inv, TypeOK
<1>1. CASE BuildGraph
  <2>1. /\ pc = "build" /\ pc' = "visit" /\ links' = Graph
        /\ nodes' = nodes /\ roots' = roots
    BY <1>1 DEF BuildGraph
  <2>2. Undirected(nodes, links)' = Undirected(nodes, links)
    BY <2>1, UndirectedIsIdempotent DEF Undirected
  <2> QED BY <2>1, <2>2 DEF Search!vars
<1>2. CASE (\E p \in Peers : StartComponent(p) \/ VisitNeighbour(p)) \/ Return
  <2>1. pc = "visit" /\ pc' = "visit" /\ links' = links /\ nodes' = nodes
    BY <1>2 DEF StartComponent, VisitNeighbour, Return
  <2>2. Undirected(nodes, links)' = Undirected(nodes, links)
    BY <2>1 DEF Undirected
  <2> QED BY <2>1, <2>2 DEF Search!vars
<1>3. CASE ReturnComponents
  <2>1. /\ pc = "visit" /\ pc' = "done" /\ links' = links /\ nodes' = nodes
        /\ roots' = roots /\ nodes \subseteq visited
    BY <1>3 DEF ReturnComponents
  <2>2. Undirected(nodes, links)' = Undirected(nodes, links)
    BY <2>1 DEF Undirected
  <2>3. OneOfEach(roots, nodes, links)
    BY <2>1 DEF SearchInv, OneOfEach
  <2>4. \A p \in nodes : links[p] \cap nodes = Undirected(nodes, links)[p] \cap nodes
    <3>1. \A p, q \in nodes : p \in links[q] => q \in links[p]
      BY <2>1 DEF SearchInv
    <3>2. \A p \in nodes :
              Undirected(nodes, links)[p] = links[p] \cup {q \in nodes : p \in links[q]}
      BY DEF Undirected
    <3> QED BY <3>1, <3>2
  <2>5. OneOfEach(roots, nodes, Undirected(nodes, links))
    BY <2>3, <2>4, SameLinksSameComponents
  <2>6. Search!OneOfEach(roots, nodes, Undirected(nodes, links))
    BY <2>5 DEF OneOfEach, Reaches, Closed, Search!OneOfEach, Search!Reaches, Search!Closed
  <2>7. Search!Find
    BY <2>1, <2>2, <2>6 DEF Search!Find
  <2> QED BY <2>7
<1>4. CASE UNCHANGED vars
  <2>1. pc' = pc /\ links' = links /\ nodes' = nodes /\ roots' = roots
    BY <1>4 DEF vars
  <2> QED BY <2>1 DEF Search!vars, Undirected
<1> QED
  BY <1>1, <1>2, <1>3, <1>4 DEF Next

(* FindConnectedComponents and its recursion (graph.go:64-96) implement    *)
(* the one step that Registry takes for them.                              *)
THEOREM SearchImplemented == Spec => ImplementsSearch
<1> QED
  BY InitSearch, NextSearch, SearchInvariant, PTL
  DEF Spec, ImplementsSearch, Search!Spec
=============================================================================
