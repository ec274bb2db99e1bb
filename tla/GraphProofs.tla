----------------------------- MODULE GraphProofs -----------------------------
(***************************************************************************)
(* Proofs about WorkflowGraph, for every set of workflows: what is         *)
(* accepted is well formed, the order of Kahn's algorithm is topological,  *)
(* and, for graphs without parallel edges, the reported cycle is one.      *)
(***************************************************************************)
EXTENDS WorkflowGraph, FiniteSetTheorems, WellFoundedInduction, TLAPS

DeclaredNodes == Elems(nodeIds)

(* The edges that have been indexed, those into a node, and the nodes they *)
(* come from; how many of these are in the order decides when a node is    *)
(* ready.                                                                  *)
Indexed == edges \ todo
Into(m) == {e \in Indexed : e.dst = m}
Parents(m) == {e.src : e \in Into(m)}
OrderedParents(m) == Parents(m) \cap Elems(order)

Typed ==
  /\ nodeIds \in Seq(Nat \ {0})
  /\ IsFiniteSet(edges)
  /\ cycles \in BOOLEAN
  /\ todo \subseteq edges
  /\ outgoing \in [DeclaredNodes -> SUBSET DeclaredNodes]
  /\ indegree \in [DeclaredNodes -> Int]
  /\ ready \subseteq DeclaredNodes
  /\ order \in Seq(DeclaredNodes)
  /\ visit \in [DeclaredNodes -> {"none", "visiting", "visited"}]
  /\ stack \in Seq(DeclaredNodes \X Nat)
  /\ root \in Nat \ {0}
  /\ phase \in {"index", "order", "search", "done"}

(* from_graph: indexed edges are sound and the children are theirs.        *)
Indexing ==
  /\ \A e \in Indexed : EndpointError(e) = "none"
  /\ \A n, c \in DeclaredNodes :
       c \in outgoing[n] <=> \E e \in Indexed : e.src = n /\ e.dst = c
  /\ phase = "index" => ready = {} /\ order = <<>> /\ stack = <<>>
  /\ phase # "done" => verdict.kind = "none"
  /\ phase \in {"order", "search"} \/ verdict.kind \in {"accepted", "cycle"} =>
       todo = {} /\ ~HasDuplicates(nodeIds)

(* topological_order: the indegree counts the edges whose source is not    *)
(* ordered yet, one edge for each parent that is; a parent comes before    *)
(* its children.                                                           *)
Ordering ==
  /\ \A m \in DeclaredNodes :
       indegree[m] = Cardinality(Into(m)) - Cardinality(OrderedParents(m))
  /\ ready \cap Elems(order) = {}
  /\ ~HasDuplicates(order)
  /\ \A m \in ready : Parents(m) \subseteq Elems(order)
  /\ \A j \in DOMAIN order : \A p \in Parents(order[j]) :
       \E i \in DOMAIN order : i < j /\ order[i] = p
  /\ phase \in {"order", "search"} =>
       \A m \in DeclaredNodes \ (ready \cup Elems(order)) : indegree[m] # 0
  /\ phase = "search" => ready = {} /\ Len(order) # Len(nodeIds)
  /\ verdict.kind = "accepted" /\ ~cycles => Len(order) = Len(nodeIds)

(* find_cycle.  Seen(k) is the child the loop of frame k looked at last.   *)
Node(k) == stack[k][1]
Seen(k) == stack[k][2]
Visited == {n \in DeclaredNodes : visit[n] = "visited"}

(* The stack is a simple path of the nodes being visited, each entered as  *)
(* the last child the frame below has looked at.                           *)
StackIsPath ==
  /\ \A k \in DOMAIN stack : Node(k) \in Remaining /\ visit[Node(k)] = "visiting"
  /\ \A k, l \in DOMAIN stack : Node(k) = Node(l) => k = l
  /\ \A n \in DeclaredNodes : visit[n] = "visiting" => \E k \in DOMAIN stack : Node(k) = n
  /\ \A k \in DOMAIN stack : k < Len(stack) =>
       Node(k + 1) = Seen(k) /\ Seen(k) \in outgoing[Node(k)]

(* A child the loop has moved past is visited, or is the one being         *)
(* visited by the next frame.                                              *)
PassedAreVisited ==
  \A k \in DOMAIN stack : \A c \in outgoing[Node(k)] \cap Remaining :
    c <= Seen(k) => c \in Visited \/ (k < Len(stack) /\ c = Seen(k))

(* What is visited keeps no child outside and holds no cycle: each set of  *)
(* visited nodes has a member without a parent in the set.                 *)
VisitedHasNoCycle ==
  /\ \A n \in Visited : outgoing[n] \cap Remaining \subseteq Visited
  /\ \A S \in SUBSET Visited : S # {} => \E n \in S : \A m \in S : n \notin outgoing[m]

RootsPassed ==
  \A i \in DOMAIN nodeIds : i < root /\ nodeIds[i] \in Remaining => visit[nodeIds[i]] # "none"

Searching == StackIsPath /\ PassedAreVisited /\ VisitedHasNoCycle /\ RootsPassed

(* The search starts afresh when the order stops short of some node.       *)
Unsearched == stack = <<>> /\ root = 1 /\ \A n \in DeclaredNodes : visit[n] = "none"

Search ==
  /\ phase \in {"index", "order"} => Unsearched
  /\ phase = "search" => Searching
  /\ ReportedCycleIsReal
  /\ verdict.kind = "cycle" => verdict.path \in Seq(DeclaredNodes)

(* No two edges join the same nodes in the same direction.                 *)
Simple(E) == \A e, f \in E : e.src = f.src /\ e.dst = f.dst => e = f

-----------------------------------------------------------------------------
(* Sets, sequences and counting *)

(* Every non-empty set of natural numbers has a least element.             *)
LEMMA LeastNumber ==
  ASSUME NEW T, T \subseteq Nat, T # {}
  PROVE  \E n \in T : \A m \in T : n <= m
<1> DEFINE U == {0 .. n : n \in T}
           R == StrictSubsetOrdering(Nat)
<1>1. U \subseteq FiniteSubsetsOf(Nat) /\ U # {}
  <2>1. \A n \in Nat : IsFiniteSet(0 .. n) /\ 0 .. n \subseteq Nat
    BY FS_Interval
  <2>2. QED
    BY <2>1 DEF FiniteSubsetsOf
<1>2. IsWellFoundedOn(R, FiniteSubsetsOf(Nat))
  BY FS_StrictSubsetOrderingWellFounded
<1> HIDE DEF R
<1>3. PICK x \in U : \A y \in U : ~(<<y, x>> \in R)
  <2> HIDE DEF U
  <2> QED
    BY <1>1, <1>2, WFMin
<1>4. PICK n \in T : x = 0 .. n
  OBVIOUS
<1>5. ASSUME NEW m \in T, m < n PROVE FALSE
  <2>1. n \in 0 .. n /\ n \notin 0 .. m
    BY <1>5
  <2>2. 0 .. m \subseteq 0 .. n /\ 0 .. m # 0 .. n /\ 0 .. n \subseteq Nat
    BY <1>5, <2>1
  <2>3. <<0 .. m, 0 .. n>> \in R
    BY <2>2 DEF R, StrictSubsetOrdering
  <2>4. QED
    BY <1>3, <1>4, <2>3
<1>6. QED
  BY <1>5

LEMMA LeastIsIn ==
  ASSUME NEW S, S \subseteq Nat, S # {}
  PROVE  Least(S) \in S /\ \A m \in S : Least(S) <= m
<1>1. \E n \in S : \A m \in S : n <= m
  BY LeastNumber
<1>2. QED
  BY <1>1 DEF Least

LEMMA ElemsAppend ==
  ASSUME NEW S, NEW s \in Seq(S), NEW x \in S
  PROVE  /\ Elems(Append(s, x)) = Elems(s) \cup {x}
         /\ DOMAIN Append(s, x) = DOMAIN s \cup {Len(s) + 1}
         /\ \A i \in DOMAIN s : Append(s, x)[i] = s[i]
         /\ Append(s, x)[Len(s) + 1] = x
         /\ Append(s, x) \in Seq(S)
<1>1. /\ DOMAIN Append(s, x) = 1 .. Len(s) + 1 /\ DOMAIN s = 1 .. Len(s) /\ Len(s) \in Nat
      /\ Append(s, x) \in Seq(S)
  OBVIOUS
<1>2. \A i \in DOMAIN s : Append(s, x)[i] = s[i]
  OBVIOUS
<1>3. Append(s, x)[Len(s) + 1] = x
  OBVIOUS
<1>4. DOMAIN Append(s, x) = DOMAIN s \cup {Len(s) + 1}
  BY <1>1
<1>5. QED
  BY <1>1, <1>2, <1>3, <1>4 DEF Elems

LEMMA ElemsType ==
  ASSUME NEW S, NEW s \in Seq(S)
  PROVE  Elems(s) \subseteq S
  BY DEF Elems

(* A sequence without repetition has as many elements as positions.        *)
LEMMA ElemsCount ==
  ASSUME NEW S, NEW s \in Seq(S), ~HasDuplicates(s)
  PROVE  IsFiniteSet(Elems(s)) /\ Cardinality(Elems(s)) = Len(s)
<1>1. Len(s) \in Nat /\ DOMAIN s = 1 .. Len(s)
  OBVIOUS
<1>2. IsFiniteSet(1 .. Len(s)) /\ Cardinality(1 .. Len(s)) = Len(s)
  BY <1>1, FS_Interval
<1>3. s \in Bijection(1 .. Len(s), Elems(s))
  BY <1>1 DEF Bijection, Injection, Surjection, IsInjective, HasDuplicates, Elems
<1>4. ExistsBijection(1 .. Len(s), Elems(s))
  BY <1>3 DEF ExistsBijection
<1>5. QED
  BY <1>2, <1>4, FS_Bijection

(* A node has at most as many parents as edges that come in; exactly as    *)
(* many when no two of them have the same source.                          *)
LEMMA ParentsCount ==
  ASSUME Typed, NEW m
  PROVE  /\ IsFiniteSet(Into(m)) /\ IsFiniteSet(Parents(m)) /\ IsFiniteSet(OrderedParents(m))
         /\ Cardinality(Into(m)) \in Nat
         /\ Cardinality(Parents(m)) \in Nat
         /\ Cardinality(OrderedParents(m)) \in Nat
         /\ Cardinality(OrderedParents(m)) <= Cardinality(Parents(m))
         /\ Cardinality(Parents(m)) <= Cardinality(Into(m))
         /\ Cardinality(OrderedParents(m)) = Cardinality(Parents(m)) =>
              Parents(m) \subseteq Elems(order)
         /\ (\A e, f \in Into(m) : e.src = f.src => e = f) <=>
              Cardinality(Parents(m)) = Cardinality(Into(m))
<1>1. IsFiniteSet(Into(m))
  BY FS_Subset DEF Typed, Into, Indexed
<1> DEFINE g == [e \in Into(m) |-> e.src]
<1>2. g \in Surjection(Into(m), Parents(m))
  BY DEF Surjection, Parents
<1>3. /\ IsFiniteSet(Parents(m))
      /\ Cardinality(Parents(m)) <= Cardinality(Into(m))
      /\ Cardinality(Parents(m)) = Cardinality(Into(m)) <=> g \in Injection(Into(m), Parents(m))
  <2> HIDE DEF g
  <2> QED
    BY <1>1, <1>2, FS_Surjection
<1>4. (\A e, f \in Into(m) : e.src = f.src => e = f) <=> g \in Injection(Into(m), Parents(m))
  BY DEF Injection, IsInjective, Parents
<1>5. /\ IsFiniteSet(OrderedParents(m))
      /\ Cardinality(OrderedParents(m)) <= Cardinality(Parents(m))
      /\ Cardinality(Parents(m)) = Cardinality(OrderedParents(m)) => Parents(m) = OrderedParents(m)
  <2>1. OrderedParents(m) \in SUBSET Parents(m)
    BY DEF OrderedParents
  <2>2. QED
    BY <1>3, <2>1, FS_Subset
<1>6. OrderedParents(m) \subseteq Elems(order)
  BY DEF OrderedParents
<1>7. /\ Cardinality(Into(m)) \in Nat
      /\ Cardinality(Parents(m)) \in Nat
      /\ Cardinality(OrderedParents(m)) \in Nat
  BY <1>1, <1>3, <1>5, FS_CardinalityType
<1> HIDE DEF g
<1>8. QED
  BY <1>1, <1>3, <1>4, <1>5, <1>6, <1>7

-----------------------------------------------------------------------------
(* Types and the index *)

(* A validation starts well, whoever hands over the graph.                 *)
LEMMA GivenInv == \A f : WellGiven(f) /\ Given(f) => Typed /\ Indexing /\ Ordering
<1> SUFFICES ASSUME NEW f, WellGiven(f), Given(f) PROVE Typed /\ Indexing /\ Ordering
  OBVIOUS
<1>1. Typed
  <2>1. nodeIds \in Seq(Nat \ {0}) /\ IsFiniteSet(edges) /\ cycles \in BOOLEAN
    BY DEF WellGiven, Given
  <2>2. QED
    BY <2>1 DEF Given, Typed, DeclaredNodes
<1>2. Indexed = {}
  BY DEF Given, Indexed
<1>3. Indexing
  BY <1>2 DEF Given, Indexing, DeclaredNodes
<1>4. \A m : Into(m) = {} /\ Parents(m) = {} /\ OrderedParents(m) = {}
  BY <1>2 DEF Into, Parents, OrderedParents
<1>5. Ordering
  <2>1. \A m \in DeclaredNodes : indegree[m] = Cardinality(Into(m)) - Cardinality(OrderedParents(m))
    <3>1. \A m \in DeclaredNodes : indegree[m] = 0
      BY DEF Given, DeclaredNodes
    <3>2. Cardinality({}) = 0
      BY FS_EmptySet
    <3>3. QED
      BY <1>4, <3>1, <3>2
  <2>2. QED
    BY <1>4, <2>1 DEF Given, Ordering, HasDuplicates
<1>6. QED
  BY <1>1, <1>3, <1>5

LEMMA InitInv == Init => Typed /\ Indexing /\ Ordering
  BY GivenInv, GraphAssumption DEF Init

(* The children of a node are its neighbours along indexed edges.          *)
LEMMA Children ==
  ASSUME Indexing, NEW n \in DeclaredNodes, NEW c \in DeclaredNodes
  PROVE  c \in outgoing[n] <=> n \in Parents(c)
  BY DEF Indexing, Parents, Into

LEMMA EndpointsDeclared ==
  ASSUME NEW e, EndpointError(e) = "none"
  PROVE  /\ e.src \in DeclaredNodes /\ e.dst \in DeclaredNodes
         /\ e.sport \in OutPorts[e.src] /\ e.dport \in InPorts[e.dst]
  BY DEF EndpointError, DeclaredNodes

LEMMA ParentsDeclared ==
  ASSUME Indexing, NEW m
  PROVE  Parents(m) \subseteq DeclaredNodes
  BY EndpointsDeclared DEF Indexing, Parents, Into

(* One edge is indexed: it alone is new.                                   *)
LEMMA IndexEdgeAdds ==
  ASSUME Typed, Indexing, NEW e \in todo, IndexEdge(e)
  PROVE  /\ e.src \in DeclaredNodes /\ e.dst \in DeclaredNodes
         /\ e \in edges /\ e \notin Indexed
         /\ Indexed' = Indexed \cup {e}
         /\ \A m : Into(m)' = IF m = e.dst THEN Into(m) \cup {e} ELSE Into(m)
         /\ order = <<>> /\ order' = <<>> /\ ready = {} /\ ready' = {}
<1>1. e.src \in DeclaredNodes /\ e.dst \in DeclaredNodes
  BY EndpointsDeclared DEF IndexEdge
<1>2. e \in edges /\ e \notin Indexed /\ Indexed' = Indexed \cup {e}
  BY DEF IndexEdge, input, Typed, Indexed
<1>3. \A m : Into(m)' = IF m = e.dst THEN Into(m) \cup {e} ELSE Into(m)
  BY <1>2 DEF Into
<1>4. QED
  BY <1>1, <1>2, <1>3 DEF IndexEdge, kahn, Indexing

LEMMA TypedStep == Typed /\ Indexing /\ [Next]_vars => Typed'
<1> SUFFICES ASSUME Typed, Indexing, [Next]_vars PROVE Typed'
  OBVIOUS
<1> USE DEF input, index, kahn, search
<1>0. DeclaredNodes' = DeclaredNodes
  <2>1. nodeIds' = nodeIds
    BY DEF Next, RejectDuplicateNode, RejectEdge, IndexEdge, FinishIndex, EmitNode,
           FinishOrder, NextRoot, VisitChild, LeaveNode, vars
  <2>2. QED
    BY <2>1 DEF DeclaredNodes
<1>n. DeclaredNodes \subseteq Nat \ {0}
  BY ElemsType DEF Typed, DeclaredNodes
<1>1. CASE RejectDuplicateNode
  BY <1>0, <1>1 DEF RejectDuplicateNode, Typed
<1>2. ASSUME NEW e \in todo, RejectEdge(e) PROVE Typed'
  BY <1>0, <1>2 DEF RejectEdge, Typed
<1>3. ASSUME NEW e \in todo, IndexEdge(e) PROVE Typed'
  <2>1. e.src \in DeclaredNodes /\ e.dst \in DeclaredNodes
    BY <1>3, IndexEdgeAdds
  <2>2. outgoing' \in [DeclaredNodes -> SUBSET DeclaredNodes]
    BY <1>3, <2>1 DEF IndexEdge, Typed
  <2>3. indegree' \in [DeclaredNodes -> Int]
    BY <1>3, <2>1 DEF IndexEdge, Typed
  <2>4. QED
    BY <1>0, <1>3, <2>2, <2>3 DEF IndexEdge, Typed
<1>4. CASE FinishIndex
  <2>1. ready' \subseteq DeclaredNodes
    BY <1>4 DEF FinishIndex, Typed, DeclaredNodes
  <2>2. phase' \in {"order", "done"}
    BY <1>4 DEF FinishIndex
  <2>3. QED
    BY <1>0, <1>4, <2>1, <2>2 DEF FinishIndex, Typed
<1>5. CASE EmitNode
  <2> DEFINE n == Least(ready)
  <2>1. n \in ready
    BY <1>5, <1>n, LeastIsIn DEF EmitNode, Typed
  <2>2. n \in DeclaredNodes
    BY <2>1 DEF Typed
  <2> HIDE DEF n
  <2>3. order' = Append(order, n)
        /\ indegree' = [m \in DeclaredNodes |-> IF m \in outgoing[n] THEN indegree[m] - 1 ELSE indegree[m]]
        /\ ready' = (ready \ {n}) \cup {m \in outgoing[n] : indegree[m] - 1 = 0}
    BY <1>5 DEF EmitNode, n, DeclaredNodes
  <2>4. order' \in Seq(DeclaredNodes)
    BY <2>2, <2>3 DEF Typed
  <2>5. indegree' \in [DeclaredNodes -> Int]
    BY <2>3 DEF Typed
  <2>6. ready' \subseteq DeclaredNodes
    BY <2>2, <2>3 DEF Typed
  <2>7. QED
    BY <1>0, <1>5, <2>4, <2>5, <2>6 DEF EmitNode, Typed
<1>6. CASE FinishOrder
  BY <1>0, <1>6 DEF FinishOrder, Typed
<1>7. CASE NextRoot
  <2>1. CASE root > Len(nodeIds)
    BY <1>0, <1>7, <2>1 DEF NextRoot, Typed
  <2>2. CASE ~(root > Len(nodeIds))
    <3> DEFINE n == nodeIds[root]
    <3>1. root \in 1 .. Len(nodeIds)
      BY <2>2 DEF Typed
    <3>2. n \in DeclaredNodes
      BY <3>1 DEF Typed, DeclaredNodes, Elems
    <3>3. visit' \in [DeclaredNodes -> {"none", "visiting", "visited"}]
      BY <1>7, <2>2 DEF NextRoot, Typed
    <3>4. <<n, 0>> \in DeclaredNodes \X Nat
      BY <3>2
    <3>5. stack' \in Seq(DeclaredNodes \X Nat)
      <4>1. stack' = stack \/ stack' = <<<<n, 0>>>>
        BY <1>7, <2>2 DEF NextRoot
      <4> HIDE DEF n
      <4>2. <<<<n, 0>>>> \in Seq(DeclaredNodes \X Nat)
        <5> DEFINE x == <<n, 0>>
                   D == DeclaredNodes \X Nat
        <5>1. x \in D
          BY <3>4
        <5> HIDE DEF x, D
        <5>2. <<x>> \in Seq(D)
          BY <5>1
        <5>3. QED
          BY <5>2 DEF x, D
      <4>3. QED
        BY <4>1, <4>2 DEF Typed
    <3>6. root' \in Nat \ {0} /\ UNCHANGED phase
      BY <1>7, <2>2 DEF NextRoot, Typed
    <3>7. QED
      BY <1>0, <1>7, <3>3, <3>5, <3>6 DEF NextRoot, Typed
  <2>3. QED
    BY <2>1, <2>2
<1>8. CASE VisitChild
  <2> DEFINE c == Least(ChildrenLeft)
             here == [stack EXCEPT ![Len(stack)] = <<Top[1], c>>]
             D == DeclaredNodes \X Nat
  <2>1. stack \in Seq(D) /\ stack # <<>> /\ Len(stack) \in 1 .. Len(stack)
    BY <1>8 DEF VisitChild, Typed
  <2>2. Top \in D
    <3> HIDE DEF D
    <3> QED
      BY <2>1 DEF Top
  <2>3. c \in ChildrenLeft
    <3>1. ChildrenLeft \subseteq Nat
      BY <1>n, <2>2 DEF ChildrenLeft, Typed
    <3>2. QED
      BY <1>8, <3>1, LeastIsIn DEF VisitChild
  <2>4. c \in DeclaredNodes /\ c \in Nat
    BY <1>n, <2>2, <2>3 DEF ChildrenLeft, Typed
  <2> DEFINE t == <<Top[1], c>>
             x == <<c, 0>>
  <2>5. t \in D /\ x \in D
    BY <2>2, <2>4
  <2>6. here = [stack EXCEPT ![Len(stack)] = t]
    OBVIOUS
  <2> HIDE DEF D, t, x, here
  <2>7. here \in Seq(D)
    BY <2>1, <2>5, <2>6
  <2>8. Append(here, x) \in Seq(D)
    BY <2>5, <2>7
  <2>9. visit[c] \in {"none", "visiting", "visited"}
    BY <2>4 DEF Typed
  <2>10. stack' \in {stack, here, Append(here, x)} /\ root' = root /\ phase' \in {phase, "done"}
    BY <1>8, <2>9 DEF VisitChild, here, x
  <2>11. stack' \in Seq(D)
    BY <2>1, <2>7, <2>8, <2>10
  <2>12. visit' \in [DeclaredNodes -> {"none", "visiting", "visited"}]
    <3>1. visit' = visit \/ visit' = [visit EXCEPT ![c] = "visiting"]
      BY <1>8, <2>9 DEF VisitChild
    <3>2. QED
      BY <3>1 DEF Typed
  <2>13. QED
    BY <1>0, <1>8, <2>10, <2>11, <2>12 DEF VisitChild, Typed, D
<1>9. CASE LeaveNode
  <2> DEFINE D == DeclaredNodes \X Nat
  <2>1. visit' \in [DeclaredNodes -> {"none", "visiting", "visited"}]
    BY <1>9 DEF LeaveNode, Typed
  <2>2. stack' \in Seq(D)
    <3>1. stack \in Seq(D)
      BY DEF Typed
    <3>2. stack # <<>> /\ stack' = SubSeq(stack, 1, Len(stack) - 1)
      BY <1>9 DEF LeaveNode
    <3> HIDE DEF D
    <3>3. QED
      BY <3>1, <3>2
  <2>3. QED
    BY <1>0, <1>9, <2>1, <2>2 DEF LeaveNode, Typed
<1>10. CASE UNCHANGED vars
  BY <1>0, <1>10 DEF vars, Typed
<1>11. QED
  BY <1>1, <1>2, <1>3, <1>4, <1>5, <1>6, <1>7, <1>8, <1>9, <1>10 DEF Next

(* The edges and the index are not touched once it is complete.            *)
LEMMA IndexFixed ==
  [Next]_vars =>
    /\ UNCHANGED <<nodeIds, edges, cycles, DeclaredNodes>>
    /\ UNCHANGED <<todo, outgoing, Indexed>> \/ \E e \in todo : IndexEdge(e)
<1> SUFFICES ASSUME [Next]_vars
             PROVE  /\ UNCHANGED <<nodeIds, edges, cycles, DeclaredNodes>>
                    /\ UNCHANGED <<todo, outgoing, Indexed>> \/ \E e \in todo : IndexEdge(e)
  OBVIOUS
<1>1. UNCHANGED <<nodeIds, edges, cycles>>
  BY DEF Next, RejectDuplicateNode, RejectEdge, IndexEdge, FinishIndex, EmitNode,
         FinishOrder, NextRoot, VisitChild, LeaveNode, vars, input
<1>2. UNCHANGED <<todo, outgoing>> \/ \E e \in todo : IndexEdge(e)
  BY DEF Next, RejectDuplicateNode, RejectEdge, FinishIndex, EmitNode,
         FinishOrder, NextRoot, VisitChild, LeaveNode, vars, index
<1>3. QED
  BY <1>1, <1>2 DEF DeclaredNodes, Indexed

(* The child that dfs looks at is a declared node that remains.            *)
LEMMA VisitedChild ==
  ASSUME Typed, VisitChild
  PROVE  LET c == Least(ChildrenLeft) IN
           /\ Top \in DeclaredNodes \X Nat
           /\ c \in ChildrenLeft
           /\ \A d \in ChildrenLeft : c <= d
           /\ c \in DeclaredNodes
           /\ visit[c] \in {"none", "visiting", "visited"}
           /\ phase' = "done" \/ UNCHANGED <<phase, verdict>>
<1> DEFINE c == Least(ChildrenLeft)
           D == DeclaredNodes \X Nat
<1>1. DeclaredNodes \subseteq Nat
  BY ElemsType DEF Typed, DeclaredNodes
<1>2. stack # <<>> /\ ChildrenLeft # {}
  BY DEF VisitChild
<1>3. Top \in D
  <2>1. stack \in Seq(D)
    BY DEF Typed
  <2> HIDE DEF D
  <2>2. QED
    BY <1>2, <2>1 DEF Top
<1>4. ChildrenLeft \subseteq DeclaredNodes
  BY <1>3 DEF ChildrenLeft, Typed
<1>5. c \in ChildrenLeft /\ \A d \in ChildrenLeft : c <= d
  BY <1>1, <1>2, <1>4, LeastIsIn
<1>6. c \in DeclaredNodes
  BY <1>4, <1>5
<1>7. visit[c] \in {"none", "visiting", "visited"}
  BY <1>6 DEF Typed
<1>8. phase' = "done" \/ UNCHANGED <<phase, verdict>>
  <2>1. CASE visit[c] = "visiting"
    BY <2>1 DEF VisitChild
  <2>2. CASE visit[c] = "visited"
    BY <2>2 DEF VisitChild
  <2>3. CASE visit[c] = "none"
    BY <2>3 DEF VisitChild
  <2>4. QED
    BY <1>7, <2>1, <2>2, <2>3
<1>9. QED
  BY <1>3, <1>5, <1>6, <1>7, <1>8

LEMMA IndexingStep == Typed /\ Indexing /\ [Next]_vars => Indexing'
<1> SUFFICES ASSUME Typed, Indexing, [Next]_vars PROVE Indexing'
  OBVIOUS
<1> USE DEF input, index, kahn, search
<1>0. UNCHANGED <<nodeIds, edges, DeclaredNodes>>
  BY IndexFixed
<1>d. HasDuplicates(nodeIds)' <=> HasDuplicates(nodeIds)
  BY <1>0 DEF HasDuplicates
<1>e. \A e : EndpointError(e)' = EndpointError(e)
  BY <1>0 DEF EndpointError
<1>1. (\A e \in Indexed : EndpointError(e) = "none")'
  <2>1. CASE UNCHANGED Indexed
    BY <1>e, <2>1 DEF Indexing
  <2>2. ASSUME NEW e \in todo, IndexEdge(e) PROVE (\A f \in Indexed : EndpointError(f) = "none")'
    <3>1. Indexed' = Indexed \cup {e} /\ EndpointError(e) = "none"
      BY <2>2, IndexEdgeAdds DEF IndexEdge
    <3>2. QED
      BY <1>e, <3>1 DEF Indexing
  <2>3. QED
    BY <2>1, <2>2, IndexFixed
<1>2. (\A n, c \in DeclaredNodes : c \in outgoing[n] <=> \E e \in Indexed : e.src = n /\ e.dst = c)'
  <2>1. CASE UNCHANGED <<Indexed, outgoing>>
    BY <1>0, <2>1 DEF Indexing
  <2>2. ASSUME NEW e \in todo, IndexEdge(e),
               NEW n \in DeclaredNodes, NEW c \in DeclaredNodes
        PROVE  c \in outgoing'[n] <=> \E f \in Indexed' : f.src = n /\ f.dst = c
    <3>1. Indexed' = Indexed \cup {e} /\ e.src \in DeclaredNodes
      BY <2>2, IndexEdgeAdds
    <3>2. outgoing'[n] = IF n = e.src THEN outgoing[n] \cup {e.dst} ELSE outgoing[n]
      BY <2>2, <3>1 DEF IndexEdge, Typed
    <3>3. c \in outgoing[n] <=> \E f \in Indexed : f.src = n /\ f.dst = c
      BY DEF Indexing
    <3>4. QED
      BY <3>1, <3>2, <3>3
  <2>3. QED
    BY <1>0, <2>1, <2>2, IndexFixed
<1>3. (phase = "index" => ready = {} /\ order = <<>> /\ stack = <<>>)'
  <2>1. VisitChild => phase' # "index"
    BY VisitedChild DEF VisitChild
  <2>2. phase' = "index" => phase = "index" /\ UNCHANGED <<ready, order, stack>>
    BY <2>1 DEF Next, RejectDuplicateNode, RejectEdge, IndexEdge, FinishIndex, EmitNode,
                FinishOrder, NextRoot, LeaveNode, vars
  <2>3. QED
    BY <2>2 DEF Indexing
<1>4. (/\ phase # "done" => verdict.kind = "none"
       /\ phase \in {"order", "search"} \/ verdict.kind \in {"accepted", "cycle"} =>
            todo = {} /\ ~HasDuplicates(nodeIds))'
  <2> DEFINE Q == /\ phase # "done" => verdict.kind = "none"
                  /\ phase \in {"order", "search"} \/ verdict.kind \in {"accepted", "cycle"} =>
                       todo = {} /\ ~HasDuplicates(nodeIds)
  <2>0. Q
    BY DEF Indexing
  <2>1. CASE RejectDuplicateNode
    BY <2>0, <2>1, <1>d DEF RejectDuplicateNode, Verdict
  <2>2. ASSUME NEW e \in todo, RejectEdge(e) PROVE Q'
    <3>1. EndpointError(e) \in {"unknown_node", "unknown_port", "none"}
      BY DEF EndpointError
    <3>2. QED
      BY <2>2, <3>1 DEF RejectEdge, Verdict
  <2>3. ASSUME NEW e \in todo, IndexEdge(e) PROVE Q'
    BY <2>0, <2>3 DEF IndexEdge
  <2>4. CASE FinishIndex
    BY <2>0, <2>4, <1>d DEF FinishIndex, Verdict
  <2>5. CASE EmitNode
    BY <2>0, <2>5, <1>d DEF EmitNode
  <2>6. CASE FinishOrder
    BY <2>0, <2>6, <1>d DEF FinishOrder, Verdict
  <2>7. CASE NextRoot
    BY <2>0, <2>7, <1>d DEF NextRoot, Verdict
  <2>8. CASE VisitChild
    <3>1. phase = "search" /\ UNCHANGED todo
      BY <2>8 DEF VisitChild
    <3>2. phase' = "done" \/ UNCHANGED <<phase, verdict>>
      BY <2>8, VisitedChild
    <3>3. QED
      BY <2>0, <3>1, <3>2, <1>d
  <2>9. CASE LeaveNode
    BY <2>0, <2>9, <1>d DEF LeaveNode
  <2>10. CASE UNCHANGED vars
    BY <2>0, <2>10, <1>d DEF vars
  <2>11. QED
    BY <2>1, <2>2, <2>3, <2>4, <2>5, <2>6, <2>7, <2>8, <2>9, <2>10 DEF Next
<1>5. QED
  BY <1>1, <1>2, <1>3, <1>4 DEF Indexing

LEMMA IndexedIsWellFormed ==
  Indexing => AcceptedIsWellFormed
<1> SUFFICES ASSUME Indexing, verdict.kind = "accepted"
             PROVE  /\ ~HasDuplicates(nodeIds)
                    /\ \A e \in edges : /\ {e.src, e.dst} \subseteq Elems(nodeIds)
                                        /\ e.sport \in OutPorts[e.src]
                                        /\ e.dport \in InPorts[e.dst]
  BY DEF AcceptedIsWellFormed
<1>1. todo = {} /\ ~HasDuplicates(nodeIds)
  BY DEF Indexing
<1>2. \A e \in edges : EndpointError(e) = "none"
  BY <1>1 DEF Indexing, Indexed
<1>3. QED
  BY <1>1, <1>2, EndpointsDeclared DEF DeclaredNodes

(* What WorkflowGraph::new or with_cycles_allowed accepts has distinct     *)
(* nodes, and each edge joins a declared output port to a declared input   *)
(* port, whatever order the edges are declared in.                         *)
THEOREM AcceptedGraphIsWellFormed == Spec => []AcceptedIsWellFormed
<1>1. Init => Typed /\ Indexing
  BY InitInv
<1>2. Typed /\ Indexing /\ [Next]_vars => (Typed /\ Indexing)'
  BY TypedStep, IndexingStep
<1>3. QED
  BY <1>1, <1>2, IndexedIsWellFormed, PTL DEF Spec

-----------------------------------------------------------------------------
(* Kahn's algorithm *)

(* The counts depend on the edges, the index and the order alone.          *)
LEMMA CountsUnchanged ==
  ASSUME UNCHANGED <<edges, todo, order>>
  PROVE  \A m : UNCHANGED <<Into(m), Parents(m), OrderedParents(m)>>
<1>1. UNCHANGED Indexed
  BY DEF Indexed
<1>2. \A m : UNCHANGED Into(m)
  BY <1>1 DEF Into
<1>3. \A m : UNCHANGED Parents(m)
  BY <1>2 DEF Parents
<1>4. \A m : UNCHANGED OrderedParents(m)
  BY <1>3 DEF OrderedParents, Elems
<1>5. QED
  BY <1>2, <1>3, <1>4

LEMMA IndexEdgeOrdering ==
  ASSUME Typed, Indexing, Ordering, NEW e \in todo, IndexEdge(e)
  PROVE  Ordering'
<1> USE DEF input, kahn, search
<1>1. /\ e.src \in DeclaredNodes /\ e.dst \in DeclaredNodes
      /\ e \notin Indexed
      /\ \A m : Into(m)' = IF m = e.dst THEN Into(m) \cup {e} ELSE Into(m)
      /\ order = <<>> /\ order' = <<>> /\ ready = {} /\ ready' = {}
  BY IndexEdgeAdds
<1>2. Elems(order) = {} /\ Elems(order') = {} /\ ~HasDuplicates(order')
  BY <1>1 DEF Elems, HasDuplicates
<1>3. \A m : OrderedParents(m) = {} /\ OrderedParents(m)' = {}
  BY <1>2 DEF OrderedParents
<1>4. DeclaredNodes' = DeclaredNodes /\ phase' = "index" /\ verdict'.kind = "none"
  BY DEF IndexEdge, DeclaredNodes, Indexing
<1>5. ASSUME NEW m \in DeclaredNodes
      PROVE  indegree'[m] = Cardinality(Into(m)') - Cardinality(OrderedParents(m)')
  <2>1. indegree[m] = Cardinality(Into(m)) - Cardinality(OrderedParents(m))
    BY DEF Ordering
  <2>2. Cardinality({}) = 0
    BY FS_EmptySet
  <2>3. IsFiniteSet(Into(m)) /\ Cardinality(Into(m)) \in Nat
    BY ParentsCount
  <2>4. indegree'[m] = IF m = e.dst THEN indegree[m] + 1 ELSE indegree[m]
    BY <1>1 DEF IndexEdge, Typed
  <2>5. e \notin Into(m)
    BY <1>1 DEF Into
  <2>6. Cardinality(Into(m)') = IF m = e.dst THEN Cardinality(Into(m)) + 1 ELSE Cardinality(Into(m))
    <3>1. Cardinality(Into(m) \cup {e}) = Cardinality(Into(m)) + 1
      BY <2>3, <2>5, FS_AddElement
    <3>2. QED
      BY <1>1, <3>1
  <2>7. Cardinality(OrderedParents(m)) = 0
    BY <1>3, <2>2
  <2>8. Cardinality(OrderedParents(m)') = 0
    BY <1>3, <2>2
  <2>9. indegree[m] = Cardinality(Into(m))
    BY <2>1, <2>3, <2>7
  <2>10. indegree'[m] = Cardinality(Into(m)')
    BY <2>4, <2>6, <2>9
  <2>11. Cardinality(Into(m)') \in Nat
    BY <2>3, <2>6
  <2>12. QED
    BY <2>8, <2>10, <2>11
<1>6. QED
  BY <1>1, <1>2, <1>4, <1>5 DEF Ordering

LEMMA FinishIndexOrdering ==
  ASSUME Typed, Indexing, Ordering, FinishIndex
  PROVE  Ordering'
<1> USE DEF input, index, search
<1>1. order = <<>> /\ order' = <<>> /\ UNCHANGED <<edges, todo, indegree, cycles>>
  BY DEF FinishIndex, Indexing
<1>2. \A m : UNCHANGED <<Into(m), Parents(m), OrderedParents(m)>>
  BY <1>1, CountsUnchanged
<1>3. Elems(order) = {} /\ Elems(order') = {} /\ ~HasDuplicates(order')
  BY <1>1 DEF Elems, HasDuplicates
<1>4. DeclaredNodes' = DeclaredNodes
  BY DEF FinishIndex, DeclaredNodes
<1>5. ready = {}
  BY DEF FinishIndex, Indexing
<1>6. ASSUME NEW m \in DeclaredNodes, indegree[m] = 0 PROVE Parents(m) = {}
  <2>1. OrderedParents(m) = {}
    BY <1>3 DEF OrderedParents
  <2>2. Cardinality(Into(m)) = 0
    BY <1>6, <2>1, FS_EmptySet, ParentsCount DEF Ordering
  <2>3. Into(m) = {}
    BY <2>2, FS_EmptySet, ParentsCount
  <2>4. QED
    BY <2>3 DEF Parents
<1>7. CASE cycles
  <2>1. ready' = {} /\ phase' = "done" /\ cycles'
    BY <1>5, <1>7 DEF FinishIndex
  <2>2. QED
    BY <1>1, <1>2, <1>3, <1>4, <2>1 DEF Ordering
<1>8. CASE ~cycles
  <2>1. ready' = {n \in DeclaredNodes : indegree[n] = 0} /\ phase' = "order" /\ verdict' = verdict
        /\ verdict.kind = "none"
    BY <1>8 DEF FinishIndex, DeclaredNodes, Indexing
  <2>2. \A m \in ready' : Parents(m)' \subseteq Elems(order')
    BY <1>2, <1>6, <2>1
  <2>3. QED
    BY <1>1, <1>2, <1>3, <1>4, <2>1, <2>2 DEF Ordering
<1>9. QED
  BY <1>7, <1>8

LEMMA EmitNodeOrdering ==
  ASSUME Typed, Indexing, Ordering, EmitNode
  PROVE  Ordering'
<1> USE DEF input, search
<1>0. DeclaredNodes \subseteq Nat
  BY ElemsType DEF Typed, DeclaredNodes
<1>1. PICK n : n = Least(ready)
  OBVIOUS
<1>2. n \in ready /\ n \in DeclaredNodes
  BY <1>0, <1>1, LeastIsIn DEF EmitNode, Typed
<1>3. /\ order' = Append(order, n)
      /\ indegree' = [m \in DeclaredNodes |-> IF m \in outgoing[n] THEN indegree[m] - 1 ELSE indegree[m]]
      /\ ready' = (ready \ {n}) \cup {m \in outgoing[n] : indegree[m] - 1 = 0}
      /\ UNCHANGED <<nodeIds, edges, todo, phase, verdict, cycles>>
      /\ phase = "order"
  BY <1>1 DEF EmitNode, DeclaredNodes
<1>4. /\ DeclaredNodes' = DeclaredNodes
      /\ verdict.kind = "none"
      /\ todo = {}
  BY <1>3 DEF DeclaredNodes, Indexing
<1>5. \A m : UNCHANGED <<Into(m), Parents(m)>>
  BY <1>3 DEF Into, Parents, Indexed
<1>6. n \notin Elems(order)
  BY <1>2 DEF Ordering
<1>7. order \in Seq(DeclaredNodes) /\ Len(order) \in Nat /\ DOMAIN order = 1 .. Len(order)
  BY DEF Typed
<1>8. /\ Elems(order') = Elems(order) \cup {n}
      /\ DOMAIN order' = DOMAIN order \cup {Len(order) + 1}
      /\ \A i \in DOMAIN order : order'[i] = order[i]
      /\ order'[Len(order) + 1] = n
  BY <1>2, <1>3, <1>7, ElemsAppend
<1>9. \A m \in DeclaredNodes : m \in outgoing[n] <=> n \in Parents(m)
  BY <1>2, Children
<1>10. \A m : OrderedParents(m)' = IF n \in Parents(m) THEN OrderedParents(m) \cup {n}
                                                       ELSE OrderedParents(m)
  BY <1>5, <1>8 DEF OrderedParents
<1>11. ASSUME NEW m \in DeclaredNodes
       PROVE  indegree'[m] = Cardinality(Into(m)') - Cardinality(OrderedParents(m)')
  <2>1. indegree[m] = Cardinality(Into(m)) - Cardinality(OrderedParents(m))
        /\ IsFiniteSet(OrderedParents(m))
        /\ Cardinality(Into(m)) \in Nat /\ Cardinality(OrderedParents(m)) \in Nat
    BY ParentsCount DEF Ordering
  <2>2. n \notin OrderedParents(m)
    BY <1>6 DEF OrderedParents
  <2>3. Cardinality(OrderedParents(m) \cup {n}) = Cardinality(OrderedParents(m)) + 1
    BY <2>1, <2>2, FS_AddElement
  <2>4. indegree'[m] = IF m \in outgoing[n] THEN indegree[m] - 1 ELSE indegree[m]
    BY <1>3
  <2>5. Into(m)' = Into(m)
    BY <1>5
  <2>6. CASE n \in Parents(m)
    <3>1. OrderedParents(m)' = OrderedParents(m) \cup {n}
      BY <1>10, <2>6
    <3>2. Cardinality(OrderedParents(m)') = Cardinality(OrderedParents(m)) + 1
      BY <2>3, <3>1
    <3>3. indegree'[m] = indegree[m] - 1
      BY <1>9, <2>4, <2>6
    <3>4. Cardinality(Into(m)') = Cardinality(Into(m))
      BY <2>5
    <3>5. QED
      BY <2>1, <3>2, <3>3, <3>4
  <2>7. CASE n \notin Parents(m)
    BY <1>9, <1>10, <2>1, <2>4, <2>5, <2>7
  <2>8. QED
    BY <2>6, <2>7
<1>12. \A j \in DOMAIN order : Parents(order[j]) \subseteq Elems(order)
  BY DEF Ordering, Elems
<1>13. Parents(n) \subseteq Elems(order)
  BY <1>2 DEF Ordering
<1>14. ASSUME NEW m \in outgoing[n], indegree[m] - 1 = 0
       PROVE  m \notin Elems(order') /\ Parents(m) \subseteq Elems(order')
  <2>1. m \in DeclaredNodes /\ n \in Parents(m)
    BY <1>2, <1>9 DEF Typed
  <2>2. m \notin Elems(order)
    BY <1>6, <1>12, <2>1 DEF Elems
  <2>3. m # n
    BY <1>6, <1>13, <2>1
  <2>4. indegree'[m] = 0
    BY <1>3, <1>14, <2>1
  <2>5. Cardinality(Into(m)) - Cardinality(OrderedParents(m)') = 0
    BY <1>5, <1>11, <2>1, <2>4
  <2>6. OrderedParents(m)' \subseteq Parents(m)
    BY <1>5 DEF OrderedParents
  <2>7. OrderedParents(m)' = Parents(m)
    <3>1. /\ IsFiniteSet(Parents(m))
          /\ Cardinality(Into(m)) \in Nat /\ Cardinality(Parents(m)) \in Nat
          /\ Cardinality(Parents(m)) <= Cardinality(Into(m))
      BY ParentsCount
    <3> DEFINE O == OrderedParents(m)'
    <3>2. O \in SUBSET Parents(m)
      BY <2>6
    <3> HIDE DEF O
    <3>3. IsFiniteSet(O) /\ Cardinality(O) <= Cardinality(Parents(m))
          /\ (Cardinality(Parents(m)) = Cardinality(O) => Parents(m) = O)
      BY <3>1, <3>2, FS_Subset
    <3>4. Cardinality(O) \in Nat
      BY <3>3, FS_CardinalityType
    <3>5. Cardinality(Into(m)) - Cardinality(O) = 0
      BY <2>5 DEF O
    <3>6. QED
      BY <3>1, <3>3, <3>4, <3>5 DEF O
  <2>8. QED
    BY <1>8, <2>2, <2>3, <2>7 DEF OrderedParents
<1>15. ready' \cap Elems(order') = {}
  BY <1>3, <1>8, <1>14 DEF Ordering
<1>16. ~HasDuplicates(order')
  <2> SUFFICES ASSUME NEW i \in DOMAIN order', NEW j \in DOMAIN order', i # j
               PROVE  order'[i] # order'[j]
    BY DEF HasDuplicates
  <2>1. \A k \in DOMAIN order : order'[k] # n
    BY <1>6, <1>8 DEF Elems
  <2>2. QED
    BY <1>8, <2>1 DEF Ordering, HasDuplicates
<1>17. \A m \in ready' : Parents(m)' \subseteq Elems(order')
  BY <1>3, <1>5, <1>8, <1>14 DEF Ordering
<1>18. ASSUME NEW j \in DOMAIN order', NEW p \in Parents(order'[j])
       PROVE  \E i \in DOMAIN order' : i < j /\ order'[i] = p
  <2>1. CASE j \in DOMAIN order
    <3>1. PICK i \in DOMAIN order : i < j /\ order[i] = p
      BY <1>8, <1>18, <2>1 DEF Ordering
    <3>2. QED
      BY <1>8, <3>1
  <2>2. CASE j = Len(order) + 1
    <3>1. p \in Elems(order)
      BY <1>8, <1>13, <1>18, <2>2
    <3>2. PICK i \in DOMAIN order : order[i] = p
      BY <3>1 DEF Elems
    <3>3. QED
      BY <1>7, <1>8, <2>2, <3>2
  <2>3. QED
    BY <1>8, <2>1, <2>2
<1>19. \A m \in DeclaredNodes \ (ready' \cup Elems(order')) : indegree'[m] # 0
  <2> SUFFICES ASSUME NEW m \in DeclaredNodes, m \notin ready', m \notin Elems(order')
               PROVE  indegree'[m] # 0
    OBVIOUS
  <2>1. m \notin ready /\ m \notin Elems(order)
    BY <1>3, <1>8
  <2>2. indegree[m] # 0
    BY <1>3, <2>1 DEF Ordering
  <2>3. QED
    BY <1>3, <2>2
<1>20. (\A j \in DOMAIN order : \A p \in Parents(order[j]) :
          \E i \in DOMAIN order : i < j /\ order[i] = p)'
  BY <1>5, <1>18
<1>21. QED
  BY <1>3, <1>4, <1>11, <1>15, <1>16, <1>17, <1>19, <1>20 DEF Ordering

LEMMA OrderingStep == Typed /\ Indexing /\ Ordering /\ [Next]_vars => Ordering'
<1> SUFFICES ASSUME Typed, Indexing, Ordering, [Next]_vars PROVE Ordering'
  OBVIOUS
<1> USE DEF input, index, kahn, search
<1>u. ASSUME UNCHANGED <<nodeIds, edges, cycles, todo, indegree, ready, order>>,
             phase' = "order" => phase = "order",
             phase' = "search" => phase = "search" \/ (phase = "order" /\ ready = {} /\ Len(order) # Len(nodeIds)),
             verdict'.kind = "accepted" => verdict.kind = "accepted" \/ Len(order) = Len(nodeIds)
      PROVE  Ordering'
  <2>1. \A m : UNCHANGED <<Into(m), Parents(m), OrderedParents(m)>>
    BY <1>u, CountsUnchanged
  <2>2. UNCHANGED <<DeclaredNodes, Elems(order)>> /\ (HasDuplicates(order)' <=> HasDuplicates(order))
    BY <1>u DEF DeclaredNodes, Elems, HasDuplicates
  <2>3. (\A m \in DeclaredNodes : indegree[m] = Cardinality(Into(m)) - Cardinality(OrderedParents(m)))'
    BY <1>u, <2>1, <2>2 DEF Ordering
  <2>4. (/\ ready \cap Elems(order) = {}
         /\ ~HasDuplicates(order)
         /\ \A m \in ready : Parents(m) \subseteq Elems(order)
         /\ \A j \in DOMAIN order : \A p \in Parents(order[j]) :
              \E i \in DOMAIN order : i < j /\ order[i] = p)'
    BY <1>u, <2>1, <2>2 DEF Ordering
  <2>5. (phase \in {"order", "search"} =>
           \A m \in DeclaredNodes \ (ready \cup Elems(order)) : indegree[m] # 0)'
    BY <1>u, <2>2 DEF Ordering
  <2>6. (/\ phase = "search" => ready = {} /\ Len(order) # Len(nodeIds)
         /\ verdict.kind = "accepted" /\ ~cycles => Len(order) = Len(nodeIds))'
    BY <1>u DEF Ordering
  <2>7. QED
    BY <2>3, <2>4, <2>5, <2>6 DEF Ordering
<1>1. CASE RejectDuplicateNode
  BY <1>u, <1>1 DEF RejectDuplicateNode, Verdict
<1>2. ASSUME NEW e \in todo, RejectEdge(e) PROVE Ordering'
  <2>1. EndpointError(e) # "accepted"
    BY DEF EndpointError
  <2>2. QED
    BY <1>u, <1>2, <2>1 DEF RejectEdge, Verdict
<1>3. ASSUME NEW e \in todo, IndexEdge(e) PROVE Ordering'
  BY <1>3, IndexEdgeOrdering
<1>4. CASE FinishIndex
  BY <1>4, FinishIndexOrdering
<1>5. CASE EmitNode
  BY <1>5, EmitNodeOrdering
<1>6. CASE FinishOrder
  BY <1>u, <1>6 DEF FinishOrder, Verdict
<1>7. CASE NextRoot
  BY <1>u, <1>7 DEF NextRoot, Verdict
<1>8. CASE VisitChild
  <2>1. verdict'.kind = "cycle" \/ UNCHANGED verdict
    <3> DEFINE c == Least(ChildrenLeft)
    <3>1. CASE visit[c] = "visiting"
      BY <1>8, <3>1 DEF VisitChild, Verdict
    <3>2. CASE visit[c] = "visited"
      BY <1>8, <3>2 DEF VisitChild
    <3>3. CASE visit[c] = "none"
      BY <1>8, <3>3 DEF VisitChild
    <3>4. QED
      BY <1>8, <3>1, <3>2, <3>3, VisitedChild
  <2>2. phase = "search" /\ phase' \in {"search", "done"}
    BY <1>8, VisitedChild DEF VisitChild
  <2>3. QED
    BY <1>u, <1>8, <2>1, <2>2 DEF VisitChild
<1>9. CASE LeaveNode
  BY <1>u, <1>9 DEF LeaveNode
<1>10. CASE UNCHANGED vars
  BY <1>u, <1>10 DEF vars
<1>11. QED
  BY <1>1, <1>2, <1>3, <1>4, <1>5, <1>6, <1>7, <1>8, <1>9, <1>10 DEF Next

LEMMA KahnInvariant == Spec => [](Typed /\ Indexing /\ Ordering)
<1>1. Init => Typed /\ Indexing /\ Ordering
  BY InitInv
<1>2. Typed /\ Indexing /\ Ordering /\ [Next]_vars => (Typed /\ Indexing /\ Ordering)'
  BY TypedStep, IndexingStep, OrderingStep
<1>3. QED
  BY <1>1, <1>2, PTL DEF Spec

LEMMA OrderingIsTopological ==
  Typed /\ Indexing /\ Ordering => OrderIsTopological
<1> SUFFICES ASSUME Typed, Indexing, Ordering, verdict.kind = "accepted", ~cycles
             PROVE  /\ Elems(order) = Elems(nodeIds) /\ ~HasDuplicates(order)
                    /\ \A i, j \in DOMAIN order : Arc(order[i], order[j]) => i < j
  BY DEF OrderIsTopological
<1>1. todo = {} /\ ~HasDuplicates(nodeIds) /\ ~HasDuplicates(order)
      /\ Len(order) = Len(nodeIds)
  BY DEF Indexing, Ordering
<1>2. IsFiniteSet(Elems(order)) /\ Cardinality(Elems(order)) = Len(order)
  BY <1>1, ElemsCount DEF Typed
<1>3. IsFiniteSet(Elems(nodeIds)) /\ Cardinality(Elems(nodeIds)) = Len(nodeIds)
  BY <1>1, ElemsCount DEF Typed
<1>4. Elems(order) \in SUBSET Elems(nodeIds)
  BY ElemsType DEF Typed, DeclaredNodes
<1>5. Elems(order) = Elems(nodeIds)
  BY <1>1, <1>2, <1>3, <1>4, FS_Subset
<1>6. ASSUME NEW i \in DOMAIN order, NEW j \in DOMAIN order, Arc(order[i], order[j])
      PROVE  i < j
  <2>1. order[i] \in Parents(order[j])
    BY <1>1, <1>6 DEF Arc, Parents, Into, Indexed
  <2>2. PICK k \in DOMAIN order : k < j /\ order[k] = order[i]
    BY <2>1 DEF Ordering
  <2>3. k = i
    BY <1>1, <2>2 DEF HasDuplicates
  <2>4. QED
    BY <2>2, <2>3
<1>7. QED
  BY <1>1, <1>5, <1>6

(* The order of an accepted acyclic workflow lists every node exactly once *)
(* and puts the source of each edge before its target, in any graph,       *)
(* parallel edges and loops included.                                      *)
THEOREM KahnOrderIsTopological == Spec => []OrderIsTopological
  BY OrderingIsTopological, KahnInvariant, PTL

LEMMA TopologicalHasNoCycle ==
  Typed /\ OrderIsTopological => (verdict.kind = "accepted" /\ ~cycles => ~HasCycle)
<1> SUFFICES ASSUME Typed, OrderIsTopological, verdict.kind = "accepted", ~cycles, HasCycle
             PROVE  FALSE
  OBVIOUS
<1>1. PICK S \in SUBSET Elems(nodeIds) : S # {} /\ \A n \in S : \E m \in S : Arc(m, n)
  BY DEF HasCycle
<1> DEFINE T == {i \in DOMAIN order : order[i] \in S}
<1>2. /\ Elems(order) = Elems(nodeIds)
      /\ \A i, j \in DOMAIN order : Arc(order[i], order[j]) => i < j
  BY DEF OrderIsTopological
<1>3. \A n \in S : \E i \in T : order[i] = n
  BY <1>1, <1>2 DEF Elems
<1>4. T \subseteq Nat /\ T # {}
  <2>1. Len(order) \in Nat /\ DOMAIN order = 1 .. Len(order)
    BY DEF Typed
  <2>2. T \subseteq DOMAIN order /\ DOMAIN order \subseteq Nat
    BY <2>1
  <2>3. PICK n : n \in S
    BY <1>1
  <2>4. QED
    BY <1>3, <2>2, <2>3
<1>5. PICK i \in T : \A j \in T : i <= j
  <2> HIDE DEF T
  <2> QED
    BY <1>4, LeastNumber
<1>6. PICK m \in S : Arc(m, order[i])
  BY <1>1
<1>7. PICK j \in T : order[j] = m
  BY <1>3
<1>8. j < i
  BY <1>2, <1>6, <1>7
<1>9. QED
  BY <1>4, <1>5, <1>8

(* No workflow with a directed cycle is accepted, unless cycles are        *)
(* allowed: the order of an accepted one leaves no room for it.            *)
THEOREM NoCycleIsAccepted == Spec => [](verdict.kind = "accepted" /\ ~cycles => ~HasCycle)
  BY TopologicalHasNoCycle, KahnInvariant, KahnOrderIsTopological, PTL

-----------------------------------------------------------------------------
(* The search for a cycle *)

(* In a simple graph every node that remains has a parent that remains.    *)
LEMMA RemainingHaveParents ==
  ASSUME Typed, Indexing, Ordering, phase = "search", Simple(edges), NEW m \in Remaining
  PROVE  \E q \in Remaining : m \in outgoing[q]
<1>1. m \in DeclaredNodes /\ m \notin Elems(order)
  BY DEF Remaining, DeclaredNodes
<1>2. indegree[m] # 0 /\ indegree[m] = Cardinality(Into(m)) - Cardinality(OrderedParents(m))
  BY <1>1 DEF Ordering
<1>3. \A e, f \in Into(m) : e.src = f.src => e = f
  BY DEF Into, Indexed, Simple
<1>4. Cardinality(Parents(m)) = Cardinality(Into(m)) /\ Cardinality(Into(m)) \in Nat
  BY <1>3, ParentsCount
<1>5. ~(Parents(m) \subseteq Elems(order))
  <2> SUFFICES ASSUME Parents(m) \subseteq Elems(order) PROVE FALSE
    OBVIOUS
  <2>1. OrderedParents(m) = Parents(m)
    BY DEF OrderedParents
  <2>2. Cardinality(OrderedParents(m)) = Cardinality(Into(m))
    BY <1>4, <2>1
  <2>3. QED
    BY <1>2, <1>4, <2>2
<1>6. PICK q \in Parents(m) : q \notin Elems(order)
  BY <1>5
<1>7. q \in DeclaredNodes
  BY ParentsDeclared
<1>8. m \in outgoing[q]
  BY <1>1, <1>7, Children
<1>9. QED
  BY <1>6, <1>7, <1>8 DEF Remaining, DeclaredNodes

LEMMA SomeRemain ==
  ASSUME Typed, Indexing, Ordering, phase = "search"
  PROVE  Remaining # {}
<1> SUFFICES ASSUME Remaining = {} PROVE FALSE
  OBVIOUS
<1>1. ~HasDuplicates(nodeIds) /\ ~HasDuplicates(order) /\ Len(order) # Len(nodeIds)
  BY DEF Indexing, Ordering
<1>2. Elems(order) = Elems(nodeIds)
  <2>1. Elems(order) \subseteq Elems(nodeIds)
    BY ElemsType DEF Typed, DeclaredNodes
  <2>2. QED
    BY <2>1 DEF Remaining
<1>3. Cardinality(Elems(order)) = Len(order)
  BY <1>1, ElemsCount DEF Typed
<1>4. Cardinality(Elems(nodeIds)) = Len(nodeIds)
  BY <1>1, ElemsCount DEF Typed
<1>5. QED
  BY <1>1, <1>2, <1>3, <1>4

(* The search cannot give up in a simple graph: every root has been tried, *)
(* so all that remain are visited, and they would have no cycle.           *)
LEMMA NeverGivesUp ==
  ASSUME Typed, Indexing, Ordering, Searching, phase = "search", Simple(edges),
         stack = <<>>, root > Len(nodeIds)
  PROVE  FALSE
<1>1. Remaining \subseteq Visited
  <2> SUFFICES ASSUME NEW n \in Remaining PROVE n \in Visited
    OBVIOUS
  <2>1. n \in DeclaredNodes
    BY DEF Remaining, DeclaredNodes
  <2>2. PICK i \in DOMAIN nodeIds : nodeIds[i] = n
    BY <2>1 DEF DeclaredNodes, Elems
  <2>3. i < root
    BY <2>2 DEF Typed
  <2>4. visit[n] # "none"
    BY <2>2, <2>3 DEF Searching, RootsPassed
  <2>5. visit[n] # "visiting"
    BY <2>1 DEF Searching, StackIsPath
  <2>6. QED
    BY <2>1, <2>4, <2>5 DEF Typed, Visited
<1>2. Remaining # {}
  BY SomeRemain
<1>3. PICK n \in Remaining : \A m \in Remaining : n \notin outgoing[m]
  BY <1>1, <1>2 DEF Searching, VisitedHasNoCycle
<1>4. QED
  BY <1>3, RemainingHaveParents

(* The search looks at the index and the order and changes neither.        *)
LEMMA SearchFixes ==
  ASSUME NextRoot \/ VisitChild \/ LeaveNode
  PROVE  /\ UNCHANGED <<nodeIds, edges, todo, outgoing, order, DeclaredNodes, Remaining>>
         /\ phase = "search"
<1>1. UNCHANGED <<nodeIds, edges, todo, outgoing, order>> /\ phase = "search"
  BY DEF NextRoot, VisitChild, LeaveNode, input, index, kahn
<1>2. QED
  BY <1>1 DEF DeclaredNodes, Remaining

LEMMA NextRootSearching ==
  ASSUME Typed, Indexing, Ordering, Searching, Simple(edges), NextRoot
  PROVE  Searching' /\ UNCHANGED verdict
<1>1. /\ UNCHANGED <<nodeIds, outgoing, DeclaredNodes, Remaining>>
      /\ phase = "search" /\ stack = <<>>
  BY SearchFixes DEF NextRoot
<1>2. ~(root > Len(nodeIds))
  BY <1>1, NeverGivesUp
<1>3. /\ root \in Nat \ {0} /\ Len(nodeIds) \in Nat /\ DOMAIN nodeIds = 1 .. Len(nodeIds)
      /\ root \in DOMAIN nodeIds
  BY <1>2 DEF Typed
<1>4. PICK n \in DeclaredNodes : n = nodeIds[root]
  BY <1>3 DEF DeclaredNodes, Elems
<1>5. root' = root + 1 /\ UNCHANGED verdict
  BY <1>2 DEF NextRoot
<1>6. \A i \in DOMAIN nodeIds : i < root' => i < root \/ i = root
  BY <1>3, <1>5
<1>7. CASE n \in Remaining /\ visit[n] = "none"
  <2>1. visit' = [visit EXCEPT ![n] = "visiting"] /\ stack' = <<<<n, 0>>>>
    BY <1>2, <1>4, <1>7 DEF NextRoot
  <2>2. /\ DOMAIN stack' = {1} /\ Len(stack') = 1 /\ Node(1)' = n /\ Seen(1)' = 0
    BY <2>1 DEF Node, Seen
  <2>3. \A m \in DeclaredNodes : visit'[m] = IF m = n THEN "visiting" ELSE visit[m]
    BY <2>1 DEF Typed
  <2>4. Visited' = Visited
    BY <1>1, <1>7, <2>3 DEF Visited
  <2>5. \A m \in DeclaredNodes : visit[m] # "visiting"
    BY <1>1 DEF Searching, StackIsPath
  <2>6. StackIsPath'
    BY <1>1, <1>7, <2>2, <2>3, <2>5 DEF StackIsPath
  <2>7. \A c \in DeclaredNodes : c > 0
    BY ElemsType DEF Typed, DeclaredNodes
  <2>8. outgoing[n] \subseteq DeclaredNodes /\ DeclaredNodes \subseteq Nat
    BY ElemsType DEF Typed, DeclaredNodes
  <2>9. PassedAreVisited'
    <3>1. ASSUME NEW c \in outgoing[n] PROVE ~(c <= 0)
      <4>1. c \in Nat /\ c > 0
        BY <2>7, <2>8
      <4>2. QED
        BY <4>1
    <3>2. \A k \in DOMAIN stack' : Node(k)' = n /\ Seen(k)' = 0
      BY <2>2
    <3>3. QED
      BY <1>1, <3>1, <3>2 DEF PassedAreVisited
  <2>10. VisitedHasNoCycle'
    BY <1>1, <2>4 DEF Searching, VisitedHasNoCycle
  <2>11. RootsPassed'
    <3>1. \A i \in DOMAIN nodeIds : nodeIds[i] \in DeclaredNodes
      BY DEF DeclaredNodes, Elems
    <3>2. QED
      BY <1>1, <1>4, <1>6, <2>3, <3>1 DEF Searching, RootsPassed
  <2>12. QED
    BY <1>5, <2>6, <2>9, <2>10, <2>11 DEF Searching
<1>8. CASE ~(n \in Remaining /\ visit[n] = "none")
  <2>1. UNCHANGED <<visit, stack>>
    BY <1>2, <1>4, <1>8 DEF NextRoot
  <2>2. UNCHANGED Visited /\ \A k : UNCHANGED <<Node(k), Seen(k)>>
    BY <1>1, <2>1 DEF Visited, Node, Seen
  <2>3. StackIsPath'
    BY <1>1, <2>1, <2>2 DEF Searching, StackIsPath
  <2>4. PassedAreVisited'
    BY <1>1, <2>1, <2>2 DEF Searching, PassedAreVisited
  <2>5. VisitedHasNoCycle'
    BY <1>1, <2>2 DEF Searching, VisitedHasNoCycle
  <2>6. RootsPassed'
    BY <1>1, <1>4, <1>6, <1>8, <2>1 DEF Searching, RootsPassed
  <2>7. QED
    BY <1>5, <2>3, <2>4, <2>5, <2>6 DEF Searching
<1>9. QED
  BY <1>7, <1>8

(* The frames on the stack, and the top one.                               *)
LEMMA Frames ==
  ASSUME Typed, stack # <<>>
  PROVE  /\ Len(stack) \in Nat \ {0} /\ DOMAIN stack = 1 .. Len(stack)
         /\ Len(stack) \in DOMAIN stack
         /\ \A k \in DOMAIN stack : Node(k) \in DeclaredNodes /\ Seen(k) \in Nat
         /\ \A k \in DOMAIN stack : Node(k) \in Nat /\ outgoing[Node(k)] \subseteq DeclaredNodes
         /\ Top[1] = Node(Len(stack)) /\ Top[2] = Seen(Len(stack))
         /\ DeclaredNodes \subseteq Nat
<1> DEFINE D == DeclaredNodes \X Nat
<1>1. stack \in Seq(D)
  BY DEF Typed
<1>2. /\ Len(stack) \in Nat \ {0} /\ DOMAIN stack = 1 .. Len(stack)
      /\ Len(stack) \in DOMAIN stack
      /\ \A k \in DOMAIN stack : stack[k] \in D
  <2> HIDE DEF D
  <2> QED
    BY <1>1
<1>3. \A k \in DOMAIN stack : Node(k) \in DeclaredNodes /\ Seen(k) \in Nat
  BY <1>2 DEF Node, Seen
<1>4. DeclaredNodes \subseteq Nat
  BY ElemsType DEF Typed, DeclaredNodes
<1>5. \A n \in DeclaredNodes : outgoing[n] \subseteq DeclaredNodes
  BY DEF Typed
<1>6. QED
  BY <1>2, <1>3, <1>4, <1>5 DEF Top, Node, Seen

(* The loop moves its top frame on to child c and may enter it.            *)
LEMMA VisitChildFrames ==
  ASSUME Typed, VisitChild, NEW c, c = Least(ChildrenLeft), visit[c] # "visiting"
  PROVE  LET n == Len(stack) IN
           /\ c \in DeclaredNodes /\ c \in outgoing[Node(n)] /\ c \in Remaining /\ c > Seen(n)
           /\ \A d \in outgoing[Node(n)] \cap Remaining : d > Seen(n) => c <= d
           /\ \A k \in DOMAIN stack : /\ k \in DOMAIN stack'
                                      /\ Node(k)' = Node(k)
                                      /\ Seen(k)' = IF k = n THEN c ELSE Seen(k)
           /\ UNCHANGED <<root, phase, verdict>>
           /\ \/ /\ visit[c] = "visited" /\ UNCHANGED visit
                 /\ DOMAIN stack' = DOMAIN stack /\ Len(stack') = n
              \/ /\ visit[c] = "none" /\ visit' = [visit EXCEPT ![c] = "visiting"]
                 /\ DOMAIN stack' = DOMAIN stack \cup {n + 1} /\ Len(stack') = n + 1
                 /\ stack'[n + 1] = <<c, 0>>
<1> DEFINE n == Len(stack)
           here == [stack EXCEPT ![n] = <<Top[1], c>>]
           D == DeclaredNodes \X Nat
<1>1. /\ stack # <<>>
      /\ c \in ChildrenLeft /\ c \in DeclaredNodes /\ \A d \in ChildrenLeft : c <= d
      /\ visit[c] \in {"none", "visited"}
  BY VisitedChild DEF VisitChild
<1>2. /\ n \in Nat \ {0} /\ DOMAIN stack = 1 .. n /\ n \in DOMAIN stack
      /\ Top[1] = Node(n) /\ Top[2] = Seen(n) /\ Node(n) \in DeclaredNodes /\ DeclaredNodes \subseteq Nat
  BY <1>1, Frames
<1>3. /\ c \in outgoing[Node(n)] /\ c \in Remaining /\ c > Seen(n)
      /\ \A d \in outgoing[Node(n)] \cap Remaining : d > Seen(n) => c <= d
  BY <1>1, <1>2 DEF ChildrenLeft
<1>4. /\ DOMAIN here = DOMAIN stack /\ Len(here) = n /\ here \in Seq(D)
      /\ \A k \in DOMAIN stack : here[k] = IF k = n THEN <<Top[1], c>> ELSE stack[k]
  <2>1. <<Top[1], c>> \in D /\ stack \in Seq(D)
    BY <1>1, <1>2 DEF Typed
  <2> HIDE DEF D
  <2>2. QED
    BY <1>2, <2>1
<1>5. \A k \in DOMAIN stack : /\ here[k][1] = Node(k)
                             /\ here[k][2] = IF k = n THEN c ELSE Seen(k)
  BY <1>2, <1>4 DEF Node, Seen
<1>6. CASE visit[c] = "visited"
  <2>1. stack' = here /\ UNCHANGED <<visit, root, phase, verdict>>
    BY <1>6 DEF VisitChild
  <2> HIDE DEF here
  <2>2. QED
    BY <1>1, <1>3, <1>4, <1>5, <1>6, <2>1 DEF Node, Seen
<1>7. CASE visit[c] = "none"
  <2>1. /\ stack' = Append(here, <<c, 0>>) /\ visit' = [visit EXCEPT ![c] = "visiting"]
        /\ UNCHANGED <<root, phase, verdict>>
    BY <1>7 DEF VisitChild
  <2>2. <<c, 0>> \in D
    BY <1>1
  <2> HIDE DEF here, D
  <2>3. /\ DOMAIN stack' = DOMAIN stack \cup {n + 1} /\ Len(stack') = n + 1
        /\ \A k \in DOMAIN stack : stack'[k] = here[k]
        /\ stack'[n + 1] = <<c, 0>>
    BY <1>4, <2>1, <2>2, ElemsAppend
  <2>4. \A k \in DOMAIN stack : /\ k \in DOMAIN stack'
                               /\ Node(k)' = Node(k)
                               /\ Seen(k)' = IF k = n THEN c ELSE Seen(k)
    BY <1>5, <2>3 DEF Node, Seen
  <2>5. QED
    BY <1>1, <1>3, <1>7, <2>1, <2>3, <2>4
<1>8. QED
  BY <1>1, <1>6, <1>7

LEMMA VisitChildSearching ==
  ASSUME Typed, Searching, VisitChild, NEW c, c = Least(ChildrenLeft), visit[c] # "visiting"
  PROVE  Searching' /\ UNCHANGED <<phase, verdict>>
<1>1. PICK n : n = Len(stack)
  OBVIOUS
<1>2. /\ UNCHANGED <<nodeIds, outgoing, DeclaredNodes, Remaining>>
      /\ stack # <<>>
  BY SearchFixes DEF VisitChild
<1>3. /\ n \in Nat \ {0} /\ DOMAIN stack = 1 .. n /\ n \in DOMAIN stack
      /\ \A k \in DOMAIN stack : Node(k) \in DeclaredNodes /\ Seen(k) \in Nat
      /\ DeclaredNodes \subseteq Nat
      /\ \A k \in DOMAIN stack : outgoing[Node(k)] \subseteq DeclaredNodes
  BY <1>1, <1>2, Frames
<1>4. /\ c \in DeclaredNodes /\ c \in outgoing[Node(n)] /\ c \in Remaining /\ c > Seen(n)
      /\ \A d \in outgoing[Node(n)] \cap Remaining : d > Seen(n) => c <= d
      /\ \A k \in DOMAIN stack : /\ k \in DOMAIN stack'
                                 /\ Node(k)' = Node(k)
                                 /\ Seen(k)' = IF k = n THEN c ELSE Seen(k)
      /\ UNCHANGED <<root, phase, verdict>>
  BY <1>1, VisitChildFrames
<1>5. \/ /\ visit[c] = "visited" /\ UNCHANGED visit
         /\ DOMAIN stack' = DOMAIN stack /\ Len(stack') = n
      \/ /\ visit[c] = "none" /\ visit' = [visit EXCEPT ![c] = "visiting"]
         /\ DOMAIN stack' = DOMAIN stack \cup {n + 1} /\ Len(stack') = n + 1
         /\ Node(n + 1)' = c /\ Seen(n + 1)' = 0
  <2>1. \/ /\ visit[c] = "visited" /\ UNCHANGED visit
           /\ DOMAIN stack' = DOMAIN stack /\ Len(stack') = n
        \/ /\ visit[c] = "none" /\ visit' = [visit EXCEPT ![c] = "visiting"]
           /\ DOMAIN stack' = DOMAIN stack \cup {n + 1} /\ Len(stack') = n + 1
           /\ stack'[n + 1] = <<c, 0>>
    BY <1>1, VisitChildFrames
  <2>2. stack'[n + 1] = <<c, 0>> => Node(n + 1)' = c /\ Seen(n + 1)' = 0
    BY DEF Node, Seen
  <2>3. QED
    BY <2>1, <2>2
<1>6. StackIsPath /\ PassedAreVisited /\ VisitedHasNoCycle /\ RootsPassed
  BY DEF Searching
<1>7. \A m \in DeclaredNodes : visit'[m] = visit[m] \/ (m = c /\ visit[m] = "none" /\ visit'[m] = "visiting")
  BY <1>4, <1>5 DEF Typed
<1>8. Visited' = Visited
  BY <1>2, <1>7 DEF Visited
<1>9. VisitedHasNoCycle'
  BY <1>2, <1>6, <1>8 DEF VisitedHasNoCycle
<1>10. RootsPassed'
  <2>1. \A i \in DOMAIN nodeIds : nodeIds[i] \in DeclaredNodes
    BY DEF DeclaredNodes, Elems
  <2>2. QED
    BY <1>2, <1>4, <1>6, <1>7, <2>1 DEF RootsPassed
<1>11. \A d \in outgoing[Node(n)] \cap Remaining : d <= c => d \in Visited \/ d = c
  <2> SUFFICES ASSUME NEW d \in outgoing[Node(n)] \cap Remaining, d <= c, d # c
               PROVE  d \in Visited
    OBVIOUS
  <2>1. d \in Nat /\ c \in Nat /\ Seen(n) \in Nat
    BY <1>3, <1>4
  <2>2. d <= Seen(n)
    BY <1>4, <2>1
  <2>3. QED
    BY <1>1, <1>3, <1>6, <2>2 DEF PassedAreVisited
<1>12. \A k \in DOMAIN stack : k # n => k < n
  BY <1>3
<1>13. CASE visit[c] = "visited"
  <2>1. UNCHANGED visit /\ DOMAIN stack' = DOMAIN stack /\ Len(stack') = n
    BY <1>5, <1>13
  <2>2. StackIsPath'
    <3>1. (/\ \A k \in DOMAIN stack : Node(k) \in Remaining /\ visit[Node(k)] = "visiting"
           /\ \A k, l \in DOMAIN stack : Node(k) = Node(l) => k = l
           /\ \A m \in DeclaredNodes : visit[m] = "visiting" => \E k \in DOMAIN stack : Node(k) = m)'
      BY <1>2, <1>4, <1>6, <2>1 DEF StackIsPath
    <3>2. ASSUME NEW k \in DOMAIN stack', k < Len(stack')
          PROVE  Node(k + 1)' = Seen(k)' /\ Seen(k)' \in outgoing'[Node(k)']
      <4>1. k \in DOMAIN stack /\ k < n /\ k + 1 \in DOMAIN stack /\ k # n
        BY <1>3, <2>1, <3>2
      <4>2. Node(k + 1) = Seen(k) /\ Seen(k) \in outgoing[Node(k)]
        BY <1>1, <1>6, <4>1 DEF StackIsPath
      <4>3. QED
        BY <1>2, <1>4, <4>1, <4>2
    <3>3. QED
      BY <3>1, <3>2 DEF StackIsPath
  <2>3. c \in Visited
    BY <1>4, <1>13 DEF Visited
  <2>4. ASSUME NEW k \in DOMAIN stack, NEW d \in outgoing[Node(k)] \cap Remaining,
               d <= Seen(k)'
        PROVE  d \in Visited \/ (k < n /\ d = Seen(k)')
    <3>1. CASE k = n
      BY <1>4, <1>11, <2>3, <2>4, <3>1
    <3>2. CASE k # n
      BY <1>1, <1>4, <1>6, <1>12, <2>4, <3>2 DEF PassedAreVisited
    <3>3. QED
      BY <3>1, <3>2
  <2>5. PassedAreVisited'
    BY <1>2, <1>4, <1>8, <2>1, <2>4 DEF PassedAreVisited
  <2>6. QED
    BY <1>4, <1>9, <1>10, <2>2, <2>5 DEF Searching
<1>14. CASE visit[c] = "none"
  <2>1. /\ visit' = [visit EXCEPT ![c] = "visiting"]
        /\ DOMAIN stack' = DOMAIN stack \cup {n + 1} /\ Len(stack') = n + 1
        /\ Node(n + 1)' = c /\ Seen(n + 1)' = 0
    BY <1>5, <1>14
  <2>2. \A k \in DOMAIN stack : Node(k) # c
    BY <1>6, <1>14 DEF StackIsPath
  <2>3. visit'[c] = "visiting"
    BY <1>4, <2>1 DEF Typed
  <2>4. StackIsPath'
    <3>1. \A k \in DOMAIN stack' : Node(k)' \in Remaining' /\ visit'[Node(k)'] = "visiting"
      BY <1>2, <1>3, <1>4, <1>6, <1>7, <2>1, <2>3 DEF StackIsPath
    <3>2. \A k, l \in DOMAIN stack' : Node(k)' = Node(l)' => k = l
      BY <1>4, <1>6, <2>1, <2>2 DEF StackIsPath
    <3>3. \A m \in DeclaredNodes' : visit'[m] = "visiting" => \E k \in DOMAIN stack' : Node(k)' = m
      BY <1>2, <1>4, <1>6, <1>7, <2>1 DEF StackIsPath
    <3>4. ASSUME NEW k \in DOMAIN stack', k < Len(stack')
          PROVE  Node(k + 1)' = Seen(k)' /\ Seen(k)' \in outgoing'[Node(k)']
      <4>1. CASE k = n
        BY <1>2, <1>3, <1>4, <2>1, <4>1
      <4>2. CASE k # n
        <5>1. k \in DOMAIN stack /\ k < n /\ k + 1 \in DOMAIN stack
          BY <1>3, <2>1, <3>4, <4>2
        <5>2. Node(k + 1) = Seen(k) /\ Seen(k) \in outgoing[Node(k)]
          BY <1>1, <1>6, <5>1 DEF StackIsPath
        <5>3. QED
          BY <1>2, <1>4, <4>2, <5>1, <5>2
      <4>3. QED
        BY <4>1, <4>2
    <3>5. QED
      BY <3>1, <3>2, <3>3, <3>4 DEF StackIsPath
  <2>5. ASSUME NEW k \in DOMAIN stack', NEW d \in outgoing[Node(k)'] \cap Remaining,
               d <= Seen(k)'
        PROVE  d \in Visited \/ (k < n + 1 /\ d = Seen(k)')
    <3>1. CASE k = n
      BY <1>3, <1>4, <1>11, <2>5, <3>1
    <3>2. CASE k \in DOMAIN stack /\ k # n
      <4>1. k < n /\ k < n + 1
        BY <1>3, <1>12, <3>2
      <4>2. Node(k)' = Node(k) /\ Seen(k)' = Seen(k)
        BY <1>4, <3>2
      <4>3. QED
        BY <1>1, <1>6, <2>5, <3>2, <4>1, <4>2 DEF PassedAreVisited
    <3>3. CASE k = n + 1
      <4>1. outgoing[c] \subseteq DeclaredNodes
        BY <1>4 DEF Typed
      <4>2. d \in DeclaredNodes /\ d <= 0
        BY <2>1, <2>5, <3>3, <4>1
      <4>3. \A m \in DeclaredNodes : m \in Nat /\ m > 0
        BY ElemsType DEF Typed, DeclaredNodes
      <4>4. QED
        BY <4>2, <4>3
    <3>4. QED
      BY <2>1, <3>1, <3>2, <3>3
  <2>6. PassedAreVisited'
    BY <1>2, <1>8, <2>1, <2>5 DEF PassedAreVisited
  <2>7. QED
    BY <1>4, <1>9, <1>10, <2>4, <2>6 DEF Searching
<1>15. QED
  BY <1>5, <1>13, <1>14

LEMMA LeaveNodeSearching ==
  ASSUME Typed, Searching, LeaveNode
  PROVE  Searching'
<1>1. PICK n : n = Len(stack)
  OBVIOUS
<1>2. PICK t : t = Node(n)
  OBVIOUS
<1>3. /\ UNCHANGED <<nodeIds, outgoing, root, DeclaredNodes, Remaining>>
      /\ stack # <<>> /\ ChildrenLeft = {}
  BY SearchFixes DEF LeaveNode
<1>4. /\ n \in Nat \ {0} /\ DOMAIN stack = 1 .. n /\ n \in DOMAIN stack
      /\ \A k \in DOMAIN stack : Node(k) \in DeclaredNodes /\ Seen(k) \in Nat
      /\ DeclaredNodes \subseteq Nat
      /\ \A k \in DOMAIN stack : outgoing[Node(k)] \subseteq DeclaredNodes
      /\ Top[1] = t /\ Top[2] = Seen(n) /\ t \in DeclaredNodes
  BY <1>1, <1>2, <1>3, Frames
<1>5. StackIsPath /\ PassedAreVisited /\ VisitedHasNoCycle /\ RootsPassed
  BY DEF Searching
<1>6. t \in Remaining /\ visit[t] = "visiting"
  BY <1>2, <1>4, <1>5 DEF StackIsPath
<1>7. \A m \in DeclaredNodes : visit'[m] = IF m = t THEN "visited" ELSE visit[m]
  BY <1>4 DEF LeaveNode, Typed
<1>8. Visited' = Visited \cup {t} /\ t \notin Visited
  BY <1>3, <1>4, <1>6, <1>7 DEF Visited
<1>9. /\ Len(stack') = n - 1 /\ DOMAIN stack' = 1 .. n - 1
      /\ \A k \in DOMAIN stack' : /\ k \in DOMAIN stack /\ k < n
                                  /\ Node(k)' = Node(k) /\ Seen(k)' = Seen(k)
  <2> DEFINE D == DeclaredNodes \X Nat
  <2>1. stack \in Seq(D) /\ stack' = SubSeq(stack, 1, n - 1)
    BY <1>1 DEF LeaveNode, Typed
  <2> HIDE DEF D
  <2>2. /\ Len(stack') = n - 1 /\ DOMAIN stack' = 1 .. n - 1
        /\ \A k \in 1 .. n - 1 : stack'[k] = stack[k]
    BY <1>1, <1>4, <2>1
  <2>3. \A k \in 1 .. n - 1 : k \in DOMAIN stack /\ k < n
    BY <1>4
  <2>4. QED
    BY <2>2, <2>3 DEF Node, Seen
(* Every child of the node that is left has been looked at and visited.    *)
<1>10. outgoing[t] \cap Remaining \subseteq Visited
  <2> SUFFICES ASSUME NEW d \in outgoing[t] \cap Remaining PROVE d \in Visited
    OBVIOUS
  <2>1. d \in Nat /\ Seen(n) \in Nat
    BY <1>2, <1>4
  <2>2. ~(d > Seen(n))
    BY <1>3, <1>4 DEF ChildrenLeft
  <2>3. d <= Seen(n)
    BY <2>1, <2>2
  <2>4. ~(n < n)
    BY <1>4
  <2>5. QED
    BY <1>1, <1>2, <1>4, <1>5, <2>3, <2>4 DEF PassedAreVisited
<1>11. VisitedHasNoCycle'
  <2>1. \A m \in Visited' : outgoing[m] \cap Remaining \subseteq Visited'
    BY <1>5, <1>8, <1>10 DEF VisitedHasNoCycle
  <2>2. ASSUME NEW S \in SUBSET Visited', S # {}
        PROVE  \E m \in S : \A q \in S : m \notin outgoing[q]
    <3>1. CASE t \notin S
      BY <1>5, <1>8, <2>2, <3>1 DEF VisitedHasNoCycle
    <3>2. CASE t \in S
      <4>1. \A q \in S : t \notin outgoing[q]
        BY <1>5, <1>6, <1>8, <1>10 DEF VisitedHasNoCycle
      <4>2. QED
        BY <3>2, <4>1
    <3>3. QED
      BY <3>1, <3>2
  <2>3. QED
    BY <1>3, <2>1, <2>2 DEF VisitedHasNoCycle
<1>12. RootsPassed'
  <2>1. \A i \in DOMAIN nodeIds : nodeIds[i] \in DeclaredNodes
    BY DEF DeclaredNodes, Elems
  <2>2. QED
    BY <1>3, <1>5, <1>7, <2>1 DEF RootsPassed
<1>13. StackIsPath'
  <2>1. \A k \in DOMAIN stack' : Node(k) # t
    BY <1>2, <1>4, <1>5, <1>9 DEF StackIsPath
  <2>2. ASSUME NEW k \in DOMAIN stack'
        PROVE  Node(k)' \in Remaining' /\ visit'[Node(k)'] = "visiting"
    <3>1. k \in DOMAIN stack /\ Node(k)' = Node(k)
      BY <1>9
    <3>2. Node(k) \in DeclaredNodes /\ Node(k) # t
      BY <1>4, <2>1, <3>1
    <3>3. Node(k) \in Remaining /\ visit[Node(k)] = "visiting"
      BY <1>5, <3>1 DEF StackIsPath
    <3>4. visit'[Node(k)] = "visiting"
      BY <1>7, <3>2, <3>3
    <3>5. QED
      BY <1>3, <3>1, <3>3, <3>4
  <2>3. \A k, l \in DOMAIN stack' : Node(k)' = Node(l)' => k = l
    BY <1>5, <1>9 DEF StackIsPath
  <2>4. ASSUME NEW m \in DeclaredNodes, visit'[m] = "visiting"
        PROVE  \E k \in DOMAIN stack' : Node(k)' = m
    <3>1. m # t /\ visit[m] = "visiting"
      BY <1>7, <2>4
    <3>2. PICK k \in DOMAIN stack : Node(k) = m
      BY <1>5, <3>1 DEF StackIsPath
    <3>3. k \in 1 .. n - 1
      BY <1>2, <1>4, <3>1, <3>2
    <3>4. QED
      BY <1>9, <3>2, <3>3
  <2>5. ASSUME NEW k \in DOMAIN stack', k < Len(stack')
        PROVE  Node(k + 1)' = Seen(k)' /\ Seen(k)' \in outgoing'[Node(k)']
    <3>1. k + 1 \in DOMAIN stack' /\ k \in DOMAIN stack /\ k < n
      BY <1>4, <1>9, <2>5
    <3>2. Node(k + 1) = Seen(k) /\ Seen(k) \in outgoing[Node(k)]
      BY <1>1, <1>5, <3>1 DEF StackIsPath
    <3>3. QED
      BY <1>3, <1>9, <3>1, <3>2
  <2>6. QED
    BY <1>3, <2>2, <2>3, <2>4, <2>5 DEF StackIsPath
<1>14. ASSUME NEW k \in DOMAIN stack', NEW d \in outgoing[Node(k)] \cap Remaining, d <= Seen(k)
       PROVE  d \in Visited' \/ (k < n - 1 /\ d = Seen(k))
  <2>1. k \in DOMAIN stack /\ k < n
    BY <1>9
  <2>2. d \in Visited \/ d = Seen(k)
    BY <1>5, <1>14, <2>1 DEF PassedAreVisited
  <2>3. CASE k = n - 1
    <3>1. k + 1 = n
      BY <1>4, <2>3
    <3>2. Seen(k) = t
      BY <1>1, <1>2, <1>5, <2>1, <3>1 DEF StackIsPath
    <3>3. QED
      BY <1>8, <2>2, <3>2
  <2>4. CASE k # n - 1
    <3>1. k < n - 1
      BY <1>4, <2>1, <2>4
    <3>2. QED
      BY <1>8, <2>2, <3>1
  <2>5. QED
    BY <2>3, <2>4
<1>15. PassedAreVisited'
  BY <1>3, <1>9, <1>14 DEF PassedAreVisited
<1>16. QED
  BY <1>11, <1>12, <1>13, <1>15 DEF Searching

(* A child found on the stack closes the path from its own frame.          *)
LEMMA StackCloses ==
  ASSUME Typed, Indexing, Searching, VisitChild, NEW c, c = Least(ChildrenLeft),
         visit[c] = "visiting"
  PROVE  ReportedCycleIsReal' /\ verdict'.path \in Seq(DeclaredNodes)
<1>1. PICK n : n = Len(stack)
  OBVIOUS
<1>2. /\ UNCHANGED edges /\ stack # <<>>
      /\ c \in ChildrenLeft /\ c \in DeclaredNodes
  BY SearchFixes, VisitedChild DEF VisitChild
<1>3. /\ n \in Nat \ {0} /\ DOMAIN stack = 1 .. n
      /\ \A k \in DOMAIN stack : Node(k) \in DeclaredNodes
      /\ Top[1] = Node(n)
  BY <1>1, <1>2, Frames
<1>4. StackIsPath
  BY DEF Searching
<1>5. \E k \in DOMAIN stack : stack[k][1] = c
  BY <1>2, <1>4 DEF StackIsPath, Node
<1>6. PICK start : start = CHOOSE k \in DOMAIN stack : stack[k][1] = c
  OBVIOUS
<1>7. start \in DOMAIN stack /\ Node(start) = c
  BY <1>5, <1>6 DEF Node
<1>8. PICK w : w = n - start + 1
  OBVIOUS
<1>9. w \in Nat \ {0} /\ start + w - 1 = n /\ start \in Nat \ {0}
  BY <1>3, <1>7, <1>8
<1>10. PICK f : f = [i \in 1 .. w |-> Node(start + i - 1)]
  OBVIOUS
<1>11. \A i \in 1 .. w : start + i - 1 \in DOMAIN stack
  BY <1>3, <1>9
<1>12. f \in Seq(DeclaredNodes) /\ Len(f) = w /\ f \o <<c>> \in Seq(DeclaredNodes)
  <2>1. f \in Seq(DeclaredNodes) /\ Len(f) = w
    BY <1>3, <1>9, <1>10, <1>11
  <2>2. QED
    BY <1>2, <2>1
<1>13. PICK p : p = f \o <<c>>
  OBVIOUS
<1>14. /\ Len(p) = w + 1
       /\ \A i \in 1 .. w : p[i] = Node(start + i - 1)
       /\ p[w + 1] = c
  BY <1>2, <1>9, <1>10, <1>12, <1>13
<1>15. verdict' = [kind |-> "cycle", path |-> p]
  <2>1. CycleFromStack(c) = p
    BY <1>1, <1>6, <1>8, <1>10, <1>13 DEF CycleFromStack, Node
  <2>2. QED
    BY <2>1 DEF VisitChild, Verdict
<1>16. \A m, d \in DeclaredNodes : d \in outgoing[m] => Arc(m, d)
  BY DEF Indexing, Indexed, Arc
<1>17. p[1] = c
  <2>1. 1 \in 1 .. w /\ start + 1 - 1 = start
    BY <1>9
  <2>2. QED
    BY <1>7, <1>14, <2>1
<1>18. ASSUME NEW i \in 1 .. w PROVE Arc(p[i], p[i + 1])
  <2>1. CASE i = w
    <3>1. p[i] = Node(n) /\ p[i + 1] = c
      BY <1>9, <1>14, <2>1
    <3>2. c \in outgoing[Node(n)] /\ Node(n) \in DeclaredNodes
      BY <1>2, <1>3 DEF ChildrenLeft
    <3>3. QED
      BY <1>2, <1>16, <3>1, <3>2
  <2>2. CASE i # w
    <3>1. PICK k : k = start + i - 1
      OBVIOUS
    <3>2. /\ k \in DOMAIN stack /\ k < n /\ k + 1 \in DOMAIN stack
          /\ k + 1 = start + (i + 1) - 1 /\ i + 1 \in 1 .. w
      BY <1>3, <1>9, <2>2, <3>1
    <3>3. p[i] = Node(k) /\ p[i + 1] = Node(k + 1)
      BY <1>14, <3>1, <3>2
    <3>4. Node(k + 1) \in outgoing[Node(k)]
      BY <1>1, <1>4, <3>2 DEF StackIsPath
    <3>5. QED
      BY <1>3, <1>16, <3>2, <3>3, <3>4
  <2>3. QED
    BY <2>1, <2>2
<1>19. ASSUME NEW i \in 1 .. w, NEW j \in 1 .. w, p[i] = p[j] PROVE i = j
  <2>1. start + i - 1 = start + j - 1
    BY <1>4, <1>11, <1>14, <1>19 DEF StackIsPath
  <2>2. QED
    BY <1>9, <2>1
<1>20. verdict'.path = p /\ Len(p) - 1 = w /\ Len(p) > 1 /\ p[1] = p[Len(p)]
  BY <1>9, <1>14, <1>15, <1>17
<1>21. \A m, d : Arc(m, d)' <=> Arc(m, d)
  BY <1>2 DEF Arc
<1>22. QED
  <2>1. LET q == verdict'.path IN
          /\ Len(q) > 1
          /\ q[1] = q[Len(q)]
          /\ \A i \in 1 .. (Len(q) - 1) : Arc(q[i], q[i + 1])
          /\ \A i, j \in 1 .. (Len(q) - 1) : q[i] = q[j] => i = j
    BY <1>18, <1>19, <1>20
  <2>2. QED
    BY <1>2, <1>12, <1>13, <1>20, <2>1 DEF ReportedCycleIsReal, Arc

LEMMA GivenSearch == \A f : Given(f) => Search
<1> SUFFICES ASSUME NEW f, Given(f) PROVE Search
  OBVIOUS
<1>1. Unsearched
  BY DEF Given, Unsearched, DeclaredNodes
<1>2. QED
  BY <1>1 DEF Given, Search, ReportedCycleIsReal

(* FinishOrder hands a fresh state to the search.                          *)
LEMMA UnsearchedIsSearching == Typed /\ Unsearched => Searching
<1> SUFFICES ASSUME Typed, Unsearched PROVE Searching
  OBVIOUS
<1>1. DOMAIN stack = {} /\ Visited = {} /\ root = 1
  BY DEF Unsearched, Visited
<1>2. \A i \in DOMAIN nodeIds : ~(i < root)
  BY <1>1 DEF Typed
<1>3. StackIsPath /\ PassedAreVisited /\ VisitedHasNoCycle /\ RootsPassed
  BY <1>1, <1>2 DEF StackIsPath, PassedAreVisited, VisitedHasNoCycle, RootsPassed, Unsearched
<1>4. QED
  BY <1>3 DEF Searching

LEMMA SearchStep ==
  Typed /\ Indexing /\ Ordering /\ Search /\ Simple(edges) /\ [Next]_vars => Search'
<1> SUFFICES ASSUME Typed, Indexing, Ordering, Search, Simple(edges), [Next]_vars PROVE Search'
  OBVIOUS
<1> USE DEF input, index, kahn, search
<1>u. ASSUME UNCHANGED <<nodeIds, edges, visit, stack, root>>,
             phase \in {"index", "order"}, phase' # "search",
             verdict'.kind # "cycle"
      PROVE  Search'
  <2>1. Unsearched'
    BY <1>u DEF Search, Unsearched, DeclaredNodes
  <2>2. QED
    BY <1>u, <2>1 DEF Search, ReportedCycleIsReal
<1>k. phase \in {"index", "order"} => verdict.kind = "none"
  BY DEF Indexing
<1>r. ASSUME UNCHANGED <<edges, verdict>>
      PROVE  ReportedCycleIsReal' /\ (verdict.kind = "cycle" => verdict.path \in Seq(DeclaredNodes))'
  BY <1>r, IndexFixed DEF Search, ReportedCycleIsReal, Arc
<1>1. CASE RejectDuplicateNode
  BY <1>u, <1>1 DEF RejectDuplicateNode, Verdict
<1>2. ASSUME NEW e \in todo, RejectEdge(e) PROVE Search'
  <2>1. EndpointError(e) # "cycle"
    BY DEF EndpointError
  <2>2. QED
    BY <1>u, <1>2, <2>1 DEF RejectEdge, Verdict
<1>3. ASSUME NEW e \in todo, IndexEdge(e) PROVE Search'
  BY <1>u, <1>k, <1>3 DEF IndexEdge
<1>4. CASE FinishIndex
  BY <1>u, <1>k, <1>4 DEF FinishIndex, Verdict
<1>5. CASE EmitNode
  BY <1>u, <1>k, <1>5 DEF EmitNode
<1>6. CASE FinishOrder
  <2>1. CASE Len(order) = Len(nodeIds)
    BY <1>u, <1>6, <2>1 DEF FinishOrder, Verdict
  <2>2. CASE Len(order) # Len(nodeIds)
    <3>1. /\ UNCHANGED <<nodeIds, edges, outgoing, order, visit, stack, root, verdict>>
          /\ phase = "order" /\ phase' = "search"
      BY <1>6, <2>2 DEF FinishOrder
    <3>2. Unsearched'
      BY <3>1 DEF Search, Unsearched, DeclaredNodes
    <3>3. Typed'
      BY TypedStep
    <3>4. Searching'
      BY <3>2, <3>3, UnsearchedIsSearching, PTL
    <3>5. QED
      BY <1>r, <3>1, <3>4 DEF Search
  <2>3. QED
    BY <2>1, <2>2
<1>7. CASE NextRoot
  <2>1. phase = "search" /\ Searching /\ UNCHANGED edges
    BY <1>7, SearchFixes DEF Search
  <2>2. Searching' /\ UNCHANGED verdict
    BY <1>7, <2>1, NextRootSearching
  <2>3. phase' \notin {"index", "order"}
    BY <1>7, <2>1 DEF NextRoot
  <2>4. QED
    BY <1>r, <2>1, <2>2, <2>3 DEF Search
<1>8. CASE VisitChild
  <2>1. PICK c : c = Least(ChildrenLeft)
    OBVIOUS
  <2>2. phase = "search" /\ Searching /\ UNCHANGED edges
    BY <1>8, SearchFixes DEF Search
  <2>3. CASE visit[c] = "visiting"
    <3>1. phase' = "done"
      BY <1>8, <2>1, <2>3 DEF VisitChild
    <3>2. ReportedCycleIsReal' /\ verdict'.path \in Seq(DeclaredNodes')
      BY <1>8, <2>1, <2>2, <2>3, StackCloses, IndexFixed
    <3>3. QED
      BY <3>1, <3>2 DEF Search
  <2>4. CASE visit[c] # "visiting"
    <3>1. Searching' /\ UNCHANGED <<phase, verdict>>
      BY <1>8, <2>1, <2>2, <2>4, VisitChildSearching
    <3>2. QED
      BY <1>r, <2>2, <3>1 DEF Search
  <2>5. QED
    BY <2>3, <2>4
<1>9. CASE LeaveNode
  <2>1. phase = "search" /\ Searching /\ UNCHANGED <<edges, phase, verdict>>
    BY <1>9, SearchFixes DEF Search, LeaveNode
  <2>2. Searching'
    BY <1>9, <2>1, LeaveNodeSearching
  <2>3. QED
    BY <1>r, <2>1, <2>2 DEF Search
<1>10. CASE UNCHANGED vars
  <2>1. UNCHANGED <<nodeIds, edges, outgoing, order, visit, stack, root, phase, verdict>>
    BY <1>10 DEF vars
  <2>2. Unsearched' <=> Unsearched
    BY <2>1 DEF Unsearched, DeclaredNodes
  <2>3. Searching' <=> Searching
    BY <2>1 DEF Searching, StackIsPath, PassedAreVisited, VisitedHasNoCycle, RootsPassed,
                Node, Seen, Visited, DeclaredNodes, Remaining
  <2>4. QED
    BY <1>r, <2>1, <2>2, <2>3 DEF Search
<1>11. QED
  BY <1>1, <1>2, <1>3, <1>4, <1>5, <1>6, <1>7, <1>8, <1>9, <1>10 DEF Next

(* No workflow has two edges between the same nodes.  The code does not    *)
(* forbid them; with them Kahn's algorithm can leave nodes over where      *)
(* there is no cycle, and then every remaining node is reported.           *)
SimpleGraphs == \A f \in Workflows : Simple(f.edges)

LEMMA SearchInvariant ==
  ASSUME SimpleGraphs
  PROVE  Spec => [](Typed /\ Indexing /\ Ordering /\ Search /\ Simple(edges))
<1>1. Init => Typed /\ Indexing /\ Ordering /\ Search /\ Simple(edges)
  <2>1. Init => Simple(edges)
    BY DEF Init, Given, SimpleGraphs
  <2>2. QED
    BY <2>1, InitInv, GivenSearch DEF Init
<1>2. Typed /\ Indexing /\ Ordering /\ Search /\ Simple(edges) /\ [Next]_vars
        => (Typed /\ Indexing /\ Ordering /\ Search /\ Simple(edges))'
  <2>1. Simple(edges) /\ [Next]_vars => Simple(edges)'
    BY IndexFixed DEF Simple
  <2>2. QED
    BY <2>1, TypedStep, IndexingStep, OrderingStep, SearchStep
<1>3. QED
  BY <1>1, <1>2, PTL DEF Spec

(* In a simple graph the reported cycle is a closed path along declared    *)
(* edges without a repeated node: the depth-first search always finds one. *)
THEOREM SimpleCycleIsReal ==
  ASSUME SimpleGraphs
  PROVE  Spec => []ReportedCycleIsReal
<1>1. Search => ReportedCycleIsReal
  BY DEF Search
<1>2. QED
  BY <1>1, SearchInvariant, PTL

LEMMA RealCycleIsCycle ==
  Search => CycleErrorMeansCycle
<1> SUFFICES ASSUME Search, verdict.kind = "cycle" PROVE HasCycle
  BY DEF CycleErrorMeansCycle
<1>1. PICK p : p = verdict.path
  OBVIOUS
<1>2. p \in Seq(DeclaredNodes) /\ Len(p) \in Nat /\ DOMAIN p = 1 .. Len(p)
  BY <1>1 DEF Search
<1>3. /\ Len(p) > 1 /\ p[1] = p[Len(p)]
      /\ \A i \in 1 .. (Len(p) - 1) : Arc(p[i], p[i + 1])
  BY <1>1 DEF Search, ReportedCycleIsReal
<1>4. ASSUME NEW i \in DOMAIN p PROVE \E j \in DOMAIN p : Arc(p[j], p[i])
  <2>1. CASE i = 1
    <3>1. Len(p) - 1 \in 1 .. (Len(p) - 1) /\ Len(p) - 1 \in DOMAIN p /\ Len(p) - 1 + 1 = Len(p)
      BY <1>2, <1>3
    <3>2. QED
      BY <1>3, <2>1, <3>1
  <2>2. CASE i # 1
    <3>1. i - 1 \in 1 .. (Len(p) - 1) /\ i - 1 \in DOMAIN p /\ i - 1 + 1 = i
      BY <1>2, <2>2
    <3>2. QED
      BY <1>3, <3>1
  <2>3. QED
    BY <2>1, <2>2
<1>5. \A n \in Elems(p) : \E m \in Elems(p) : Arc(m, n)
  BY <1>4 DEF Elems
<1>6. Elems(p) \in SUBSET Elems(nodeIds) /\ p[1] \in Elems(p)
  BY <1>2, <1>3 DEF Elems, DeclaredNodes
<1>7. QED
  BY <1>5, <1>6 DEF HasCycle

(* A simple graph is rejected for a cycle only when it has one.            *)
THEOREM SimpleErrorMeansCycle ==
  ASSUME SimpleGraphs
  PROVE  Spec => []CycleErrorMeansCycle
  BY RealCycleIsCycle, SearchInvariant, PTL

-----------------------------------------------------------------------------
(* The verdict *)

(* What WorkflowGraph::new and with_cycles_allowed decide about a graph,   *)
(* without the algorithm: the first declared edge with a bad end counts,   *)
(* and a second edge between two nodes is refused like a cycle.            *)
FlawOf(nodes, e) ==
  IF e.src \notin Elems(nodes) THEN "unknown_node"
  ELSE IF e.sport \notin OutPorts[e.src] THEN "unknown_port"
  ELSE IF e.dst \notin Elems(nodes) THEN "unknown_node"
  ELSE IF e.dport \notin InPorts[e.dst] THEN "unknown_port"
  ELSE "none"

Flawed(f) == {e \in f.edges : FlawOf(f.nodes, e) # "none"}
IsFirstFlaw(f, e) == e \in Flawed(f) /\ \A g \in Flawed(f) : e.pos <= g.pos

Cyclic(f) ==
  \E S \in SUBSET Elems(f.nodes) :
    S # {} /\ \A n \in S : \E m \in S : \E e \in f.edges : e.src = m /\ e.dst = n

Decision(f) ==
  IF HasDuplicates(f.nodes) THEN "duplicate_node"
  ELSE IF Flawed(f) # {} THEN FlawOf(f.nodes, CHOOSE e \in f.edges : IsFirstFlaw(f, e))
  ELSE IF ~f.cycles /\ (Cyclic(f) \/ ~Simple(f.edges)) THEN "cycle"
  ELSE "accepted"

Graph == [nodes |-> nodeIds, edges |-> edges, cycles |-> cycles]

(* The verdict is a function of the graph alone.                           *)
VerdictIsDecision == phase = "done" => verdict.kind = Decision(Graph)

(* What the phases have found out on the way to it.                        *)
Deciding ==
  /\ \A e \in edges : e.pos \in Nat
  /\ \A e, g \in edges : e.pos = g.pos => e = g
  /\ \A m \in ready \cup Elems(order) : indegree[m] = 0
  /\ phase \in {"order", "search"} \/ verdict.kind = "cycle" => ~cycles
  /\ phase = "search" \/ verdict.kind = "cycle" => HasCycle \/ ~Simple(edges)
  /\ verdict.kind = "duplicate_node" => HasDuplicates(nodeIds)
  /\ verdict.kind \in {"unknown_node", "unknown_port"} =>
       /\ ~HasDuplicates(nodeIds)
       /\ \E e \in edges : IsFirstFlaw(Graph, e) /\ verdict.kind = EndpointError(e)
  /\ phase = "done" => verdict.kind \in {"duplicate_node", "unknown_node", "unknown_port",
                                        "accepted", "cycle"}

LEMMA GivenDeciding == \A f : WellGiven(f) /\ Given(f) => Deciding
<1> SUFFICES ASSUME NEW f, WellGiven(f), Given(f) PROVE Deciding
  OBVIOUS
<1>1. Elems(order) = {} /\ ready = {}
  BY DEF Given, Elems
<1>2. verdict.kind = "none" /\ phase = "index" /\ edges = f.edges
  BY DEF Given
<1>3. QED
  BY <1>1, <1>2 DEF WellGiven, Deciding

(* Kahn's algorithm stops short only of a cycle or of parallel edges.      *)
LEMMA SearchIsBlocked ==
  Typed /\ Indexing /\ Ordering /\ phase = "search" => (Simple(edges) => HasCycle)
<1> SUFFICES ASSUME Typed, Indexing, Ordering, phase = "search", Simple(edges) PROVE HasCycle
  OBVIOUS
<1>1. Remaining # {} /\ Remaining \in SUBSET Elems(nodeIds)
  BY SomeRemain DEF Remaining
<1>2. ASSUME NEW n \in Remaining PROVE \E m \in Remaining : Arc(m, n)
  <2>1. PICK m \in Remaining : n \in outgoing[m]
    BY RemainingHaveParents
  <2>2. n \in DeclaredNodes /\ m \in DeclaredNodes
    BY DEF Remaining, DeclaredNodes
  <2>3. Arc(m, n)
    BY <2>1, <2>2 DEF Indexing, Indexed, Arc
  <2>4. QED
    BY <2>3
<1>3. QED
  BY <1>1, <1>2 DEF HasCycle

(* A node that was ever ready has had one edge from each parent.           *)
LEMMA AcceptedIsSimple ==
  ASSUME Typed, Indexing, Ordering, Deciding, verdict.kind = "accepted", ~cycles
  PROVE  Simple(edges)
<1> SUFFICES ASSUME NEW e \in edges, NEW g \in edges, e.src = g.src, e.dst = g.dst
             PROVE  e = g
  BY DEF Simple
<1>1. todo = {} /\ Indexed = edges
  BY DEF Indexing, Indexed
<1>2. Elems(order) = DeclaredNodes
  BY OrderingIsTopological DEF OrderIsTopological, DeclaredNodes
<1> DEFINE m == e.dst
<1>3. m \in DeclaredNodes
  BY <1>1, EndpointsDeclared DEF Indexing
<1>4. indegree[m] = 0 /\ indegree[m] = Cardinality(Into(m)) - Cardinality(OrderedParents(m))
  BY <1>2, <1>3 DEF Deciding, Ordering
<1>5. e \in Into(m) /\ g \in Into(m)
  BY <1>1 DEF Into
<1> HIDE DEF m
<1>6. Cardinality(Parents(m)) = Cardinality(Into(m))
  BY <1>4, ParentsCount
<1>7. \A a, b \in Into(m) : a.src = b.src => a = b
  BY <1>6, ParentsCount
<1>8. QED
  BY <1>5, <1>7

EdgesCounted ==
  \A m :
    /\ Cardinality(Into(m)) \in Nat
    /\ Cardinality(Parents(m)) \in Nat
    /\ Cardinality(OrderedParents(m)) \in Nat
    /\ Cardinality(OrderedParents(m)) <= Cardinality(Parents(m))
    /\ Cardinality(Parents(m)) <= Cardinality(Into(m))

LEMMA ParentsCounted == Typed => EdgesCounted
  BY ParentsCount DEF EdgesCounted

(* An ordered node stays without open edges: the children of the next node *)
(* in the order are others.                                                *)
LEMMA EmitNodeKeepsZero ==
  ASSUME Typed, Indexing, Ordering, Deciding, EmitNode
  PROVE  (\A m \in ready \cup Elems(order) : indegree[m] = 0)'
<1> USE DEF input, index, kahn, search
<1>1. Typed' /\ Ordering'
  BY TypedStep, OrderingStep DEF Next
<1> DEFINE n == Least(ready)
<1>2. n \in ready /\ n \in DeclaredNodes /\ DeclaredNodes' = DeclaredNodes
  <2>1. ready \subseteq Nat /\ ready # {} /\ ready \subseteq DeclaredNodes
    BY ElemsType DEF Typed, DeclaredNodes, EmitNode
  <2>2. QED
    BY <2>1, LeastIsIn DEF EmitNode, DeclaredNodes
<1>3. Elems(order') = Elems(order) \cup {n}
  BY <1>2, ElemsAppend DEF Typed, EmitNode
<1>4. /\ indegree' = [m \in DeclaredNodes |->
                        IF m \in outgoing[n] THEN indegree[m] - 1 ELSE indegree[m]]
      /\ ready' = (ready \ {n}) \cup {m \in outgoing[n] : indegree[m] - 1 = 0}
  BY DEF EmitNode, DeclaredNodes
<1> HIDE DEF n
<1>5. ASSUME NEW m \in DeclaredNodes PROVE indegree'[m] >= 0 /\ indegree'[m] \in Int
  <2>1. indegree'[m] = Cardinality(Into(m)') - Cardinality(OrderedParents(m)')
    BY <1>1, <1>2, <1>5 DEF Ordering
  <2>2. /\ Cardinality(Into(m)') \in Nat /\ Cardinality(OrderedParents(m)') \in Nat
        /\ Cardinality(OrderedParents(m)') <= Cardinality(Parents(m)')
        /\ Cardinality(Parents(m)') <= Cardinality(Into(m)')
        /\ Cardinality(Parents(m)') \in Nat
    <3>1. EdgesCounted'
      BY <1>1, ParentsCounted, PTL
    <3>2. QED
      BY <3>1 DEF EdgesCounted
  <2>3. QED
    BY <2>1, <2>2
<1>6. ASSUME NEW m \in ready' \cup Elems(order') PROVE indegree'[m] = 0
  <2>1. m \in DeclaredNodes
    BY <1>1, <1>2, <1>6, ElemsType DEF Typed
  <2>2. CASE m \in outgoing[n] /\ indegree[m] - 1 = 0
    BY <1>4, <2>1, <2>2
  <2>3. CASE m \in ready \cup Elems(order)
    <3>1. indegree[m] = 0
      BY <2>3 DEF Deciding
    <3>2. QED
      BY <1>4, <1>5, <2>1, <3>1
  <2>4. QED
    BY <1>2, <1>3, <1>4, <1>6, <2>2, <2>3
<1>7. QED
  BY <1>6

LEMMA DecidingStep ==
  Typed /\ Indexing /\ Ordering /\ Deciding /\ [Next]_vars => Deciding'
<1> SUFFICES ASSUME Typed, Indexing, Ordering, Deciding, [Next]_vars PROVE Deciding'
  OBVIOUS
<1> USE DEF input, index, kahn, search
<1>f. UNCHANGED <<nodeIds, edges, cycles>>
  BY IndexFixed
<1>e. /\ \A e \in edges : EndpointError(e)' = EndpointError(e)
      /\ \A e \in edges : IsFirstFlaw(Graph, e)' <=> IsFirstFlaw(Graph, e)
      /\ HasCycle' <=> HasCycle
      /\ Simple(edges)' <=> Simple(edges)
      /\ HasDuplicates(nodeIds)' <=> HasDuplicates(nodeIds)
  BY <1>f DEF EndpointError, Graph, IsFirstFlaw, Flawed, FlawOf, HasCycle, Arc, Simple,
              HasDuplicates
(* Every step keeps what is known and adds at most what it finds.          *)
<1>u. ASSUME (\A m \in ready \cup Elems(order) : indegree[m] = 0)',
             phase' \in {"order", "search"} => phase \in {"order", "search"} \/ ~cycles,
             phase' = "search" => phase = "search" \/ HasCycle \/ ~Simple(edges),
             phase' = "done" => phase = "done" \/ verdict'.kind \in
               {"duplicate_node", "unknown_node", "unknown_port", "accepted", "cycle"},
             \/ UNCHANGED verdict
             \/ verdict'.kind = "accepted"
             \/ verdict'.kind = "cycle" /\ phase = "search"
             \/ verdict'.kind = "duplicate_node" /\ HasDuplicates(nodeIds)
             \/ /\ ~HasDuplicates(nodeIds) /\ verdict'.kind \in {"unknown_node", "unknown_port"}
                /\ \E e \in edges : IsFirstFlaw(Graph, e) /\ verdict'.kind = EndpointError(e)
      PROVE  Deciding'
  <2>1. (/\ \A e \in edges : e.pos \in Nat
         /\ \A e, g \in edges : e.pos = g.pos => e = g)'
    BY <1>f DEF Deciding
  <2>2. (/\ phase \in {"order", "search"} \/ verdict.kind = "cycle" => ~cycles
         /\ phase = "search" \/ verdict.kind = "cycle" => HasCycle \/ ~Simple(edges))'
    BY <1>f, <1>e, <1>u DEF Deciding
  <2>3. (/\ verdict.kind = "duplicate_node" => HasDuplicates(nodeIds)
         /\ phase = "done" => verdict.kind \in {"duplicate_node", "unknown_node", "unknown_port",
                                               "accepted", "cycle"})'
    BY <1>e, <1>u DEF Deciding
  <2>4. (verdict.kind \in {"unknown_node", "unknown_port"} =>
           /\ ~HasDuplicates(nodeIds)
           /\ \E e \in edges : IsFirstFlaw(Graph, e) /\ verdict.kind = EndpointError(e))'
    BY <1>f, <1>e, <1>u DEF Deciding
  <2>5. QED
    BY <1>u, <2>1, <2>2, <2>3, <2>4 DEF Deciding
<1>z. ASSUME UNCHANGED <<ready, order, indegree>>
      PROVE  (\A m \in ready \cup Elems(order) : indegree[m] = 0)'
  BY <1>z DEF Deciding, Elems
<1>1. CASE RejectDuplicateNode
  BY <1>1, <1>u, <1>z DEF RejectDuplicateNode, Verdict
<1>2. ASSUME NEW e \in todo, RejectEdge(e) PROVE Deciding'
  <2>1. e \in edges /\ verdict'.kind = EndpointError(e) /\ ~HasDuplicates(nodeIds)
    BY <1>2 DEF RejectEdge, Verdict, Typed
  <2>2. \A g \in edges : FlawOf(nodeIds, g) = EndpointError(g)
    BY DEF FlawOf, EndpointError
  <2>3. IsFirstFlaw(Graph, e)
    <3>1. e \in Flawed(Graph)
      BY <1>2, <2>1, <2>2 DEF RejectEdge, Flawed, Graph
    <3>2. ASSUME NEW g \in Flawed(Graph) PROVE e.pos <= g.pos
      <4>1. g \in edges /\ EndpointError(g) # "none"
        BY <2>2, <3>2 DEF Flawed, Graph
      <4>2. g \in todo
        BY <4>1 DEF Indexing, Indexed
      <4>3. QED
        BY <1>2, <4>2 DEF RejectEdge, IsNextEdge
    <3>3. QED
      BY <3>1, <3>2 DEF IsFirstFlaw
  <2>4. verdict'.kind \in {"unknown_node", "unknown_port"}
    BY <1>2, <2>1 DEF RejectEdge, EndpointError
  <2>5. QED
    BY <1>2, <1>u, <1>z, <2>1, <2>3, <2>4 DEF RejectEdge
<1>3. ASSUME NEW e \in todo, IndexEdge(e) PROVE Deciding'
  <2>1. ready' = {} /\ Elems(order') = {}
    BY <1>3, IndexEdgeAdds DEF Elems
  <2>2. QED
    BY <1>3, <1>u, <2>1 DEF IndexEdge
<1>4. CASE FinishIndex
  <2>1. order = <<>> /\ order' = <<>> /\ UNCHANGED indegree
    BY <1>4 DEF FinishIndex, Indexing
  <2>2. (\A m \in ready \cup Elems(order) : indegree[m] = 0)'
    BY <1>4, <1>f, <2>1 DEF FinishIndex, Elems, Indexing
  <2>3. CASE cycles
    BY <1>4, <1>u, <2>2, <2>3 DEF FinishIndex, Verdict
  <2>4. CASE ~cycles
    BY <1>4, <1>u, <2>2, <2>4 DEF FinishIndex
  <2>5. QED
    BY <2>3, <2>4
<1>5. CASE EmitNode
  BY <1>5, <1>u, EmitNodeKeepsZero DEF EmitNode
<1>6. CASE FinishOrder
  <2>1. CASE Len(order) = Len(nodeIds)
    BY <1>6, <1>u, <1>z, <2>1 DEF FinishOrder, Verdict
  <2>2. CASE Len(order) # Len(nodeIds)
    <3>1. phase' = "search" /\ UNCHANGED <<verdict, ready, order, indegree>> /\ phase = "order"
      BY <1>6, <2>2 DEF FinishOrder
    <3>2. (Simple(edges) => HasCycle)'
      <4>1. Typed' /\ Indexing' /\ Ordering'
        BY TypedStep, IndexingStep, OrderingStep
      <4>2. (phase = "search")'
        BY <3>1
      <4>3. QED
        BY <4>1, <4>2, SearchIsBlocked, PTL
    <3>3. QED
      BY <1>e, <1>u, <1>z, <3>1, <3>2
  <2>3. QED
    BY <2>1, <2>2
<1>7. CASE NextRoot
  <2>1. CASE root > Len(nodeIds)
    BY <1>7, <1>u, <1>z, <2>1 DEF NextRoot, Verdict
  <2>2. CASE ~(root > Len(nodeIds))
    BY <1>7, <1>u, <1>z, <2>2 DEF NextRoot
  <2>3. QED
    BY <2>1, <2>2
<1>8. CASE VisitChild
  <2> DEFINE c == Least(ChildrenLeft)
  <2>1. phase = "search" /\ UNCHANGED <<ready, order, indegree>>
    BY <1>8 DEF VisitChild
  <2>2. CASE visit[c] = "visiting"
    BY <1>8, <1>u, <1>z, <2>1, <2>2 DEF VisitChild, Verdict
  <2>3. CASE visit[c] # "visiting"
    <3>1. phase' = phase /\ UNCHANGED verdict
      BY <1>8, <2>3, VisitedChild DEF VisitChild
    <3>2. QED
      BY <1>u, <1>z, <2>1, <3>1
  <2>4. QED
    BY <2>2, <2>3
<1>9. CASE LeaveNode
  BY <1>9, <1>u, <1>z DEF LeaveNode
<1>10. CASE UNCHANGED vars
  BY <1>10, <1>u, <1>z DEF vars
<1>11. QED
  BY <1>1, <1>2, <1>3, <1>4, <1>5, <1>6, <1>7, <1>8, <1>9, <1>10 DEF Next

LEMMA DecidingIsDecision ==
  Typed /\ Indexing /\ Ordering /\ Deciding => VerdictIsDecision
<1> SUFFICES ASSUME Typed, Indexing, Ordering, Deciding, phase = "done"
             PROVE  verdict.kind = Decision(Graph)
  BY DEF VerdictIsDecision
<1> DEFINE f == Graph
<1>1. f.nodes = nodeIds /\ f.edges = edges /\ f.cycles = cycles /\ cycles \in BOOLEAN
  BY DEF Graph, Typed
<1>2. \A e : FlawOf(f.nodes, e) = EndpointError(e)
  BY <1>1 DEF FlawOf, EndpointError
<1>3. Cyclic(f) <=> HasCycle
  BY <1>1 DEF Cyclic, HasCycle, Arc
<1> HIDE DEF f
<1>4. CASE verdict.kind = "duplicate_node"
  BY <1>1, <1>4 DEF Deciding, Decision, f
<1>5. CASE verdict.kind \in {"unknown_node", "unknown_port"}
  <2>1. PICK e \in edges : IsFirstFlaw(f, e) /\ verdict.kind = EndpointError(e)
    BY <1>5 DEF Deciding, f
  <2>2. ASSUME NEW g \in edges, IsFirstFlaw(f, g) PROVE g = e
    <3>1. e.pos <= g.pos /\ g.pos <= e.pos
      BY <2>1, <2>2 DEF IsFirstFlaw
    <3>2. QED
      BY <3>1, <2>1, <2>2 DEF Deciding
  <2>3. (CHOOSE g \in f.edges : IsFirstFlaw(f, g)) = e
    BY <1>1, <2>1, <2>2
  <2>4. Flawed(f) # {} /\ ~HasDuplicates(f.nodes)
    BY <1>1, <1>5, <2>1 DEF IsFirstFlaw, Deciding
  <2>5. QED
    BY <1>2, <2>1, <2>3, <2>4 DEF Decision, f
<1>6. CASE verdict.kind \in {"accepted", "cycle"}
  <2>1. ~HasDuplicates(f.nodes) /\ Flawed(f) = {}
    <3>1. ~HasDuplicates(nodeIds) /\ Indexed = edges
      BY <1>6 DEF Indexing, Indexed
    <3>2. QED
      BY <1>1, <1>2, <3>1 DEF Indexing, Flawed
  <2>2. CASE verdict.kind = "cycle"
    BY <1>1, <1>3, <2>1, <2>2 DEF Deciding, Decision, f
  <2>3. CASE verdict.kind = "accepted"
    <3>1. ~cycles => ~HasCycle /\ Simple(edges)
      BY <2>3, OrderingIsTopological, TopologicalHasNoCycle, AcceptedIsSimple
    <3>2. QED
      BY <1>1, <1>3, <2>1, <2>3, <3>1 DEF Decision, f
  <2>4. QED
    BY <1>6, <2>2, <2>3
<1>7. QED
  BY <1>4, <1>5, <1>6 DEF Deciding

(* What new and with_cycles_allowed decide depends on the graph alone, and *)
(* is this: repeated nodes first, then the first edge with a bad end, and  *)
(* for new a cycle or a second edge between two nodes.  Kahn's algorithm   *)
(* and the search after it have no say in it.                              *)
THEOREM VerdictIsDetermined == Spec => []VerdictIsDecision
<1>1. Init => Deciding
  BY GivenDeciding, GraphAssumption DEF Init
<1>2. Typed /\ Indexing /\ Ordering /\ Deciding /\ [Next]_vars => Deciding'
  BY DecidingStep
<1>3. Typed /\ Indexing /\ Ordering /\ Deciding => VerdictIsDecision
  BY DecidingIsDecision
<1>4. QED
  BY <1>1, <1>2, <1>3, KahnInvariant, PTL DEF Spec
=============================================================================
