---------------------------- MODULE WorkflowGraph ----------------------------
(***************************************************************************)
(* Validation of a workflow graph (pureflow-workflow, WorkflowGraph::new   *)
(* and topological_order): the nodes and edges are checked and indexed     *)
(* (GraphTopology::from_graph), Kahn's algorithm orders the nodes, and     *)
(* when nodes remain a depth-first search looks for a cycle to report.     *)
(*                                                                         *)
(* Node identifiers are positive: their order is that of the BTreeSets     *)
(* that hold them, and 0 comes before every child.  The initial states are *)
(* all the workflows of the instance.  An edge record carries its position *)
(* among the declared edges, so that two edges with the same ends are two  *)
(* edges, as they are in the code.                                         *)
(***************************************************************************)
EXTENDS Naturals, Sequences, FiniteSets

CONSTANTS
  Workflows,      \* the workflows of the instance: [nodes, edges, cycles],
                  \* cycles for with_cycles_allowed instead of new
  InPorts,        \* InPorts[n], OutPorts[n]: the declared ports of node n
  OutPorts

(* An edge is a record with its two ends and its position.                 *)
EdgeShape(e) == DOMAIN e = {"pos", "src", "sport", "dst", "dport"}

(* Nodes and edges as the caller of new has them; reject_duplicate_ports   *)
(* has let the node definitions pass.                                      *)
WellGiven(f) ==
  /\ f.nodes \in Seq(Nat \ {0})
  /\ IsFiniteSet(f.edges)
  /\ f.cycles \in BOOLEAN
  /\ \A e \in f.edges : EdgeShape(e) /\ e.pos \in Nat /\ e.src \in Nat /\ e.dst \in Nat
  /\ \A e, g \in f.edges : e.pos = g.pos => e = g
  /\ \A i \in DOMAIN f.nodes :
       /\ f.nodes[i] \in DOMAIN InPorts \cap DOMAIN OutPorts
       /\ InPorts[f.nodes[i]] \cap OutPorts[f.nodes[i]] = {}

ASSUME GraphAssumption == \A f \in Workflows : WellGiven(f)

VARIABLES
  nodeIds,    \* the declared nodes, in declaration order
  edges,      \* the declared edges
  cycles,     \* cycles are allowed
  todo,       \* edges from_graph has still to index
  outgoing,   \* outgoing_by_node: the set of children of each node
  indegree,   \* indegree_by_node
  ready,      \* Kahn: nodes without an unordered parent
  order,      \* Kahn: the order so far
  visit,      \* find_cycle: VisitState of each node, "none" when absent
  stack,      \* find_cycle: frames <<node, last child looked at>>
  root,       \* find_cycle: position in nodeIds of the next root
  phase,      \* "index" | "order" | "search" | "done"
  verdict     \* the result: kind and, for a cycle, the reported path

vars == <<nodeIds, edges, cycles, todo, outgoing, indegree, ready, order, visit,
          stack, root, phase, verdict>>

input == <<nodeIds, edges, cycles>>
index == <<todo, outgoing, indegree>>
kahn  == <<ready, order>>
search == <<visit, stack, root>>

Elems(s) == {s[i] : i \in DOMAIN s}

Least(S) == CHOOSE n \in S : \A m \in S : n <= m

Verdict(kind, path) == verdict' = [kind |-> kind, path |-> path]

(* WorkflowGraph::new or with_cycles_allowed is about to look at f.         *)
Given(f) ==
  /\ nodeIds = f.nodes
  /\ edges = f.edges
  /\ cycles = f.cycles
  /\ todo = edges
  /\ outgoing = [n \in Elems(nodeIds) |-> {}]
  /\ indegree = [n \in Elems(nodeIds) |-> 0]
  /\ ready = {}
  /\ order = <<>>
  /\ visit = [n \in Elems(nodeIds) |-> "none"]
  /\ stack = <<>>
  /\ root = 1
  /\ phase = "index"
  /\ verdict = [kind |-> "none", path |-> <<>>]

Init == \E f \in Workflows : Given(f)

-----------------------------------------------------------------------------
(* GraphTopology::from_graph *)

HasDuplicates(s) == \E i, j \in DOMAIN s : i # j /\ s[i] = s[j]

RejectDuplicateNode ==
  /\ phase = "index"
  /\ HasDuplicates(nodeIds)
  /\ phase' = "done"
  /\ Verdict("duplicate_node", <<>>)
  /\ UNCHANGED <<input, index, kahn, search>>

(* Fault: the port of the target is not looked up.                         *)
EndpointErrorTargetPort(e) ==
  IF {e.src, e.dst} \subseteq Elems(nodeIds)
  THEN IF e.sport \notin OutPorts[e.src] THEN "unknown_port" ELSE "none"
  ELSE "unknown_node"

(* validate_endpoint, for the source and then for the target: the node,    *)
(* then the port in the expected direction.                                *)
EndpointError(e) ==
  IF e.src \notin Elems(nodeIds) THEN "unknown_node"
  ELSE IF e.sport \notin OutPorts[e.src] THEN "unknown_port"
  ELSE IF e.dst \notin Elems(nodeIds) THEN "unknown_node"
  ELSE IF e.dport \notin InPorts[e.dst] THEN "unknown_port"
  ELSE "none"

(* The loop over the edges takes them in the order of declaration.         *)
IsNextEdge(e) == e \in todo /\ \A f \in todo : e.pos <= f.pos

RejectEdge(e) ==
  /\ phase = "index"
  /\ ~HasDuplicates(nodeIds)
  /\ IsNextEdge(e)
  /\ EndpointError(e) # "none"
  /\ phase' = "done"
  /\ Verdict(EndpointError(e), <<>>)
  /\ UNCHANGED <<input, index, kahn, search>>

(* The child set absorbs a second edge between the same nodes, the         *)
(* indegree counts it.                                                     *)
IndexEdge(e) ==
  /\ phase = "index"
  /\ ~HasDuplicates(nodeIds)
  /\ IsNextEdge(e)
  /\ EndpointError(e) = "none"
  /\ todo' = todo \ {e}
  /\ outgoing' = [outgoing EXCEPT ![e.src] = @ \cup {e.dst}]
  /\ indegree' = [indegree EXCEPT ![e.dst] = @ + 1]
  /\ UNCHANGED <<input, kahn, search, phase, verdict>>

(* The index is complete: with_cycles_allowed stops here, new goes on to   *)
(* the topological order, seeded with the nodes of indegree zero.          *)
FinishIndex ==
  /\ phase = "index"
  /\ ~HasDuplicates(nodeIds)
  /\ todo = {}
  /\ IF cycles
     THEN phase' = "done" /\ Verdict("accepted", <<>>) /\ UNCHANGED ready
     ELSE /\ phase' = "order"
          /\ ready' = {n \in Elems(nodeIds) : indegree[n] = 0}
          /\ UNCHANGED verdict
  /\ UNCHANGED <<input, index, order, search>>

-----------------------------------------------------------------------------
(* GraphTopology::topological_order *)

(* Fault: a node is ready as soon as one of its parents is ordered.        *)
EmitNodeAnyParent ==
  /\ phase = "order"
  /\ ready # {}
  /\ LET n == Least(ready) IN
       /\ order' = Append(order, n)
       /\ indegree' = [m \in Elems(nodeIds) |->
                         IF m \in outgoing[n] THEN indegree[m] - 1 ELSE indegree[m]]
       /\ ready' = (ready \cup outgoing[n]) \ (Elems(order) \cup {n})
  /\ UNCHANGED <<input, todo, outgoing, search, phase, verdict>>

(* The least ready node is ordered; each of its children has one parent    *)
(* less and becomes ready when none is left.                               *)
EmitNode ==
  /\ phase = "order"
  /\ ready # {}
  /\ LET n == Least(ready) IN
       /\ order' = Append(order, n)
       /\ indegree' = [m \in Elems(nodeIds) |->
                         IF m \in outgoing[n] THEN indegree[m] - 1 ELSE indegree[m]]
       /\ ready' = (ready \ {n})
                     \cup {m \in outgoing[n] : indegree[m] - 1 = 0}
  /\ UNCHANGED <<input, todo, outgoing, search, phase, verdict>>

FinishOrder ==
  /\ phase = "order"
  /\ ready = {}
  /\ IF Len(order) = Len(nodeIds)
     THEN phase' = "done" /\ Verdict("accepted", order)
     ELSE phase' = "search" /\ UNCHANGED verdict
  /\ UNCHANGED <<input, index, kahn, search>>

-----------------------------------------------------------------------------
(* GraphTopology::find_cycle *)

Remaining == Elems(nodeIds) \ Elems(order)

Top == stack[Len(stack)]

(* Children of the node on top of the stack the loop has still to look at. *)
ChildrenLeft == {c \in outgoing[Top[1]] \cap Remaining : c > Top[2]}

(* Fault: the path starts at the root of the search.                       *)
CycleFromRoot(c) == [i \in DOMAIN stack |-> stack[i][1]] \o <<c>>

(* cycle_from_stack: the path from the child's frame, closed.              *)
CycleFromStack(c) ==
  LET start == CHOOSE i \in DOMAIN stack : stack[i][1] = c
  IN [i \in 1..(Len(stack) - start + 1) |-> stack[start + i - 1][1]] \o <<c>>

Sorted(S) == [i \in 1..Cardinality(S) |->
                CHOOSE n \in S : Cardinality({m \in S : m < n}) = i - 1]

(* The outer loop takes the next unvisited node that remains, or gives up  *)
(* and reports every remaining node.                                       *)
NextRoot ==
  /\ phase = "search"
  /\ stack = <<>>
  /\ IF root > Len(nodeIds)
     THEN /\ phase' = "done"
          /\ Verdict("cycle", Sorted(Remaining))
          /\ UNCHANGED search
     ELSE LET n == nodeIds[root] IN
          /\ root' = root + 1
          /\ IF n \in Remaining /\ visit[n] = "none"
             THEN /\ visit' = [visit EXCEPT ![n] = "visiting"]
                  /\ stack' = <<<<n, 0>>>>
             ELSE UNCHANGED <<visit, stack>>
          /\ UNCHANGED <<phase, verdict>>
  /\ UNCHANGED <<input, index, kahn>>

(* Fault: the loop does not move past a child that was visited before.     *)
VisitChildStuck ==
  /\ phase = "search"
  /\ stack # <<>>
  /\ ChildrenLeft # {}
  /\ LET c == Least(ChildrenLeft)
         here == [stack EXCEPT ![Len(stack)] = <<Top[1], c>>]
     IN CASE visit[c] = "visiting" ->
               /\ phase' = "done"
               /\ Verdict("cycle", CycleFromStack(c))
               /\ UNCHANGED search
          [] visit[c] = "visited" -> UNCHANGED <<search, phase, verdict>>
          [] visit[c] = "none" ->
               /\ stack' = Append(here, <<c, 0>>)
               /\ visit' = [visit EXCEPT ![c] = "visiting"]
               /\ UNCHANGED <<root, phase, verdict>>
  /\ UNCHANGED <<input, index, kahn>>

(* The loop over the children of dfs: a node on the stack closes a cycle,  *)
(* a finished one is skipped, a new one is entered.                        *)
VisitChild ==
  /\ phase = "search"
  /\ stack # <<>>
  /\ ChildrenLeft # {}
  /\ LET c == Least(ChildrenLeft)
         here == [stack EXCEPT ![Len(stack)] = <<Top[1], c>>]
     IN CASE visit[c] = "visiting" ->
               /\ phase' = "done"
               /\ Verdict("cycle", CycleFromStack(c))
               /\ UNCHANGED search
          [] visit[c] = "visited" ->
               /\ stack' = here
               /\ UNCHANGED <<visit, root, phase, verdict>>
          [] visit[c] = "none" ->
               /\ stack' = Append(here, <<c, 0>>)
               /\ visit' = [visit EXCEPT ![c] = "visiting"]
               /\ UNCHANGED <<root, phase, verdict>>
  /\ UNCHANGED <<input, index, kahn>>

LeaveNode ==
  /\ phase = "search"
  /\ stack # <<>>
  /\ ChildrenLeft = {}
  /\ visit' = [visit EXCEPT ![Top[1]] = "visited"]
  /\ stack' = SubSeq(stack, 1, Len(stack) - 1)
  /\ UNCHANGED <<input, index, kahn, root, phase, verdict>>

Next ==
  \/ RejectDuplicateNode
  \/ \E e \in todo : RejectEdge(e)
  \/ \E e \in todo : IndexEdge(e)
  \/ FinishIndex
  \/ EmitNode
  \/ FinishOrder
  \/ NextRoot
  \/ VisitChild
  \/ LeaveNode

Spec == Init /\ [][Next]_vars

-----------------------------------------------------------------------------

(* The declared edges as a relation between nodes.                         *)
Arc(m, n) == \E e \in edges : e.src = m /\ e.dst = n

(* Node sets closed under a parent: a graph has a directed cycle exactly   *)
(* when some non-empty set of nodes has a parent inside for each member.   *)
HasCycle ==
  \E S \in SUBSET Elems(nodeIds) :
    S # {} /\ \A n \in S : \E m \in S : Arc(m, n)

(* An accepted workflow has distinct nodes and every edge joins a declared *)
(* output port to a declared input port.                                   *)
AcceptedIsWellFormed ==
  verdict.kind = "accepted" =>
    /\ ~HasDuplicates(nodeIds)
    /\ \A e \in edges :
         /\ {e.src, e.dst} \subseteq Elems(nodeIds)
         /\ e.sport \in OutPorts[e.src]
         /\ e.dport \in InPorts[e.dst]

(* The order of an accepted acyclic workflow lists every node once and     *)
(* puts the source of each edge before its target.                         *)
OrderIsTopological ==
  verdict.kind = "accepted" /\ ~cycles =>
    /\ Elems(order) = Elems(nodeIds) /\ ~HasDuplicates(order)
    /\ \A i, j \in DOMAIN order : Arc(order[i], order[j]) => i < j

(* A reported cycle is a closed path along declared edges without a        *)
(* repeated node.                                                          *)
ReportedCycleIsReal ==
  verdict.kind = "cycle" =>
    LET p == verdict.path IN
      /\ Len(p) > 1
      /\ p[1] = p[Len(p)]
      /\ \A i \in 1..(Len(p) - 1) : Arc(p[i], p[i + 1])
      /\ \A i, j \in 1..(Len(p) - 1) : p[i] = p[j] => i = j

(* A workflow is rejected with CycleDetected only when the graph contains  *)
(* a directed cycle (the error WorkflowGraph::new documents).              *)
CycleErrorMeansCycle == verdict.kind = "cycle" => HasCycle
=============================================================================
