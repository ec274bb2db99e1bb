--------------------------- MODULE MCWorkflowGraph ---------------------------
(***************************************************************************)
(* Instances of WorkflowGraph for TLC.                                     *)
(***************************************************************************)
EXTENDS WorkflowGraph

CONSTANT N   \* number of nodes

(* Node 0 is never declared.                                               *)
in == 1
out == 2
alt == 3
MCInPorts == [n \in 0..N |-> {in}]
MCOutPorts == [n \in 0..N |-> {out, alt}]

(* Edges are declared by their ends.                                       *)
Edge(m, p, n, q) ==
  [pos |-> ((m * 4 + n) * 4 + p) * 4 + q, src |-> m, sport |-> p, dst |-> n, dport |-> q]
Backwards(E) == {[e EXCEPT !.pos = 256 - @] : e \in E}

(* Every simple graph over 1..N, nodes declared in a non-sorted order.     *)
OneList == [i \in 1..N |-> IF i = 1 THEN N ELSE i - 1]
Simple ==
  {[nodes |-> OneList, edges |-> E, cycles |-> FALSE] :
     E \in SUBSET {Edge(m, out, n, in) : m, n \in 1..N}}

(* Undeclared nodes, ports in the wrong direction and repeated nodes beside *)
(* good edges, declared in either order.                                   *)
ManyLists == {<<1, 2>>, <<2, 1>>, <<1, 1>>, <<1>>}
FaultyEdges ==
  {Edge(1, out, 2, in), Edge(2, alt, 1, in), Edge(1, in, 2, in),
   Edge(1, out, 2, out), Edge(0, out, 1, in), Edge(2, out, 0, in)}
Faulty ==
  {[nodes |-> s, edges |-> E, cycles |-> c] :
     s \in ManyLists, c \in BOOLEAN,
     E \in SUBSET FaultyEdges \cup {Backwards(E) : E \in SUBSET FaultyEdges}}

SimpleAndFaulty == Simple \cup Faulty

(* Two output ports of one node may feed the same node.                    *)
Parallel ==
  {[nodes |-> OneList, edges |-> E, cycles |-> FALSE] :
     E \in SUBSET {Edge(m, p, n, in) : m, n \in 1..N, p \in {out, alt}}}
=============================================================================
