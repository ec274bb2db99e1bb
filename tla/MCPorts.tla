------------------------------- MODULE MCPorts -------------------------------
(***************************************************************************)
(* Instances of Ports for TLC.                                             *)
(*   Clones: two writers are clones of one output port whose two edges go  *)
(*           to one reader; a third writer has an output port without      *)
(*           edges.                                                        *)
(*   Mesh:   one writer fans out to two edges, the other has one edge; the *)
(*           second reader fans in an edge of each writer.                 *)
(***************************************************************************)
EXTENDS PortsBus

CONSTANTS e1, e2, e3, w1, w2, w3, r1, r2

ClonesFanout == [w \in Writers |-> IF w = w3 THEN <<>> ELSE <<e1, e2>>]
ClonesFanin == [r \in {r1} |-> <<e1, e2>>]

MeshFanout == [w \in {w1, w2} |-> IF w = w1 THEN <<e1, e2>> ELSE <<e3>>]
MeshFanin == [r \in {r1, r2} |-> IF r = r1 THEN <<e1>> ELSE <<e2, e3>>]

UnitCapacity == [e \in Edges |-> 1]
MeshCapacity == [e \in Edges |-> IF e = e3 THEN 2 ELSE 1]
=============================================================================
