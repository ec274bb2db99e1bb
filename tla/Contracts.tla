------------------------------ MODULE Contracts -------------------------------
(***************************************************************************)
(* Capability descriptors (pureflow-core capability.rs), node contracts    *)
(* (pureflow-contract lib.rs), their validation against a workflow, and    *)
(* the projection of a validated workflow (pureflow-introspection lib.rs). *)
(*                                                                         *)
(* A workflow is [nodes, edges, ins, outs]: its nodes and edges in the     *)
(* order of declaration, and the declared ports of each node.  A           *)
(* descriptor is [node, ports, effects] with claims [port, dir], a         *)
(* contract [node, ports, mode] with ports [port, dir, schema]; a schema   *)
(* is a set of at most one.  Ports are naturals, in the order in which a   *)
(* BTreeMap holds them.  Determinism and retry hints are projected as they *)
(* are and left out.                                                       *)
(***************************************************************************)
EXTENDS Naturals, Sequences, Documents

NodeContracts ==
  [node : Nat, mode : STRING,
   ports : Seq([port : Nat, dir : STRING, schema : SUBSET STRING])]
Descriptors ==
  [node : Nat, effects : Seq(STRING), ports : Seq([port : Nat, dir : STRING])]

(* A check of every element, in order.                                     *)
Each(s, Fault(_)) == FirstFault([i \in DOMAIN s |-> Fault(s[i])])

(* A check of every port of a set, in the order of the ports.              *)
EachPort(ports, Fault(_)) == LeastFault({<<p, Fault(p)>> : p \in ports})

-------------------------------------------------------------------------------
(* NodeCapabilities::new: duplicate effects, then a claim made twice, then *)
(* a port claimed in both directions.                                      *)
DescriptorFault(c) ==
  IF Repeats(c.effects) THEN <<"duplicate_effect", c.node>>
  ELSE IF Repeats(c.ports) THEN <<"duplicate_claim", c.node>>
  ELSE IF Repeats([i \in DOMAIN c.ports |-> c.ports[i].port])
    THEN <<"conflicting_direction", c.node>>
  ELSE NoFault

(* NodeContract::new, over ports whose schemas SchemaRef::new accepts.     *)
ContractFault(c) ==
  IF \E i \in DOMAIN c.ports : "" \in c.ports[i].schema THEN <<"empty_schema">>
  ELSE IF Repeats([i \in DOMAIN c.ports |-> c.ports[i].port])
    THEN <<"duplicate_contract_port", c.node>>
  ELSE NoFault

(* workflow_direction_for, in the words of contracts; {} for no such port. *)
Declared(w, n, p) ==
  IF p \in w.ins[n] THEN {"input"} ELSE IF p \in w.outs[n] THEN {"output"} ELSE {}

Claim(direction) == IF direction = "input" THEN "receive" ELSE "emit"

ClaimFault(w, n, claim) ==
  CASE Declared(w, n, claim.port) = {} -> <<"unknown_claim_port", n, claim.port>>
    [] \E d \in Declared(w, n, claim.port) : claim.dir # Claim(d) ->
         <<"claim_direction", n, claim.port>>
    [] OTHER -> NoFault

(* validate_workflow_capabilities.                                         *)
CapabilitiesFault(w, caps) ==
  Each(caps, LAMBDA c :
    IF \A i \in DOMAIN w.nodes : w.nodes[i] # c.node
      THEN <<"unknown_claim_node", c.node>>
      ELSE Each(c.ports, LAMBDA claim : ClaimFault(w, c.node, claim)))

-------------------------------------------------------------------------------
(* The maps by node of validate_workflow_contracts: of several entries for *)
(* a node the last one stays.                                              *)
ByNode(entries, n) ==
  {entries[i] : i \in {j \in DOMAIN entries :
     entries[j].node = n /\ \A k \in DOMAIN entries : k > j => entries[k].node # n}}

(* The port of a contract, as a set of at most one.                        *)
ContractPort(c, p) == {c.ports[i] : i \in {j \in DOMAIN c.ports : c.ports[j].port = p}}

(* validate_node_contract: the declared ports in order, then the ports of  *)
(* the contract.                                                           *)
PortsFault(w, n, c) ==
  FirstFault(<<
    EachPort(w.ins[n] \cup w.outs[n], LAMBDA p :
      CASE ContractPort(c, p) = {} -> <<"uncovered_port", n, p>>
        [] \E q \in ContractPort(c, p) : {q.dir} # Declared(w, n, p) ->
             <<"port_direction", n, p>>
        [] OTHER -> NoFault),
    EachPort({c.ports[i].port : i \in DOMAIN c.ports}, LAMBDA p :
      IF Declared(w, n, p) = {} THEN <<"unknown_port", n, p>> ELSE NoFault)>>)

(* strict_boundary_supports_effect: no strict boundary imports an effect.  *)
StrictBoundarySupports == {}

(* validate_enforceable_capabilities: native effects are advisory.         *)
EnforceableFault(n, c, cap) ==
  IF c.mode = "native" THEN NoFault
  ELSE Each(cap.effects, LAMBDA e :
         IF e \in StrictBoundarySupports THEN NoFault ELSE <<"unenforceable_effect", n, e>>)

NodeContractFault(w, n, contracts, caps) ==
  IF ByNode(contracts, n) = {} THEN <<"missing_contract", n>>
  ELSE IF ByNode(caps, n) = {} THEN <<"missing_descriptor", n>>
  ELSE CHOOSE f \in {FirstFault(<<PortsFault(w, n, c), EnforceableFault(n, c, cap)>>) :
                c \in ByNode(contracts, n), cap \in ByNode(caps, n)} : TRUE

(* The schema that the contract of an endpoint's node gives its port.      *)
EndpointSchema(contracts, n, p) ==
  UNION {UNION {q.schema : q \in ContractPort(c, p)} : c \in ByNode(contracts, n)}

(* validate_edge_schema_compatibility: exact equality when both are given. *)
SchemaFault(contracts, e) ==
  LET source == EndpointSchema(contracts, e.src, e.sport)
      target == EndpointSchema(contracts, e.dst, e.dport)
  IN  IF source # {} /\ target # {} /\ source # target
        THEN <<"schema_mismatch", e>> ELSE NoFault

(* validate_workflow_contracts.                                            *)
ContractsFault(w, contracts, caps) ==
  FirstFault(<<
    CapabilitiesFault(w, caps),
    Each(w.nodes, LAMBDA n : NodeContractFault(w, n, contracts, caps)),
    Each(contracts, LAMBDA c :
      IF \A i \in DOMAIN w.nodes : w.nodes[i] # c.node
        THEN <<"unknown_contract_node", c.node>> ELSE NoFault),
    Each(w.edges, LAMBDA e : SchemaFault(contracts, e))>>)

-------------------------------------------------------------------------------
(* introspect_port: a declared port without a claim has no projection.     *)
UnclaimedFault(w, caps) ==
  Each(w.nodes, LAMBDA n :
    IF \A p \in w.ins[n] \cup w.outs[n] :
         \E c \in ByNode(caps, n) : \E i \in DOMAIN c.ports : c.ports[i].port = p
      THEN NoFault ELSE <<"missing_descriptor", n>>)

(* introspect_workflow.                                                    *)
IntrospectFault(w, contracts, caps) ==
  FirstFault(<<ContractsFault(w, contracts, caps), UnclaimedFault(w, caps)>>)

(* enforcement_for.                                                        *)
EnforcementFor(mode) == IF mode = "native" THEN "advisory" ELSE "strict"

ProjectedPort(w, n, p, c, cap) ==
  [port |-> p, dir |-> Declared(w, n, p),
   schema |-> UNION {q.schema : q \in ContractPort(c, p)},
   capability |-> {cap.ports[i].dir : i \in {j \in DOMAIN cap.ports : cap.ports[j].port = p}}]

ProjectedNode(w, n, c, cap) ==
  [node |-> n, mode |-> c.mode, enforcement |-> EnforcementFor(c.mode),
   effects |-> cap.effects,
   ports |-> {ProjectedPort(w, n, p, c, cap) : p \in w.ins[n] \cup w.outs[n]}]

ProjectedEdge(contracts, e) ==
  [edge |-> e,
   source |-> EndpointSchema(contracts, e.src, e.sport),
   target |-> EndpointSchema(contracts, e.dst, e.dport)]

(* Fault: introspection looks an entry up in the list as it is given.      *)
FirstEntry(entries, n) ==
  entries[CHOOSE j \in DOMAIN entries :
            entries[j].node = n /\ \A k \in DOMAIN entries : entries[k].node = n => k >= j]

(* contracts_by_node and capabilities_by_node, which introspect_workflow   *)
(* builds anew after the validation: the last entry for a node, too.       *)
LastEntry(entries, n) ==
  entries[CHOOSE j \in DOMAIN entries :
            entries[j].node = n /\ \A k \in DOMAIN entries : entries[k].node = n => k <= j]

(* WorkflowIntrospection of a workflow without fault.                      *)
Projection(w, contracts, caps) ==
  [nodes |-> [i \in DOMAIN w.nodes |->
     ProjectedNode(w, w.nodes[i],
       LastEntry(contracts, w.nodes[i]), LastEntry(caps, w.nodes[i]))],
   edges |-> [i \in DOMAIN w.edges |-> ProjectedEdge(contracts, w.edges[i])]]
===============================================================================
