------------------------------- MODULE RunSetup -------------------------------
(***************************************************************************)
(* What a workflow run is asked to do and whether it gets as far as        *)
(* polling a node (pureflow-engine): the entry points run_workflow...,     *)
(* the run policy, the registry of executors, the output contracts and the *)
(* wiring of the edges.                                                    *)
(*                                                                         *)
(* A setup is [entry, policy, executors, contracts]: the entry point that  *)
(* is called and what its caller passes to it.  An output port is          *)
(* <<"out", p>> and an input port <<"in", p>>; contracts[n] maps the ports *)
(* that the contract of n names to a direction.                            *)
(***************************************************************************)
EXTENDS Naturals, Sequences, FiniteSets

CONSTANTS
  Nodes,    \* the nodes of the workflow
  Kind,     \* Kind[n]: "batch", "native" or "rule"
  Inputs,   \* Inputs[n]: number of declared input ports
  Outputs,  \* Outputs[n]: number of declared output ports
  Wire,     \* the edges: [src, out, dst, in, cap], in workflow order
  Setups    \* the setups a run may have

Edges == DOMAIN Wire

ASSUME WorkflowAssumption ==
  /\ IsFiniteSet(Nodes)
  /\ Kind \in [Nodes -> {"batch", "native", "rule"}]
  /\ Inputs \in [Nodes -> Nat]
  /\ Outputs \in [Nodes -> Nat]
  /\ Wire \in Seq([src : Nodes, out : Nat, dst : Nodes, in : Nat, cap : Nat])
  /\ \A e \in Edges :
       /\ Wire[e].src \in Nodes /\ Wire[e].out \in 1..Outputs[Wire[e].src]
       /\ Wire[e].dst \in Nodes /\ Wire[e].in \in 1..Inputs[Wire[e].dst]
       /\ Wire[e].cap \in Nat \ {0}

(* The entry points that take a registry: whether the caller gives a       *)
(* policy or contracts, which observers it gives, and what it gets back.   *)
WithRegistry(policy, contracts, observers) ==
  [registry : {"given"}, policy : {policy}, contracts : {contracts}, observers : observers,
   answer : {"summary", "result"}]

(* run_workflow_with_registry, ..._policy, ..._policy_and_metadata_sink.   *)
PolicyEntryPoints == WithRegistry(FALSE, FALSE, {"none"}) \cup WithRegistry(TRUE, FALSE, {"none", "sink"})

(* run_workflow_with_registry_contracts, ..._contracts_and_observers.      *)
ContractEntryPoints == WithRegistry(FALSE, TRUE, {"none", "sink and hook"})

(* run_workflow_with_registry_and_observers, ..._and_metadata_sink.        *)
ObserverEntryPoints == WithRegistry(FALSE, FALSE, {"sink", "sink and hook"})

RegistryEntryPoints == PolicyEntryPoints \cup ContractEntryPoints \cup ObserverEntryPoints

(* The entry points that run every node with one executor.                 *)
SingleEntryPoints ==
  {e \in [registry : {"single"}, policy : BOOLEAN, contracts : BOOLEAN,
          observers : {"none", "sink", "sink and hook"},
          answer : {"summary", "result"}] :
     /\ e.policy => ~e.contracts
     /\ e.policy \/ e.contracts => e.observers = "none"}

(* WorkflowRunPolicy.                                                      *)
Policies == [cycles : {"reject", "feedback"}, watchdog : BOOLEAN]

ASSUME SetupAssumption ==
  \A s \in Setups :
    /\ s.entry \in RegistryEntryPoints \cup SingleEntryPoints
    /\ s.entry.policy => s.policy \in Policies

(* WorkflowRunPolicy::acyclic, the default.                                *)
Acyclic == [cycles |-> "reject", watchdog |-> FALSE]

(* Without a policy parameter the run uses the default one; contracts are  *)
(* never combined with a policy.                                           *)
Policy(s) == IF s.entry.policy THEN s.policy ELSE Acyclic

HasSink(s) == s.entry.observers # "none"
HasHook(s) == s.entry.observers = "sink and hook"

(* topological_order fails on a cycle (a set of nodes each with a parent   *)
(* in the set), and also when two edges join the same two nodes: see       *)
(* WorkflowGraph.                                                          *)
OrderFails ==
  \/ \E S \in SUBSET Nodes \ {{}} :
       \A n \in S : \E e \in Edges : Wire[e].dst = n /\ Wire[e].src \in S
  \/ \E e, f \in Edges :
       e # f /\ Wire[e].src = Wire[f].src /\ Wire[e].dst = Wire[f].dst

(* validate_workflow_run_policy: the error is always CycleDetected, which  *)
(* a feedback-loop policy accepts.                                         *)
PolicyRejects(s) == OrderFails /\ Policy(s).cycles = "reject"

OutPorts(n) == {<<"out", p>> : p \in 1..Outputs[n]}

(* WorkflowOutputContracts::from_node_contracts.                           *)
ContractsReject(contracts) ==
  \/ \E n \in Nodes \ DOMAIN contracts : OutPorts(n) # {}
  \/ \E n \in Nodes \cap DOMAIN contracts :
       {p \in DOMAIN contracts[n] : contracts[n][p] = "output"} # OutPorts(n)
  \/ DOMAIN contracts \ Nodes # {}

(* executor_for, called for every node.                                    *)
ExecutorMissing(s) == s.entry.registry = "given" /\ ~(Nodes \subseteq s.executors)

(* The run returns an error before any node is polled.                     *)
SetupFails(s) ==
  \/ s.entry.contracts /\ ContractsReject(s.contracts)
  \/ PolicyRejects(s)
  \/ ExecutorMissing(s)

(* What a packet says of itself, compared with the run and the port that   *)
(* it is sent on.  The packets of a batch are made by its executor; those  *)
(* of the other nodes name their own workflow, run and port.               *)
Claims(n) ==
  IF Kind[n] = "batch"
    THEN [workflow : {"own", "other"}, execution : {"own", "other"},
          source : {"own", "other", "none"}]
    ELSE {[workflow |-> "own", execution |-> "own", source |-> "own"]}

(* ContractOutputValidator::validate; every output port has a contract     *)
(* once from_node_contracts has accepted, and schemas are not compared.    *)
Validates(claim) == \A field \in DOMAIN claim : claim[field] = "own"
===============================================================================
