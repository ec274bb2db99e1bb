------------------------------ MODULE Documents -------------------------------
(***************************************************************************)
(* Workflow documents (pureflow-workflow-format lib.rs): decoding, the     *)
(* conversion of a raw document into a workflow up to its graph, and the   *)
(* resolution of the rule sets its nodes declare (rule_source.rs).         *)
(*                                                                         *)
(* A document is [lang, version, id, nodes, edges]: the language its text  *)
(* is well formed in ("none" when it fits no parser), Option values as     *)
(* sets of at most one element.  A node is [id, inputs, outputs, inline,   *)
(* ref] with sequences of port texts, an edge [source, target, capacity]   *)
(* with endpoints [node, port].  Texts are those of Identifiers.  A fault  *)
(* is a tuple that names the variant of the error and the place where it   *)
(* occurs, NoFault is the empty one.                                       *)
(***************************************************************************)
EXTENDS Identifiers, Sequences

(* The RawWorkflowDocument and its parts.                                  *)
NodeDocs == [id : Texts, inputs : Seq(Texts), outputs : Seq(Texts), inline : SUBSET STRING,
             ref : SUBSET [scheme : SUBSET STRING, path : STRING]]
EndDocs == [node : Texts, port : Texts]
EdgeDocs == [source : EndDocs, target : EndDocs, capacity : SUBSET Nat]
Docs == [lang : STRING, version : SUBSET STRING, id : Texts,
         nodes : Seq(NodeDocs), edges : Seq(EdgeDocs)]

CURRENT_PUREFLOW_VERSION == "1"

NoFault == <<>>

(* Checks are made one after the other and stop at the first fault.  Here  *)
(* they are pairs of a place in that order and what is found there (TLC    *)
(* works out the pairs once, for the one value of S).                      *)
FaultOf(failed) ==
  IF failed = {} THEN NoFault
  ELSE (CHOOSE c \in failed : \A d \in failed : c[1] <= d[1])[2]
LeastFault(checks) ==
  CHOOSE f \in {FaultOf(S) : S \in {{c \in checks : c[2] # NoFault}}} : TRUE

(* The first fault of a sequence of checks.                                *)
FirstFault(checks) == LeastFault({<<i, checks[i]>> : i \in DOMAIN checks})

-------------------------------------------------------------------------------
(* raw_workflow_from_{json,toml,yaml}_str: a text of another language is   *)
(* a decode error, but every JSON text is YAML too.                        *)
DecodeFault(doc, parser) ==
  IF doc.lang = parser \/ (doc.lang = "json" /\ parser = "yaml")
    THEN NoFault
    ELSE <<"decode", parser>>

(* validate_version.                                                       *)
VersionFault(doc) ==
  CASE doc.version = {} -> <<"missing_version">>
    [] doc.version = {CURRENT_PUREFLOW_VERSION} -> NoFault
    [] OTHER -> <<"unsupported_version">>

(* WorkflowFormatError::Identifier with its IdentifierContext.             *)
IdFault(text, place, i) ==
  IF IsIdentifier(text) THEN NoFault
  ELSE <<"identifier", place, i, IdentifierError(text)>>

Repeats(s) == \E i, j \in DOMAIN s : i # j /\ s[i] = s[j]

(* raw_node_to_definition and NodeDefinition::new: the node's identifier,  *)
(* its input ports, its output ports, then a port declared twice.          *)
NodeFault(node, i) ==
  FirstFault(
    <<IdFault(node.id, "node", i)>>
      \o [p \in DOMAIN node.inputs |-> IdFault(node.inputs[p], "input", i)]
      \o [p \in DOMAIN node.outputs |-> IdFault(node.outputs[p], "output", i)]
      \o <<IF Repeats(node.inputs \o node.outputs)
             THEN <<"duplicate_port", i>> ELSE NoFault>>)

(* raw_edge_to_definition: an explicit capacity of zero is refused.        *)
EdgeFault(edge, i) ==
  FirstFault(
    <<IdFault(edge.source.node, "source_node", i),
      IdFault(edge.source.port, "source_port", i),
      IdFault(edge.target.node, "target_node", i),
      IdFault(edge.target.port, "target_port", i),
      IF edge.capacity = {0} THEN <<"invalid_capacity", i>> ELSE NoFault>>)

(* to_workflow up to WorkflowDefinition::from_parts.                       *)
FormatFault(doc) ==
  FirstFault(
    <<VersionFault(doc), IdFault(doc.id, "workflow", 0)>>
      \o [i \in DOMAIN doc.nodes |-> NodeFault(doc.nodes[i], i)]
      \o [i \in DOMAIN doc.edges |-> EdgeFault(doc.edges[i], i)])

(* The graph that from_parts is given.                                     *)
GraphOf(doc) ==
  [nodes |-> [i \in DOMAIN doc.nodes |-> doc.nodes[i].id.name],
   edges |-> {[pos |-> i,
               src |-> doc.edges[i].source.node.name,
               sport |-> doc.edges[i].source.port.name,
               dst |-> doc.edges[i].target.node.name,
               dport |-> doc.edges[i].target.port.name] : i \in DOMAIN doc.edges},
   cycles |-> FALSE]

-------------------------------------------------------------------------------
(* Rule sets.  A registry is [sources, files]: the registered sources      *)
(* [scheme, set] in the order of registration, and what the paths below    *)
(* its base directory hold ("absent", "unreadable", "malformed" or a rule  *)
(* set).  A reference is [scheme, path], its scheme {} for a plain path.   *)

Registered(registry, scheme) ==
  SelectSeq(registry.sources, LAMBDA s : s.scheme = scheme)

(* LocalFsSource::load.                                                    *)
LocalFault(files, path) ==
  CASE files[path] = "absent" -> <<"file_not_found">>
    [] files[path] = "unreadable" -> <<"read_error">>
    [] files[path] = "malformed" -> <<"parse_error">>
    [] OTHER -> NoFault

(* SourceRegistry::load: a scheme needs a registration, also file and      *)
(* embedded; a plain path is read from the base directory.  A registered   *)
(* EmbeddedSource always has its rule set.                                 *)
SourceFault(registry, ref) ==
  IF ref.scheme # {}
    THEN IF \E s \in ref.scheme : Registered(registry, s) # <<>>
           THEN NoFault ELSE <<"unknown_scheme">>
    ELSE LocalFault(registry.files, ref.path)

Sourced(registry, ref) ==
  IF ref.scheme # {}
    THEN Registered(registry, CHOOSE s \in ref.scheme : TRUE)[1].set
    ELSE registry.files[ref.path]

(* resolve_node_rule_set: an inline rule set and a reference exclude each  *)
(* other.                                                                  *)
RuleSetFault(node, i, registry) ==
  IF node.inline # {} /\ node.ref # {} THEN <<"rule_set", i, "conflict">>
  ELSE IF "malformed" \in node.inline THEN <<"rule_set", i, "parse">>
  ELSE IF \E r \in node.ref : SourceFault(registry, r) # NoFault
    THEN <<"rule_set", i, "resolve">>
  ELSE NoFault

RuleSetsFault(doc, registry) ==
  FirstFault([i \in DOMAIN doc.nodes |-> RuleSetFault(doc.nodes[i], i, registry)])

(* The rule set of a node without fault, as a set of at most one.          *)
NodeRuleSet(node, registry) ==
  node.inline \cup {Sourced(registry, r) : r \in node.ref}

(* load_workflow: the rule sets by node; nodes without one are left out.   *)
RuleSets(doc, registry) ==
  UNION {{<<doc.nodes[i].id.name, rs>> : rs \in NodeRuleSet(doc.nodes[i], registry)} :
           i \in DOMAIN doc.nodes}

(* resolve_rule_sets: the document with every reference inlined.           *)
ResolvedDocument(doc, registry) ==
  [doc EXCEPT !.nodes =
     [i \in DOMAIN doc.nodes |->
        [doc.nodes[i] EXCEPT !.inline = NodeRuleSet(doc.nodes[i], registry),
                             !.ref = {}]]]
===============================================================================
