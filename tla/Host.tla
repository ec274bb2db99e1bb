--------------------------------- MODULE Host ----------------------------------
(***************************************************************************)
(* The command-line host (pureflow-cli main.rs) over the files a user      *)
(* keeps beside it: one command after the other reads them, decodes and    *)
(* validates the workflow (Documents and the algorithm of WorkflowGraph,   *)
(* step by step), and then inspects it, explains its rule sets, checks a   *)
(* WASM manifest against it or runs it and writes the metadata file.       *)
(* Between two steps of a command someone may change a file.  "embed" is   *)
(* an application that uses the crates instead of the tool, with contracts *)
(* and rule sources of its own.                                            *)
(*                                                                         *)
(* A disk is [doc, ext, manifest, comps, rules, env, app, metadata]; doc,  *)
(* manifest and metadata are sets of at most one.  A manifest is [lang,    *)
(* specs] with specs [node, path]; comps tells what each component path    *)
(* holds; app is [contracts, caps, sources, cycles].                       *)
(***************************************************************************)
EXTENDS WorkflowGraph, Contracts

CONSTANT Sessions   \* the sessions of the instance: [disk, commands, turns, edits]

Commands == {"validate", "inspect", "explain", "manifest", "manifest_workflow",
             "run", "run_wasm", "schema", "embed"}
IsRun(c) == c \in {"run", "run_wasm"}
IsManifest(c) == c \in {"manifest", "manifest_workflow"}

VARIABLES
  disk,        \* the files and the environment
  menu,        \* the commands of this session
  turns,       \* bound on the commands still to come
  edits,       \* bound on the changes to files still to come
  cmd, at,     \* the command and its next step, "idle" between commands
  fresh,       \* no file has changed since the command started
  document,       \* the workflow document it has read
  specs,       \* the manifest it has read
  answers,     \* the outcome of each command over the files as they are
  last,        \* the outcome of the last command
  projection,  \* what introspect_workflow last returned
  ruleSets,    \* what load_workflow last returned with the workflow
  runs,        \* workflow runs so far
  before       \* the metadata file when the command started

reading == <<document, specs>>
results == <<projection, ruleSets, runs, before>>
bounds == <<menu, turns, edits>>
hostVars == <<disk, bounds, cmd, at, fresh, reading, answers, last, results>>

Unknown == <<"unknown">>
NoGraph == [nodes |-> <<>>, edges |-> {}, cycles |-> FALSE]

(* A step that sets up a new validation: Given(f) of the next state.       *)
Begin(f) ==
  /\ nodeIds' = f.nodes /\ edges' = f.edges /\ cycles' = f.cycles
  /\ todo' = f.edges
  /\ outgoing' = [n \in Elems(f.nodes) |-> {}]
  /\ indegree' = [n \in Elems(f.nodes) |-> 0]
  /\ ready' = {} /\ order' = <<>>
  /\ visit' = [n \in Elems(f.nodes) |-> "none"]
  /\ stack' = <<>> /\ root' = 1
  /\ phase' = "index"
  /\ Verdict("none", <<>>)

HostInit ==
  /\ \E s \in Sessions : disk = s.disk /\ menu = s.commands /\ turns = s.turns /\ edits = s.edits
  /\ cmd = "schema" /\ at = "idle" /\ fresh = TRUE
  /\ document = {} /\ specs = {}
  /\ answers = [c \in Commands |-> Unknown]
  /\ last = NoFault
  /\ projection = {} /\ ruleSets = {}
  /\ runs = 0
  /\ before = disk.metadata
  /\ Given(NoGraph)

(* What the files hold before anyone has checked them: the manifest, the   *)
(* application's arguments, and at most one of each document.              *)
ManifestDocs == [lang : STRING, specs : Seq([node : Texts, path : STRING])]
Applications ==
  [contracts : Seq(NodeContracts), caps : Seq(Descriptors),
   sources : Seq([scheme : STRING, set : STRING]), cycles : BOOLEAN]

AtMostOne(S) == \A x, y \in S : x = y

DiskShape(k) ==
  /\ DOMAIN k = {"doc", "ext", "manifest", "comps", "rules", "env", "app", "metadata"}
  /\ k.doc \subseteq Docs /\ AtMostOne(k.doc)
  /\ k.manifest \subseteq ManifestDocs /\ AtMostOne(k.manifest)
  /\ k.app \in Applications
  /\ \A m \in k.manifest : \A i \in DOMAIN m.specs : m.specs[i].path \in DOMAIN k.comps

(* A document that reaches the graph declares the ports of the instance,   *)
(* and tells its ports apart by name.                                      *)
PortNames(s) == {s[i].name : i \in DOMAIN s}
NamesTellApart(s) == \A p, q \in DOMAIN s : s[p].name = s[q].name => s[p] = s[q]
FitsInstance(d) ==
  FormatFault(d) = NoFault =>
    \A i \in DOMAIN d.nodes :
      LET node == d.nodes[i] IN
      /\ node.id.name # 0
      /\ node.id.name \in DOMAIN InPorts \cap DOMAIN OutPorts
      /\ PortNames(node.inputs) = InPorts[node.id.name]
      /\ PortNames(node.outputs) = OutPorts[node.id.name]
      /\ NamesTellApart(node.inputs \o node.outputs)

ASSUME HostAssumption ==
  \A s \in Sessions :
    /\ s.commands \subseteq Commands
    /\ DiskShape(s.disk)
    /\ \A d \in s.disk.doc : FitsInstance(d)

-------------------------------------------------------------------------------
(* Every CliError ends the command with exit code 1; NoFault is success.   *)
(* What a command found out is worth something while the files stay as     *)
(* they were.                                                              *)
Exit(fault) ==
  /\ at' = "idle"
  /\ last' = fault
  /\ answers' = IF fresh THEN [answers EXCEPT ![cmd] = fault] ELSE answers

(* The command goes on with its next step, or ends with a fault.           *)
Proceed(fault, step) ==
  IF fault = NoFault
    THEN at' = step /\ UNCHANGED <<answers, last>>
    ELSE Exit(fault)

(* tracing_targets_from_env: the first variable that is set decides.       *)
TracingFault(env) ==
  LET set == SelectSeq(<<"PUREFLOW_TRACE", "CONDUIT_TRACE", "RUST_LOG">>,
                       LAMBDA name : name \in DOMAIN env)
  IN  IF set # <<>> /\ env[set[1]] = "invalid" THEN <<"tracing", set[1]>> ELSE NoFault

FirstStep(c) ==
  CASE c = "schema" -> "report"
    [] IsManifest(c) -> "read_manifest"
    [] OTHER -> "read_workflow"

(* main and run: tracing is set up, then the command is dispatched.        *)
Start(c) ==
  /\ at = "idle"
  /\ turns > 0
  /\ turns' = turns - 1
  /\ cmd' = c
  /\ fresh' = TRUE
  /\ before' = disk.metadata
  /\ document' = {} /\ specs' = {}
  /\ IF TracingFault(disk.env) = NoFault
       THEN at' = FirstStep(c) /\ UNCHANGED <<answers, last>>
       ELSE /\ at' = "idle"
            /\ last' = TracingFault(disk.env)
            /\ answers' = [answers EXCEPT ![c] = TracingFault(disk.env)]
  /\ Begin(NoGraph)
  /\ UNCHANGED <<disk, menu, edits, projection, ruleSets, runs>>

ReadWorkflow ==
  /\ at = "read_workflow"
  /\ document' = disk.doc
  /\ Proceed(IF disk.doc = {} THEN <<"io", "workflow">> ELSE NoFault,
             CASE cmd = "run_wasm" -> "read_manifest"
               [] cmd = "manifest_workflow" -> "specs"
               [] OTHER -> "decode")
  /\ UNCHANGED <<disk, bounds, cmd, fresh, specs, results, vars>>

ReadManifest ==
  /\ at = "read_manifest"
  /\ specs' = disk.manifest
  /\ Proceed(IF disk.manifest = {} THEN <<"io", "manifest">> ELSE NoFault,
             IF cmd = "manifest_workflow" THEN "read_workflow" ELSE "specs")
  /\ UNCHANGED <<disk, bounds, cmd, fresh, document, results, vars>>

(* wasm_component_specs_from_manifest.                                     *)
SpecsFault(m) ==
  IF m.lang # "json" THEN <<"manifest_json">>
  ELSE FirstFault([i \in DOMAIN m.specs |-> IdFault(m.specs[i].node, "manifest", i)])

ParseManifest ==
  /\ at = "specs"
  /\ \E m \in specs :
       Proceed(SpecsFault(m), IF IsManifest(cmd) THEN "check_manifest" ELSE "decode")
  /\ UNCHANGED <<disk, bounds, cmd, fresh, reading, results, vars>>

SpecNodes(m) == [i \in DOMAIN m.specs |-> m.specs[i].node.name]

(* Fault: two entries for a node are not noticed.                          *)
ManifestFaultNoDuplicates(m) ==
  IF \E i \in DOMAIN m.specs : disk.comps[m.specs[i].path] = "absent"
    THEN <<"manifest_path">> ELSE NoFault

(* validate_wasm_component_manifest, before the workflow is looked at: a   *)
(* path has to exist, whether or not it can be read.                       *)
ManifestFault(m) ==
  IF HasDuplicates(SpecNodes(m)) THEN <<"manifest_duplicate">>
  ELSE IF \E i \in DOMAIN m.specs : disk.comps[m.specs[i].path] = "absent"
    THEN <<"manifest_path">>
  ELSE NoFault

CheckManifest ==
  /\ at = "check_manifest"
  /\ \E m \in specs :
       Proceed(ManifestFault(m), IF cmd = "manifest" THEN "report" ELSE "decode")
  /\ UNCHANGED <<disk, bounds, cmd, fresh, reading, results, vars>>

-------------------------------------------------------------------------------
(* load_workflow picks the parser by the extension of the file; a manifest *)
(* is always checked against a JSON document, and so does the application. *)
ParserFault(doc) ==
  IF cmd \in {"manifest_workflow", "embed"} THEN DecodeFault(doc, "json")
  ELSE CASE disk.ext \in {"json", "none"} -> DecodeFault(doc, "json")
         [] disk.ext = "toml" -> DecodeFault(doc, "toml")
         [] disk.ext \in {"yaml", "yml"} -> DecodeFault(doc, "yaml")
         [] OTHER -> <<"unsupported_extension">>

Registry == [sources |-> IF cmd = "embed" THEN disk.app.sources ELSE <<>>,
             files |-> disk.rules]

(* The application inlines the rule sets before it builds the graph.       *)
Inlined(doc) == IF cmd = "embed" THEN ResolvedDocument(doc, Registry) ELSE doc
InlineFault(doc) == IF cmd = "embed" THEN RuleSetsFault(doc, Registry) ELSE NoFault

(* from_parts refuses cycles, the application may allow them.              *)
GraphGiven(doc) ==
  [GraphOf(doc) EXCEPT !.cycles = cmd = "embed" /\ disk.app.cycles]

Decode ==
  /\ at = "decode"
  /\ \E d \in document :
       LET fault == IF ParserFault(d) # NoFault THEN ParserFault(d)
                    ELSE IF InlineFault(d) # NoFault THEN InlineFault(d)
                    ELSE FormatFault(d)
       IN  /\ Proceed(fault, "graph")
           /\ IF fault = NoFault
                THEN document' = {Inlined(d)} /\ Begin(GraphGiven(d))
                ELSE UNCHANGED <<document, vars>>
  /\ UNCHANGED <<disk, bounds, cmd, fresh, specs, results>>

(* WorkflowDefinition::from_parts.                                         *)
ValidateGraph ==
  /\ at = "graph"
  /\ phase # "done"
  /\ Next
  /\ UNCHANGED hostVars

AfterGraph ==
  CASE cmd \in {"inspect", "embed"} -> "introspect"
    [] cmd = "explain" -> "rule_sets"
    [] cmd = "manifest_workflow" -> "check_nodes"
    [] cmd = "run" -> "execute"
    [] cmd = "run_wasm" -> "registry"
    [] cmd = "validate" -> "report"

GraphValidated ==
  /\ at = "graph"
  /\ phase = "done"
  /\ Proceed(IF verdict.kind = "accepted" THEN NoFault ELSE <<"workflow", verdict.kind>>,
             AfterGraph)
  /\ UNCHANGED <<disk, bounds, cmd, fresh, reading, results, vars>>

(* The command prints what it found and ends.                              *)
Report ==
  /\ at = "report"
  /\ Exit(NoFault)
  /\ UNCHANGED <<disk, bounds, cmd, fresh, reading, results, vars>>

-------------------------------------------------------------------------------
(* The workflow as the contract layer sees it.                             *)
WorkflowOf(doc) ==
  [nodes |-> [i \in DOMAIN doc.nodes |-> doc.nodes[i].id.name],
   edges |-> [i \in DOMAIN doc.edges |->
                [src |-> doc.edges[i].source.node.name,
                 sport |-> doc.edges[i].source.port.name,
                 dst |-> doc.edges[i].target.node.name,
                 dport |-> doc.edges[i].target.port.name]],
   ins |-> [n \in Elems(nodeIds) |-> InPorts[n]],
   outs |-> [n \in Elems(nodeIds) |-> OutPorts[n]]]

(* The declared ports of a node, inputs first, as Make(port, direction).   *)
PortList(node, Make(_, _)) ==
  [i \in DOMAIN node.inputs |-> Make(node.inputs[i].name, "input")]
    \o [i \in DOMAIN node.outputs |-> Make(node.outputs[i].name, "output")]

(* Fault: a passive node only has contracts for what it receives.          *)
PassiveContractInputs(node) ==
  [node |-> node.id.name, mode |-> "native",
   ports |-> [i \in DOMAIN node.inputs |->
                [port |-> node.inputs[i].name, dir |-> "input", schema |-> {}]]]

(* passive_native_contract_for_node, passive_native_capabilities_for_node. *)
PassiveContract(node) ==
  [node |-> node.id.name, mode |-> "native",
   ports |-> PortList(node, LAMBDA p, d : [port |-> p, dir |-> d, schema |-> {}])]
PassiveCapabilities(node) ==
  [node |-> node.id.name, effects |-> <<>>,
   ports |-> PortList(node, LAMBDA p, d : [port |-> p, dir |-> Claim(d)])]

ContractsOf(doc) == IF cmd = "embed" THEN disk.app.contracts
                  ELSE [i \in DOMAIN doc.nodes |-> PassiveContract(doc.nodes[i])]
CapabilitiesOf(doc) == IF cmd = "embed" THEN disk.app.caps
                     ELSE [i \in DOMAIN doc.nodes |-> PassiveCapabilities(doc.nodes[i])]

(* inspect_workflow_json: the descriptors are built, then validated and    *)
(* projected.                                                              *)
InspectFault(doc) ==
  FirstFault(<<Each(ContractsOf(doc), ContractFault),
               Each(CapabilitiesOf(doc), DescriptorFault),
               IntrospectFault(WorkflowOf(doc), ContractsOf(doc), CapabilitiesOf(doc))>>)

Introspect ==
  /\ at = "introspect"
  /\ \E d \in document : \E fault \in {InspectFault(d)} :
       /\ Proceed(fault, "report")
       /\ projection' = IF fault # NoFault THEN {}
                        ELSE {Projection(WorkflowOf(d), ContractsOf(d), CapabilitiesOf(d))}
  /\ UNCHANGED <<disk, bounds, cmd, fresh, reading, ruleSets, runs, before, vars>>

(* load_workflow_with_rules: the rule sets are resolved after the graph    *)
(* has been validated.                                                     *)
ResolveRuleSets ==
  /\ at = "rule_sets"
  /\ \E d \in document :
       /\ Proceed(RuleSetsFault(d, Registry), "report")
       /\ ruleSets' = IF RuleSetsFault(d, Registry) # NoFault THEN {} ELSE RuleSets(d, Registry)
  /\ UNCHANGED <<disk, bounds, cmd, fresh, reading, projection, runs, before, vars>>

(* The end of validate_wasm_component_manifest.                            *)
CheckNodes ==
  /\ at = "check_nodes"
  /\ \E m \in specs :
       Proceed(IF Elems(SpecNodes(m)) \subseteq Elems(nodeIds)
                 THEN NoFault ELSE <<"manifest_node">>, "report")
  /\ UNCHANGED <<disk, bounds, cmd, fresh, reading, results, vars>>

-------------------------------------------------------------------------------
(* What the component of a node turns out to be when it is loaded.         *)
ComponentFault(status) ==
  CASE status \in {"absent", "unreadable"} -> <<"io", "component">>
    [] status = "garbage" -> <<"component">>
    [] OTHER -> NoFault

(* mixed_registry_for_workflow: duplicates, the components of the nodes in *)
(* the order of declaration, then entries for no node.                     *)
RegistryFault(m) ==
  IF HasDuplicates(SpecNodes(m)) THEN <<"manifest_duplicate">>
  ELSE FirstFault(
    <<Each(nodeIds, LAMBDA n :
        FirstFault([i \in DOMAIN m.specs |->
          IF m.specs[i].node.name = n
            THEN ComponentFault(disk.comps[m.specs[i].path]) ELSE NoFault])),
      IF Elems(SpecNodes(m)) \subseteq Elems(nodeIds)
        THEN NoFault ELSE <<"manifest_node">>>>)

BuildRegistry ==
  /\ at = "registry"
  /\ \E m \in specs : Proceed(RegistryFault(m), "execute")
  /\ UNCHANGED <<disk, bounds, cmd, fresh, reading, results, vars>>

(* Fault: the metadata file is opened, and emptied, before the run.        *)
ExecuteIntoFile ==
  /\ at = "execute"
  /\ runs' = runs + 1
  /\ disk' = [disk EXCEPT !.metadata = {[run |-> runs + 1, whole |-> FALSE]}]
  /\ \/ Proceed(NoFault, "create_metadata")
     \/ Exit(<<"runtime">>)
  /\ UNCHANGED <<bounds, cmd, fresh, reading, projection, ruleSets, before, vars>>

(* run_workflow_with_registry_json: the run leaves a summary, whatever its *)
(* terminal state, and its records in memory; a run that cannot start, or  *)
(* whose records cannot be taken back from the sink, is a runtime error.   *)
(* This is the step in which block_on returns: it may never come when the  *)
(* run waits for ever (RunMayWait), since the host sets no deadline.       *)
Execute ==
  /\ at = "execute"
  /\ runs' = runs + 1
  /\ \/ Proceed(NoFault, "create_metadata")
     \/ Exit(<<"runtime">>)
  /\ UNCHANGED <<disk, bounds, cmd, fresh, reading, projection, ruleSets, before, vars>>

(* write_file is fs::write: the file is created or emptied, then filled;   *)
(* either may fail.                                                        *)
CreateMetadata ==
  /\ at = "create_metadata"
  /\ \/ /\ disk' = [disk EXCEPT !.metadata = {[run |-> runs, whole |-> FALSE]}]
        /\ Proceed(NoFault, "fill_metadata")
     \/ Exit(<<"io", "metadata">>) /\ UNCHANGED disk
  /\ UNCHANGED <<bounds, cmd, fresh, reading, results, vars>>

FillMetadata ==
  /\ at = "fill_metadata"
  /\ \/ /\ disk' = [disk EXCEPT !.metadata = {[run |-> runs, whole |-> TRUE]}]
        /\ Proceed(NoFault, "report")
     \/ Exit(<<"io", "metadata">>) /\ UNCHANGED disk
  /\ UNCHANGED <<bounds, cmd, fresh, reading, results, vars>>

-------------------------------------------------------------------------------
(* Someone changes a file; what the commands said no longer counts.        *)
Changed(d) ==
  /\ edits > 0
  /\ edits' = edits - 1
  /\ disk' = d
  /\ fresh' = FALSE
  /\ answers' = [c \in Commands |-> Unknown]
  /\ UNCHANGED <<menu, turns, cmd, at, reading, last, results, vars>>

ReplaceComponent(path, status) ==
  /\ disk.comps[path] # status
  /\ Changed([disk EXCEPT !.comps[path] = status])

RemoveWorkflow == disk.doc # {} /\ Changed([disk EXCEPT !.doc = {}])

Step ==
  \/ ReadWorkflow \/ ReadManifest \/ ParseManifest \/ CheckManifest
  \/ Decode \/ ValidateGraph \/ GraphValidated
  \/ Introspect \/ ResolveRuleSets \/ CheckNodes
  \/ BuildRegistry \/ Execute \/ CreateMetadata \/ FillMetadata
  \/ Report

HostNext ==
  \/ \E c \in menu : Start(c)
  \/ Step
  \/ \E path \in DOMAIN disk.comps, status \in {"absent", "component"} :
       ReplaceComponent(path, status)
  \/ RemoveWorkflow

allVars == <<hostVars, vars>>

HostSpec == HostInit /\ [][HostNext]_allVars

(* A run with components among its nodes may wait for ever: a native node  *)
(* drains its ports one after the other while a component fills them in an *)
(* order of its own (CrossedWait of WorkflowRun), and no deadline ends it. *)
(* Without components every node sends one packet on a port, for which its *)
(* edges have a slot, and the run returns.                                 *)
RunMayWait == cmd = "run_wasm" /\ at = "execute"

(* A command runs on its own thread of control, from step to step, but for *)
(* a run that may wait.                                                    *)
FairHostSpec == HostSpec /\ WF_allVars(Step /\ ~RunMayWait)

-------------------------------------------------------------------------------
Accepted(c) == answers[c] = NoFault
Refused(c) == answers[c] \notin {NoFault, Unknown}

(* Over the same files the commands agree.  inspect refuses exactly what   *)
(* validate refuses, since the passive contracts it makes up fit every     *)
(* valid workflow; a document that validate refuses is neither explained   *)
(* nor run, and for the same reason; explain refuses a valid one only for  *)
(* its rule sets.                                                          *)
CommandsAgree ==
  /\ Accepted("validate") => ~Refused("inspect")
  /\ Refused("validate") =>
       \A c \in {"inspect", "explain", "run"} : answers[c] \in {answers["validate"], Unknown}
  /\ Accepted("validate") /\ Refused("explain") => answers["explain"][1] = "rule_set"
  /\ \A c \in {"explain", "run", "run_wasm"} : Accepted(c) => ~Refused("validate")

LoadFaults == {<<"io", "component">>, <<"component">>}
RunFaults == {<<"runtime">>, <<"io", "metadata">>}

(* A manifest that validate-manifest accepts together with a workflow does *)
(* not stop a run over the same files, but for a component that exists and *)
(* cannot be loaded, or a workflow file whose extension run does not read  *)
(* as JSON; and a manifest with which the workflow runs is a valid one.    *)
ManifestForetellsRun ==
  LET json == disk.ext \in {"json", "none"}
  IN  /\ Accepted("manifest_workflow") /\ json /\ Refused("run_wasm") =>
           \/ answers["run_wasm"] \in RunFaults
           \/ /\ answers["run_wasm"] \in LoadFaults
              /\ \E path \in DOMAIN disk.comps : disk.comps[path] \in {"unreadable", "garbage"}
      /\ Accepted("run_wasm") /\ json => ~Refused("manifest_workflow")

(* A projection that the validation before it stands for: its nodes have   *)
(* the ports they declare, with the matching capability, no effect behind  *)
(* a strict boundary, and its edges equal schemas at both ends wherever    *)
(* both ends have one.                                                     *)
ValidProjection(p) ==
  /\ \A i \in DOMAIN p.nodes :
       LET v == p.nodes[i] IN
       /\ {q.port : q \in v.ports} = InPorts[v.node] \cup OutPorts[v.node]
       /\ \A q \in v.ports :
            q.capability = IF q.port \in InPorts[v.node] THEN {"receive"} ELSE {"emit"}
       /\ v.enforcement = "strict" => v.effects = <<>>
  /\ \A i \in DOMAIN p.edges :
       p.edges[i].source = p.edges[i].target \/ {} \in {p.edges[i].source, p.edges[i].target}

(* It shows every node and every edge of the workflow, in their order.     *)
WholeProjection(p, doc) ==
  /\ [i \in DOMAIN p.nodes |-> p.nodes[i].node] = nodeIds
  /\ [i \in DOMAIN p.edges |-> p.edges[i].edge] = WorkflowOf(doc).edges

Introspected == at = "report" /\ cmd \in {"inspect", "embed"}

(* What introspect_workflow returns is the whole workflow as it was        *)
(* validated: the entries it looks up for its nodes are those the          *)
(* validation has seen, also when an application gives several for a node. *)
IntrospectionSound ==
  /\ \A p \in projection : ValidProjection(p)
  /\ Introspected => \E p \in projection, d \in document : WholeProjection(p, d)

(* The metadata file between commands.  Only a run touches it, and only    *)
(* once it has records: after any other command, and after a run that      *)
(* failed before that, it is what it was before.  A run that succeeded has *)
(* left all of its records there.  A run that could not write may have     *)
(* emptied the file of the records of earlier runs, since it is truncated  *)
(* first; then it has told so, with the I/O error, and what it left is     *)
(* never mistaken for a whole record of a run.                             *)
EvidenceKept ==
  at = "idle" =>
    \/ disk.metadata = before /\ ~(IsRun(cmd) /\ last = NoFault)
    \/ /\ IsRun(cmd) /\ last \in {NoFault, <<"io", "metadata">>}
       /\ disk.metadata = {[run |-> runs, whole |-> last = NoFault]}

(* Every command ends, with its report or with an error: the validation of *)
(* any graph does, and a command waits for nothing but its run, of which   *)
(* only one with components may last for ever.                             *)
CommandEnds == at # "idle" ~> (at = "idle" \/ RunMayWait)
================================================================================
