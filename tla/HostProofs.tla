------------------------------- MODULE HostProofs ------------------------------
(***************************************************************************)
(* Proofs about Host, for every set of sessions: what the commands answer  *)
(* about the same files fits together, what introspection returns is what  *)
(* the workflow declares, and the metadata file is what the last run left. *)
(*                                                                         *)
(* The invariants follow a command through its steps: which steps belong   *)
(* to it, what it has read, what it knows about the files as long as they  *)
(* stay the same, and from that what its answer says about them.           *)
(***************************************************************************)
EXTENDS Host, GraphProofs

(* The steps each command goes through.                                    *)
StepOfCommand ==
  /\ menu \subseteq Commands
  /\ cmd \in Commands
  /\ CASE at \in {"idle", "report"} -> TRUE
       [] at = "read_workflow" -> cmd \notin {"manifest", "schema"}
       [] at \in {"read_manifest", "specs"} -> cmd = "run_wasm" \/ IsManifest(cmd)
       [] at = "check_manifest" -> IsManifest(cmd)
       [] at \in {"decode", "graph"} -> cmd \notin {"manifest", "schema"}
       [] at = "introspect" -> cmd \in {"inspect", "embed"}
       [] at = "rule_sets" -> cmd = "explain"
       [] at = "check_nodes" -> cmd = "manifest_workflow"
       [] at = "registry" -> cmd = "run_wasm"
       [] at \in {"execute", "create_metadata", "fill_metadata"} -> IsRun(cmd)
       [] OTHER -> FALSE

DiskIsSound == DiskShape(disk) /\ \A d \in disk.doc : FitsInstance(d)

(* The metadata file during a command.                                     *)
Evidence ==
  /\ EvidenceKept
  /\ at \notin {"idle", "fill_metadata", "report"} => disk.metadata = before
  /\ at = "fill_metadata" => disk.metadata = {[run |-> runs, whole |-> FALSE]}
  /\ at = "report" =>
       disk.metadata = IF IsRun(cmd) THEN {[run |-> runs, whole |-> TRUE]} ELSE before

(* How far a command has come with each of its files.                      *)
HasWorkflow ==
  /\ at # "idle" /\ cmd \notin {"manifest", "schema"}
  /\ at # "read_workflow" /\ ~(at = "read_manifest" /\ cmd = "manifest_workflow")
HasManifest ==
  /\ at # "idle" /\ (cmd = "run_wasm" \/ IsManifest(cmd))
  /\ at # "read_manifest" /\ ~(at = "read_workflow" /\ cmd = "run_wasm")
HasSpecs == HasManifest /\ at \notin {"read_workflow", "read_manifest", "specs"}
HasDecoded == HasWorkflow /\ at \notin {"read_manifest", "specs", "check_manifest", "decode"}
HasGraph == HasDecoded /\ at # "graph"

PortsAreNumbers == \A i \in DOMAIN nodeIds : InPorts[nodeIds[i]] \cup OutPorts[nodeIds[i]] \subseteq Nat

(* The document that was read, and the graph that was built from it.       *)
Documented ==
  /\ HasWorkflow /\ ~HasDecoded => \A d \in document : d \in Docs /\ FitsInstance(d)
  /\ HasDecoded =>
       \A d \in document :
         /\ DOMAIN d.nodes \subseteq Nat /\ DOMAIN d.edges \subseteq Nat
         /\ nodeIds = [i \in DOMAIN d.nodes |-> d.nodes[i].id.name]
         /\ cmd # "embed" =>
              d \in Docs /\ FitsInstance(d) /\ FormatFault(d) = NoFault /\ Graph = GraphOf(d)
  /\ HasDecoded => PortsAreNumbers
  /\ HasGraph => phase = "done" /\ verdict.kind = "accepted"

(* What there is to find out about the files.                              *)
KnowsDocument == document # {} /\ document = disk.doc
KnowsManifest == specs # {} /\ specs = disk.manifest
SpecsAreGood == \A m \in disk.manifest : SpecsFault(m) = NoFault
ManifestIsGood == \A m \in disk.manifest : ManifestFault(m) = NoFault
DocumentParses == \A d \in disk.doc : ParserFault(d) = NoFault
ManifestNamesNodes == \A m \in disk.manifest : Elems(SpecNodes(m)) \subseteq Elems(nodeIds)
ComponentsLoad == \A m \in disk.manifest : RegistryFault(m) = NoFault

(* What the command has found out, as long as they are still the same.     *)
Informed ==
  fresh /\ at # "idle" =>
    /\ TracingFault(disk.env) = NoFault
    /\ HasWorkflow /\ cmd # "embed" => KnowsDocument
    /\ HasManifest => KnowsManifest
    /\ HasSpecs => SpecsAreGood
    /\ IsManifest(cmd) /\ HasSpecs /\ at # "check_manifest" => ManifestIsGood
    /\ HasDecoded /\ cmd # "embed" => DocumentParses
    /\ cmd = "manifest_workflow" /\ at = "report" => ManifestNamesNodes
    /\ cmd = "run_wasm" /\ HasGraph /\ at # "registry" => ComponentsLoad

(* What reading and validating the workflow file comes to, and whether the *)
(* manifest is good for the workflow.                                      *)
ExtensionFault(d, ext) ==
  CASE ext \in {"json", "none"} -> DecodeFault(d, "json")
    [] ext = "toml" -> DecodeFault(d, "toml")
    [] ext \in {"yaml", "yml"} -> DecodeFault(d, "yaml")
    [] OTHER -> <<"unsupported_extension">>

GraphFault(d) ==
  IF Decision(GraphOf(d)) = "accepted" THEN NoFault ELSE <<"workflow", Decision(GraphOf(d))>>

DocFault(d, ext) ==
  IF ExtensionFault(d, ext) # NoFault THEN ExtensionFault(d, ext)
  ELSE IF FormatFault(d) # NoFault THEN FormatFault(d)
  ELSE GraphFault(d)

LoadFaultOf(env, docs, ext) ==
  IF TracingFault(env) # NoFault THEN TracingFault(env)
  ELSE IF docs = {} THEN <<"io", "workflow">>
  ELSE DocFault(CHOOSE d \in docs : TRUE, ext)

LoadFault == LoadFaultOf(disk.env, disk.doc, disk.ext)

Json == disk.ext \in {"json", "none"}

GoodWorkflow(d) ==
  DecodeFault(d, "json") = NoFault /\ FormatFault(d) = NoFault /\ GraphFault(d) = NoFault

GoodManifest ==
  /\ TracingFault(disk.env) = NoFault
  /\ disk.doc # {} /\ disk.manifest # {}
  /\ \A d \in disk.doc :
       /\ GoodWorkflow(d)
       /\ \A m \in disk.manifest : Elems(SpecNodes(m)) \subseteq Elems(GraphOf(d).nodes)
  /\ SpecsAreGood /\ ManifestIsGood

Unloadable == \E path \in DOMAIN disk.comps : disk.comps[path] \in {"unreadable", "garbage"}

(* What the answer f of command c says about the files.                    *)
SoundIn(c, f, load, json, good, unloadable) ==
  /\ c \in {"validate", "inspect"} => f = load
  /\ c = "explain" => f = load \/ (load = NoFault /\ f # NoFault /\ f[1] = "rule_set")
  /\ c = "run" => f = load \/ load = NoFault
  /\ c = "run_wasm" =>
       /\ f = NoFault => load = NoFault /\ (json => good)
       /\ f # NoFault => \/ f \in RunFaults
                         \/ json => ~good
                         \/ f \in LoadFaults /\ unloadable
  /\ c = "manifest_workflow" => (f = NoFault <=> good)

Sound(c, f) == SoundIn(c, f, LoadFault, Json, GoodManifest, Unloadable)

AnswersSound ==
  /\ DOMAIN answers = Commands
  /\ \A c \in Commands : answers[c] = Unknown \/ Sound(c, answers[c])

-------------------------------------------------------------------------------
(* Checks that stop at the first fault *)

LEMMA LeastFaultFound ==
  ASSUME NEW S, \A c \in S : c[1] \in Nat
  PROVE  /\ LeastFault(S) = NoFault <=> \A c \in S : c[2] = NoFault
         /\ LeastFault(S) # NoFault => \E c \in S : c[2] = LeastFault(S)
<1> DEFINE failed == {c \in S : c[2] # NoFault}
<1>1. LeastFault(S) = FaultOf(failed)
  <2>1. {FaultOf(T) : T \in {failed}} = {FaultOf(failed)}
    OBVIOUS
  <2>2. QED
    BY <2>1 DEF LeastFault
<1>2. CASE failed = {}
  BY <1>1, <1>2 DEF FaultOf
<1>3. CASE failed # {}
  <2> DEFINE places == {c[1] : c \in failed}
  <2>1. places \subseteq Nat /\ places # {}
    BY <1>3
  <2>2. PICK i \in places : \A j \in places : i <= j
    <3> HIDE DEF places
    <3> QED
      BY <2>1, LeastNumber
  <2>3. \E c \in failed : \A d \in failed : c[1] <= d[1]
    BY <2>2
  <2>4. PICK c \in failed : FaultOf(failed) = c[2]
    <3> HIDE DEF failed
    <3> QED
      BY <1>3, <2>3 DEF FaultOf
  <2>5. QED
    BY <1>1, <2>4
<1>4. QED
  BY <1>2, <1>3

LEMMA FirstFaultFound ==
  ASSUME NEW s, DOMAIN s \subseteq Nat
  PROVE  /\ FirstFault(s) = NoFault <=> \A i \in DOMAIN s : s[i] = NoFault
         /\ FirstFault(s) # NoFault => \E i \in DOMAIN s : s[i] = FirstFault(s)
<1> DEFINE S == {<<i, s[i]>> : i \in DOMAIN s}
<1>1. \A c \in S : c[1] \in Nat
  OBVIOUS
<1>2. FirstFault(s) = LeastFault(S)
  BY DEF FirstFault
<1>3. \A i \in DOMAIN s : \E c \in S : c[2] = s[i]
  <2> TAKE i \in DOMAIN s
  <2>1. <<i, s[i]>> \in S /\ <<i, s[i]>>[2] = s[i]
    OBVIOUS
  <2>2. QED
    BY <2>1
<1>4. \A c \in S : \E i \in DOMAIN s : c[2] = s[i]
  OBVIOUS
<1> HIDE DEF S
<1>5. QED
  BY <1>1, <1>2, <1>3, <1>4, LeastFaultFound

-------------------------------------------------------------------------------
(* Steps *)

(* A step of a command goes on or ends it.                                 *)
LEMMA ProceedCases ==
  ASSUME NEW fault, NEW step, Proceed(fault, step)
  PROVE  \/ fault = NoFault /\ at' = step /\ UNCHANGED <<answers, last>>
         \/ /\ fault # NoFault /\ at' = "idle" /\ last' = fault
            /\ answers' = IF fresh THEN [answers EXCEPT ![cmd] = fault] ELSE answers
  BY DEF Proceed, Exit

LEMMA CommandStep == StepOfCommand /\ [HostNext]_allVars => StepOfCommand'
<1> SUFFICES ASSUME StepOfCommand, [HostNext]_allVars PROVE StepOfCommand'
  OBVIOUS
<1> USE DEF bounds, reading, results, IsRun, IsManifest, Commands
<1>0. menu \subseteq Commands /\ cmd \in Commands
  BY DEF StepOfCommand
<1>1. ASSUME NEW c \in menu, Start(c) PROVE StepOfCommand'
  BY <1>0, <1>1 DEF Start, FirstStep, StepOfCommand
<1>2. CASE ReadWorkflow
  BY <1>0, <1>2, ProceedCases DEF ReadWorkflow, StepOfCommand
<1>3. CASE ReadManifest
  BY <1>0, <1>3, ProceedCases DEF ReadManifest, StepOfCommand
<1>4. CASE ParseManifest
  BY <1>0, <1>4, ProceedCases DEF ParseManifest, StepOfCommand
<1>5. CASE CheckManifest
  BY <1>0, <1>5, ProceedCases DEF CheckManifest, StepOfCommand
<1>6. CASE Decode
  BY <1>0, <1>6, ProceedCases DEF Decode, StepOfCommand
<1>7. CASE ValidateGraph
  BY <1>0, <1>7 DEF ValidateGraph, hostVars, StepOfCommand
<1>8. CASE GraphValidated
  BY <1>0, <1>8, ProceedCases DEF GraphValidated, AfterGraph, StepOfCommand
<1>9. CASE Introspect
  BY <1>0, <1>9, ProceedCases DEF Introspect, StepOfCommand
<1>10. CASE ResolveRuleSets
  BY <1>0, <1>10, ProceedCases DEF ResolveRuleSets, StepOfCommand
<1>11. CASE CheckNodes
  BY <1>0, <1>11, ProceedCases DEF CheckNodes, StepOfCommand
<1>12. CASE BuildRegistry
  BY <1>0, <1>12, ProceedCases DEF BuildRegistry, StepOfCommand
<1>13. CASE Execute
  BY <1>0, <1>13, ProceedCases DEF Execute, Exit, StepOfCommand
<1>14. CASE CreateMetadata
  BY <1>0, <1>14, ProceedCases DEF CreateMetadata, Exit, StepOfCommand
<1>15. CASE FillMetadata
  BY <1>0, <1>15, ProceedCases DEF FillMetadata, Exit, StepOfCommand
<1>16. CASE Report
  BY <1>0, <1>16 DEF Report, Exit, StepOfCommand
<1>17. ASSUME NEW d, Changed(d) PROVE StepOfCommand'
  BY <1>17 DEF Changed, StepOfCommand
<1>18. CASE UNCHANGED allVars
  BY <1>18 DEF allVars, hostVars, StepOfCommand
<1>19. QED
  BY <1>1, <1>2, <1>3, <1>4, <1>5, <1>6, <1>7, <1>8, <1>9, <1>10, <1>11, <1>12, <1>13, <1>14,
     <1>15, <1>16, <1>17, <1>18 DEF HostNext, Step, ReplaceComponent, RemoveWorkflow

(* The files stay what they are, but for a change by someone or the        *)
(* metadata of a run.                                                      *)
LEMMA DiskStep == DiskIsSound /\ [HostNext]_allVars => DiskIsSound'
<1> SUFFICES ASSUME DiskIsSound, [HostNext]_allVars PROVE DiskIsSound'
  OBVIOUS
<1>1. CASE UNCHANGED disk
  BY <1>1 DEF DiskIsSound, DiskShape
<1>2. ASSUME NEW x, disk' = [disk EXCEPT !.metadata = x] PROVE DiskIsSound'
  BY <1>2 DEF DiskIsSound, DiskShape
<1>3. ASSUME NEW path, NEW status, disk' = [disk EXCEPT !.comps[path] = status]
      PROVE  DiskIsSound'
  BY <1>3 DEF DiskIsSound, DiskShape
<1>4. CASE disk' = [disk EXCEPT !.doc = {}]
  BY <1>4 DEF DiskIsSound, DiskShape, AtMostOne
<1>5. \/ UNCHANGED disk
      \/ \E x : disk' = [disk EXCEPT !.metadata = x]
      \/ \E path, status : disk' = [disk EXCEPT !.comps[path] = status]
      \/ disk' = [disk EXCEPT !.doc = {}]
  BY DEF HostNext, Step, Start, ReadWorkflow, ReadManifest, ParseManifest, CheckManifest, Decode,
         ValidateGraph, GraphValidated, Introspect, ResolveRuleSets, CheckNodes, BuildRegistry,
         Execute, CreateMetadata, FillMetadata, Report, ReplaceComponent, RemoveWorkflow, Changed,
         allVars, hostVars
<1>6. QED
  BY <1>1, <1>2, <1>3, <1>4, <1>5

-------------------------------------------------------------------------------
(* The metadata file *)

LEMMA EvidenceStep ==
  StepOfCommand /\ DiskIsSound /\ Evidence /\ [HostNext]_allVars => Evidence'
<1> SUFFICES ASSUME StepOfCommand, DiskIsSound, Evidence, [HostNext]_allVars PROVE Evidence'
  OBVIOUS
<1> USE DEF bounds, reading, results, IsRun, IsManifest, NoFault
<1>0. "metadata" \in DOMAIN disk /\ cmd \in Commands
  BY DEF DiskIsSound, DiskShape, StepOfCommand
(* A step that writes no metadata and either ends with a fault or goes on  *)
(* to a step before the run has records.                                   *)
<1>u. ASSUME UNCHANGED <<cmd, before, disk, runs>>, disk.metadata = before,
             \/ at' = "idle" /\ last' # NoFault
             \/ at' \notin {"idle", "fill_metadata", "report"}
             \/ at' = "report" /\ ~IsRun(cmd)
      PROVE  Evidence'
  BY <1>u DEF Evidence, EvidenceKept
<1>w. at \notin {"idle", "fill_metadata", "report"} => disk.metadata = before
  BY DEF Evidence
<1>1. ASSUME NEW c \in menu, Start(c) PROVE Evidence'
  <2>1. c \in Commands
    BY <1>1 DEF StepOfCommand
  <2>2. at' \in {"read_workflow", "read_manifest"} \/ (at' = "report" /\ c = "schema")
        \/ (at' = "idle" /\ last' # NoFault)
    BY <1>1, <2>1 DEF Start, FirstStep, Commands
  <2>3. disk' = disk /\ before' = disk.metadata /\ cmd' = c
    BY <1>1 DEF Start
  <2>4. QED
    BY <2>2, <2>3 DEF Evidence, EvidenceKept
<1>2. CASE ReadWorkflow
  BY <1>2, <1>u, <1>w, ProceedCases DEF ReadWorkflow
<1>3. CASE ReadManifest
  BY <1>3, <1>u, <1>w, ProceedCases DEF ReadManifest
<1>4. CASE ParseManifest
  BY <1>4, <1>u, <1>w, ProceedCases DEF ParseManifest
<1>5. CASE CheckManifest
  BY <1>5, <1>u, <1>w, ProceedCases DEF CheckManifest
<1>6. CASE Decode
  BY <1>6, <1>u, <1>w, ProceedCases DEF Decode
<1>7. CASE ValidateGraph
  BY <1>7, <1>u, <1>w DEF ValidateGraph, hostVars
<1>8. CASE GraphValidated
  <2>1. cmd \notin {"manifest", "schema"}
    BY <1>8 DEF GraphValidated, StepOfCommand
  <2>2. AfterGraph \notin {"idle", "fill_metadata", "report"} \/ (AfterGraph = "report" /\ ~IsRun(cmd))
    BY <1>0, <2>1 DEF AfterGraph, Commands
  <2>3. QED
    BY <1>8, <1>u, <1>w, <2>2, ProceedCases DEF GraphValidated
<1>9. CASE Introspect
  BY <1>9, <1>u, <1>w, ProceedCases DEF Introspect, StepOfCommand
<1>10. CASE ResolveRuleSets
  BY <1>10, <1>u, <1>w, ProceedCases DEF ResolveRuleSets, StepOfCommand
<1>11. CASE CheckNodes
  BY <1>11, <1>u, <1>w, ProceedCases DEF CheckNodes, StepOfCommand
<1>12. CASE BuildRegistry
  BY <1>12, <1>u, <1>w, ProceedCases DEF BuildRegistry
<1>13. CASE Execute
  <2>1. disk.metadata = before /\ UNCHANGED <<disk, before, cmd>>
    BY <1>13, <1>w DEF Execute
  <2>2. at' = "create_metadata" \/ (at' = "idle" /\ last' # NoFault)
    BY <1>13, ProceedCases DEF Execute, Exit
  <2>3. QED
    BY <2>1, <2>2 DEF Evidence, EvidenceKept
<1>14. CASE CreateMetadata
  <2>1. CASE Exit(<<"io", "metadata">>) /\ UNCHANGED disk
    BY <1>14, <1>u, <1>w, <2>1 DEF CreateMetadata, Exit
  <2>2. CASE disk' = [disk EXCEPT !.metadata = {[run |-> runs, whole |-> FALSE]}] /\ at' = "fill_metadata"
    <3>1. runs' = runs
      BY <1>14 DEF CreateMetadata
    <3>2. QED
      BY <1>0, <2>2, <3>1 DEF Evidence, EvidenceKept
  <2>3. QED
    BY <1>14, <2>1, <2>2 DEF CreateMetadata, Proceed
<1>15. CASE FillMetadata
  <2>1. IsRun(cmd) /\ UNCHANGED <<cmd, runs>>
    BY <1>15 DEF FillMetadata, StepOfCommand
  <2>2. CASE Exit(<<"io", "metadata">>) /\ UNCHANGED disk
    <3>1. at' = "idle" /\ last' = <<"io", "metadata">> /\ last' # NoFault
      BY <2>2 DEF Exit
    <3>2. disk'.metadata = {[run |-> runs, whole |-> FALSE]}
      BY <1>15, <2>2 DEF FillMetadata, Evidence
    <3>3. disk'.metadata = {[run |-> runs', whole |-> last' = NoFault]}
      BY <2>1, <3>1, <3>2
    <3>4. QED
      BY <2>1, <3>1, <3>3 DEF Evidence, EvidenceKept
  <2>3. CASE disk' = [disk EXCEPT !.metadata = {[run |-> runs, whole |-> TRUE]}] /\ at' = "report"
    BY <1>0, <2>1, <2>3 DEF Evidence, EvidenceKept
  <2>4. QED
    BY <1>15, <2>2, <2>3 DEF FillMetadata, Proceed
<1>16. CASE Report
  <2>1. at' = "idle" /\ last' = NoFault /\ UNCHANGED <<disk, cmd, runs, before>>
    BY <1>16 DEF Report, Exit
  <2>2. disk.metadata = IF IsRun(cmd) THEN {[run |-> runs, whole |-> TRUE]} ELSE before
    BY <1>16 DEF Report, Evidence
  <2>3. IsRun(cmd) => disk'.metadata = {[run |-> runs', whole |-> last' = NoFault]}
    BY <2>1, <2>2
  <2>4. QED
    BY <2>1, <2>2, <2>3 DEF Evidence, EvidenceKept
<1>17. ASSUME Changed(disk'), disk'.metadata = disk.metadata PROVE Evidence'
  BY <1>17 DEF Changed, Evidence, EvidenceKept
<1>18. ASSUME NEW path, NEW status, ReplaceComponent(path, status) PROVE Evidence'
  <2>1. Changed(disk') /\ disk'.metadata = disk.metadata
    BY <1>0, <1>18 DEF ReplaceComponent, Changed
  <2>2. QED
    BY <1>17, <2>1
<1>19. CASE RemoveWorkflow
  <2>1. Changed(disk') /\ disk'.metadata = disk.metadata
    BY <1>0, <1>19 DEF RemoveWorkflow, Changed
  <2>2. QED
    BY <1>17, <2>1
<1>20. CASE UNCHANGED allVars
  BY <1>20 DEF allVars, hostVars, Evidence, EvidenceKept
<1>21. QED
  BY <1>1, <1>2, <1>3, <1>4, <1>5, <1>6, <1>7, <1>8, <1>9, <1>10, <1>11, <1>12, <1>13, <1>14,
     <1>15, <1>16, <1>18, <1>19, <1>20 DEF HostNext, Step

LEMMA InitHost == HostInit => StepOfCommand /\ DiskIsSound /\ Evidence
  BY HostAssumption DEF HostInit, StepOfCommand, DiskIsSound, Evidence, EvidenceKept, Commands, IsRun

LEMMA HostSteps == HostSpec => [](StepOfCommand /\ DiskIsSound)
<1>1. StepOfCommand /\ DiskIsSound /\ [HostNext]_allVars => (StepOfCommand /\ DiskIsSound)'
  BY CommandStep, DiskStep
<1>2. QED
  BY <1>1, InitHost, PTL DEF HostSpec

(* The metadata file between commands is what it was before the command,   *)
(* or the command is a run: one that succeeded, and the file has all of    *)
(* its records, or one that could not write, has said so, and may have     *)
(* left an emptied file in place of the records of earlier runs.  For      *)
(* every sequence of commands and failures.                                *)
THEOREM EvidenceIsKept == HostSpec => []EvidenceKept
<1>1. StepOfCommand /\ DiskIsSound /\ Evidence /\ [HostNext]_allVars => Evidence'
  BY EvidenceStep
<1>2. Evidence => EvidenceKept
  BY DEF Evidence
<1>3. QED
  BY <1>1, <1>2, InitHost, HostSteps, PTL DEF HostSpec

-------------------------------------------------------------------------------
(* Lists put together, and the checks of a document *)

IsList(s, n) == n \in Nat /\ DOMAIN s = 1..n /\ s = [i \in 1..n |-> s[i]]

LEMMA ListIsSeq ==
  ASSUME NEW s, NEW n, IsList(s, n)
  PROVE  s \in Seq({s[i] : i \in 1..n}) /\ Len(s) = n
<1> DEFINE A == {s[i] : i \in 1..n}
<1>1. s \in [1..n -> A] /\ n \in Nat
  BY DEF IsList
<1> HIDE DEF A
<1>2. s \in Seq(A)
  BY <1>1
<1>3. Len(s) = n
  BY <1>1, <1>2
<1>4. QED
  BY <1>2, <1>3 DEF A

LEMMA SeqIsList ==
  ASSUME NEW A, NEW s \in Seq(A)
  PROVE  IsList(s, Len(s))
  BY DEF IsList

(* Two lists in a row, under a name of its own for the provers.            *)
Join(s, t) == s \o t

IsJoined(u, s, m, t, n) ==
  /\ IsList(u, m + n)
  /\ \A i \in 1..m : i \in DOMAIN u /\ u[i] = s[i]
  /\ \A i \in 1..n : m + i \in DOMAIN u /\ u[m + i] = t[i]
  /\ \A k \in DOMAIN u : \/ k \in 1..m /\ u[k] = s[k]
                        \/ \E i \in 1..n : k = m + i /\ u[k] = t[i]

LEMMA Joined ==
  ASSUME NEW s, NEW m, NEW t, NEW n, IsList(s, m), IsList(t, n)
  PROVE  IsJoined(Join(s, t), s, m, t, n)
<1> DEFINE A == {s[i] : i \in 1..m} \cup {t[i] : i \in 1..n}
<1>1. m \in Nat /\ n \in Nat
  BY DEF IsList
<1>2. s \in Seq(A) /\ t \in Seq(A) /\ Len(s) = m /\ Len(t) = n
  <2>1. s \in [1..m -> A] /\ t \in [1..n -> A]
    BY DEF IsList
  <2> HIDE DEF A
  <2>2. QED
    BY <1>1, <2>1
<1> DEFINE u == s \o t
<1> HIDE DEF A
<1>3. /\ u \in Seq(A) /\ Len(u) = m + n
      /\ \A i \in 1..(m + n) : u[i] = IF i <= m THEN s[i] ELSE t[i - m]
  BY <1>1, <1>2
<1> HIDE DEF u
<1>4. IsList(u, m + n)
  BY <1>3, SeqIsList
<1>5. DOMAIN u = 1..(m + n)
  BY <1>4 DEF IsList
<1>6. ASSUME NEW i \in 1..m PROVE i \in DOMAIN u /\ u[i] = s[i]
  BY <1>1, <1>3, <1>5
<1>7. ASSUME NEW i \in 1..n PROVE m + i \in DOMAIN u /\ u[m + i] = t[i]
  <2>1. m + i \in 1..(m + n) /\ ~(m + i <= m) /\ (m + i) - m = i
    BY <1>1
  <2>2. u[m + i] = t[(m + i) - m]
    BY <1>3, <2>1
  <2>3. QED
    BY <1>5, <2>1, <2>2
<1>8. ASSUME NEW k \in DOMAIN u
      PROVE  \/ k \in 1..m /\ u[k] = s[k]
             \/ \E i \in 1..n : k = m + i /\ u[k] = t[i]
  <2>1. CASE k <= m
    BY <1>1, <1>3, <1>5, <2>1
  <2>2. CASE ~(k <= m)
    <3>1. k \in 1..(m + n)
      BY <1>5
    <3>2. k - m \in 1..n /\ k = m + (k - m)
      BY <1>1, <2>2, <3>1
    <3>3. u[k] = t[k - m]
      BY <1>3, <2>2, <3>1
    <3>4. QED
      BY <3>2, <3>3
  <2>3. QED
    BY <2>1, <2>2
<1>9. u = Join(s, t)
  BY DEF u, Join
<1>10. IsJoined(u, s, m, t, n)
  BY <1>4, <1>6, <1>7, <1>8 DEF IsJoined
<1>11. QED
  BY <1>9, <1>10

(* A document that passes has nodes that pass, and their ports differ.     *)
LEMMA FormatChecksNodes ==
  ASSUME NEW d \in Docs, FormatFault(d) = NoFault, NEW k \in DOMAIN d.nodes
  PROVE  ~Repeats(d.nodes[k].inputs \o d.nodes[k].outputs)
<1> DEFINE n == Len(d.nodes)
           a == <<VersionFault(d), IdFault(d.id, "workflow", 0)>>
           b == [i \in DOMAIN d.nodes |-> NodeFault(d.nodes[i], i)]
           c == [i \in DOMAIN d.edges |-> EdgeFault(d.edges[i], i)]
<1>1. /\ d.nodes \in Seq(NodeDocs) /\ d.edges \in Seq(EdgeDocs)
      /\ DOMAIN d.nodes = 1..n /\ n \in Nat /\ d.nodes[k] \in NodeDocs
  BY DEF Docs
<1>2. IsList(a, 2) /\ a[1] = VersionFault(d)
  BY DEF IsList
<1>3. IsList(b, n)
  BY <1>1 DEF IsList
<1>4. IsList(c, Len(d.edges))
  BY <1>1 DEF IsList
<1>5. b[k] = NodeFault(d.nodes[k], k) /\ k \in 1..n
  BY <1>1
<1> DEFINE ab == Join(a, b)
           abc == Join(ab, c)
<1>6. FormatFault(d) = FirstFault(abc)
  BY DEF FormatFault, Join
<1> HIDE DEF n, a, b, c, ab, abc
<1>7. IsList(ab, 2 + n) /\ 2 + k \in DOMAIN ab /\ ab[2 + k] = b[k]
  <2>1. IsJoined(ab, a, 2, b, n)
    BY <1>2, <1>3, Joined DEF ab
  <2>2. QED
    BY <1>5, <2>1 DEF IsJoined
<1>8. IsList(abc, 2 + n + Len(d.edges)) /\ 2 + k \in DOMAIN abc /\ abc[2 + k] = b[k]
  <2>1. 2 + k \in 1..(2 + n)
    BY <1>7 DEF IsList
  <2>2. IsJoined(abc, ab, 2 + n, c, Len(d.edges))
    BY <1>4, <1>7, Joined DEF abc
  <2>3. QED
    BY <1>7, <2>1, <2>2 DEF IsJoined
<1>9. DOMAIN abc \subseteq Nat
  BY <1>8 DEF IsList
<1>10. NodeFault(d.nodes[k], k) = NoFault
  BY <1>5, <1>6, <1>8, <1>9, FirstFaultFound
<1> DEFINE node == d.nodes[k]
           ni == Len(node.inputs)
           no == Len(node.outputs)
           e == <<IdFault(node.id, "node", k)>>
           f == [p \in DOMAIN node.inputs |-> IdFault(node.inputs[p], "input", k)]
           g == [p \in DOMAIN node.outputs |-> IdFault(node.outputs[p], "output", k)]
           h == <<IF Repeats(node.inputs \o node.outputs) THEN <<"duplicate_port", k>> ELSE NoFault>>
<1>11. /\ node.inputs \in Seq(Texts) /\ node.outputs \in Seq(Texts)
       /\ ni \in Nat /\ no \in Nat /\ DOMAIN node.inputs = 1..ni /\ DOMAIN node.outputs = 1..no
  BY <1>1 DEF NodeDocs
<1>12. IsList(e, 1) /\ IsList(f, ni) /\ IsList(g, no) /\ IsList(h, 1)
  BY <1>11 DEF IsList
<1> DEFINE ef == Join(e, f)
           efg == Join(ef, g)
           efgh == Join(efg, h)
<1>13. NodeFault(node, k) = FirstFault(efgh)
  BY DEF NodeFault, Join
<1>14. h[1] = IF Repeats(node.inputs \o node.outputs) THEN <<"duplicate_port", k>> ELSE NoFault
  OBVIOUS
<1> HIDE DEF node, ni, no, e, f, g, h, ef, efg, efgh
<1>15. IsList(ef, 1 + ni) /\ IsList(efg, 1 + ni + no)
  <2>1. IsList(ef, 1 + ni)
    BY <1>12, Joined DEF ef, IsJoined
  <2>2. QED
    BY <1>12, <2>1, Joined DEF efg, IsJoined
<1>16. /\ IsList(efgh, 1 + ni + no + 1)
       /\ \A i \in 1..1 : 1 + ni + no + i \in DOMAIN efgh /\ efgh[1 + ni + no + i] = h[i]
  <2>1. IsJoined(efgh, efg, 1 + ni + no, h, 1)
    BY <1>12, <1>15, Joined DEF efgh
  <2>2. QED
    BY <2>1 DEF IsJoined
<1>17. /\ DOMAIN efgh \subseteq Nat
       /\ 1 + ni + no + 1 \in DOMAIN efgh /\ efgh[1 + ni + no + 1] = h[1]
  BY <1>16 DEF IsList
<1>18. NodeFault(node, k) = NoFault
  BY <1>10 DEF node
<1>19. h[1] = NoFault
  BY <1>13, <1>17, <1>18, FirstFaultFound
<1>20. <<"duplicate_port", k>> # NoFault
  BY DEF NoFault
<1>21. ~Repeats(node.inputs \o node.outputs)
  BY <1>14, <1>19, <1>20
<1>22. QED
  BY <1>21 DEF node

LEMMA PortNamesType ==
  ASSUME NEW s \in Seq(Texts)
  PROVE  PortNames(s) \subseteq Nat
<1>1. \A k \in DOMAIN s : s[k] \in Texts
  OBVIOUS
<1>2. \A k \in DOMAIN s : s[k].name \in Nat
  BY <1>1 DEF Texts
<1>3. QED
  BY <1>2 DEF PortNames

(* The graph of a document that passes is one that new may be given.       *)
LEMMA DocumentGivesGraph ==
  ASSUME NEW d \in Docs, FitsInstance(d), FormatFault(d) = NoFault, NEW c \in BOOLEAN
  PROVE  WellGiven([GraphOf(d) EXCEPT !.cycles = c])
<1> DEFINE f == [GraphOf(d) EXCEPT !.cycles = c]
           E(i) == [pos |-> i,
                    src |-> d.edges[i].source.node.name, sport |-> d.edges[i].source.port.name,
                    dst |-> d.edges[i].target.node.name, dport |-> d.edges[i].target.port.name]
<1>1. /\ f.nodes = [i \in DOMAIN d.nodes |-> d.nodes[i].id.name]
      /\ f.edges = {E(i) : i \in DOMAIN d.edges}
      /\ f.cycles = c
  BY DEF GraphOf
<1>2. /\ d.nodes \in Seq(NodeDocs) /\ DOMAIN d.nodes = 1..Len(d.nodes) /\ Len(d.nodes) \in Nat
      /\ d.edges \in Seq(EdgeDocs) /\ DOMAIN d.edges = 1..Len(d.edges) /\ Len(d.edges) \in Nat
  BY DEF Docs
<1>3. ASSUME NEW i \in DOMAIN d.nodes
      PROVE  /\ d.nodes[i] \in NodeDocs
             /\ d.nodes[i].id.name \in Nat \ {0}
             /\ d.nodes[i].id.name \in DOMAIN InPorts \cap DOMAIN OutPorts
             /\ PortNames(d.nodes[i].inputs) = InPorts[d.nodes[i].id.name]
             /\ PortNames(d.nodes[i].outputs) = OutPorts[d.nodes[i].id.name]
             /\ NamesTellApart(d.nodes[i].inputs \o d.nodes[i].outputs)
  <2>1. d.nodes[i] \in NodeDocs
    BY <1>2
  <2>2. d.nodes[i].id.name \in Nat
    BY <2>1 DEF NodeDocs, Texts
  <2>3. QED
    BY <2>1, <2>2 DEF FitsInstance
<1> HIDE DEF f
<1>4. f.nodes \in Seq(Nat \ {0})
  <2>1. f.nodes \in [1..Len(d.nodes) -> Nat \ {0}]
    BY <1>1, <1>2, <1>3
  <2>2. QED
    BY <1>2, <2>1
<1>5. IsFiniteSet(f.edges)
  <2>1. IsFiniteSet(DOMAIN d.edges)
    BY <1>2, FS_Interval
  <2> DEFINE img == [i \in DOMAIN d.edges |-> E(i)]
  <2>2. img \in Surjection(DOMAIN d.edges, f.edges)
    BY <1>1 DEF Surjection
  <2> HIDE DEF img
  <2>3. QED
    BY <2>1, <2>2, FS_Surjection
<1>6. ASSUME NEW e \in f.edges
      PROVE  EdgeShape(e) /\ e.pos \in Nat /\ e.src \in Nat /\ e.dst \in Nat
  <2>1. PICK i \in DOMAIN d.edges : e = E(i)
    BY <1>1
  <2>2. d.edges[i] \in EdgeDocs
    BY <1>2
  <2>3. d.edges[i].source.node.name \in Nat /\ d.edges[i].target.node.name \in Nat
    BY <2>2 DEF EdgeDocs, EndDocs, Texts
  <2>4. QED
    BY <1>2, <2>1, <2>3 DEF EdgeShape
<1>7. ASSUME NEW e \in f.edges, NEW g \in f.edges, e.pos = g.pos PROVE e = g
  BY <1>1, <1>7
<1>8. ASSUME NEW i \in DOMAIN f.nodes
      PROVE  /\ f.nodes[i] \in DOMAIN InPorts \cap DOMAIN OutPorts
             /\ InPorts[f.nodes[i]] \cap OutPorts[f.nodes[i]] = {}
  <2>1. i \in DOMAIN d.nodes /\ f.nodes[i] = d.nodes[i].id.name
    BY <1>1
  <2> DEFINE ins == d.nodes[i].inputs
             outs == d.nodes[i].outputs
  <2>2. IsList(ins, Len(ins)) /\ IsList(outs, Len(outs))
    <3>1. ins \in Seq(Texts) /\ outs \in Seq(Texts)
      BY <1>3, <2>1 DEF NodeDocs
    <3>2. QED
      BY <3>1, SeqIsList
  <2>3. /\ ~Repeats(Join(ins, outs)) /\ NamesTellApart(Join(ins, outs))
        /\ PortNames(ins) = InPorts[f.nodes[i]] /\ PortNames(outs) = OutPorts[f.nodes[i]]
        /\ f.nodes[i] \in DOMAIN InPorts \cap DOMAIN OutPorts
    BY <1>3, <2>1, FormatChecksNodes DEF Join
  <2> HIDE DEF ins, outs
  <2>4. ASSUME NEW p \in PortNames(ins), p \in PortNames(outs) PROVE FALSE
    <3>1. PICK a \in DOMAIN ins : ins[a].name = p
      BY DEF PortNames
    <3>2. PICK b \in DOMAIN outs : outs[b].name = p
      BY <2>4 DEF PortNames
    <3>3. a \in 1..Len(ins) /\ b \in 1..Len(outs) /\ Len(ins) \in Nat /\ Len(outs) \in Nat
      BY <2>2 DEF IsList
    <3>4. /\ a \in DOMAIN Join(ins, outs) /\ Join(ins, outs)[a] = ins[a]
          /\ Len(ins) + b \in DOMAIN Join(ins, outs) /\ Join(ins, outs)[Len(ins) + b] = outs[b]
      <4>1. IsJoined(Join(ins, outs), ins, Len(ins), outs, Len(outs))
        BY <2>2, Joined
      <4>2. QED
        BY <3>3, <4>1 DEF IsJoined
    <3>5. a # Len(ins) + b
      BY <3>3
    <3>6. QED
      BY <2>3, <3>1, <3>2, <3>4, <3>5 DEF NamesTellApart, Repeats
  <2>5. QED
    BY <2>3, <2>4
<1>9. WellGiven(f)
  BY <1>1, <1>4, <1>5, <1>6, <1>7, <1>8 DEF WellGiven
<1>10. QED
  BY <1>9 DEF f
-------------------------------------------------------------------------------
(* The graph of a command *)

GraphSound == Typed /\ Indexing /\ Ordering /\ Deciding

GivenIsSound == \A f : WellGiven(f) /\ Given(f) => GraphSound

LEMMA GivenSound == GivenIsSound
  BY GivenInv, GivenDeciding DEF GivenIsSound, GraphSound

LEMMA BeginSound ==
  ASSUME NEW f, WellGiven(f), Begin(f)
  PROVE  GraphSound'
<1>1. GivenIsSound'
  BY GivenSound, PTL
<1>2. Given(f)'
  BY DEF Begin, Given, Verdict
<1>3. QED
  BY <1>1, <1>2 DEF GivenIsSound

LEMMA NoGraphIsGiven == WellGiven(NoGraph)
<1>1. NoGraph.edges = {} /\ NoGraph.nodes = <<>> /\ NoGraph.cycles = FALSE
  BY DEF NoGraph
<1>2. NoGraph.nodes \in Seq(Nat \ {0}) /\ DOMAIN NoGraph.nodes = {}
  BY <1>1
<1>3. IsFiniteSet({})
  BY FS_EmptySet
<1>4. QED
  BY <1>1, <1>2, <1>3 DEF WellGiven

(* The search and the order leave the graph itself alone.                  *)
LEMMA NextKeepsGraph == Next => UNCHANGED input
  BY DEF Next, RejectDuplicateNode, RejectEdge, IndexEdge, FinishIndex, EmitNode, FinishOrder,
         NextRoot, VisitChild, LeaveNode, input

LEMMA InlinedNames ==
  ASSUME NEW d \in Docs
  PROVE  /\ DOMAIN Inlined(d).nodes = DOMAIN d.nodes /\ Inlined(d).edges = d.edges
         /\ \A i \in DOMAIN d.nodes : Inlined(d).nodes[i].id = d.nodes[i].id
<1> DEFINE N == [i \in DOMAIN d.nodes |->
                  [d.nodes[i] EXCEPT !.inline = NodeRuleSet(d.nodes[i], Registry), !.ref = {}]]
<1>1. \A i \in DOMAIN d.nodes : d.nodes[i] \in NodeDocs
  BY DEF Docs
<1>2. \A i \in DOMAIN d.nodes : N[i].id = d.nodes[i].id
  BY <1>1 DEF NodeDocs
<1>3. DOMAIN N = DOMAIN d.nodes
  OBVIOUS
<1>4. Inlined(d) = d \/ Inlined(d) = [d EXCEPT !.nodes = N]
  BY DEF Inlined, ResolvedDocument
<1> HIDE DEF N
<1>5. CASE Inlined(d) = [d EXCEPT !.nodes = N]
  BY <1>2, <1>3, <1>5 DEF Docs
<1>6. QED
  BY <1>4, <1>5

(* What the step from the text to the graph finds.                         *)
ReadFault(d) ==
  IF ParserFault(d) # NoFault THEN ParserFault(d)
  ELSE IF InlineFault(d) # NoFault THEN InlineFault(d)
  ELSE FormatFault(d)

Decoded(d) ==
  /\ Proceed(ReadFault(d), "graph")
  /\ IF ReadFault(d) = NoFault
       THEN document' = {Inlined(d)} /\ Begin(GraphGiven(d))
       ELSE UNCHANGED <<document, vars>>

LEMMA DecodeCases == Decode => \E d \in document : Decoded(d)
  BY DEF Decode, ReadFault, Decoded

LEMMA GraphStep ==
  StepOfCommand /\ DiskIsSound /\ Documented /\ GraphSound /\ [HostNext]_allVars => GraphSound'
<1> SUFFICES ASSUME StepOfCommand, DiskIsSound, Documented, GraphSound, [HostNext]_allVars
             PROVE  GraphSound'
  OBVIOUS
<1>1. CASE [Next]_vars
  BY <1>1, TypedStep, IndexingStep, OrderingStep, DecidingStep DEF GraphSound
<1>2. ASSUME NEW c \in menu, Start(c) PROVE GraphSound'
  BY <1>2, BeginSound, NoGraphIsGiven DEF Start
<1>3. CASE Decode
  <2>1. PICK d \in document : Decoded(d)
    BY <1>3, DecodeCases
  <2>2. d \in Docs /\ FitsInstance(d)
    BY <1>3 DEF Decode, StepOfCommand, Documented, HasWorkflow, HasDecoded
  <2>3. CASE ReadFault(d) = NoFault
    <3>0. FormatFault(d) = NoFault /\ Begin(GraphGiven(d))
      BY <2>1, <2>3 DEF ReadFault, Decoded
    <3>1. disk.app.cycles \in BOOLEAN
      BY DEF DiskIsSound, DiskShape, Applications
    <3>2. PICK g : g = GraphGiven(d)
      OBVIOUS
    <3>3. PICK c \in BOOLEAN : c = (cmd = "embed" /\ disk.app.cycles)
      BY <3>1
    <3>4. g = [GraphOf(d) EXCEPT !.cycles = c]
      BY <3>2, <3>3 DEF GraphGiven
    <3>5. WellGiven(g)
      BY <2>2, <3>0, <3>4, DocumentGivesGraph
    <3>6. QED
      BY <3>0, <3>2, <3>5, BeginSound
  <2>4. QED
    BY <1>1, <2>1, <2>3 DEF Decoded
<1>4. [Next]_vars \/ Decode \/ \E c \in menu : Start(c)
  BY DEF HostNext, Step, ReadWorkflow, ReadManifest, ParseManifest, CheckManifest,
         ValidateGraph, GraphValidated, Introspect, ResolveRuleSets, CheckNodes, BuildRegistry,
         Execute, CreateMetadata, FillMetadata, Report, ReplaceComponent, RemoveWorkflow, Changed,
         allVars
<1>5. QED
  BY <1>1, <1>2, <1>3, <1>4

LEMMA DocumentedStep ==
  StepOfCommand /\ DiskIsSound /\ Documented /\ GraphSound /\ [HostNext]_allVars => Documented'
<1> SUFFICES ASSUME StepOfCommand, DiskIsSound, Documented, GraphSound, [HostNext]_allVars
             PROVE  Documented'
  OBVIOUS
<1> USE DEF bounds, reading, results, IsRun, IsManifest, Commands
<1>0. cmd \in Commands
  BY DEF StepOfCommand
(* A command that ends, and a step that only looks at what was read.       *)
<1>i. ASSUME at' = "idle" PROVE Documented'
  BY <1>i DEF Documented, HasWorkflow, HasDecoded, HasGraph
<1>q. ASSUME UNCHANGED <<document, cmd, vars>>,
             HasWorkflow' => HasWorkflow, HasDecoded' <=> HasDecoded,
             HasGraph' => phase = "done" /\ verdict.kind = "accepted"
      PROVE  Documented'
  <2>1. Graph' = Graph
    BY <1>q DEF vars, Graph
  <2>2. UNCHANGED <<nodeIds, phase, verdict>>
    BY <1>q DEF vars
  <2>3. PortsAreNumbers => PortsAreNumbers'
    BY <2>2 DEF PortsAreNumbers
  <2>4. QED
    BY <1>q, <2>1, <2>2, <2>3 DEF Documented
<1>g. HasGraph => phase = "done" /\ verdict.kind = "accepted"
  BY DEF Documented
<1>1. ASSUME NEW c \in menu, Start(c) PROVE Documented'
  <2>1. c \in Commands
    BY DEF StepOfCommand
  <2>2. at' \in {"idle", FirstStep(c)} /\ cmd' = c
    BY <1>1 DEF Start
  <2>3. ~HasWorkflow'
    BY <2>1, <2>2 DEF FirstStep, HasWorkflow
  <2>4. QED
    BY <2>3 DEF Documented, HasDecoded, HasGraph
<1>2. CASE ReadWorkflow
  <2>1. /\ at' \in {"idle", "read_manifest", "specs", "decode"} /\ document' = disk.doc
        /\ UNCHANGED cmd
    BY <1>2, ProceedCases DEF ReadWorkflow
  <2>2. \A d \in disk.doc : d \in Docs /\ FitsInstance(d)
    BY DEF DiskIsSound, DiskShape
  <2>3. ~HasDecoded'
    BY <2>1 DEF HasDecoded, HasWorkflow
  <2>4. QED
    BY <2>1, <2>2, <2>3 DEF Documented, HasGraph
<1>3. CASE ReadManifest
  BY <1>3, <1>i, <1>q, ProceedCases DEF ReadManifest, StepOfCommand, HasWorkflow, HasDecoded, HasGraph
<1>4. CASE ParseManifest
  BY <1>4, <1>i, <1>q, ProceedCases DEF ParseManifest, StepOfCommand, HasWorkflow, HasDecoded, HasGraph
<1>5. CASE CheckManifest
  BY <1>5, <1>i, <1>q, ProceedCases DEF CheckManifest, StepOfCommand, HasWorkflow, HasDecoded, HasGraph
<1>6. CASE Decode
  <2>1. PICK d \in document : Decoded(d)
    BY <1>6, DecodeCases
  <2>2. d \in Docs /\ FitsInstance(d)
    BY <1>6 DEF Decode, StepOfCommand, Documented, HasWorkflow, HasDecoded
  <2>3. CASE ReadFault(d) = NoFault
    <3>1. /\ at' = "graph" /\ document' = {Inlined(d)} /\ Begin(GraphGiven(d)) /\ UNCHANGED cmd
          /\ FormatFault(d) = NoFault
      BY <1>6, <2>1, <2>3, ProceedCases DEF Decode, Decoded, ReadFault
    <3>2. DOMAIN d.nodes \subseteq Nat /\ DOMAIN d.edges \subseteq Nat
      BY <2>2 DEF Docs
    <3>3. nodeIds' = [i \in DOMAIN d.nodes |-> d.nodes[i].id.name]
      BY <3>1 DEF Begin, GraphGiven, GraphOf
    <3>4. cmd # "embed" => Graph' = GraphOf(d) /\ Inlined(d) = d
      BY <3>1 DEF Begin, GraphGiven, GraphOf, Graph, Inlined
    <3>5. ~HasGraph' /\ (HasWorkflow' => HasDecoded')
      BY <3>1 DEF HasGraph, HasDecoded
    <3>6. /\ DOMAIN Inlined(d).nodes = DOMAIN d.nodes /\ Inlined(d).edges = d.edges
          /\ \A i \in DOMAIN d.nodes : Inlined(d).nodes[i].id = d.nodes[i].id
      BY <2>2, InlinedNames
    <3>7. nodeIds' = [i \in DOMAIN Inlined(d).nodes |-> Inlined(d).nodes[i].id.name]
      BY <3>3, <3>6
    <3>8. PortsAreNumbers'
      <4>1. ASSUME NEW i \in DOMAIN d.nodes
            PROVE  InPorts[d.nodes[i].id.name] \cup OutPorts[d.nodes[i].id.name] \subseteq Nat
        <5>1. /\ PortNames(d.nodes[i].inputs) = InPorts[d.nodes[i].id.name]
              /\ PortNames(d.nodes[i].outputs) = OutPorts[d.nodes[i].id.name]
          BY <2>2, <3>1 DEF FitsInstance
        <5>2. d.nodes[i] \in NodeDocs
          BY <2>2 DEF Docs
        <5>3. d.nodes[i].inputs \in Seq(Texts) /\ d.nodes[i].outputs \in Seq(Texts)
          BY <5>2 DEF NodeDocs
        <5>4. QED
          BY <5>1, <5>3, PortNamesType
      <4>2. QED
        BY <3>3, <4>1 DEF PortsAreNumbers
    <3>9. QED
      BY <2>2, <3>1, <3>2, <3>4, <3>5, <3>6, <3>7, <3>8 DEF Documented
  <2>4. QED
    BY <1>i, <2>1, <2>3, ProceedCases DEF Decoded
<1>7. CASE ValidateGraph
  <2>1. UNCHANGED hostVars /\ UNCHANGED input /\ at = "graph"
    BY <1>7, NextKeepsGraph DEF ValidateGraph
  <2>2. Graph' = Graph /\ UNCHANGED <<document, cmd, at, nodeIds>>
    BY <2>1 DEF Graph, input, hostVars
  <2>3. PortsAreNumbers => PortsAreNumbers'
    BY <2>2 DEF PortsAreNumbers
  <2>4. QED
    BY <2>1, <2>2, <2>3 DEF Documented, HasWorkflow, HasDecoded, HasGraph
<1>8. CASE GraphValidated
  <2>1. at = "graph" /\ phase = "done" /\ UNCHANGED <<document, cmd, vars>>
    BY <1>8 DEF GraphValidated
  <2>2. at' = "idle" \/ (at' = AfterGraph /\ verdict.kind = "accepted")
    BY <1>8, ProceedCases DEF GraphValidated, NoFault
  <2>3. cmd \notin {"manifest", "schema"}
    BY <2>1 DEF StepOfCommand
  <2>4. AfterGraph \in {"introspect", "rule_sets", "check_nodes", "execute", "registry", "report"}
    BY <1>0, <2>3 DEF AfterGraph
  <2>5. QED
    BY <1>i, <1>q, <2>1, <2>2, <2>3, <2>4 DEF HasWorkflow, HasDecoded, HasGraph
<1>9. CASE Introspect
  BY <1>9, <1>i, <1>q, <1>g, ProceedCases DEF Introspect, StepOfCommand, HasWorkflow, HasDecoded, HasGraph
<1>10. CASE ResolveRuleSets
  BY <1>10, <1>i, <1>q, <1>g, ProceedCases DEF ResolveRuleSets, StepOfCommand, HasWorkflow, HasDecoded, HasGraph
<1>11. CASE CheckNodes
  BY <1>11, <1>i, <1>q, <1>g, ProceedCases DEF CheckNodes, StepOfCommand, HasWorkflow, HasDecoded, HasGraph
<1>12. CASE BuildRegistry
  BY <1>12, <1>i, <1>q, <1>g, ProceedCases DEF BuildRegistry, StepOfCommand, HasWorkflow, HasDecoded, HasGraph
<1>13. CASE Execute
  <2>1. at' \in {"idle", "create_metadata"} /\ UNCHANGED <<document, cmd, vars>> /\ at = "execute"
    BY <1>13, ProceedCases DEF Execute, Exit
  <2>2. QED
    BY <1>i, <1>q, <1>g, <2>1 DEF HasWorkflow, HasDecoded, HasGraph
<1>14. CASE CreateMetadata
  <2>1. /\ at' \in {"idle", "fill_metadata"} /\ UNCHANGED <<document, cmd, vars>>
        /\ at = "create_metadata"
    BY <1>14, ProceedCases DEF CreateMetadata, Exit
  <2>2. QED
    BY <1>i, <1>q, <1>g, <2>1 DEF HasWorkflow, HasDecoded, HasGraph
<1>15. CASE FillMetadata
  <2>1. at' \in {"idle", "report"} /\ UNCHANGED <<document, cmd, vars>> /\ at = "fill_metadata"
    BY <1>15, ProceedCases DEF FillMetadata, Exit
  <2>2. QED
    BY <1>i, <1>q, <1>g, <2>1 DEF HasWorkflow, HasDecoded, HasGraph
<1>16. CASE Report
  BY <1>16, <1>i DEF Report, Exit
<1>17. ASSUME UNCHANGED <<document, cmd, at, vars>> PROVE Documented'
  BY <1>17, <1>q, <1>g DEF HasWorkflow, HasDecoded, HasGraph
<1>18. ASSUME NEW d, Changed(d) PROVE Documented'
  BY <1>17, <1>18 DEF Changed
<1>19. CASE UNCHANGED allVars
  BY <1>17, <1>19 DEF allVars, hostVars
<1>20. QED
  BY <1>1, <1>2, <1>3, <1>4, <1>5, <1>6, <1>7, <1>8, <1>9, <1>10, <1>11, <1>12, <1>13, <1>14,
     <1>15, <1>16, <1>18, <1>19 DEF HostNext, Step, ReplaceComponent, RemoveWorkflow

LEMMA HostGraphs == HostSpec => [](StepOfCommand /\ DiskIsSound /\ Documented /\ GraphSound)
<1>1. HostInit => Documented
  BY DEF HostInit, Documented, HasWorkflow, HasDecoded, HasGraph
<1>2. HostInit => GraphSound
  BY GivenSound, NoGraphIsGiven DEF HostInit, GivenIsSound
<1>3. StepOfCommand /\ DiskIsSound /\ Documented /\ GraphSound /\ [HostNext]_allVars
        => (Documented /\ GraphSound)'
  BY DocumentedStep, GraphStep
<1>4. QED
  BY <1>1, <1>2, <1>3, HostSteps, PTL DEF HostSpec

-------------------------------------------------------------------------------
(* What a command knows *)

(* Nothing that a command reads has changed.                               *)
SameFiles ==
  /\ disk'.doc = disk.doc /\ disk'.ext = disk.ext /\ disk'.manifest = disk.manifest
  /\ disk'.comps = disk.comps /\ disk'.env = disk.env

RegistryOver(m, ids, comps) ==
  IF HasDuplicates(SpecNodes(m)) THEN <<"manifest_duplicate">>
  ELSE FirstFault(
    <<Each(ids, LAMBDA n :
        FirstFault([i \in DOMAIN m.specs |->
          IF m.specs[i].node.name = n
            THEN ComponentFault(comps[m.specs[i].path]) ELSE NoFault])),
      IF Elems(SpecNodes(m)) \subseteq Elems(ids)
        THEN NoFault ELSE <<"manifest_node">>>>)

LEMMA FindingsStay ==
  ASSUME SameFiles, UNCHANGED cmd
  PROVE  /\ UNCHANGED SpecsAreGood /\ UNCHANGED ManifestIsGood /\ UNCHANGED DocumentParses
         /\ UNCHANGED nodeIds => UNCHANGED ManifestNamesNodes /\ UNCHANGED ComponentsLoad
         /\ UNCHANGED document => UNCHANGED KnowsDocument
         /\ UNCHANGED specs => UNCHANGED KnowsManifest
<1>1. UNCHANGED SpecsAreGood /\ UNCHANGED ManifestIsGood /\ UNCHANGED DocumentParses
  BY DEF SameFiles, SpecsAreGood, ManifestIsGood, ManifestFault, DocumentParses, ParserFault
<1>2. UNCHANGED nodeIds => UNCHANGED ManifestNamesNodes
  BY DEF SameFiles, ManifestNamesNodes
<1>3. UNCHANGED nodeIds => UNCHANGED ComponentsLoad
  <2>1. /\ \A m : RegistryFault(m) = RegistryOver(m, nodeIds, disk.comps)
        /\ \A m : RegistryFault(m)' = RegistryOver(m, nodeIds', disk'.comps)
    BY DEF RegistryFault, RegistryOver, Each
  <2>2. QED
    BY <2>1 DEF SameFiles, ComponentsLoad
<1>4. QED
  BY <1>1, <1>2, <1>3 DEF SameFiles, KnowsDocument, KnowsManifest

LEMMA InformedStep ==
  StepOfCommand /\ DiskIsSound /\ Documented /\ Informed /\ [HostNext]_allVars => Informed'
<1> SUFFICES ASSUME StepOfCommand, DiskIsSound, Documented, Informed, [HostNext]_allVars
             PROVE  Informed'
  OBVIOUS
<1> USE DEF bounds, reading, results, IsRun, IsManifest
<1>0. cmd \in Commands /\ "metadata" \in DOMAIN disk /\ AtMostOne(disk.doc) /\ AtMostOne(disk.manifest)
  BY DEF StepOfCommand, DiskIsSound, DiskShape
<1>i. ASSUME at' = "idle" \/ ~fresh' PROVE Informed'
  BY <1>i DEF Informed
(* What is known stays known, but for what the step is about.              *)
<1>q. ASSUME SameFiles, UNCHANGED <<cmd, fresh>>, at # "idle",
             HasWorkflow' /\ cmd # "embed" /\ fresh => KnowsDocument',
             HasManifest' /\ fresh => KnowsManifest',
             HasSpecs' /\ fresh => HasSpecs \/ SpecsAreGood,
             IsManifest(cmd) /\ HasSpecs' /\ at' # "check_manifest" /\ fresh =>
               (HasSpecs /\ at # "check_manifest") \/ ManifestIsGood,
             HasDecoded' /\ cmd # "embed" /\ fresh => HasDecoded \/ DocumentParses,
             cmd = "manifest_workflow" /\ at' = "report" /\ fresh => ManifestNamesNodes',
             cmd = "run_wasm" /\ HasGraph' /\ at' # "registry" /\ fresh => ComponentsLoad'
      PROVE  Informed'
  <2>1. UNCHANGED SpecsAreGood /\ UNCHANGED ManifestIsGood /\ UNCHANGED DocumentParses
    BY <1>q, FindingsStay
  <2>2. TracingFault(disk.env)' = TracingFault(disk.env)
    BY <1>q DEF SameFiles
  <2>3. QED
    BY <1>q, <2>1, <2>2 DEF Informed
<1>s. ASSUME SameFiles, UNCHANGED <<cmd, fresh, document, specs, nodeIds>>, at # "idle",
             HasWorkflow' => HasWorkflow, HasManifest' => HasManifest,
             HasSpecs' /\ fresh => HasSpecs \/ SpecsAreGood,
             IsManifest(cmd) /\ HasSpecs' /\ at' # "check_manifest" /\ fresh =>
               (HasSpecs /\ at # "check_manifest") \/ ManifestIsGood,
             HasDecoded' => HasDecoded,
             cmd = "manifest_workflow" /\ at' = "report" /\ fresh => ManifestNamesNodes,
             cmd = "run_wasm" /\ HasGraph' /\ at' # "registry" /\ fresh =>
               (HasGraph /\ at # "registry") \/ ComponentsLoad
      PROVE  Informed'
  <2>1. /\ UNCHANGED KnowsDocument /\ UNCHANGED KnowsManifest
        /\ UNCHANGED ManifestNamesNodes /\ UNCHANGED ComponentsLoad
    BY <1>s, FindingsStay
  <2>2. /\ HasWorkflow' /\ cmd # "embed" /\ fresh => KnowsDocument'
        /\ HasManifest' /\ fresh => KnowsManifest'
        /\ cmd = "manifest_workflow" /\ at' = "report" /\ fresh => ManifestNamesNodes'
        /\ cmd = "run_wasm" /\ HasGraph' /\ at' # "registry" /\ fresh => ComponentsLoad'
    BY <1>s, <2>1 DEF Informed
  <2>3. QED
    BY <1>q, <1>s, <2>2
<1>v. UNCHANGED vars => UNCHANGED nodeIds
  BY DEF vars
<1>d. UNCHANGED disk => SameFiles
  BY DEF SameFiles
<1>e. ASSUME NEW x, disk' = [disk EXCEPT !.metadata = x] PROVE SameFiles
  BY <1>e DEF DiskIsSound, DiskShape, SameFiles
<1> USE DEF HasWorkflow, HasManifest, HasSpecs, HasDecoded, HasGraph
<1>1. ASSUME NEW c \in menu, Start(c) PROVE Informed'
  <2>1. c \in Commands
    BY DEF StepOfCommand
  <2>2. cmd' = c /\ (at' = "idle" \/ (at' = FirstStep(c) /\ TracingFault(disk.env)' = NoFault))
    BY <1>1 DEF Start
  <2>3. at' # "idle" => ~HasWorkflow' /\ ~HasManifest' /\ (at' = "report" => c = "schema")
    BY <2>1, <2>2 DEF FirstStep, Commands
  <2>4. QED
    BY <2>2, <2>3 DEF Informed
<1>2. CASE ReadWorkflow
  <2>1. /\ at = "read_workflow" /\ UNCHANGED <<disk, cmd, fresh, specs, nodeIds>>
        /\ document' = disk.doc /\ cmd # "manifest"
        /\ \/ at' = "idle"
           \/ /\ disk.doc # {}
              /\ at' = CASE cmd = "run_wasm" -> "read_manifest"
                         [] cmd = "manifest_workflow" -> "specs"
                         [] OTHER -> "decode"
    BY <1>2, <1>v, ProceedCases DEF ReadWorkflow, NoFault, StepOfCommand
  <2>2. at' # "idle" => KnowsDocument' /\ at' \in {"read_manifest", "specs", "decode"}
    BY <2>1 DEF KnowsDocument
  <2>3. HasManifest' /\ fresh => KnowsManifest'
    BY <2>1 DEF Informed, KnowsManifest
  <2>4. QED
    BY <1>i, <1>q, <1>d, <2>1, <2>2, <2>3
<1>3. CASE ReadManifest
  <2>1. /\ at = "read_manifest" /\ UNCHANGED <<disk, cmd, fresh, document, nodeIds>>
        /\ specs' = disk.manifest
        /\ \/ at' = "idle"
           \/ /\ disk.manifest # {}
              /\ at' = IF cmd = "manifest_workflow" THEN "read_workflow" ELSE "specs"
    BY <1>3, <1>v, ProceedCases DEF ReadManifest, NoFault
  <2>2. at' # "idle" => KnowsManifest' /\ at' \in {"read_workflow", "specs"}
    BY <2>1 DEF KnowsManifest
  <2>3. HasWorkflow' /\ cmd # "embed" /\ fresh => KnowsDocument'
    BY <2>1 DEF Informed, KnowsDocument
  <2>4. QED
    BY <1>i, <1>q, <1>d, <2>1, <2>2, <2>3
<1>4. CASE ParseManifest
  <2>1. /\ at = "specs" /\ UNCHANGED <<disk, cmd, fresh, document, specs, nodeIds>>
        /\ \/ at' = "idle"
           \/ /\ \E m \in specs : SpecsFault(m) = NoFault
              /\ at' = IF IsManifest(cmd) THEN "check_manifest" ELSE "decode"
    BY <1>4, <1>v, ProceedCases DEF ParseManifest
  <2>2. HasManifest
    BY <2>1 DEF StepOfCommand
  <2>3. at' # "idle" /\ fresh => SpecsAreGood
    BY <1>0, <2>1, <2>2 DEF Informed, KnowsManifest, SpecsAreGood, AtMostOne
  <2>4. QED
    BY <1>i, <1>s, <1>d, <2>1, <2>2, <2>3
<1>5. CASE CheckManifest
  <2>1. /\ at = "check_manifest" /\ UNCHANGED <<disk, cmd, fresh, document, specs, nodeIds>>
        /\ IsManifest(cmd)
        /\ \/ at' = "idle"
           \/ /\ \E m \in specs : ManifestFault(m) = NoFault
              /\ at' = IF cmd = "manifest" THEN "report" ELSE "decode"
    BY <1>5, <1>v, ProceedCases DEF CheckManifest, StepOfCommand
  <2>2. at' # "idle" /\ fresh => ManifestIsGood
    BY <1>0, <2>1 DEF Informed, KnowsManifest, ManifestIsGood, AtMostOne
  <2>3. QED
    BY <1>i, <1>s, <1>d, <2>1, <2>2
<1>6. CASE Decode
  <2>1. PICK d \in document : Decoded(d)
    BY <1>6, DecodeCases
  <2>2. at = "decode" /\ UNCHANGED <<disk, cmd, fresh, specs>> /\ cmd \notin {"manifest", "schema"}
    BY <1>6 DEF Decode, StepOfCommand
  <2>3. CASE ReadFault(d) = NoFault
    <3>1. at' = "graph" /\ document' = {Inlined(d)} /\ ParserFault(d) = NoFault
      BY <2>1, <2>3, ProceedCases DEF Decoded, ReadFault
    <3>2. fresh /\ cmd # "embed" => disk.doc = {d} /\ Inlined(d) = d
      BY <1>0, <2>2 DEF Informed, KnowsDocument, AtMostOne, Inlined
    <3>3. fresh /\ cmd # "embed" => KnowsDocument' /\ DocumentParses
      BY <2>2, <3>1, <3>2 DEF KnowsDocument, DocumentParses
    <3>4. HasManifest' /\ fresh => KnowsManifest'
      BY <2>2, <3>1 DEF Informed, KnowsManifest
    <3>5. QED
      BY <1>q, <1>d, <2>2, <3>1, <3>3, <3>4
  <2>4. QED
    BY <1>i, <2>1, <2>3, ProceedCases DEF Decoded
<1>7. CASE ValidateGraph
  <2>1. UNCHANGED hostVars /\ UNCHANGED input /\ at = "graph"
    BY <1>7, NextKeepsGraph DEF ValidateGraph
  <2>2. UNCHANGED <<disk, cmd, fresh, document, specs, at, nodeIds>>
    BY <2>1 DEF input, hostVars
  <2>3. QED
    BY <1>s, <1>d, <2>1, <2>2
<1>8. CASE GraphValidated
  <2>1. /\ at = "graph" /\ UNCHANGED <<disk, cmd, fresh, document, specs, nodeIds>>
        /\ at' \in {"idle", AfterGraph} /\ cmd \notin {"manifest", "schema"}
    BY <1>8, <1>v, ProceedCases DEF GraphValidated, StepOfCommand
  <2>2. /\ AfterGraph \in {"introspect", "rule_sets", "check_nodes", "execute", "registry", "report"}
        /\ cmd = "run_wasm" => AfterGraph = "registry"
        /\ cmd = "manifest_workflow" => AfterGraph = "check_nodes"
    BY <1>0, <2>1 DEF AfterGraph, Commands
  <2>3. QED
    BY <1>i, <1>s, <1>d, <2>1, <2>2
<1>9. CASE Introspect
  <2>1. /\ at = "introspect" /\ UNCHANGED <<disk, cmd, fresh, document, specs, nodeIds>>
        /\ at' \in {"idle", "report"} /\ cmd \in {"inspect", "embed"}
    BY <1>9, <1>v, ProceedCases DEF Introspect, StepOfCommand
  <2>2. QED
    BY <1>i, <1>s, <1>d, <2>1
<1>10. CASE ResolveRuleSets
  <2>1. /\ at = "rule_sets" /\ UNCHANGED <<disk, cmd, fresh, document, specs, nodeIds>>
        /\ at' \in {"idle", "report"} /\ cmd = "explain"
    BY <1>10, <1>v, ProceedCases DEF ResolveRuleSets, StepOfCommand
  <2>2. QED
    BY <1>i, <1>s, <1>d, <2>1
<1>11. CASE CheckNodes
  <2>1. /\ at = "check_nodes" /\ UNCHANGED <<disk, cmd, fresh, document, specs, nodeIds>>
        /\ cmd = "manifest_workflow"
        /\ \/ at' = "idle"
           \/ at' = "report" /\ \E m \in specs : Elems(SpecNodes(m)) \subseteq Elems(nodeIds)
    BY <1>11, <1>v, ProceedCases DEF CheckNodes, StepOfCommand, NoFault
  <2>2. at' # "idle" /\ fresh => ManifestNamesNodes
    BY <1>0, <2>1 DEF Informed, KnowsManifest, ManifestNamesNodes, AtMostOne
  <2>3. QED
    BY <1>i, <1>s, <1>d, <2>1, <2>2
<1>12. CASE BuildRegistry
  <2>1. /\ at = "registry" /\ UNCHANGED <<disk, cmd, fresh, document, specs, nodeIds>>
        /\ cmd = "run_wasm"
        /\ \/ at' = "idle"
           \/ at' = "execute" /\ \E m \in specs : RegistryFault(m) = NoFault
    BY <1>12, <1>v, ProceedCases DEF BuildRegistry, StepOfCommand
  <2>2. at' # "idle" /\ fresh => ComponentsLoad
    BY <1>0, <2>1 DEF Informed, KnowsManifest, ComponentsLoad, AtMostOne
  <2>3. QED
    BY <1>i, <1>s, <1>d, <2>1, <2>2
<1>13. CASE Execute
  <2>1. /\ at = "execute" /\ UNCHANGED <<disk, cmd, fresh, document, specs, nodeIds>>
        /\ at' \in {"idle", "create_metadata"} /\ IsRun(cmd)
    BY <1>13, <1>v, ProceedCases DEF Execute, Exit, StepOfCommand
  <2>2. QED
    BY <1>i, <1>s, <1>d, <2>1
<1>14. CASE CreateMetadata
  <2>1. /\ at = "create_metadata" /\ UNCHANGED <<cmd, fresh, document, specs, nodeIds>>
        /\ at' \in {"idle", "fill_metadata"} /\ IsRun(cmd)
    BY <1>14, <1>v, ProceedCases DEF CreateMetadata, Exit, StepOfCommand
  <2>2. SameFiles
    BY <1>14, <1>d, <1>e DEF CreateMetadata
  <2>3. QED
    BY <1>i, <1>s, <2>1, <2>2
<1>15. CASE FillMetadata
  <2>1. /\ at = "fill_metadata" /\ UNCHANGED <<cmd, fresh, document, specs, nodeIds>>
        /\ at' \in {"idle", "report"} /\ IsRun(cmd)
    BY <1>15, <1>v, ProceedCases DEF FillMetadata, Exit, StepOfCommand
  <2>2. SameFiles
    BY <1>15, <1>d, <1>e DEF FillMetadata
  <2>3. QED
    BY <1>i, <1>s, <2>1, <2>2
<1>16. CASE Report
  BY <1>16, <1>i DEF Report, Exit
<1>17. ASSUME NEW d, Changed(d) PROVE Informed'
  BY <1>17, <1>i DEF Changed
<1>18. CASE UNCHANGED allVars
  <2>1. UNCHANGED <<disk, cmd, fresh, document, specs, at, nodeIds>>
    BY <1>18 DEF allVars, hostVars, vars
  <2>2. CASE at = "idle"
    BY <1>i, <2>1, <2>2
  <2>3. CASE at # "idle"
    <3>1. /\ (HasWorkflow' <=> HasWorkflow) /\ (HasManifest' <=> HasManifest)
          /\ (HasSpecs' <=> HasSpecs) /\ (HasDecoded' <=> HasDecoded) /\ (HasGraph' <=> HasGraph)
      BY <2>1
    <3>2. cmd = "manifest_workflow" /\ at' = "report" /\ fresh => ManifestNamesNodes
      BY <2>1 DEF Informed
    <3>3. QED
      BY <1>s, <1>d, <2>1, <2>3, <3>1, <3>2
  <2>4. QED
    BY <2>2, <2>3
<1>19. QED
  BY <1>1, <1>2, <1>3, <1>4, <1>5, <1>6, <1>7, <1>8, <1>9, <1>10, <1>11, <1>12, <1>13, <1>14,
     <1>15, <1>16, <1>17, <1>18 DEF HostNext, Step, ReplaceComponent, RemoveWorkflow

-------------------------------------------------------------------------------
(* What the answers say *)

LEMMA SameMeaning ==
  ASSUME SameFiles
  PROVE  /\ UNCHANGED LoadFault /\ (Json' <=> Json) /\ (GoodManifest' <=> GoodManifest)
         /\ (Unloadable' <=> Unloadable)
<1>1. UNCHANGED LoadFault
  BY DEF SameFiles, LoadFault
<1>2. (SpecsAreGood' <=> SpecsAreGood) /\ (ManifestIsGood' <=> ManifestIsGood)
  BY DEF SameFiles, SpecsAreGood, ManifestIsGood, ManifestFault
<1>3. GoodManifest' <=> GoodManifest
  BY <1>2 DEF SameFiles, GoodManifest
<1>4. QED
  BY <1>1, <1>3 DEF SameFiles, Json, Unloadable

LEMMA AnswersStay ==
  ASSUME AnswersSound, SameFiles, UNCHANGED answers
  PROVE  AnswersSound'
<1>1. \A c \in Commands : answers[c] = Unknown \/ Sound(c, answers[c])
  BY DEF AnswersSound
<1>2. \A c \in Commands : answers'[c] = Unknown \/ Sound(c, answers[c])'
  BY <1>1, SameMeaning DEF Sound, SoundIn
<1>3. QED
  BY <1>2 DEF AnswersSound

LEMMA AnswerGiven ==
  ASSUME AnswersSound, SameFiles, NEW c \in Commands, NEW f, Sound(c, f),
         answers' = [answers EXCEPT ![c] = f]
  PROVE  AnswersSound'
<1>1. \A x \in Commands : answers[x] = Unknown \/ Sound(x, answers[x])
  BY DEF AnswersSound
<1>2. DOMAIN answers' = Commands
  BY DEF AnswersSound
<1>3. \A x \in Commands : answers'[x] = Unknown \/ Sound(x, answers'[x])
  BY <1>1, <1>2 DEF AnswersSound
<1>4. \A x \in Commands : answers'[x] = Unknown \/ Sound(x, answers[x])'
  BY <1>3, SameMeaning DEF Sound, SoundIn
<1>5. QED
  BY <1>2, <1>4 DEF AnswersSound

-------------------------------------------------------------------------------
(* Contracts and capabilities of a workflow *)

LEMMA TwoChecks ==
  ASSUME NEW a, NEW b
  PROVE  FirstFault(<<a, b>>) = NoFault <=> a = NoFault /\ b = NoFault
<1> DEFINE s == <<a, b>>
<1>1. DOMAIN s = 1..2 /\ s[1] = a /\ s[2] = b
  OBVIOUS
<1> HIDE DEF s
<1>2. FirstFault(s) = NoFault <=> \A i \in DOMAIN s : s[i] = NoFault
  BY <1>1, FirstFaultFound
<1>3. FirstFault(s) = NoFault <=> a = NoFault /\ b = NoFault
  BY <1>1, <1>2
<1>4. QED
  BY <1>3 DEF s

LEMMA ThreeChecks ==
  ASSUME NEW a, NEW b, NEW c
  PROVE  FirstFault(<<a, b, c>>) = NoFault <=> a = NoFault /\ b = NoFault /\ c = NoFault
<1> DEFINE s == <<a, b, c>>
<1>1. DOMAIN s = 1..3 /\ s[1] = a /\ s[2] = b /\ s[3] = c
  OBVIOUS
<1> HIDE DEF s
<1>2. FirstFault(s) = NoFault <=> \A i \in DOMAIN s : s[i] = NoFault
  BY <1>1, FirstFaultFound
<1>3. FirstFault(s) = NoFault <=> a = NoFault /\ b = NoFault /\ c = NoFault
  BY <1>1, <1>2
<1>4. QED
  BY <1>3 DEF s

LEMMA FourChecks ==
  ASSUME NEW a, NEW b, NEW c, NEW d
  PROVE  FirstFault(<<a, b, c, d>>) = NoFault <=>
           a = NoFault /\ b = NoFault /\ c = NoFault /\ d = NoFault
<1> DEFINE s == <<a, b, c, d>>
<1>1. DOMAIN s = 1..4 /\ s[1] = a /\ s[2] = b /\ s[3] = c /\ s[4] = d
  OBVIOUS
<1> HIDE DEF s
<1>2. FirstFault(s) = NoFault <=> \A i \in DOMAIN s : s[i] = NoFault
  BY <1>1, FirstFaultFound
<1>3. FirstFault(s) = NoFault <=> a = NoFault /\ b = NoFault /\ c = NoFault /\ d = NoFault
  BY <1>1, <1>2
<1>4. QED
  BY <1>3 DEF s

(* Lists whose places have an order, which the first of their faults needs. *)
OrderedWorkflow(w) ==
  /\ DOMAIN w.nodes \subseteq Nat /\ DOMAIN w.edges \subseteq Nat
  /\ \A i \in DOMAIN w.nodes : w.ins[w.nodes[i]] \cup w.outs[w.nodes[i]] \subseteq Nat
OrderedContracts(contracts) ==
  /\ DOMAIN contracts \subseteq Nat
  /\ \A j \in DOMAIN contracts : \A k \in DOMAIN contracts[j].ports : contracts[j].ports[k].port \in Nat
OrderedCaps(caps) ==
  /\ DOMAIN caps \subseteq Nat
  /\ \A j \in DOMAIN caps : DOMAIN caps[j].ports \subseteq Nat /\ DOMAIN caps[j].effects \subseteq Nat

(* What each check of the contract layer lets pass.                        *)
Claimed(w, n, claim) ==
  Declared(w, n, claim.port) # {} /\ \A d \in Declared(w, n, claim.port) : claim.dir = Claim(d)

CapsFit(w, caps) ==
  \A j \in DOMAIN caps :
    /\ \E i \in DOMAIN w.nodes : w.nodes[i] = caps[j].node
    /\ \A k \in DOMAIN caps[j].ports : Claimed(w, caps[j].node, caps[j].ports[k])

PortsFit(w, n, c) ==
  /\ \A p \in w.ins[n] \cup w.outs[n] :
       ContractPort(c, p) # {} /\ \A q \in ContractPort(c, p) : {q.dir} = Declared(w, n, p)
  /\ \A i \in DOMAIN c.ports : Declared(w, n, c.ports[i].port) # {}

NodeFits(w, n, contracts, caps) ==
  /\ ByNode(contracts, n) # {} /\ ByNode(caps, n) # {}
  /\ \A c \in ByNode(contracts, n) : PortsFit(w, n, c)
  /\ \A c \in ByNode(contracts, n), cap \in ByNode(caps, n) : c.mode = "native" \/ DOMAIN cap.effects = {}

SchemasFit(contracts, e) ==
  LET source == EndpointSchema(contracts, e.src, e.sport)
      target == EndpointSchema(contracts, e.dst, e.dport)
  IN  source = {} \/ target = {} \/ source = target

PortsClaimed(w, n, caps) ==
  \A p \in w.ins[n] \cup w.outs[n] :
    \E c \in ByNode(caps, n) : \E i \in DOMAIN c.ports : c.ports[i].port = p

LEMMA ClaimCases ==
  ASSUME NEW w, NEW n, NEW claim
  PROVE  ClaimFault(w, n, claim) = NoFault <=> Claimed(w, n, claim)
<1>1. <<"unknown_claim_port", n, claim.port>> # NoFault /\ <<"claim_direction", n, claim.port>> # NoFault
  BY DEF NoFault
<1>2. QED
  BY <1>1 DEF ClaimFault, Claimed

LEMMA CapsCases ==
  ASSUME NEW w, NEW caps, OrderedCaps(caps)
  PROVE  CapabilitiesFault(w, caps) = NoFault <=> CapsFit(w, caps)
<1> DEFINE P(j) == [k \in DOMAIN caps[j].ports |-> ClaimFault(w, caps[j].node, caps[j].ports[k])]
           F(j) == IF \A i \in DOMAIN w.nodes : w.nodes[i] # caps[j].node
                     THEN <<"unknown_claim_node", caps[j].node>>
                     ELSE FirstFault(P(j))
           s == [j \in DOMAIN caps |-> F(j)]
<1>1. CapabilitiesFault(w, caps) = FirstFault(s)
  BY DEF CapabilitiesFault, Each
<1>2. ASSUME NEW j \in DOMAIN caps
      PROVE  FirstFault(P(j)) = NoFault <=>
               \A k \in DOMAIN caps[j].ports : Claimed(w, caps[j].node, caps[j].ports[k])
  <2> DEFINE t == P(j)
  <2>1. DOMAIN t \subseteq Nat /\ DOMAIN t = DOMAIN caps[j].ports
    BY DEF OrderedCaps
  <2>2. \A k \in DOMAIN t : t[k] = ClaimFault(w, caps[j].node, caps[j].ports[k])
    OBVIOUS
  <2> HIDE DEF t
  <2>3. FirstFault(t) = NoFault <=> \A k \in DOMAIN t : t[k] = NoFault
    BY <2>1, FirstFaultFound
  <2>4. FirstFault(t) = NoFault <=>
          \A k \in DOMAIN caps[j].ports : Claimed(w, caps[j].node, caps[j].ports[k])
    BY <2>1, <2>2, <2>3, ClaimCases
  <2>5. QED
    BY <2>4 DEF t
<1>3. ASSUME NEW j \in DOMAIN caps
      PROVE  s[j] = NoFault <=>
               /\ \E i \in DOMAIN w.nodes : w.nodes[i] = caps[j].node
               /\ \A k \in DOMAIN caps[j].ports : Claimed(w, caps[j].node, caps[j].ports[k])
  <2> HIDE DEF P
  <2>1. <<"unknown_claim_node", caps[j].node>> # NoFault
    BY DEF NoFault
  <2>2. s[j] = F(j)
    OBVIOUS
  <2>3. QED
    BY <1>2, <2>1, <2>2
<1>4. DOMAIN s = DOMAIN caps /\ DOMAIN caps \subseteq Nat
  BY DEF OrderedCaps
<1> HIDE DEF s
<1>5. FirstFault(s) = NoFault <=> \A j \in DOMAIN caps : s[j] = NoFault
  BY <1>4, FirstFaultFound
<1>6. QED
  BY <1>1, <1>3, <1>5 DEF CapsFit

LEMMA PortsCases ==
  ASSUME NEW w, NEW n, NEW c, w.ins[n] \cup w.outs[n] \subseteq Nat,
         \A i \in DOMAIN c.ports : c.ports[i].port \in Nat
  PROVE  PortsFault(w, n, c) = NoFault <=> PortsFit(w, n, c)
<1> DEFINE ports == w.ins[n] \cup w.outs[n]
           listed == {c.ports[i].port : i \in DOMAIN c.ports}
           F(p) == CASE ContractPort(c, p) = {} -> <<"uncovered_port", n, p>>
                     [] \E q \in ContractPort(c, p) : {q.dir} # Declared(w, n, p) ->
                          <<"port_direction", n, p>>
                     [] OTHER -> NoFault
           G(p) == IF Declared(w, n, p) = {} THEN <<"unknown_port", n, p>> ELSE NoFault
           S == {<<p, F(p)>> : p \in ports}
           T == {<<p, G(p)>> : p \in listed}
<1>1. PortsFault(w, n, c) = FirstFault(<<LeastFault(S), LeastFault(T)>>)
  BY DEF PortsFault, EachPort
<1>2. ASSUME NEW p
      PROVE  F(p) = NoFault <=>
               ContractPort(c, p) # {} /\ \A q \in ContractPort(c, p) : {q.dir} = Declared(w, n, p)
  <2>1. <<"uncovered_port", n, p>> # NoFault /\ <<"port_direction", n, p>> # NoFault
    BY DEF NoFault
  <2>2. QED
    BY <2>1
<1>3. ASSUME NEW p PROVE G(p) = NoFault <=> Declared(w, n, p) # {}
  <2>1. <<"unknown_port", n, p>> # NoFault
    BY DEF NoFault
  <2>2. QED
    BY <2>1
<1> HIDE DEF F, G
<1>4. LeastFault(S) = NoFault <=> \A p \in ports : F(p) = NoFault
  <2>1. \A x \in S : x[1] \in Nat
    OBVIOUS
  <2>2. (\A x \in S : x[2] = NoFault) <=> \A p \in ports : F(p) = NoFault
    <3>1. ASSUME NEW p \in ports PROVE <<p, F(p)>> \in S /\ <<p, F(p)>>[2] = F(p)
      OBVIOUS
    <3>2. \A x \in S : \E p \in ports : x[2] = F(p)
      OBVIOUS
    <3> HIDE DEF S, ports
    <3>3. QED
      BY <3>1, <3>2
  <2> HIDE DEF S, ports
  <2>3. QED
    BY <2>1, <2>2, LeastFaultFound
<1>5. LeastFault(T) = NoFault <=> \A p \in listed : G(p) = NoFault
  <2>1. \A x \in T : x[1] \in Nat
    OBVIOUS
  <2>2. (\A x \in T : x[2] = NoFault) <=> \A p \in listed : G(p) = NoFault
    <3>1. ASSUME NEW p \in listed PROVE <<p, G(p)>> \in T /\ <<p, G(p)>>[2] = G(p)
      OBVIOUS
    <3>2. \A x \in T : \E p \in listed : x[2] = G(p)
      OBVIOUS
    <3> HIDE DEF T, listed
    <3>3. QED
      BY <3>1, <3>2
  <2> HIDE DEF T, listed
  <2>3. QED
    BY <2>1, <2>2, LeastFaultFound
<1>6. (\A p \in listed : G(p) = NoFault) <=> \A i \in DOMAIN c.ports : Declared(w, n, c.ports[i].port) # {}
  BY <1>3
<1> HIDE DEF S, T, listed
<1>7. PortsFault(w, n, c) = NoFault <=> LeastFault(S) = NoFault /\ LeastFault(T) = NoFault
  BY <1>1, TwoChecks
<1>8. QED
  BY <1>2, <1>4, <1>5, <1>6, <1>7 DEF PortsFit

LEMMA EnforceCases ==
  ASSUME NEW n, NEW c, NEW cap, DOMAIN cap.effects \subseteq Nat
  PROVE  EnforceableFault(n, c, cap) = NoFault <=> c.mode = "native" \/ DOMAIN cap.effects = {}
<1> DEFINE s == [i \in DOMAIN cap.effects |->
                  IF cap.effects[i] \in StrictBoundarySupports THEN NoFault
                  ELSE <<"unenforceable_effect", n, cap.effects[i]>>]
<1>1. EnforceableFault(n, c, cap) = IF c.mode = "native" THEN NoFault ELSE FirstFault(s)
  BY DEF EnforceableFault, Each
<1>2. \A i \in DOMAIN s : s[i] # NoFault
  BY DEF NoFault, StrictBoundarySupports
<1>3. DOMAIN s = DOMAIN cap.effects
  OBVIOUS
<1> HIDE DEF s
<1>4. FirstFault(s) = NoFault <=> \A i \in DOMAIN s : s[i] = NoFault
  BY <1>3, FirstFaultFound
<1>5. QED
  BY <1>1, <1>2, <1>3, <1>4

LEMMA SchemaCases ==
  ASSUME NEW contracts, NEW e
  PROVE  SchemaFault(contracts, e) = NoFault <=> SchemasFit(contracts, e)
<1>1. <<"schema_mismatch", e>> # NoFault
  BY DEF NoFault
<1>2. QED
  BY <1>1 DEF SchemaFault, SchemasFit

(* Of several entries for a node one stays.                                *)
LEMMA ByNodeEntry ==
  ASSUME NEW entries, DOMAIN entries \subseteq Nat, NEW n, NEW x \in ByNode(entries, n)
  PROVE  /\ \E j \in DOMAIN entries : x = entries[j] /\ entries[j].node = n
         /\ \A y \in ByNode(entries, n) : y = x
<1> DEFINE Last(j) == j \in DOMAIN entries /\ entries[j].node = n
                      /\ \A k \in DOMAIN entries : k > j => entries[k].node # n
<1>1. \A y \in ByNode(entries, n) : \E j : Last(j) /\ y = entries[j]
  BY DEF ByNode
<1>2. \A i, j : Last(i) /\ Last(j) => i = j
  <2>1. SUFFICES ASSUME NEW i, NEW j, Last(i), Last(j) PROVE i = j
    BY Zenon
  <2>2. i \in Nat /\ j \in Nat
    BY <2>1
  <2>3. ~(i > j) /\ ~(j > i)
    BY <2>1
  <2>4. QED
    BY <2>2, <2>3
<1>3. \A j : Last(j) => j \in DOMAIN entries /\ entries[j].node = n
  OBVIOUS
<1> HIDE DEF Last
<1>4. QED
  BY <1>1, <1>2, <1>3

LEMMA NodeCases ==
  ASSUME NEW w, NEW n, NEW contracts, NEW caps, OrderedContracts(contracts), OrderedCaps(caps),
         w.ins[n] \cup w.outs[n] \subseteq Nat
  PROVE  NodeContractFault(w, n, contracts, caps) = NoFault <=> NodeFits(w, n, contracts, caps)
<1>0. <<"missing_contract", n>> # NoFault /\ <<"missing_descriptor", n>> # NoFault
  BY DEF NoFault
<1>1. CASE ByNode(contracts, n) = {} \/ ByNode(caps, n) = {}
  BY <1>0, <1>1 DEF NodeContractFault, NodeFits
<1>2. CASE ByNode(contracts, n) # {} /\ ByNode(caps, n) # {}
  <2>1. PICK c \in ByNode(contracts, n), cap \in ByNode(caps, n) : TRUE
    BY <1>2
  <2>2. /\ ByNode(contracts, n) = {c} /\ ByNode(caps, n) = {cap}
        /\ \A i \in DOMAIN c.ports : c.ports[i].port \in Nat
        /\ DOMAIN cap.effects \subseteq Nat
    BY ByNodeEntry DEF OrderedContracts, OrderedCaps
  <2> DEFINE f == FirstFault(<<PortsFault(w, n, c), EnforceableFault(n, c, cap)>>)
  <2>3. NodeContractFault(w, n, contracts, caps) = f
    <3>1. {FirstFault(<<PortsFault(w, n, x), EnforceableFault(n, x, y)>>) :
             x \in ByNode(contracts, n), y \in ByNode(caps, n)} = {f}
      BY <2>2
    <3> HIDE DEF f
    <3>2. NodeContractFault(w, n, contracts, caps) = CHOOSE g \in {f} : TRUE
      BY <1>2, <3>1 DEF NodeContractFault
    <3>3. QED
      BY <3>2
  <2>4. f = NoFault <=> PortsFit(w, n, c) /\ (c.mode = "native" \/ DOMAIN cap.effects = {})
    BY <2>2, TwoChecks, PortsCases, EnforceCases
  <2> HIDE DEF f
  <2>5. QED
    BY <1>2, <2>2, <2>3, <2>4 DEF NodeFits
<1>3. QED
  BY <1>1, <1>2

(* introspect_workflow lets a workflow pass when all of it fits.           *)
AllFits(w, contracts, caps) ==
  /\ CapsFit(w, caps)
  /\ \A i \in DOMAIN w.nodes : NodeFits(w, w.nodes[i], contracts, caps)
  /\ \A j \in DOMAIN contracts : \E i \in DOMAIN w.nodes : w.nodes[i] = contracts[j].node
  /\ \A i \in DOMAIN w.edges : SchemasFit(contracts, w.edges[i])
  /\ \A i \in DOMAIN w.nodes : PortsClaimed(w, w.nodes[i], caps)

LEMMA IntrospectCases ==
  ASSUME NEW w, NEW contracts, NEW caps,
         OrderedWorkflow(w), OrderedContracts(contracts), OrderedCaps(caps)
  PROVE  IntrospectFault(w, contracts, caps) = NoFault <=> AllFits(w, contracts, caps)
<1> DEFINE a == [i \in DOMAIN w.nodes |-> NodeContractFault(w, w.nodes[i], contracts, caps)]
           b == [j \in DOMAIN contracts |->
                  IF \A i \in DOMAIN w.nodes : w.nodes[i] # contracts[j].node
                    THEN <<"unknown_contract_node", contracts[j].node>> ELSE NoFault]
           c == [i \in DOMAIN w.edges |-> SchemaFault(contracts, w.edges[i])]
           u == [i \in DOMAIN w.nodes |->
                  IF PortsClaimed(w, w.nodes[i], caps)
                    THEN NoFault ELSE <<"missing_descriptor", w.nodes[i]>>]
<1>1. ContractsFault(w, contracts, caps) =
        FirstFault(<<CapabilitiesFault(w, caps), FirstFault(a), FirstFault(b), FirstFault(c)>>)
  BY DEF ContractsFault, Each
<1>2. UnclaimedFault(w, caps) = FirstFault(u)
  BY DEF UnclaimedFault, Each, PortsClaimed
<1>3. /\ DOMAIN a = DOMAIN w.nodes /\ DOMAIN b = DOMAIN contracts
      /\ DOMAIN c = DOMAIN w.edges /\ DOMAIN u = DOMAIN w.nodes
  OBVIOUS
<1>4. DOMAIN w.nodes \subseteq Nat /\ DOMAIN contracts \subseteq Nat /\ DOMAIN w.edges \subseteq Nat
  BY DEF OrderedWorkflow, OrderedContracts
<1>5. ASSUME NEW i \in DOMAIN w.nodes
      PROVE  a[i] = NoFault <=> NodeFits(w, w.nodes[i], contracts, caps)
  BY NodeCases DEF OrderedWorkflow
<1>6. ASSUME NEW j \in DOMAIN contracts
      PROVE  b[j] = NoFault <=> \E i \in DOMAIN w.nodes : w.nodes[i] = contracts[j].node
  <2>1. <<"unknown_contract_node", contracts[j].node>> # NoFault
    BY DEF NoFault
  <2>2. QED
    BY <2>1
<1>7. ASSUME NEW i \in DOMAIN w.edges PROVE c[i] = NoFault <=> SchemasFit(contracts, w.edges[i])
  BY SchemaCases
<1>8. ASSUME NEW i \in DOMAIN w.nodes PROVE u[i] = NoFault <=> PortsClaimed(w, w.nodes[i], caps)
  <2>1. <<"missing_descriptor", w.nodes[i]>> # NoFault
    BY DEF NoFault
  <2>2. QED
    BY <2>1
<1> HIDE DEF a, b, c, u
<1>9. /\ FirstFault(a) = NoFault <=> \A i \in DOMAIN a : a[i] = NoFault
      /\ FirstFault(b) = NoFault <=> \A i \in DOMAIN b : b[i] = NoFault
  BY <1>3, <1>4, FirstFaultFound
<1>10. /\ FirstFault(c) = NoFault <=> \A i \in DOMAIN c : c[i] = NoFault
       /\ FirstFault(u) = NoFault <=> \A i \in DOMAIN u : u[i] = NoFault
  BY <1>3, <1>4, FirstFaultFound
<1>11. IntrospectFault(w, contracts, caps) = NoFault <=>
         /\ CapabilitiesFault(w, caps) = NoFault /\ FirstFault(a) = NoFault
         /\ FirstFault(b) = NoFault /\ FirstFault(c) = NoFault /\ FirstFault(u) = NoFault
  BY <1>1, <1>2, TwoChecks, FourChecks DEF IntrospectFault
<1>12. CapabilitiesFault(w, caps) = NoFault <=> CapsFit(w, caps)
  BY CapsCases
<1>13. QED
  BY <1>3, <1>5, <1>6, <1>7, <1>8, <1>9, <1>10, <1>11, <1>12 DEF AllFits

(* The claims or the contract ports that a host makes up for a node.       *)
MadeUp(u, ins, outs, in, out) ==
  /\ DOMAIN u \subseteq Nat
  /\ \A k \in DOMAIN u : (u[k].port \in ins /\ u[k].dir = in) \/ (u[k].port \in outs /\ u[k].dir = out)
  /\ \A p \in ins \cup outs : \E k \in DOMAIN u : u[k].port = p
  /\ \A k, l \in DOMAIN u : u[k].port = u[l].port => k = l

LEMMA JoinMakesUp ==
  ASSUME NEW node \in NodeDocs, NEW s, NEW t, NEW in, NEW out,
         ~Repeats(node.inputs \o node.outputs), NamesTellApart(node.inputs \o node.outputs),
         IsList(s, Len(node.inputs)), IsList(t, Len(node.outputs)),
         \A i \in DOMAIN node.inputs : s[i].port = node.inputs[i].name /\ s[i].dir = in,
         \A i \in DOMAIN node.outputs : t[i].port = node.outputs[i].name /\ t[i].dir = out
  PROVE  MadeUp(Join(s, t), PortNames(node.inputs), PortNames(node.outputs), in, out)
<1> DEFINE ins == node.inputs
           outs == node.outputs
           m == Len(ins)
           n == Len(outs)
           q == Join(ins, outs)
           u == Join(s, t)
<1>1. ins \in Seq(Texts) /\ outs \in Seq(Texts)
  BY DEF NodeDocs
<1>2. IsList(ins, m) /\ IsList(outs, n)
  BY <1>1, SeqIsList
<1>3. IsList(s, m) /\ IsList(t, n)
  OBVIOUS
<1>4. IsJoined(q, ins, m, outs, n) /\ IsJoined(u, s, m, t, n)
  BY <1>2, <1>3, Joined
<1>5. DOMAIN ins = 1..m /\ DOMAIN outs = 1..n
  BY <1>2 DEF IsList
<1>6. ~Repeats(q) /\ NamesTellApart(q)
  BY DEF Join
<1>7. /\ \A i \in 1..m : s[i].port = ins[i].name /\ s[i].dir = in
      /\ \A i \in 1..n : t[i].port = outs[i].name /\ t[i].dir = out
  BY <1>5
<1> HIDE DEF ins, outs, m, n, q, u
<1>8. DOMAIN u = DOMAIN q /\ DOMAIN u \subseteq Nat
  BY <1>4 DEF IsJoined, IsList
<1>9. ASSUME NEW k \in DOMAIN u
      PROVE  /\ u[k].port = q[k].name
             /\ \/ u[k].port \in PortNames(ins) /\ u[k].dir = in
                \/ u[k].port \in PortNames(outs) /\ u[k].dir = out
  <2>1. CASE k \in 1..m
    <3>1. u[k] = s[k] /\ q[k] = ins[k]
      BY <1>4, <2>1 DEF IsJoined
    <3>2. QED
      BY <1>5, <1>7, <2>1, <3>1 DEF PortNames
  <2>2. CASE \E i \in 1..n : k = m + i
    <3>1. PICK i \in 1..n : k = m + i
      BY <2>2
    <3>2. u[m + i] = t[i] /\ q[m + i] = outs[i]
      BY <1>4 DEF IsJoined
    <3>3. QED
      BY <1>5, <1>7, <3>1, <3>2 DEF PortNames
  <2>3. QED
    BY <1>4, <2>1, <2>2 DEF IsJoined
<1>10. ASSUME NEW p \in PortNames(ins) \cup PortNames(outs) PROVE \E k \in DOMAIN u : u[k].port = p
  <2>1. CASE \E i \in 1..m : p = ins[i].name
    BY <1>4, <1>7, <2>1 DEF IsJoined
  <2>2. CASE \E i \in 1..n : p = outs[i].name
    BY <1>4, <1>7, <2>2 DEF IsJoined
  <2>3. QED
    BY <1>5, <2>1, <2>2 DEF PortNames
<1>11. \A k, l \in DOMAIN u : u[k].port = u[l].port => k = l
  BY <1>6, <1>8, <1>9 DEF Repeats, NamesTellApart
<1>12. MadeUp(u, PortNames(ins), PortNames(outs), in, out)
  BY <1>8, <1>9, <1>10, <1>11 DEF MadeUp
<1>13. QED
  BY <1>12 DEF u, ins, outs

LEMMA PassiveNode ==
  ASSUME NEW node \in NodeDocs,
         ~Repeats(node.inputs \o node.outputs), NamesTellApart(node.inputs \o node.outputs)
  PROVE  /\ PassiveContract(node).node = node.id.name /\ PassiveContract(node).mode = "native"
         /\ MadeUp(PassiveContract(node).ports, PortNames(node.inputs), PortNames(node.outputs),
                   "input", "output")
         /\ \A k \in DOMAIN PassiveContract(node).ports : PassiveContract(node).ports[k].schema = {}
         /\ PassiveCapabilities(node).node = node.id.name /\ PassiveCapabilities(node).effects = <<>>
         /\ MadeUp(PassiveCapabilities(node).ports, PortNames(node.inputs), PortNames(node.outputs),
                   "receive", "emit")
<1> DEFINE s == [i \in DOMAIN node.inputs |->
                  [port |-> node.inputs[i].name, dir |-> "input", schema |-> {}]]
           t == [i \in DOMAIN node.outputs |->
                  [port |-> node.outputs[i].name, dir |-> "output", schema |-> {}]]
           x == [i \in DOMAIN node.inputs |-> [port |-> node.inputs[i].name, dir |-> "receive"]]
           y == [i \in DOMAIN node.outputs |-> [port |-> node.outputs[i].name, dir |-> "emit"]]
<1>1. PassiveContract(node).ports = Join(s, t)
  BY DEF PassiveContract, PortList, Join
<1>2. PassiveCapabilities(node).ports = Join(x, y)
  BY DEF PassiveCapabilities, PortList, Join, Claim
<1>3. node.inputs \in Seq(Texts) /\ node.outputs \in Seq(Texts)
  BY DEF NodeDocs
<1>4. /\ IsList(s, Len(node.inputs)) /\ IsList(t, Len(node.outputs))
      /\ IsList(x, Len(node.inputs)) /\ IsList(y, Len(node.outputs))
  BY <1>3 DEF IsList
<1>5. /\ \A i \in DOMAIN node.inputs : s[i].port = node.inputs[i].name /\ s[i].dir = "input"
      /\ \A i \in DOMAIN node.outputs : t[i].port = node.outputs[i].name /\ t[i].dir = "output"
  OBVIOUS
<1>6. /\ \A i \in DOMAIN node.inputs : x[i].port = node.inputs[i].name /\ x[i].dir = "receive"
      /\ \A i \in DOMAIN node.outputs : y[i].port = node.outputs[i].name /\ y[i].dir = "emit"
  OBVIOUS
<1>7. /\ \A i \in DOMAIN node.inputs : s[i].schema = {}
      /\ \A i \in DOMAIN node.outputs : t[i].schema = {}
  OBVIOUS
<1> HIDE DEF s, t, x, y
<1>8. /\ MadeUp(Join(s, t), PortNames(node.inputs), PortNames(node.outputs), "input", "output")
      /\ MadeUp(Join(x, y), PortNames(node.inputs), PortNames(node.outputs), "receive", "emit")
  BY <1>4, <1>5, <1>6, JoinMakesUp
<1>9. \A k \in DOMAIN Join(s, t) : Join(s, t)[k].schema = {}
  <2>1. IsJoined(Join(s, t), s, Len(node.inputs), t, Len(node.outputs))
    BY <1>4, Joined
  <2>2. DOMAIN node.inputs = 1..Len(node.inputs) /\ DOMAIN node.outputs = 1..Len(node.outputs)
    BY <1>3
  <2>3. QED
    BY <1>7, <2>1, <2>2 DEF IsJoined
<1>10. QED
  BY <1>1, <1>2, <1>8, <1>9 DEF PassiveContract, PassiveCapabilities

LEMMA MadeUpDiffer ==
  ASSUME NEW u, NEW ins, NEW outs, NEW in, NEW out, MadeUp(u, ins, outs, in, out)
  PROVE  ~Repeats(u) /\ ~Repeats([k \in DOMAIN u |-> u[k].port])
  BY DEF MadeUp, Repeats

EffectsAreLists(caps) == \A j \in DOMAIN caps : caps[j].effects \in Seq(STRING)

NodesOf(d) == nodeIds = [i \in DOMAIN d.nodes |-> d.nodes[i].id.name]

(* The only entry of a node is the one that is found for it.               *)
LEMMA OneByNode ==
  ASSUME NEW entries, NEW n, NEW i \in DOMAIN entries, DOMAIN entries \subseteq Nat,
         \A j \in DOMAIN entries : entries[j].node = n <=> j = i
  PROVE  ByNode(entries, n) = {entries[i]}
<1>1. \A j \in DOMAIN entries :
        (entries[j].node = n /\ \A k \in DOMAIN entries : k > j => entries[k].node # n) <=> j = i
  OBVIOUS
<1>2. QED
  BY <1>1 DEF ByNode

(* The passive contracts of inspect fit every workflow that is accepted.   *)
LEMMA PassiveFits ==
  ASSUME NEW d \in Docs, FitsInstance(d), FormatFault(d) = NoFault, cmd = "inspect",
         NodesOf(d), ~HasDuplicates(nodeIds)
  PROVE  /\ InspectFault(d) = NoFault
         /\ AllFits(WorkflowOf(d), ContractsOf(d), CapabilitiesOf(d))
         /\ OrderedCaps(CapabilitiesOf(d)) /\ EffectsAreLists(CapabilitiesOf(d))
<1> DEFINE N == DOMAIN d.nodes
           C == ContractsOf(d)
           K == CapabilitiesOf(d)
           w == WorkflowOf(d)
           ins(i) == PortNames(d.nodes[i].inputs)
           outs(i) == PortNames(d.nodes[i].outputs)
<1>1. N \subseteq Nat /\ DOMAIN d.edges \subseteq Nat /\ \A i \in N : d.nodes[i] \in NodeDocs
  BY DEF Docs
<1>2. /\ C = [i \in N |-> PassiveContract(d.nodes[i])]
      /\ K = [i \in N |-> PassiveCapabilities(d.nodes[i])]
  BY DEF ContractsOf, CapabilitiesOf
<1>3. ASSUME NEW i \in N
      PROVE  /\ InPorts[nodeIds[i]] = ins(i) /\ OutPorts[nodeIds[i]] = outs(i)
             /\ ins(i) \subseteq Nat /\ outs(i) \subseteq Nat /\ ins(i) \cap outs(i) = {}
             /\ ~Repeats(d.nodes[i].inputs \o d.nodes[i].outputs)
             /\ NamesTellApart(d.nodes[i].inputs \o d.nodes[i].outputs)
             /\ nodeIds[i] = d.nodes[i].id.name
  <2>1. nodeIds[i] = d.nodes[i].id.name
    BY DEF NodesOf
  <2>2. /\ InPorts[nodeIds[i]] = ins(i) /\ OutPorts[nodeIds[i]] = outs(i)
        /\ NamesTellApart(d.nodes[i].inputs \o d.nodes[i].outputs)
    BY <2>1 DEF FitsInstance
  <2>3. ~Repeats(d.nodes[i].inputs \o d.nodes[i].outputs)
    BY FormatChecksNodes
  <2>4. d.nodes[i].inputs \in Seq(Texts) /\ d.nodes[i].outputs \in Seq(Texts)
    BY <1>1 DEF NodeDocs
  <2>5. ins(i) \subseteq Nat /\ outs(i) \subseteq Nat
    BY <2>4, PortNamesType
  <2>6. WellGiven([GraphOf(d) EXCEPT !.cycles = FALSE])
    BY DocumentGivesGraph
  <2>7. [GraphOf(d) EXCEPT !.cycles = FALSE].nodes = nodeIds
    BY DEF GraphOf, NodesOf
  <2>8. ins(i) \cap outs(i) = {}
    <3>1. i \in DOMAIN nodeIds
      BY DEF NodesOf
    <3>2. QED
      BY <2>2, <2>6, <2>7, <3>1 DEF WellGiven
  <2>9. QED
    BY <2>1, <2>2, <2>3, <2>5, <2>8
<1>4. ASSUME NEW i \in N
      PROVE  /\ C[i].node = nodeIds[i] /\ C[i].mode = "native"
             /\ MadeUp(C[i].ports, ins(i), outs(i), "input", "output")
             /\ \A k \in DOMAIN C[i].ports : C[i].ports[k].schema = {}
             /\ K[i].node = nodeIds[i] /\ K[i].effects = <<>>
             /\ MadeUp(K[i].ports, ins(i), outs(i), "receive", "emit")
  <2>1. C[i] = PassiveContract(d.nodes[i]) /\ K[i] = PassiveCapabilities(d.nodes[i])
    BY <1>2
  <2>2. QED
    BY <1>1, <1>3, <2>1, PassiveNode
<1>5. DOMAIN C = N /\ DOMAIN K = N
  BY <1>2
<1>6. /\ w.nodes = nodeIds /\ DOMAIN w.nodes = N /\ DOMAIN w.edges = DOMAIN d.edges
      /\ \A i \in N : w.ins[nodeIds[i]] = ins(i) /\ w.outs[nodeIds[i]] = outs(i)
  BY <1>3 DEF WorkflowOf, Elems, NodesOf
<1>7. \A i, j \in N : nodeIds[i] = nodeIds[j] => i = j
  BY DEF HasDuplicates, NodesOf
<1> HIDE DEF N, C, K, w, ins, outs
<1>8. ASSUME NEW i \in N PROVE ByNode(C, nodeIds[i]) = {C[i]} /\ ByNode(K, nodeIds[i]) = {K[i]}
  <2>1. N \subseteq Nat
    BY <1>1
  <2>2. \A j \in N : (C[j].node = nodeIds[i] <=> j = i) /\ (K[j].node = nodeIds[i] <=> j = i)
    BY <1>4, <1>7
  <2>3. /\ i \in DOMAIN C /\ DOMAIN C \subseteq Nat
        /\ \A j \in DOMAIN C : C[j].node = nodeIds[i] <=> j = i
    BY <1>5, <2>1, <2>2
  <2>4. /\ i \in DOMAIN K /\ DOMAIN K \subseteq Nat
        /\ \A j \in DOMAIN K : K[j].node = nodeIds[i] <=> j = i
    BY <1>5, <2>1, <2>2
  <2>5. ByNode(C, nodeIds[i]) = {C[i]}
    BY <2>3, OneByNode, Zenon
  <2>6. ByNode(K, nodeIds[i]) = {K[i]}
    BY <2>4, OneByNode, Zenon
  <2>7. QED
    BY <2>5, <2>6
<1>9. OrderedWorkflow(w) /\ OrderedContracts(C) /\ OrderedCaps(K)
  <2>1. OrderedWorkflow(w)
    BY <1>1, <1>3, <1>6 DEF OrderedWorkflow
  <2>2. OrderedContracts(C)
    <3>1. ASSUME NEW j \in N, NEW k \in DOMAIN C[j].ports PROVE C[j].ports[k].port \in Nat
      <4>1. MadeUp(C[j].ports, ins(j), outs(j), "input", "output")
        BY <1>4
      <4>2. ins(j) \subseteq Nat /\ outs(j) \subseteq Nat
        BY <1>3
      <4>3. QED
        BY <4>1, <4>2 DEF MadeUp
    <3>2. QED
      BY <1>1, <1>5, <3>1 DEF OrderedContracts
  <2>3. OrderedCaps(K)
    BY <1>1, <1>4, <1>5 DEF OrderedCaps, MadeUp
  <2>4. QED
    BY <2>1, <2>2, <2>3
<1>10. ASSUME NEW i \in N
       PROVE  /\ \A p \in ins(i) : Declared(w, nodeIds[i], p) = {"input"}
              /\ \A p \in outs(i) : Declared(w, nodeIds[i], p) = {"output"}
  BY <1>3, <1>6 DEF Declared
<1>11. CapsFit(w, K)
  <2>1. ASSUME NEW j \in N, NEW k \in DOMAIN K[j].ports PROVE Claimed(w, nodeIds[j], K[j].ports[k])
    <3> DEFINE claim == K[j].ports[k]
    <3>1. MadeUp(K[j].ports, ins(j), outs(j), "receive", "emit")
      BY <1>4
    <3>2. \/ claim.port \in ins(j) /\ claim.dir = "receive"
          \/ claim.port \in outs(j) /\ claim.dir = "emit"
      BY <3>1 DEF MadeUp
    <3> HIDE DEF claim
    <3>3. Claimed(w, nodeIds[j], claim)
      BY <1>10, <3>2 DEF Claimed, Claim
    <3>4. QED
      BY <3>3 DEF claim
  <2>2. QED
    BY <1>4, <1>5, <1>6, <2>1 DEF CapsFit
<1>12. ASSUME NEW i \in N PROVE PortsFit(w, nodeIds[i], C[i])
  <2>0. MadeUp(C[i].ports, ins(i), outs(i), "input", "output")
    BY <1>4
  <2>1. ASSUME NEW p \in ins(i) \cup outs(i)
        PROVE  /\ ContractPort(C[i], p) # {}
               /\ \A q \in ContractPort(C[i], p) : {q.dir} = Declared(w, nodeIds[i], p)
    <3>1. ContractPort(C[i], p) # {}
      BY <2>0 DEF MadeUp, ContractPort
    <3>2. ASSUME NEW k \in DOMAIN C[i].ports, C[i].ports[k].port = p
          PROVE  {C[i].ports[k].dir} = Declared(w, nodeIds[i], p)
      <4>1. \/ p \in ins(i) /\ C[i].ports[k].dir = "input"
            \/ p \in outs(i) /\ C[i].ports[k].dir = "output"
        BY <2>0, <3>2 DEF MadeUp
      <4>2. QED
        BY <1>10, <4>1
    <3>3. QED
      BY <3>1, <3>2 DEF ContractPort
  <2>2. ASSUME NEW k \in DOMAIN C[i].ports PROVE Declared(w, nodeIds[i], C[i].ports[k].port) # {}
    <3>1. C[i].ports[k].port \in ins(i) \cup outs(i)
      BY <2>0 DEF MadeUp
    <3>2. QED
      BY <1>10, <3>1
  <2>3. QED
    BY <1>6, <2>1, <2>2 DEF PortsFit
<1>13. ASSUME NEW i \in N PROVE NodeFits(w, nodeIds[i], C, K)
  BY <1>4, <1>8, <1>12 DEF NodeFits
<1>14. ASSUME NEW n, NEW p PROVE EndpointSchema(C, n, p) = {}
  <2>1. \A c \in ByNode(C, n) : \E i \in N : c = C[i]
    BY <1>5 DEF ByNode
  <2>2. \A c \in ByNode(C, n) : \A q \in ContractPort(c, p) : q.schema = {}
    BY <1>4, <2>1 DEF ContractPort
  <2>3. QED
    BY <2>2 DEF EndpointSchema
<1>15. ASSUME NEW i \in N PROVE PortsClaimed(w, nodeIds[i], K)
  BY <1>4, <1>6, <1>8 DEF PortsClaimed, MadeUp
<1>16. AllFits(w, C, K)
  BY <1>4, <1>5, <1>6, <1>11, <1>13, <1>14, <1>15 DEF AllFits, SchemasFit
<1>17. IntrospectFault(w, C, K) = NoFault
  BY <1>9, <1>16, IntrospectCases
<1>18. Each(C, ContractFault) = NoFault
  <2> DEFINE s == [i \in DOMAIN C |-> ContractFault(C[i])]
  <2>1. \A i \in DOMAIN s : s[i] = NoFault
    <3>1. ASSUME NEW i \in N PROVE ContractFault(C[i]) = NoFault
      <4>1. ~Repeats([k \in DOMAIN C[i].ports |-> C[i].ports[k].port])
        BY <1>4, MadeUpDiffer
      <4>2. QED
        BY <1>4, <4>1 DEF ContractFault
    <3>2. QED
      BY <1>5, <3>1
  <2>2. DOMAIN s \subseteq Nat
    BY <1>1, <1>5
  <2>3. Each(C, ContractFault) = FirstFault(s)
    BY DEF Each
  <2> HIDE DEF s
  <2>4. QED
    BY <2>1, <2>2, <2>3, FirstFaultFound
<1>19. Each(K, DescriptorFault) = NoFault
  <2> DEFINE s == [i \in DOMAIN K |-> DescriptorFault(K[i])]
  <2>1. \A i \in DOMAIN s : s[i] = NoFault
    <3>1. ASSUME NEW i \in N PROVE DescriptorFault(K[i]) = NoFault
      <4>1. ~Repeats([k \in DOMAIN K[i].ports |-> K[i].ports[k].port]) /\ ~Repeats(K[i].ports)
        BY <1>4, MadeUpDiffer
      <4>2. ~Repeats(K[i].effects)
        BY <1>4 DEF Repeats
      <4>3. QED
        BY <4>1, <4>2 DEF DescriptorFault
    <3>2. QED
      BY <1>5, <3>1
  <2>2. DOMAIN s \subseteq Nat
    BY <1>1, <1>5
  <2>3. Each(K, DescriptorFault) = FirstFault(s)
    BY DEF Each
  <2> HIDE DEF s
  <2>4. QED
    BY <2>1, <2>2, <2>3, FirstFaultFound
<1>20. InspectFault(d) = FirstFault(<<Each(C, ContractFault), Each(K, DescriptorFault),
                                      IntrospectFault(w, C, K)>>)
  BY DEF InspectFault, C, K, w
<1>21. InspectFault(d) = NoFault
  BY <1>17, <1>18, <1>19, <1>20, ThreeChecks
<1>22. EffectsAreLists(K)
  <2>1. <<>> \in Seq(STRING)
    OBVIOUS
  <2>2. QED
    BY <1>4, <1>5, <2>1 DEF EffectsAreLists
<1>23. QED
  BY <1>9, <1>16, <1>21, <1>22 DEF C, K, w

LEMMA EmptyList ==
  ASSUME NEW A, NEW s \in Seq(A), DOMAIN s = {}
  PROVE  s = <<>>
<1>1. DOMAIN s = 1..Len(s) /\ Len(s) \in Nat
  OBVIOUS
<1>2. Len(s) = 0
  <2>1. 1 \notin 1..Len(s)
    BY <1>1
  <2>2. QED
    BY <1>1, <2>1
<1>3. QED
  BY <1>2

(* Introspection looks up the entry that was validated.                    *)
LEMMA LastEntryFound ==
  ASSUME NEW entries, DOMAIN entries \subseteq Nat, NEW n, ByNode(entries, n) # {}
  PROVE  LastEntry(entries, n) \in ByNode(entries, n)
<1> DEFINE L(j) == /\ entries[j].node = n
                   /\ \A k \in DOMAIN entries : entries[k].node = n => k <= j
           m == CHOOSE j \in DOMAIN entries : L(j)
<1>1. PICK i \in DOMAIN entries :
        entries[i].node = n /\ \A k \in DOMAIN entries : k > i => entries[k].node # n
  BY DEF ByNode
<1>2. L(i)
  BY <1>1
<1>3. m \in DOMAIN entries /\ L(m)
  <2> HIDE DEF L
  <2> QED
    BY <1>2
<1>4. LastEntry(entries, n) = entries[m]
  BY DEF LastEntry
<1> HIDE DEF m
<1>5. ASSUME NEW k \in DOMAIN entries, k > m
      PROVE  entries[k].node # n
  <2>1. k \in Nat /\ m \in Nat
    BY <1>3
  <2>2. ~(k <= m)
    BY <1>5, <2>1
  <2>3. QED
    BY <1>3, <2>2
<1>6. QED
  BY <1>3, <1>4, <1>5 DEF ByNode

(* What the projection of a workflow that fits says about its nodes.       *)
NodeProjected(w, n, v) ==
  /\ v.node = n
  /\ {q.port : q \in v.ports} = w.ins[n] \cup w.outs[n]
  /\ \A q \in v.ports : q.capability = IF q.port \in w.ins[n] THEN {"receive"} ELSE {"emit"}
  /\ v.enforcement = "strict" => v.effects = <<>>

LEMMA ProjectionFits ==
  ASSUME NEW w, NEW contracts, NEW caps, AllFits(w, contracts, caps),
         DOMAIN contracts \subseteq Nat, OrderedCaps(caps), EffectsAreLists(caps),
         NEW i \in DOMAIN w.nodes,
         NEW v, v = Projection(w, contracts, caps).nodes[i]
  PROVE  NodeProjected(w, w.nodes[i], v)
<1> DEFINE n == w.nodes[i]
<1>1. NodeFits(w, n, contracts, caps) /\ PortsClaimed(w, n, caps) /\ CapsFit(w, caps)
  BY DEF AllFits
<1>2. PICK c, cap : /\ v = ProjectedNode(w, n, c, cap)
                    /\ c = LastEntry(contracts, n) /\ cap = LastEntry(caps, n)
  BY DEF Projection
<1>3. c \in ByNode(contracts, n) /\ cap \in ByNode(caps, n)
  <2>1. ByNode(contracts, n) # {} /\ ByNode(caps, n) # {}
    BY <1>1 DEF NodeFits
  <2>2. DOMAIN contracts \subseteq Nat /\ DOMAIN caps \subseteq Nat
    BY DEF OrderedCaps
  <2>3. QED
    BY <1>2, <2>1, <2>2, LastEntryFound
<1> HIDE DEF n
<1>4. DOMAIN caps \subseteq Nat
  BY DEF OrderedCaps
<1>5. PICK j \in DOMAIN caps : cap = caps[j] /\ caps[j].node = n
  BY <1>3, <1>4, ByNodeEntry
<1>6. \A x \in ByNode(caps, n) : x = cap
  BY <1>3, <1>4, ByNodeEntry
<1>7. /\ v.node = n /\ v.effects = cap.effects /\ v.enforcement = EnforcementFor(c.mode)
      /\ v.ports = {ProjectedPort(w, n, p, c, cap) : p \in w.ins[n] \cup w.outs[n]}
  BY <1>2 DEF ProjectedNode
<1>8. ASSUME NEW p PROVE ProjectedPort(w, n, p, c, cap).port = p
  BY DEF ProjectedPort
<1>9. {q.port : q \in v.ports} = w.ins[n] \cup w.outs[n]
  BY <1>7, <1>8
<1>10. ASSUME NEW p \in w.ins[n] \cup w.outs[n]
       PROVE  ProjectedPort(w, n, p, c, cap).capability =
                IF p \in w.ins[n] THEN {"receive"} ELSE {"emit"}
  <2> DEFINE dirs == {cap.ports[k].dir : k \in {l \in DOMAIN cap.ports : cap.ports[l].port = p}}
             dir == IF p \in w.ins[n] THEN "receive" ELSE "emit"
  <2>1. \E k \in DOMAIN cap.ports : cap.ports[k].port = p
    BY <1>1, <1>6 DEF PortsClaimed
  <2>2. ASSUME NEW k \in DOMAIN cap.ports, cap.ports[k].port = p PROVE cap.ports[k].dir = dir
    <3>1. Claimed(w, n, cap.ports[k])
      BY <1>1, <1>5 DEF CapsFit
    <3>2. QED
      BY <2>2, <3>1 DEF Claimed, Declared, Claim
  <2>3. dirs = {dir}
    BY <2>1, <2>2
  <2>4. ProjectedPort(w, n, p, c, cap).capability = dirs
    BY DEF ProjectedPort
  <2>5. QED
    BY <2>3, <2>4
<1>11. \A q \in v.ports : q.capability = IF q.port \in w.ins[n] THEN {"receive"} ELSE {"emit"}
  BY <1>7, <1>8, <1>10
<1>12. v.enforcement = "strict" => v.effects = <<>>
  <2>1. c.mode = "native" \/ DOMAIN cap.effects = {}
    BY <1>1, <1>3 DEF NodeFits
  <2>2. cap.effects \in Seq(STRING)
    BY <1>5 DEF EffectsAreLists
  <2>3. DOMAIN cap.effects = {} => cap.effects = <<>>
    BY <2>2, EmptyList
  <2>4. QED
    BY <1>7, <2>1, <2>3 DEF EnforcementFor
<1>13. QED
  BY <1>7, <1>9, <1>11, <1>12 DEF n, NodeProjected

LEMMA ProjectedEdgesFit ==
  ASSUME NEW w, NEW contracts, NEW caps, AllFits(w, contracts, caps), NEW i \in DOMAIN w.edges,
         NEW v, v = Projection(w, contracts, caps).edges[i]
  PROVE  v.source = v.target \/ {} \in {v.source, v.target}
<1>1. SchemasFit(contracts, w.edges[i])
  BY DEF AllFits
<1>2. v = ProjectedEdge(contracts, w.edges[i])
  BY DEF Projection
<1>3. QED
  BY <1>1, <1>2 DEF ProjectedEdge, SchemasFit

LEMMA ApplicationOrdered ==
  ASSUME NEW a \in Applications
  PROVE  OrderedContracts(a.contracts) /\ OrderedCaps(a.caps) /\ EffectsAreLists(a.caps)
<1>1. a.contracts \in Seq(NodeContracts) /\ a.caps \in Seq(Descriptors)
  BY DEF Applications
<1>2. /\ DOMAIN a.contracts \subseteq Nat /\ DOMAIN a.caps \subseteq Nat
      /\ \A j \in DOMAIN a.contracts : a.contracts[j] \in NodeContracts
      /\ \A j \in DOMAIN a.caps : a.caps[j] \in Descriptors
  BY <1>1
<1>3. ASSUME NEW c \in NodeContracts, NEW k \in DOMAIN c.ports PROVE c.ports[k].port \in Nat
  <2> DEFINE P == [port : Nat, dir : STRING, schema : SUBSET STRING]
  <2>1. c.ports \in Seq(P)
    BY DEF NodeContracts
  <2>2. \A x \in P : x.port \in Nat
    OBVIOUS
  <2> HIDE DEF P
  <2>3. c.ports[k] \in P
    BY <2>1
  <2>4. QED
    BY <2>2, <2>3
<1>4. ASSUME NEW c \in Descriptors
      PROVE  DOMAIN c.ports \subseteq Nat /\ DOMAIN c.effects \subseteq Nat /\ c.effects \in Seq(STRING)
  <2>1. c.ports \in Seq([port : Nat, dir : STRING]) /\ c.effects \in Seq(STRING)
    BY DEF Descriptors
  <2>2. QED
    BY <2>1
<1>5. OrderedContracts(a.contracts)
  BY <1>2, <1>3 DEF OrderedContracts
<1>6. OrderedCaps(a.caps) /\ EffectsAreLists(a.caps)
  BY <1>2, <1>4 DEF OrderedCaps, EffectsAreLists
<1>7. QED
  BY <1>5, <1>6

LEMMA WorkflowParts ==
  ASSUME NEW d, NodesOf(d), DOMAIN d.nodes \subseteq Nat, DOMAIN d.edges \subseteq Nat, PortsAreNumbers
  PROVE  /\ OrderedWorkflow(WorkflowOf(d)) /\ WorkflowOf(d).nodes = nodeIds
         /\ \A i \in DOMAIN nodeIds : /\ WorkflowOf(d).ins[nodeIds[i]] = InPorts[nodeIds[i]]
                                     /\ WorkflowOf(d).outs[nodeIds[i]] = OutPorts[nodeIds[i]]
<1>1. WorkflowOf(d).nodes = nodeIds /\ DOMAIN WorkflowOf(d).edges = DOMAIN d.edges
  BY DEF WorkflowOf, NodesOf
<1>2. ASSUME NEW i \in DOMAIN nodeIds
      PROVE  /\ WorkflowOf(d).ins[nodeIds[i]] = InPorts[nodeIds[i]]
             /\ WorkflowOf(d).outs[nodeIds[i]] = OutPorts[nodeIds[i]]
  BY DEF WorkflowOf, Elems
<1>3. DOMAIN nodeIds \subseteq Nat
  BY DEF NodesOf
<1>4. QED
  BY <1>1, <1>2, <1>3 DEF OrderedWorkflow, PortsAreNumbers

(* A document for which introspection succeeds is one that fits.           *)
LEMMA IntrospectedFits ==
  ASSUME DiskIsSound, Documented, GraphSound, at = "introspect", cmd \in {"inspect", "embed"},
         NEW d \in document, InspectFault(d) = NoFault
  PROVE  /\ AllFits(WorkflowOf(d), ContractsOf(d), CapabilitiesOf(d))
         /\ DOMAIN ContractsOf(d) \subseteq Nat
         /\ OrderedCaps(CapabilitiesOf(d)) /\ EffectsAreLists(CapabilitiesOf(d))
         /\ NodesOf(d) /\ DOMAIN d.nodes \subseteq Nat /\ DOMAIN d.edges \subseteq Nat
         /\ PortsAreNumbers
<1>1. HasDecoded /\ HasGraph
  BY DEF HasGraph, HasDecoded, HasWorkflow
<1>2. /\ NodesOf(d) /\ DOMAIN d.nodes \subseteq Nat /\ DOMAIN d.edges \subseteq Nat
      /\ PortsAreNumbers
  BY <1>1 DEF Documented, NodesOf
<1>3. CASE cmd = "inspect"
  <2>1. d \in Docs /\ FitsInstance(d) /\ FormatFault(d) = NoFault
    BY <1>1, <1>3 DEF Documented
  <2>2. ~HasDuplicates(nodeIds)
    <3>1. AcceptedIsWellFormed
      BY IndexedIsWellFormed DEF GraphSound
    <3>2. QED
      BY <1>1, <3>1 DEF Documented, AcceptedIsWellFormed
  <2>3. DOMAIN ContractsOf(d) \subseteq Nat
    BY <1>2, <1>3 DEF ContractsOf
  <2>4. QED
    BY <1>2, <1>3, <2>1, <2>2, <2>3, PassiveFits
<1>4. CASE cmd = "embed"
  <2>1. ContractsOf(d) = disk.app.contracts /\ CapabilitiesOf(d) = disk.app.caps
    BY <1>4 DEF ContractsOf, CapabilitiesOf
  <2>2. disk.app \in Applications
    BY DEF DiskIsSound, DiskShape
  <2>3. /\ OrderedContracts(ContractsOf(d)) /\ OrderedCaps(CapabilitiesOf(d))
        /\ EffectsAreLists(CapabilitiesOf(d))
    BY <2>1, <2>2, ApplicationOrdered
  <2>4. IntrospectFault(WorkflowOf(d), ContractsOf(d), CapabilitiesOf(d)) = NoFault
    BY ThreeChecks DEF InspectFault
  <2>5. AllFits(WorkflowOf(d), ContractsOf(d), CapabilitiesOf(d))
    BY <1>2, <2>3, <2>4, WorkflowParts, IntrospectCases
  <2>6. DOMAIN ContractsOf(d) \subseteq Nat
    BY <2>3 DEF OrderedContracts
  <2>7. QED
    BY <1>2, <2>3, <2>5, <2>6
<1>5. QED
  BY <1>3, <1>4

(* inspect and an application come to their report through introspection.  *)
LEMMA ReportsOnce ==
  ASSUME StepOfCommand, [HostNext]_allVars
  PROVE  Introspect \/ ~Introspected' \/ UNCHANGED <<at, cmd, document, nodeIds>>
<1> USE DEF bounds, reading, results, IsManifest, IsRun, Introspected
<1>0. menu \subseteq Commands /\ cmd \in Commands
  BY DEF StepOfCommand
<1>1. ASSUME NEW c \in menu, Start(c) PROVE ~Introspected'
  BY <1>0, <1>1 DEF Start, FirstStep
<1>2. CASE ReadWorkflow
  BY <1>2, ProceedCases DEF ReadWorkflow
<1>3. CASE ReadManifest
  BY <1>3, ProceedCases DEF ReadManifest
<1>4. CASE ParseManifest
  BY <1>4, ProceedCases DEF ParseManifest
<1>5. CASE CheckManifest
  BY <1>5, ProceedCases DEF CheckManifest, StepOfCommand
<1>6. CASE Decode
  BY <1>6, ProceedCases DEF Decode
<1>7. CASE ValidateGraph
  BY <1>7 DEF ValidateGraph, hostVars
<1>8. CASE GraphValidated
  BY <1>8, ProceedCases DEF GraphValidated, AfterGraph
<1>9. CASE ResolveRuleSets
  BY <1>9, ProceedCases DEF ResolveRuleSets, StepOfCommand
<1>10. CASE CheckNodes
  BY <1>10, ProceedCases DEF CheckNodes, StepOfCommand
<1>11. CASE BuildRegistry
  BY <1>11, ProceedCases DEF BuildRegistry
<1>12. CASE Execute
  BY <1>12, ProceedCases DEF Execute, Exit
<1>13. CASE CreateMetadata
  BY <1>13, ProceedCases DEF CreateMetadata, Exit
<1>14. CASE FillMetadata
  BY <1>14, ProceedCases DEF FillMetadata, Exit, StepOfCommand
<1>15. CASE Report
  BY <1>15 DEF Report, Exit
<1>16. ASSUME NEW d, Changed(d) PROVE UNCHANGED <<at, cmd, document, nodeIds>>
  BY <1>16 DEF Changed, vars
<1>17. CASE UNCHANGED allVars
  BY <1>17 DEF allVars, hostVars, vars
<1>18. QED
  BY <1>1, <1>2, <1>3, <1>4, <1>5, <1>6, <1>7, <1>8, <1>9, <1>10, <1>11, <1>12, <1>13, <1>14,
     <1>15, <1>16, <1>17 DEF HostNext, Step, ReplaceComponent, RemoveWorkflow

LEMMA IntrospectionStep ==
  StepOfCommand /\ DiskIsSound /\ Documented /\ GraphSound /\ IntrospectionSound /\ [HostNext]_allVars
    => IntrospectionSound'
<1> SUFFICES ASSUME StepOfCommand, DiskIsSound, Documented, GraphSound, IntrospectionSound,
                    [HostNext]_allVars
             PROVE  IntrospectionSound'
  OBVIOUS
<1>1. ASSUME UNCHANGED projection, ~Introspected' \/ UNCHANGED <<at, cmd, document, nodeIds>>
      PROVE  IntrospectionSound'
  <2>1. \A p \in projection' : ValidProjection(p)
    BY <1>1 DEF IntrospectionSound
  <2>2. CASE ~Introspected'
    BY <2>1, <2>2 DEF IntrospectionSound, ValidProjection
  <2>3. CASE UNCHANGED <<at, cmd, document, nodeIds>>
    <3>1. Introspected' => \E p \in projection, d \in document : WholeProjection(p, d)
      BY <2>3 DEF IntrospectionSound, Introspected
    <3>2. ASSUME NEW p, NEW d, WholeProjection(p, d) PROVE WholeProjection(p, d)'
      BY <2>3, <3>2 DEF WholeProjection, WorkflowOf
    <3>3. QED
      BY <1>1, <2>1, <2>3, <3>1, <3>2 DEF IntrospectionSound, ValidProjection
  <2>4. QED
    BY <1>1, <2>2, <2>3
<1>2. CASE Introspect
  <2>1. PICK d \in document :
          /\ Proceed(InspectFault(d), "report")
          /\ projection' = IF InspectFault(d) # NoFault THEN {}
                           ELSE {Projection(WorkflowOf(d), ContractsOf(d), CapabilitiesOf(d))}
    BY <1>2 DEF Introspect
  <2>2. CASE InspectFault(d) # NoFault
    <3>1. projection' = {} /\ at' = "idle"
      BY <2>1, <2>2, ProceedCases
    <3>2. QED
      BY <3>1 DEF IntrospectionSound, Introspected
  <2>3. CASE InspectFault(d) = NoFault
    <3> DEFINE w == WorkflowOf(d)
               P == Projection(w, ContractsOf(d), CapabilitiesOf(d))
    <3>1. at = "introspect" /\ cmd \in {"inspect", "embed"}
      BY <1>2 DEF Introspect, StepOfCommand
    <3>2. /\ AllFits(w, ContractsOf(d), CapabilitiesOf(d))
          /\ DOMAIN ContractsOf(d) \subseteq Nat
          /\ OrderedCaps(CapabilitiesOf(d)) /\ EffectsAreLists(CapabilitiesOf(d))
          /\ w.nodes = nodeIds /\ NodesOf(d)
          /\ \A i \in DOMAIN nodeIds : /\ w.ins[nodeIds[i]] = InPorts[nodeIds[i]]
                                      /\ w.outs[nodeIds[i]] = OutPorts[nodeIds[i]]
      BY <2>3, <3>1, IntrospectedFits, WorkflowParts
    <3>3. DOMAIN P.nodes = DOMAIN w.nodes /\ DOMAIN P.edges = DOMAIN w.edges
      BY DEF Projection
    <3>4. ASSUME NEW i \in DOMAIN P.nodes, NEW v, v = P.nodes[i]
          PROVE  /\ {q.port : q \in v.ports} = InPorts[v.node] \cup OutPorts[v.node]
                 /\ \A q \in v.ports :
                      q.capability = IF q.port \in InPorts[v.node] THEN {"receive"} ELSE {"emit"}
                 /\ v.enforcement = "strict" => v.effects = <<>>
      <4>1. NodeProjected(w, w.nodes[i], v)
        <5>1. i \in DOMAIN w.nodes /\ v = Projection(w, ContractsOf(d), CapabilitiesOf(d)).nodes[i]
          BY <3>3, <3>4
        <5>2. AllFits(w, ContractsOf(d), CapabilitiesOf(d))
          BY <3>2
        <5>3. /\ DOMAIN ContractsOf(d) \subseteq Nat
              /\ OrderedCaps(CapabilitiesOf(d)) /\ EffectsAreLists(CapabilitiesOf(d))
          BY <3>2
        <5>4. PICK contracts, caps :
                contracts = ContractsOf(d) /\ caps = CapabilitiesOf(d)
          OBVIOUS
        <5>5. /\ i \in DOMAIN w.nodes /\ v = Projection(w, contracts, caps).nodes[i]
              /\ AllFits(w, contracts, caps) /\ DOMAIN contracts \subseteq Nat
              /\ OrderedCaps(caps) /\ EffectsAreLists(caps)
          BY <5>1, <5>2, <5>3, <5>4
        <5> HIDE DEF w, P
        <5>6. QED
          BY <5>5, ProjectionFits, Zenon
      <4>2. v.node = w.nodes[i]
        BY <4>1 DEF NodeProjected
      <4>3. w.ins[v.node] = InPorts[v.node] /\ w.outs[v.node] = OutPorts[v.node]
        BY <3>2, <3>3, <4>2
      <4> HIDE DEF w, P
      <4>4. QED
        BY <4>1, <4>2, <4>3 DEF NodeProjected
    <3>5. ASSUME NEW i \in DOMAIN P.edges, NEW v, v = P.edges[i]
          PROVE  v.source = v.target \/ {} \in {v.source, v.target}
      BY <3>2, <3>3, <3>5, ProjectedEdgesFit
    <3>6. PICK p : p = P
      OBVIOUS
    <3>7. projection' = {p}
      BY <2>1, <2>3, <3>6
    <3>8. ValidProjection(p)'
      <4> HIDE DEF P
      <4> QED
        BY <3>4, <3>5, <3>6 DEF ValidProjection
    <3>9. WholeProjection(p, d)' /\ document' = document
      <4>1. UNCHANGED <<document, nodeIds>>
        BY <1>2 DEF Introspect, reading, vars
      <4>2. [i \in DOMAIN P.nodes |-> P.nodes[i].node] = nodeIds
        <5>1. \A i \in DOMAIN P.nodes : P.nodes[i].node = nodeIds[i]
          BY <3>2 DEF Projection, ProjectedNode
        <5>2. DOMAIN P.nodes = DOMAIN nodeIds
          BY <3>2, <3>3
        <5>3. nodeIds = [i \in DOMAIN nodeIds |-> nodeIds[i]]
          BY <3>2 DEF NodesOf
        <5> HIDE DEF P
        <5>4. QED
          BY <5>1, <5>2, <5>3
      <4>3. [i \in DOMAIN P.edges |-> P.edges[i].edge] = w.edges
        <5>1. \A i \in DOMAIN P.edges : P.edges[i].edge = w.edges[i]
          BY DEF Projection, ProjectedEdge
        <5>2. w.edges = [i \in DOMAIN w.edges |-> w.edges[i]]
          BY DEF WorkflowOf
        <5> HIDE DEF P, w
        <5>3. QED
          BY <3>3, <5>1, <5>2
      <4>4. w.edges = (WorkflowOf(d).edges)'
        BY DEF WorkflowOf
      <4> HIDE DEF P, w
      <4>5. QED
        BY <3>6, <4>1, <4>2, <4>3, <4>4 DEF WholeProjection
    <3>10. QED
      BY <3>7, <3>8, <3>9 DEF IntrospectionSound
  <2>4. QED
    BY <2>2, <2>3
<1>3. UNCHANGED projection \/ Introspect
  BY DEF HostNext, Step, Start, ReadWorkflow, ReadManifest, ParseManifest, CheckManifest, Decode,
         ValidateGraph, GraphValidated, ResolveRuleSets, CheckNodes, BuildRegistry,
         Execute, CreateMetadata, FillMetadata, Report, ReplaceComponent, RemoveWorkflow, Changed,
         allVars, hostVars, results
<1>4. Introspect \/ ~Introspected' \/ UNCHANGED <<at, cmd, document, nodeIds>>
  BY ReportsOnce
<1>5. QED
  BY <1>1, <1>2, <1>3, <1>4

(* What introspection returns is what the workflow declares, for every     *)
(* document, every contract and every descriptor an application brings.    *)
THEOREM IntrospectionIsSound == HostSpec => []IntrospectionSound
<1>1. HostInit => IntrospectionSound
  BY DEF HostInit, IntrospectionSound, Introspected
<1>2. StepOfCommand /\ DiskIsSound /\ Documented /\ GraphSound /\ IntrospectionSound /\ [HostNext]_allVars
        => IntrospectionSound'
  BY IntrospectionStep
<1>3. QED
  BY <1>1, <1>2, HostGraphs, PTL DEF HostSpec

-------------------------------------------------------------------------------
(* The answers of the commands *)

LEMMA ParserCases ==
  ASSUME NEW d
  PROVE  /\ cmd \notin {"manifest_workflow", "embed"} => ParserFault(d) = ExtensionFault(d, disk.ext)
         /\ cmd = "manifest_workflow" => ParserFault(d) = DecodeFault(d, "json")
         /\ Json => ExtensionFault(d, disk.ext) = DecodeFault(d, "json")
<1>1. cmd \notin {"manifest_workflow", "embed"} => ParserFault(d) = ExtensionFault(d, disk.ext)
  BY DEF ParserFault, ExtensionFault
<1>2. cmd = "manifest_workflow" => ParserFault(d) = DecodeFault(d, "json")
  BY DEF ParserFault
<1>3. Json => ExtensionFault(d, disk.ext) = DecodeFault(d, "json")
  BY DEF ExtensionFault, Json
<1>4. QED
  BY <1>1, <1>2, <1>3

LEMMA LoadCases ==
  ASSUME TracingFault(disk.env) = NoFault, NEW d, disk.doc = {d}
  PROVE  LoadFault = DocFault(d, disk.ext)
<1>1. (CHOOSE x \in {d} : TRUE) = d
  OBVIOUS
<1>2. QED
  BY <1>1 DEF LoadFault, LoadFaultOf

(* A command that has built the graph has read a good workflow.            *)
LEMMA Validated ==
  ASSUME DiskIsSound, Informed, Documented, GraphSound, HasGraph, fresh, cmd # "embed"
  PROVE  /\ TracingFault(disk.env) = NoFault
         /\ \E d \in document :
              /\ disk.doc = {d}
              /\ ParserFault(d) = NoFault /\ FormatFault(d) = NoFault /\ GraphFault(d) = NoFault
              /\ GraphOf(d).nodes = nodeIds
         /\ cmd # "manifest_workflow" => LoadFault = NoFault
<1>1. at # "idle" /\ HasDecoded /\ HasWorkflow
  BY DEF HasGraph, HasDecoded, HasWorkflow
<1>2. TracingFault(disk.env) = NoFault /\ KnowsDocument /\ DocumentParses
  BY <1>1 DEF Informed
<1>3. PICK d \in document : disk.doc = {d}
  BY <1>2 DEF KnowsDocument, DiskIsSound, DiskShape, AtMostOne
<1>4. ParserFault(d) = NoFault
  BY <1>2, <1>3 DEF DocumentParses
<1>5. FormatFault(d) = NoFault /\ Graph = GraphOf(d)
  BY <1>1, <1>3 DEF Documented
<1>6. GraphOf(d).nodes = nodeIds
  BY <1>5 DEF Graph
<1>7. GraphFault(d) = NoFault
  <2>1. VerdictIsDecision
    BY DecidingIsDecision DEF GraphSound
  <2>2. Decision(GraphOf(d)) = "accepted"
    BY <1>5, <2>1 DEF VerdictIsDecision, Documented
  <2>3. QED
    BY <2>2 DEF GraphFault
<1>8. cmd # "manifest_workflow" => LoadFault = NoFault
  BY <1>2, <1>3, <1>4, <1>5, <1>7, ParserCases, LoadCases DEF DocFault
<1>9. QED
  BY <1>2, <1>3, <1>4, <1>5, <1>6, <1>7, <1>8

LEMMA RuleSetFaultTag ==
  ASSUME NEW d, DOMAIN d.nodes \subseteq Nat, NEW registry, RuleSetsFault(d, registry) # NoFault
  PROVE  RuleSetsFault(d, registry)[1] = "rule_set"
<1> DEFINE s == [i \in DOMAIN d.nodes |-> RuleSetFault(d.nodes[i], i, registry)]
<1>1. RuleSetsFault(d, registry) = FirstFault(s)
  BY DEF RuleSetsFault
<1>2. DOMAIN s \subseteq Nat
  OBVIOUS
<1>3. \A i \in DOMAIN s : s[i] # NoFault => s[i][1] = "rule_set"
  BY DEF RuleSetFault
<1> HIDE DEF s
<1>4. QED
  BY <1>1, <1>2, <1>3, FirstFaultFound

(* What a run makes of the manifest, and what checking it does.            *)
LEMMA RegistryCases ==
  ASSUME DiskIsSound, NEW m \in disk.manifest, DOMAIN nodeIds \subseteq Nat
  PROVE  /\ RegistryFault(m) = NoFault =>
              ManifestFault(m) = NoFault /\ Elems(SpecNodes(m)) \subseteq Elems(nodeIds)
         /\ RegistryFault(m) # NoFault =>
              \/ ManifestFault(m) # NoFault
              \/ ~(Elems(SpecNodes(m)) \subseteq Elems(nodeIds))
              \/ RegistryFault(m) \in LoadFaults /\ Unloadable
<1> DEFINE F(i) == ComponentFault(disk.comps[m.specs[i].path])
           B(j) == [i \in DOMAIN m.specs |->
                     IF m.specs[i].node.name = nodeIds[j] THEN F(i) ELSE NoFault]
           a == [j \in DOMAIN nodeIds |-> FirstFault(B(j))]
           b == IF Elems(SpecNodes(m)) \subseteq Elems(nodeIds) THEN NoFault ELSE <<"manifest_node">>
<1>1. RegistryFault(m) = IF HasDuplicates(SpecNodes(m)) THEN <<"manifest_duplicate">>
                         ELSE FirstFault(<<FirstFault(a), b>>)
  BY DEF RegistryFault, Each
<1>2. /\ DOMAIN m.specs \subseteq Nat
      /\ \A i \in DOMAIN m.specs : m.specs[i].path \in DOMAIN disk.comps
  BY DEF DiskIsSound, DiskShape, ManifestDocs
<1>3. b = NoFault <=> Elems(SpecNodes(m)) \subseteq Elems(nodeIds)
  BY DEF NoFault
<1>4. ASSUME NEW j \in DOMAIN nodeIds
      PROVE  /\ FirstFault(B(j)) = NoFault <=>
                  \A i \in DOMAIN m.specs : m.specs[i].node.name = nodeIds[j] => F(i) = NoFault
             /\ FirstFault(B(j)) # NoFault => \E i \in DOMAIN m.specs : F(i) = FirstFault(B(j))
  <2> DEFINE t == B(j)
  <2>1. DOMAIN t = DOMAIN m.specs
    OBVIOUS
  <2>2. \A i \in DOMAIN t : t[i] = IF m.specs[i].node.name = nodeIds[j] THEN F(i) ELSE NoFault
    OBVIOUS
  <2> HIDE DEF t, F
  <2>3. /\ FirstFault(t) = NoFault <=> \A i \in DOMAIN t : t[i] = NoFault
        /\ FirstFault(t) # NoFault => \E i \in DOMAIN t : t[i] = FirstFault(t)
    BY <1>2, <2>1, FirstFaultFound
  <2>4. /\ FirstFault(t) = NoFault <=>
             \A i \in DOMAIN m.specs : m.specs[i].node.name = nodeIds[j] => F(i) = NoFault
        /\ FirstFault(t) # NoFault => \E i \in DOMAIN m.specs : F(i) = FirstFault(t)
    BY <2>1, <2>2, <2>3
  <2>5. QED
    BY <2>4 DEF t
<1>5. DOMAIN a = DOMAIN nodeIds /\ \A j \in DOMAIN nodeIds : a[j] = FirstFault(B(j))
  OBVIOUS
<1>6. ASSUME NEW i \in DOMAIN m.specs
      PROVE  /\ disk.comps[m.specs[i].path] = "absent" => ManifestFault(m) # NoFault
             /\ F(i) # NoFault => \/ ManifestFault(m) # NoFault
                                  \/ F(i) \in LoadFaults /\ Unloadable
  <2>1. disk.comps[m.specs[i].path] = "absent" => ManifestFault(m) # NoFault
    BY DEF ManifestFault, NoFault
  <2>2. disk.comps[m.specs[i].path] \in {"unreadable", "garbage"} => Unloadable
    BY <1>2 DEF Unloadable
  <2>3. F(i) # NoFault => /\ F(i) \in LoadFaults
                          /\ disk.comps[m.specs[i].path] \in {"absent", "unreadable", "garbage"}
    BY DEF ComponentFault, LoadFaults
  <2>4. QED
    BY <2>1, <2>2, <2>3
<1>7. ASSUME NEW i \in DOMAIN m.specs PROVE F(i) = NoFault => disk.comps[m.specs[i].path] # "absent"
  BY DEF ComponentFault, NoFault
<1>8. ManifestFault(m) = NoFault <=>
        /\ ~HasDuplicates(SpecNodes(m))
        /\ \A i \in DOMAIN m.specs : disk.comps[m.specs[i].path] # "absent"
  BY DEF ManifestFault, NoFault
<1>9. <<"manifest_duplicate">> # NoFault
  BY DEF NoFault
<1> HIDE DEF F, B, a, b
<1>10. /\ FirstFault(a) = NoFault <=> \A j \in DOMAIN a : a[j] = NoFault
       /\ FirstFault(a) # NoFault => \E j \in DOMAIN a : a[j] = FirstFault(a)
  BY <1>5, FirstFaultFound
<1>11. /\ FirstFault(<<FirstFault(a), b>>) = NoFault <=> FirstFault(a) = NoFault /\ b = NoFault
       /\ FirstFault(<<FirstFault(a), b>>) # NoFault =>
            FirstFault(<<FirstFault(a), b>>) \in {FirstFault(a), b}
  <2> DEFINE t == <<FirstFault(a), b>>
  <2>1. DOMAIN t = 1..2 /\ t[1] = FirstFault(a) /\ t[2] = b
    OBVIOUS
  <2> HIDE DEF t
  <2>2. FirstFault(t) # NoFault => \E i \in DOMAIN t : t[i] = FirstFault(t)
    BY <2>1, FirstFaultFound
  <2>3. FirstFault(t) # NoFault => FirstFault(t) \in {FirstFault(a), b}
    BY <2>1, <2>2
  <2>4. QED
    BY <2>3, TwoChecks DEF t
<1>12. RegistryFault(m) = NoFault =>
         ManifestFault(m) = NoFault /\ Elems(SpecNodes(m)) \subseteq Elems(nodeIds)
  <2> SUFFICES ASSUME RegistryFault(m) = NoFault
               PROVE  ManifestFault(m) = NoFault /\ Elems(SpecNodes(m)) \subseteq Elems(nodeIds)
    OBVIOUS
  <2>1. ~HasDuplicates(SpecNodes(m)) /\ FirstFault(a) = NoFault /\ b = NoFault
    BY <1>1, <1>9, <1>11
  <2>2. Elems(SpecNodes(m)) \subseteq Elems(nodeIds)
    BY <1>3, <2>1
  <2>3. ASSUME NEW i \in DOMAIN m.specs PROVE disk.comps[m.specs[i].path] # "absent"
    <3>1. m.specs[i].node.name \in Elems(nodeIds)
      BY <2>2 DEF SpecNodes, Elems
    <3>2. PICK j \in DOMAIN nodeIds : nodeIds[j] = m.specs[i].node.name
      BY <3>1 DEF Elems
    <3>3. F(i) = NoFault
      BY <1>4, <1>5, <1>10, <2>1, <3>2
    <3>4. QED
      BY <1>7, <3>3
  <2>4. QED
    BY <1>8, <2>1, <2>2, <2>3
<1>13. RegistryFault(m) # NoFault =>
         \/ ManifestFault(m) # NoFault
         \/ ~(Elems(SpecNodes(m)) \subseteq Elems(nodeIds))
         \/ RegistryFault(m) \in LoadFaults /\ Unloadable
  <2> SUFFICES ASSUME RegistryFault(m) # NoFault, ManifestFault(m) = NoFault, b = NoFault
               PROVE  RegistryFault(m) \in LoadFaults /\ Unloadable
    BY <1>3
  <2>1. RegistryFault(m) = FirstFault(a) /\ FirstFault(a) # NoFault
    BY <1>1, <1>8, <1>11
  <2>2. PICK j \in DOMAIN nodeIds : FirstFault(B(j)) = FirstFault(a)
    BY <1>5, <1>10, <2>1
  <2>3. PICK i \in DOMAIN m.specs : F(i) = FirstFault(a)
    BY <1>4, <2>1, <2>2
  <2>4. QED
    BY <1>6, <2>1, <2>3
<1>14. QED
  BY <1>12, <1>13

LEMMA InspectNeverRefuses ==
  ASSUME Documented, GraphSound, at = "introspect", cmd = "inspect", NEW d \in document
  PROVE  InspectFault(d) = NoFault
<1>1. HasDecoded /\ HasGraph
  BY DEF HasGraph, HasDecoded, HasWorkflow
<1>2. d \in Docs /\ FitsInstance(d) /\ FormatFault(d) = NoFault /\ NodesOf(d)
  BY <1>1 DEF Documented, NodesOf
<1>3. AcceptedIsWellFormed
  BY IndexedIsWellFormed DEF GraphSound
<1>4. ~HasDuplicates(nodeIds)
  BY <1>1, <1>3 DEF Documented, AcceptedIsWellFormed
<1>5. QED
  BY <1>2, <1>4, PassiveFits

(* A command that gets to its report has found everything good.            *)
LEMMA ReportIsSound ==
  ASSUME StepOfCommand, DiskIsSound, Documented, GraphSound, Informed, at = "report", fresh
  PROVE  Sound(cmd, NoFault)
<1> USE DEF IsManifest
<1>1. CASE cmd \in {"manifest", "schema", "embed"}
  BY <1>1 DEF Sound, SoundIn
<1>2. CASE cmd \notin {"manifest", "schema", "embed"}
  <2>1. HasGraph /\ HasDecoded
    BY <1>2 DEF HasGraph, HasDecoded, HasWorkflow
  <2>2. TracingFault(disk.env) = NoFault /\ (cmd # "manifest_workflow" => LoadFault = NoFault)
    BY <1>2, <2>1, Validated
  <2>3. PICK d \in document : /\ disk.doc = {d}
                              /\ ParserFault(d) = NoFault /\ FormatFault(d) = NoFault
                              /\ GraphFault(d) = NoFault
                              /\ GraphOf(d).nodes = nodeIds
    BY <1>2, <2>1, Validated
  <2>4. cmd \in {"run_wasm", "manifest_workflow"} => disk.manifest # {} /\ SpecsAreGood
    BY DEF Informed, HasSpecs, HasManifest, KnowsManifest
  <2>5. cmd \in {"run_wasm", "manifest_workflow"} => ManifestIsGood /\ ManifestNamesNodes
    <3>1. cmd = "manifest_workflow" => ManifestIsGood /\ ManifestNamesNodes
      BY DEF Informed, HasSpecs, HasManifest
    <3>2. cmd = "run_wasm" => ManifestIsGood /\ ManifestNamesNodes
      <4>1. DOMAIN nodeIds \subseteq Nat
        BY DEF GraphSound, Typed
      <4>2. cmd = "run_wasm" => ComponentsLoad
        BY <2>1 DEF Informed
      <4>3. QED
        BY <4>1, <4>2, RegistryCases DEF ComponentsLoad, ManifestIsGood, ManifestNamesNodes
    <3>3. QED
      BY <3>1, <3>2
  <2>6. cmd = "manifest_workflow" \/ (cmd = "run_wasm" /\ Json) => GoodManifest
    <3>1. cmd = "manifest_workflow" \/ (cmd = "run_wasm" /\ Json) => DecodeFault(d, "json") = NoFault
      BY <2>3, ParserCases
    <3>2. QED
      BY <2>2, <2>3, <2>4, <2>5, <3>1 DEF GoodManifest, GoodWorkflow, ManifestNamesNodes
  <2>7. QED
    BY <1>2, <2>2, <2>6 DEF Sound, SoundIn
<1>3. QED
  BY <1>1, <1>2

LEMMA AnswersStep ==
  StepOfCommand /\ DiskIsSound /\ Documented /\ GraphSound /\ Informed /\ AnswersSound
    /\ [HostNext]_allVars => AnswersSound'
<1> SUFFICES ASSUME StepOfCommand, DiskIsSound, Documented, GraphSound, Informed, AnswersSound,
                    [HostNext]_allVars
             PROVE  AnswersSound'
  OBVIOUS
<1> USE DEF bounds, reading, results, IsRun, IsManifest
<1>0. cmd \in Commands /\ AtMostOne(disk.doc) /\ AtMostOne(disk.manifest)
  BY DEF StepOfCommand, DiskIsSound, DiskShape
<1>d. UNCHANGED disk => SameFiles
  BY DEF SameFiles
<1>e. ASSUME NEW x, disk' = [disk EXCEPT !.metadata = x] PROVE SameFiles
  BY <1>e DEF DiskIsSound, DiskShape, SameFiles
<1>x. ASSUME NEW f, SameFiles, fresh => Sound(cmd, f),
             answers' = IF fresh THEN [answers EXCEPT ![cmd] = f] ELSE answers
      PROVE  AnswersSound'
  BY <1>0, <1>x, AnswersStay, AnswerGiven
<1>p. ASSUME NEW f, NEW step, Proceed(f, step), UNCHANGED disk, fresh /\ f # NoFault => Sound(cmd, f)
      PROVE  AnswersSound'
  BY <1>d, <1>p, <1>x, AnswersStay, ProceedCases
(* A refusal that says nothing of its own.                                 *)
<1>h. ASSUME NEW f, f # NoFault,
             cmd \in {"validate", "inspect", "explain", "run"} => f = LoadFault,
             cmd = "run_wasm" => (Json => ~GoodManifest),
             cmd = "manifest_workflow" => ~GoodManifest
      PROVE  Sound(cmd, f)
  BY <1>h DEF Sound, SoundIn
<1>t. fresh /\ at # "idle" => TracingFault(disk.env) = NoFault
  BY DEF Informed
<1>1. ASSUME NEW c \in menu, Start(c) PROVE AnswersSound'
  <2> DEFINE t == TracingFault(disk.env)
  <2>1. c \in Commands /\ SameFiles
    BY <1>1, <1>d DEF StepOfCommand, Start
  <2>2. CASE t = NoFault
    BY <1>1, <2>1, <2>2, AnswersStay DEF Start
  <2>3. CASE t # NoFault
    <3>1. LoadFault = t /\ ~GoodManifest
      BY <2>3 DEF LoadFault, LoadFaultOf, GoodManifest
    <3>2. answers' = [answers EXCEPT ![c] = t]
      BY <1>1, <2>3 DEF Start
    <3> HIDE DEF t
    <3>3. Sound(c, t)
      BY <2>3, <3>1 DEF Sound, SoundIn
    <3>4. QED
      BY <2>1, <3>2, <3>3, AnswerGiven
  <2>4. QED
    BY <2>2, <2>3
<1>2. CASE ReadWorkflow
  <2>1. \E step : Proceed(IF disk.doc = {} THEN <<"io", "workflow">> ELSE NoFault, step)
    BY <1>2 DEF ReadWorkflow
  <2>2. at = "read_workflow" /\ UNCHANGED disk
    BY <1>2 DEF ReadWorkflow
  <2>3. disk.doc = {} /\ fresh => LoadFault = <<"io", "workflow">> /\ ~GoodManifest
    BY <1>t, <2>2 DEF LoadFault, LoadFaultOf, GoodManifest
  <2>4. <<"io", "workflow">> # NoFault
    BY DEF NoFault
  <2>5. QED
    BY <1>h, <1>p, <2>1, <2>2, <2>3, <2>4
<1>3. CASE ReadManifest
  <2>1. \E step : Proceed(IF disk.manifest = {} THEN <<"io", "manifest">> ELSE NoFault, step)
    BY <1>3 DEF ReadManifest
  <2>2. cmd \in {"run_wasm", "manifest", "manifest_workflow"} /\ UNCHANGED disk
    BY <1>3 DEF ReadManifest, StepOfCommand
  <2>3. disk.manifest = {} => ~GoodManifest
    BY DEF GoodManifest
  <2>4. <<"io", "manifest">> # NoFault
    BY DEF NoFault
  <2>5. QED
    BY <1>h, <1>p, <2>1, <2>2, <2>3, <2>4
<1>4. CASE ParseManifest
  <2>1. PICK m \in specs : \E step : Proceed(SpecsFault(m), step)
    BY <1>4 DEF ParseManifest
  <2>2. cmd \in {"run_wasm", "manifest", "manifest_workflow"} /\ UNCHANGED disk /\ at = "specs"
    BY <1>4 DEF ParseManifest, StepOfCommand
  <2>3. fresh => m \in disk.manifest
    BY <2>2 DEF Informed, HasManifest, KnowsManifest
  <2>4. fresh /\ SpecsFault(m) # NoFault => ~GoodManifest
    BY <2>3 DEF GoodManifest, SpecsAreGood
  <2>5. QED
    BY <1>h, <1>p, <2>1, <2>2, <2>4
<1>5. CASE CheckManifest
  <2>1. PICK m \in specs : \E step : Proceed(ManifestFault(m), step)
    BY <1>5 DEF CheckManifest
  <2>2. cmd \in {"manifest", "manifest_workflow"} /\ UNCHANGED disk /\ at = "check_manifest"
    BY <1>5 DEF CheckManifest, StepOfCommand
  <2>3. fresh => m \in disk.manifest
    BY <2>2 DEF Informed, HasManifest, KnowsManifest
  <2>4. fresh /\ ManifestFault(m) # NoFault => ~GoodManifest
    BY <2>3 DEF GoodManifest, ManifestIsGood
  <2>5. QED
    BY <1>h, <1>p, <2>1, <2>2, <2>4
<1>6. CASE Decode
  <2>1. PICK d \in document : Decoded(d)
    BY <1>6, DecodeCases
  <2>2. UNCHANGED disk /\ at = "decode" /\ cmd \notin {"manifest", "schema"}
    BY <1>6 DEF Decode, StepOfCommand
  <2>3. ASSUME fresh, ReadFault(d) # NoFault, cmd # "embed" PROVE Sound(cmd, ReadFault(d))
    <3>1. disk.doc = {d} /\ TracingFault(disk.env) = NoFault
      BY <1>0, <2>2, <2>3 DEF Informed, HasWorkflow, KnowsDocument, AtMostOne
    <3>2. ReadFault(d) = IF ParserFault(d) # NoFault THEN ParserFault(d) ELSE FormatFault(d)
      BY <2>3 DEF ReadFault, InlineFault
    <3>3. cmd # "manifest_workflow" => ReadFault(d) = LoadFault
      BY <2>3, <3>1, <3>2, ParserCases, LoadCases DEF DocFault
    <3>4. cmd = "manifest_workflow" \/ Json => ~GoodManifest
      <4>1. cmd = "manifest_workflow" \/ Json => ParserFault(d) = DecodeFault(d, "json")
        BY <2>3, ParserCases
      <4>2. QED
        BY <2>3, <3>1, <3>2, <4>1 DEF GoodManifest, GoodWorkflow
    <3>5. QED
      BY <1>h, <2>3, <3>3, <3>4
  <2>4. cmd = "embed" => Sound(cmd, ReadFault(d))
    BY DEF Sound, SoundIn
  <2>5. QED
    BY <1>p, <2>1, <2>2, <2>3, <2>4 DEF Decoded
<1>7. CASE ValidateGraph
  BY <1>7, <1>d, AnswersStay DEF ValidateGraph, hostVars
<1>8. CASE GraphValidated
  <2> DEFINE f == IF verdict.kind = "accepted" THEN NoFault ELSE <<"workflow", verdict.kind>>
  <2>1. Proceed(f, AfterGraph)
    BY <1>8 DEF GraphValidated
  <2>2. /\ UNCHANGED disk /\ at = "graph" /\ phase = "done" /\ cmd \notin {"manifest", "schema"}
        /\ HasDecoded /\ HasWorkflow
    BY <1>8 DEF GraphValidated, StepOfCommand, HasDecoded, HasWorkflow
  <2>3. ASSUME fresh, f # NoFault, cmd # "embed" PROVE Sound(cmd, f)
    <3>1. PICK d \in document : disk.doc = {d}
      BY <1>0, <2>2, <2>3 DEF Informed, KnowsDocument, AtMostOne
    <3>2. ParserFault(d) = NoFault /\ TracingFault(disk.env) = NoFault
      BY <2>2, <2>3, <3>1 DEF Informed, DocumentParses
    <3>3. FormatFault(d) = NoFault /\ Graph = GraphOf(d)
      BY <2>2, <2>3 DEF Documented
    <3>4. verdict.kind = Decision(GraphOf(d))
      BY <2>2, <3>3, DecidingIsDecision DEF GraphSound, VerdictIsDecision
    <3>5. f = GraphFault(d)
      BY <3>4 DEF GraphFault
    <3> HIDE DEF f
    <3>6. cmd # "manifest_workflow" => f = LoadFault
      BY <2>3, <3>1, <3>2, <3>3, <3>5, ParserCases, LoadCases DEF DocFault
    <3>7. ~GoodManifest
      BY <2>3, <3>1, <3>5 DEF GoodManifest, GoodWorkflow
    <3>8. QED
      BY <1>h, <2>3, <3>6, <3>7
  <2>4. cmd = "embed" => Sound(cmd, f)
    BY DEF Sound, SoundIn
  <2> HIDE DEF f
  <2>5. QED
    BY <1>p, <2>1, <2>2, <2>3, <2>4
<1>9. CASE Introspect
  <2>1. PICK d \in document : Proceed(InspectFault(d), "report")
    BY <1>9 DEF Introspect
  <2>2. UNCHANGED disk /\ at = "introspect" /\ cmd \in {"inspect", "embed"}
    BY <1>9 DEF Introspect, StepOfCommand
  <2>3. cmd = "inspect" => InspectFault(d) = NoFault
    BY <2>2, InspectNeverRefuses
  <2>4. cmd = "embed" => Sound(cmd, InspectFault(d))
    BY DEF Sound, SoundIn
  <2>5. QED
    BY <1>p, <2>1, <2>2, <2>3, <2>4
<1>10. CASE ResolveRuleSets
  <2>1. PICK d \in document : Proceed(RuleSetsFault(d, Registry), "report")
    BY <1>10 DEF ResolveRuleSets
  <2>2. UNCHANGED disk /\ cmd = "explain" /\ HasDecoded /\ HasGraph
    BY <1>10 DEF ResolveRuleSets, StepOfCommand, HasGraph, HasDecoded, HasWorkflow
  <2>3. DOMAIN d.nodes \subseteq Nat
    BY <2>2 DEF Documented
  <2>4. fresh => LoadFault = NoFault
    BY <2>2, Validated
  <2>5. ASSUME fresh, RuleSetsFault(d, Registry) # NoFault PROVE Sound(cmd, RuleSetsFault(d, Registry))
    BY <2>2, <2>3, <2>4, <2>5, RuleSetFaultTag DEF Sound, SoundIn
  <2>6. QED
    BY <1>p, <2>1, <2>2, <2>5
<1>11. CASE CheckNodes
  <2>1. PICK m \in specs : Proceed(IF Elems(SpecNodes(m)) \subseteq Elems(nodeIds)
                                     THEN NoFault ELSE <<"manifest_node">>, "report")
    BY <1>11 DEF CheckNodes
  <2>2. UNCHANGED disk /\ cmd = "manifest_workflow" /\ at = "check_nodes" /\ HasGraph /\ HasManifest
    BY <1>11 DEF CheckNodes, StepOfCommand, HasGraph, HasDecoded, HasWorkflow, HasManifest
  <2>3. ASSUME fresh, ~(Elems(SpecNodes(m)) \subseteq Elems(nodeIds)) PROVE ~GoodManifest
    <3>1. m \in disk.manifest
      BY <2>2, <2>3 DEF Informed, KnowsManifest
    <3>2. PICK d \in document : disk.doc = {d} /\ GraphOf(d).nodes = nodeIds
      BY <2>2, <2>3, Validated
    <3>3. QED
      BY <2>3, <3>1, <3>2 DEF GoodManifest
  <2>4. QED
    BY <1>h, <1>p, <2>1, <2>2, <2>3
<1>12. CASE BuildRegistry
  <2>1. PICK m \in specs : Proceed(RegistryFault(m), "execute")
    BY <1>12 DEF BuildRegistry
  <2>2. UNCHANGED disk /\ cmd = "run_wasm" /\ at = "registry" /\ HasGraph /\ HasManifest
    BY <1>12 DEF BuildRegistry, StepOfCommand, HasGraph, HasDecoded, HasWorkflow, HasManifest
  <2>3. ASSUME fresh, RegistryFault(m) # NoFault PROVE Sound(cmd, RegistryFault(m))
    <3>1. m \in disk.manifest
      BY <2>2, <2>3 DEF Informed, KnowsManifest
    <3>2. PICK d \in document : disk.doc = {d} /\ GraphOf(d).nodes = nodeIds
      BY <2>2, <2>3, Validated
    <3>3. DOMAIN nodeIds \subseteq Nat
      BY DEF GraphSound, Typed
    <3>4. \/ ManifestFault(m) # NoFault
          \/ ~(Elems(SpecNodes(m)) \subseteq Elems(nodeIds))
          \/ RegistryFault(m) \in LoadFaults /\ Unloadable
      BY <2>3, <3>1, <3>3, RegistryCases
    <3>5. ~GoodManifest \/ (RegistryFault(m) \in LoadFaults /\ Unloadable)
      BY <3>1, <3>2, <3>4 DEF GoodManifest, ManifestIsGood
    <3>6. QED
      BY <2>2, <2>3, <3>5 DEF Sound, SoundIn
  <2>4. QED
    BY <1>p, <2>1, <2>2, <2>3
<1>r. ASSUME NEW f \in RunFaults, fresh, cmd \in {"run", "run_wasm"}, HasGraph PROVE Sound(cmd, f)
  <2>1. LoadFault = NoFault
    BY <1>r, Validated
  <2>2. f # NoFault
    BY DEF RunFaults, NoFault
  <2>3. QED
    BY <1>r, <2>1, <2>2 DEF Sound, SoundIn
<1>f. <<"runtime">> \in RunFaults /\ <<"io", "metadata">> \in RunFaults
  BY DEF RunFaults
<1>13. CASE Execute
  <2>1. UNCHANGED disk /\ cmd \in {"run", "run_wasm"} /\ HasGraph
    BY <1>13 DEF Execute, StepOfCommand, HasGraph, HasDecoded, HasWorkflow
  <2>2. CASE Proceed(NoFault, "create_metadata")
    BY <1>p, <2>1, <2>2
  <2>3. CASE Exit(<<"runtime">>)
    BY <1>d, <1>f, <1>r, <1>x, <2>1, <2>3 DEF Exit
  <2>4. QED
    BY <1>13, <2>2, <2>3 DEF Execute
<1>14. CASE CreateMetadata
  <2>1. cmd \in {"run", "run_wasm"} /\ HasGraph
    BY <1>14 DEF CreateMetadata, StepOfCommand, HasGraph, HasDecoded, HasWorkflow
  <2>2. CASE Proceed(NoFault, "fill_metadata") /\ SameFiles
    BY <2>2, AnswersStay, ProceedCases
  <2>3. CASE Exit(<<"io", "metadata">>) /\ UNCHANGED disk
    BY <1>d, <1>f, <1>r, <1>x, <2>1, <2>3 DEF Exit
  <2>4. QED
    BY <1>14, <1>e, <2>2, <2>3 DEF CreateMetadata
<1>15. CASE FillMetadata
  <2>1. cmd \in {"run", "run_wasm"} /\ HasGraph
    BY <1>15 DEF FillMetadata, StepOfCommand, HasGraph, HasDecoded, HasWorkflow
  <2>2. CASE Proceed(NoFault, "report") /\ SameFiles
    BY <2>2, AnswersStay, ProceedCases
  <2>3. CASE Exit(<<"io", "metadata">>) /\ UNCHANGED disk
    BY <1>d, <1>f, <1>r, <1>x, <2>1, <2>3 DEF Exit
  <2>4. QED
    BY <1>15, <1>e, <2>2, <2>3 DEF FillMetadata
<1>16. CASE Report
  <2>1. at = "report" /\ UNCHANGED disk
    BY <1>16 DEF Report
  <2>2. ASSUME fresh PROVE Sound(cmd, NoFault)
    BY <2>1, <2>2, ReportIsSound
  <2>3. QED
    BY <1>16, <1>d, <1>x, <2>1, <2>2 DEF Report, Exit
<1>17. ASSUME NEW d, Changed(d) PROVE AnswersSound'
  BY <1>17 DEF Changed, AnswersSound
<1>18. CASE UNCHANGED allVars
  BY <1>18, <1>d, AnswersStay DEF allVars, hostVars
<1>19. QED
  BY <1>1, <1>2, <1>3, <1>4, <1>5, <1>6, <1>7, <1>8, <1>9, <1>10, <1>11, <1>12, <1>13, <1>14,
     <1>15, <1>16, <1>17, <1>18 DEF HostNext, Step, ReplaceComponent, RemoveWorkflow

LEMMA HostAnswers == HostSpec => []AnswersSound
<1>1. HostInit => Informed
  BY DEF HostInit, Informed
<1>2. HostInit => AnswersSound
  BY DEF HostInit, AnswersSound
<1>3. StepOfCommand /\ DiskIsSound /\ Documented /\ Informed /\ [HostNext]_allVars => Informed'
  BY InformedStep
<1>4. StepOfCommand /\ DiskIsSound /\ Documented /\ GraphSound /\ Informed /\ AnswersSound
        /\ [HostNext]_allVars => AnswersSound'
  BY AnswersStep
<1>5. QED
  BY <1>1, <1>2, <1>3, <1>4, HostGraphs, PTL DEF HostSpec

(* An answer that was given says of the files what Sound says.             *)
LEMMA GivenAnswers ==
  ASSUME AnswersSound, NEW c \in Commands
  PROVE  /\ Accepted(c) => Sound(c, NoFault)
         /\ Refused(c) => answers[c] # NoFault /\ Sound(c, answers[c])
<1>1. answers[c] = Unknown \/ Sound(c, answers[c])
  BY DEF AnswersSound
<1>2. Unknown # NoFault
  BY DEF Unknown, NoFault
<1>3. QED
  BY <1>1, <1>2 DEF Accepted, Refused

LEMMA SoundAnswersAgree == AnswersSound => CommandsAgree
<1> SUFFICES ASSUME AnswersSound PROVE CommandsAgree
  OBVIOUS
<1> DEFINE v == answers["validate"]
<1>1. /\ Accepted("validate") => LoadFault = NoFault
      /\ Refused("validate") => v # NoFault /\ LoadFault = v
  BY GivenAnswers DEF Commands, Sound, SoundIn
<1>2. Refused("inspect") => LoadFault # NoFault /\ answers["inspect"] = LoadFault
  BY GivenAnswers DEF Commands, Sound, SoundIn
<1>3. Accepted("inspect") => LoadFault = NoFault
  BY GivenAnswers DEF Commands, Sound, SoundIn
<1>4. /\ Accepted("explain") => LoadFault = NoFault
      /\ Refused("explain") => \/ answers["explain"] = LoadFault /\ LoadFault # NoFault
                               \/ LoadFault = NoFault /\ answers["explain"][1] = "rule_set"
  BY GivenAnswers DEF Commands, Sound, SoundIn
<1>5. /\ Accepted("run") => LoadFault = NoFault
      /\ Refused("run") => answers["run"] = LoadFault \/ LoadFault = NoFault
  BY GivenAnswers DEF Commands, Sound, SoundIn
<1>6. Accepted("run_wasm") => LoadFault = NoFault
  BY GivenAnswers DEF Commands, Sound, SoundIn
<1>7. \A c \in {"inspect", "explain", "run"} : Accepted(c) \/ Refused(c) \/ answers[c] = Unknown
  BY DEF Accepted, Refused
<1>8. Refused("validate") =>
        \A c \in {"inspect", "explain", "run"} : answers[c] \in {answers["validate"], Unknown}
  BY <1>1, <1>2, <1>3, <1>4, <1>5, <1>7
<1>9. \A c \in {"explain", "run", "run_wasm"} : Accepted(c) => ~Refused("validate")
  BY <1>1, <1>4, <1>5, <1>6
<1>10. QED
  BY <1>1, <1>2, <1>4, <1>8, <1>9 DEF CommandsAgree

LEMMA SoundAnswersForetell == AnswersSound => ManifestForetellsRun
<1> SUFFICES ASSUME AnswersSound PROVE ManifestForetellsRun
  OBVIOUS
<1>1. /\ Accepted("manifest_workflow") => GoodManifest
      /\ Refused("manifest_workflow") => ~GoodManifest
  BY GivenAnswers DEF Commands, Sound, SoundIn
<1>2. /\ Accepted("run_wasm") => (Json => GoodManifest)
      /\ Refused("run_wasm") => \/ answers["run_wasm"] \in RunFaults
                                \/ Json => ~GoodManifest
                                \/ answers["run_wasm"] \in LoadFaults /\ Unloadable
  BY GivenAnswers DEF Commands, Sound, SoundIn
<1>3. QED
  BY <1>1, <1>2 DEF ManifestForetellsRun, Json, Unloadable

(* validate, inspect, explain and run answer alike over the same files,    *)
(* whatever commands come between them: each of their answers is what the  *)
(* one chain of checks comes to over the files as they are (LoadFault),    *)
(* for every document, session and order of commands; no contract that     *)
(* inspect makes up is ever refused.                                       *)
THEOREM CommandsAlwaysAgree == HostSpec => []CommandsAgree
  BY HostAnswers, SoundAnswersAgree, PTL

(* validate-manifest --workflow and run --manifest judge the same manifest *)
(* and the same workflow alike: what the one accepts stops the other only  *)
(* for a component that cannot be loaded or for what happens in the run    *)
(* itself.                                                                 *)
THEOREM ManifestAlwaysForetellsRun == HostSpec => []ManifestForetellsRun
  BY HostAnswers, SoundAnswersForetell, PTL

(* The steps of a command that take the workflow to be a valid one.        *)
UsesWorkflow == {"introspect", "rule_sets", "check_nodes", "registry", "execute",
                 "create_metadata", "fill_metadata"}

OnlyValidIsUsed ==
  at \in UsesWorkflow =>
    /\ ~HasDuplicates(nodeIds)
    /\ \A e \in edges : /\ {e.src, e.dst} \subseteq Elems(nodeIds)
                        /\ e.sport \in OutPorts[e.src] /\ e.dport \in InPorts[e.dst]
    /\ ~cycles => ~HasCycle
    /\ cmd # "embed" =>
         \A d \in document : FormatFault(d) = NoFault /\ Graph = GraphOf(d) /\ ~cycles

(* No command introspects, explains, checks a manifest against or runs a   *)
(* workflow that the validation has not accepted: its nodes are distinct,  *)
(* its edges join declared ports, it has no cycle unless the embedding     *)
(* program allowed one, and, but for that program, it is the graph of the  *)
(* document that was read, which had passed every check of the format.     *)
THEOREM OnlyValidatedIsUsed == HostSpec => []OnlyValidIsUsed
<1>1. StepOfCommand /\ Documented /\ GraphSound => OnlyValidIsUsed
  <2> SUFFICES ASSUME StepOfCommand, Documented, GraphSound, at \in UsesWorkflow
               PROVE  /\ ~HasDuplicates(nodeIds)
                      /\ \A e \in edges : /\ {e.src, e.dst} \subseteq Elems(nodeIds)
                                          /\ e.sport \in OutPorts[e.src]
                                          /\ e.dport \in InPorts[e.dst]
                      /\ ~cycles => ~HasCycle
                      /\ cmd # "embed" =>
                           \A d \in document :
                             FormatFault(d) = NoFault /\ Graph = GraphOf(d) /\ ~cycles
    BY DEF OnlyValidIsUsed
  <2>1. HasGraph
    BY DEF StepOfCommand, UsesWorkflow, HasGraph, HasDecoded, HasWorkflow, IsRun
  <2>2. verdict.kind = "accepted"
    BY <2>1 DEF Documented
  <2>3. ~HasDuplicates(nodeIds) /\ \A e \in edges : /\ {e.src, e.dst} \subseteq Elems(nodeIds)
                                                    /\ e.sport \in OutPorts[e.src]
                                                    /\ e.dport \in InPorts[e.dst]
    BY <2>2, IndexedIsWellFormed DEF GraphSound, AcceptedIsWellFormed
  <2>4. ~cycles => ~HasCycle
    BY <2>2, OrderingIsTopological, TopologicalHasNoCycle DEF GraphSound
  <2>5. ASSUME cmd # "embed", NEW d \in document
        PROVE  FormatFault(d) = NoFault /\ Graph = GraphOf(d) /\ ~cycles
    <3>1. FormatFault(d) = NoFault /\ Graph = GraphOf(d)
      BY <2>1, <2>5 DEF Documented, HasGraph
    <3>2. Graph.cycles = cycles /\ ~GraphOf(d).cycles
      BY DEF Graph, GraphOf
    <3>3. QED
      BY <3>1, <3>2
  <2>6. QED
    BY <2>3, <2>4, <2>5
<1>2. QED
  BY <1>1, HostGraphs, PTL
================================================================================
