-------------------------------- MODULE MCHost ---------------------------------
(***************************************************************************)
(* Sessions for TLC: every graph of MCWorkflowGraph in a document, and     *)
(* documents, manifests, rule sets and contracts with one flaw each.       *)
(***************************************************************************)
EXTENDS Host, MCWorkflowGraph

End(n, p) == [node |-> Id(n), port |-> Id(p)]
NodeDoc(n) == [id |-> Id(n), inputs |-> <<Id(in)>>, outputs |-> <<Id(out), Id(alt)>>,
               inline |-> {}, ref |-> {}]
EdgeDoc(e) == [source |-> End(e.src, e.sport), target |-> End(e.dst, e.dport),
               capacity |-> {}]
DocOf(f) ==
  [lang |-> "json", version |-> {"1"}, id |-> Id(7),
   nodes |-> [i \in DOMAIN f.nodes |-> NodeDoc(f.nodes[i])],
   edges |-> [i \in 1..Cardinality(f.edges) |-> EdgeDoc(
                CHOOSE e \in f.edges : Cardinality({g \in f.edges : g.pos < e.pos}) = i - 1)]]

Good == DocOf([nodes |-> <<2, 1>>, edges |-> {Edge(1, out, 2, in), Edge(2, alt, 3, in)}])
Pair == DocOf([nodes |-> <<2, 1>>, edges |-> {Edge(1, out, 2, in)}])
Loop == DocOf([nodes |-> <<1, 2>>, edges |-> {Edge(1, out, 2, in), Edge(2, out, 1, in)}])

(* Texts that no identifier may be.                                        *)
Blank == [name |-> 0, len |-> 0, kinds |-> {}]
Spaced == [name |-> 0, len |-> 3, kinds |-> {"plain", "space"}]
Bell == [name |-> 0, len |-> 2, kinds |-> {"plain", "control"}]
Long == [name |-> 0, len |-> 257, kinds |-> {"plain"}]

Node1(field, value) == [Pair EXCEPT !.nodes[1] = [@ EXCEPT ![field] = value]]
Ref(scheme, path) == [scheme |-> scheme, path |-> path]

FlawedDocs ==
  {Good, Pair, Loop,
   [Pair EXCEPT !.lang = "none"], [Pair EXCEPT !.lang = "toml"],
   [Pair EXCEPT !.version = {}], [Pair EXCEPT !.version = {"0"}],
   [Pair EXCEPT !.id = Spaced],
   Node1("id", Bell), Node1("inputs", <<Long>>), Node1("outputs", <<Id(out), Blank>>),
   Node1("outputs", <<Id(out), Id(in)>>),
   [Pair EXCEPT !.edges[1].source.node = Blank],
   [Pair EXCEPT !.edges[1].target.port = Spaced],
   [Pair EXCEPT !.edges[1].capacity = {0}], [Pair EXCEPT !.edges[1].capacity = {3}]}

RuleDocs ==
  {Node1("inline", {"set"}), Node1("inline", {"malformed"}),
   [Node1("inline", {"set"}) EXCEPT !.nodes[1].ref = {Ref({}, "good")}],
   [Loop EXCEPT !.nodes[2].inline = {"malformed"}]}
  \cup {Node1("ref", {r}) :
          r \in {Ref({}, p) : p \in {"good", "gone", "locked", "bad"}}
                  \cup {Ref({s}, "good") : s \in {"embedded", "file"}}}

RuleFiles == [good |-> "set", gone |-> "absent", locked |-> "unreadable", bad |-> "malformed"]

-------------------------------------------------------------------------------
Port(p, d, s) == [port |-> p, dir |-> d, schema |-> s]
Contract(n, mode, s) ==
  [node |-> n, mode |-> mode,
   ports |-> <<Port(in, "input", s), Port(out, "output", s), Port(alt, "output", {})>>]
Claims(n, effects) ==
  [node |-> n, effects |-> effects,
   ports |-> <<[port |-> in, dir |-> "receive"], [port |-> alt, dir |-> "emit"],
               [port |-> out, dir |-> "emit"]>>]

App(contracts, caps) ==
  [contracts |-> contracts, caps |-> caps, cycles |-> FALSE,
   sources |-> <<[scheme |-> "embedded", set |-> "set"]>>]
Plain == App(<<Contract(1, "native", {"s"}), Contract(2, "wasm", {"s"})>>,
             <<Claims(1, <<"clock">>), Claims(2, <<>>)>>)

Apps ==
  {App(<<Contract(1, m, {s}), Contract(2, k, t)>>, <<Claims(2, e), Claims(1, <<>>)>>) :
     m \in {"native", "process"}, k \in {"native", "wasm", "process"},
     s \in {"s", ""}, t \in {{}, {"s"}, {"t"}},
     e \in {<<>>, <<"clock">>, <<"clock", "clock">>}}
  \cup {[Plain EXCEPT !.contracts = SubSeq(@, 1, 1)],
        [Plain EXCEPT !.contracts = Append(@, Contract(0, "native", {}))],
        [Plain EXCEPT !.contracts = Append(@, Contract(1, "wasm", {"s"}))],
        [Plain EXCEPT !.contracts[1].ports = SubSeq(@, 1, 2)],
        [Plain EXCEPT !.contracts[1].ports = Append(@, Port(9, "input", {}))],
        [Plain EXCEPT !.contracts[1].ports = Append(@, Port(in, "output", {}))],
        [Plain EXCEPT !.contracts[2].ports[2].dir = "input"],
        [Plain EXCEPT !.caps = SubSeq(@, 1, 1)],
        [Plain EXCEPT !.caps = Append(@, Claims(0, <<>>))],
        [Plain EXCEPT !.caps = Append(@, Claims(2, <<"clock">>))],
        [Plain EXCEPT !.caps = <<Claims(2, <<"clock">>)>> \o @],
        [Plain EXCEPT !.caps[1].ports = SubSeq(@, 1, 2)],
        [Plain EXCEPT !.caps[1].ports = Append(@, [port |-> 9, dir |-> "emit"])],
        [Plain EXCEPT !.caps[1].ports = Append(@, [port |-> in, dir |-> "emit"])],
        [Plain EXCEPT !.caps[1].ports = Append(@, [port |-> in, dir |-> "receive"])],
        [Plain EXCEPT !.caps[2].ports[1].dir = "emit"]}

-------------------------------------------------------------------------------
Spec1(n, path) == [node |-> n, path |-> path]
Manifest(specList) == [lang |-> "json", specs |-> specList]
Manifests ==
  {Manifest(<<>>), Manifest(<<Spec1(Id(1), "a")>>),
   Manifest(<<Spec1(Id(2), "b"), Spec1(Id(1), "a")>>),
   Manifest(<<Spec1(Id(1), "a"), Spec1(Id(1), "b")>>),
   Manifest(<<Spec1(Id(0), "b"), Spec1(Id(1), "a")>>),
   Manifest(<<Spec1(Spaced, "a")>>), [lang |-> "none", specs |-> <<>>]}

Comps(status) == [a |-> status, b |-> "component"]
Disk(doc, ext, manifest, status, app, env) ==
  [doc |-> {doc}, ext |-> ext, manifest |-> manifest, comps |-> Comps(status),
   rules |-> RuleFiles, env |-> env, app |-> app,
   metadata |-> {[run |-> 0, whole |-> TRUE]}]
NoEnv == [x \in {} |-> "off"]
Session(d, commands, t, e) == [disk |-> d, commands |-> commands, turns |-> t, edits |-> e]

MCSessions ==
  {Session(Disk(DocOf(f), "json", {}, "component",
                [Plain EXCEPT !.cycles = f.cycles], NoEnv),
           IF f.cycles THEN {"embed"} ELSE {"validate"}, 1, 0) : f \in SimpleAndFaulty}
  \cup {Session(Disk(d, x, {}, "component", Plain, NoEnv),
                {"validate", "inspect", "explain", "run", "embed"}, 2, 0) :
          d \in FlawedDocs \cup RuleDocs, x \in {"json"}}
  \cup {Session(Disk(Pair, "json", {}, "component", Plain, NoEnv),
                {"validate", "explain", "run"}, 3, 1)}
  \cup {Session(Disk(d, x, {}, "component", Plain, NoEnv), {"validate", "inspect", "explain"}, 2, 0) :
          d \in {Pair, [Pair EXCEPT !.lang = "toml"]}, x \in {"none", "toml", "yml", "txt"}}
  \cup {Session(Disk(Pair, "json", {}, "component", a, NoEnv), {"embed"}, 1, 0) : a \in Apps}
  \cup {Session(Disk(d, x, m, c, Plain, NoEnv),
                {"manifest", "manifest_workflow", "run_wasm"}, 2, 1) :
          d \in {Pair}, x \in {"json"},
          m \in {{}} \cup {{m} : m \in Manifests},
          c \in {"absent", "unreadable", "garbage", "component"}}
  \cup {Session(Disk(d, x, {m}, "component", Plain, NoEnv),
                {"validate", "manifest_workflow", "run_wasm"}, 2, 0) :
          d \in {Pair, Loop}, x \in {"json", "yaml", "txt"}, m \in Manifests}
  \cup {Session(Disk(Pair, "json", {}, "component", Plain, env), {"schema", "validate"}, 1, 0) :
          env \in [{"CONDUIT_TRACE", "RUST_LOG"} -> {"off", "default", "filter", "invalid"}]}
================================================================================
