---------------------------- MODULE MCWorkflowRun ----------------------------
(***************************************************************************)
(* Instances of WorkflowRun for TLC.                                       *)
(*   Mixed:    src (batch) feeds the second port of gen (native) with one  *)
(*             port, and rule and sink (batch) with the other; rule feeds  *)
(*             the first port of gen and sink, gen feeds sink; the second  *)
(*             port of rule has no edge.  gen drains its first port first, *)
(*             src sends for the second one first.                         *)
(*   Feedback: rule and back are rule nodes in a loop that src (batch)     *)
(*             feeds; gen (batch) has one output port and no edge.         *)
(***************************************************************************)
EXTENDS WorkflowRun, TLC

CONSTANTS src, rule, gen, sink, back

KindOf ==
  [n \in Nodes |-> IF n \in {src, sink} THEN "batch"
                   ELSE IF n = gen THEN "native" ELSE "rule"]

Edge(s, o, d, i) == [src |-> s, out |-> o, dst |-> d, in |-> i, cap |-> 1]

MixedInputs == (src :> 0) @@ (rule :> 1) @@ (gen :> 2) @@ (sink :> 2)
MixedOutputs == (src :> 2) @@ (rule :> 2) @@ (gen :> 1) @@ (sink :> 0)
MixedWire == <<Edge(src, 1, gen, 2), Edge(src, 2, rule, 1), Edge(src, 2, sink, 2),
               Edge(rule, 1, gen, 1), Edge(rule, 1, sink, 1), Edge(gen, 1, sink, 1)>>

FeedbackKind == [n \in Nodes |-> IF n \in {src, gen} THEN "batch" ELSE "rule"]
FeedbackInputs == (src :> 0) @@ (rule :> 1) @@ (back :> 1) @@ (gen :> 0)
FeedbackOutputs == (src :> 1) @@ (rule :> 1) @@ (back :> 1) @@ (gen :> 1)
FeedbackWire == <<Edge(src, 1, rule, 1), Edge(rule, 1, back, 1), Edge(back, 1, rule, 1)>>

Entry(registry, policy, contracts, observers, answer) ==
  [registry |-> registry, policy |-> policy, contracts |-> contracts,
   observers |-> observers, answer |-> answer]
Setup(entry, policy) ==
  [entry |-> entry, policy |-> policy, executors |-> Nodes,
   contracts |-> [n \in Nodes |-> [p \in OutPorts(n) |-> "output"]]]

Watched == Setup(Entry("given", TRUE, FALSE, "sink", "summary"),
                 [cycles |-> "reject", watchdog |-> TRUE])
Checked == Setup(Entry("given", FALSE, TRUE, "sink and hook", "result"), Acyclic)
Plain == Setup(Entry("single", FALSE, FALSE, "none", "result"), Acyclic)

(* Each way a setup can be refused on an acyclic graph.                    *)
Refused ==
  {[Watched EXCEPT !.executors = {src}],
   [Checked EXCEPT !.contracts = [n \in {rule, sink} |-> @[n]]],
   [Checked EXCEPT !.contracts[rule][<<"out", 1>>] = "input"]}

MixedSetups == {Watched, Checked, Plain} \cup Refused
CheckedSetups == {Checked}
FeedbackSetups ==
  {Setup(Entry("given", TRUE, FALSE, "none", "summary"),
         [cycles |-> "feedback", watchdog |-> FALSE])}
=============================================================================
