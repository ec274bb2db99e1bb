----------------------------- MODULE RuleAnalysis -----------------------------
(***************************************************************************)
(* What is said of a rule set before it runs: rule_set_violations checks   *)
(* its actions and provenance conditions against the workflow              *)
(* (pureflow-contract rules.rs), and introspect_rule_set reports its rules *)
(* and the ones that can never fire (pureflow-introspection rules.rs).     *)
(* The properties compare both with what the rule nodes of RuleNodes do.   *)
(***************************************************************************)
EXTENDS RuleNodes

CONSTANT Parts(_)  \* Parts(condition): the condition and all that it is put together from

Nodes == Hosts \cup Sinks \cup {Source}
-------------------------------------------------------------------------------
(* validate_action: Route needs its port among the host's outputs, and     *)
(* DeadLetter the dead-letter port; the other actions name no port.        *)
ActionViolations(h, site, action) ==
  {[kind |-> IF action.kind = "route" THEN "unknown_route_port"
                                      ELSE "missing_dead_letter_port",
    site |-> site, name |-> port] : port \in Target(action) \ Outputs[h]}

(* collect_condition_refs.                                                 *)
SourceNodes(c) == {d.node : d \in {x \in Parts(c) : x.op = "source_node"}}
ArrivalPorts(c) == {d.port : d \in {x \in Parts(c) : x.op = "arrived_on_port"}}

(* has_path: the search along the edges visits the least set of nodes that *)
(* has the start and follows every edge; the start itself is reached only  *)
(* when an edge leads back to it.                                          *)
Visited(from) ==
  {n \in Nodes : \A S \in SUBSET Nodes :
     from \in S /\ (\A e \in Edges : e.from \in S => e.to \in S) => n \in S}

HasPath(from, to) == \E e \in Edges : e.from \in Visited(from) /\ e.to = to

(* A rule node declares one input port.                                    *)
ProvenanceViolations(h, rule) ==
  {[kind |-> IF n \in Nodes THEN "unreachable_source_node"
                            ELSE "unknown_source_node",
    site |-> rule.id, name |-> n] :
     n \in {m \in SourceNodes(rule.cond) : m \notin Nodes \/ ~HasPath(m, h)}}
  \cup {[kind |-> "unknown_arrival_port", site |-> rule.id, name |-> port] :
          port \in ArrivalPorts(rule.cond) \ {IN_PORT}}

DefaultAction == 0

(* A slip: the default action is not looked at.                            *)
ViolationsOfRules(h, rs) ==
  UNION {ActionViolations(h, r.id, r.action) \cup ProvenanceViolations(h, r) :
           r \in {rs.rules[i] : i \in DOMAIN rs.rules}}

(* rule_set_violations, as a set; validate_rule_set accepts when it is     *)
(* empty.                                                                  *)
RuleSetViolations(h, rs) ==
  IF h \notin Nodes
    THEN {[kind |-> "unknown_rule_node", site |-> DefaultAction, name |-> h]}
    ELSE ActionViolations(h, DefaultAction, rs.default) \cup
         UNION {ActionViolations(h, r.id, r.action) \cup ProvenanceViolations(h, r) :
                  r \in {rs.rules[i] : i \in DOMAIN rs.rules}}
-------------------------------------------------------------------------------
(* Condition::surface.                                                     *)
Surface(c) ==
  CASE c.op \in {"tag_eq", "tag_exists", "tag_absent"} -> "tag"
    [] c.op \in {"source_node", "arrived_on_port", "hop_count_gt",
                 "hop_count_lte"} -> "provenance"
    [] c.op \in {"workflow_is", "execution_metadata_eq"} -> "execution_context"
    [] c.op \in {"and", "or", "not"} -> "combinator"
    [] c.op \in {"always", "never"} -> "constant"
    [] OTHER -> "payload"

(* collect_surfaces leaves the combinators themselves out.                 *)
CollectSurfaces(c) == {Surface(d) : d \in Parts(c)} \ {"combinator"}

(* detect_unreachable, over the rules in the order of their priority.      *)
Never(rule) == rule.cond.op = "never"

AlwaysShadows(sorted, i) ==
  {j \in 1..(i - 1) : sorted[j].cond.op = "always"}

FieldEqShadows(sorted, i) ==
  {j \in 1..(i - 1) : /\ sorted[j].cond.op = "field_eq"
                      /\ sorted[j].cond = sorted[i].cond}

DetectUnreachable(strategy, sorted) ==
  {i \in DOMAIN sorted :
     \/ Never(sorted[i])
     \/ /\ strategy = "first_match"
        /\ AlwaysShadows(sorted, i) \cup FieldEqShadows(sorted, i) # {}}

(* introspect_rule_set: of the actions, only Route has a target port here. *)
IntrospectRuleSet(rs, sorted) ==
  [strategy |-> rs.strategy,
   default |-> rs.default.kind,
   rules |-> [i \in DOMAIN sorted |->
     [id |-> sorted[i].id, priority |-> sorted[i].priority,
      action |-> sorted[i].action.kind,
      surfaces |-> CollectSurfaces(sorted[i].cond),
      targets |-> IF sorted[i].action.kind = "route"
                    THEN {sorted[i].action.arg} ELSE {}]],
   unreachable |-> {sorted[i].id : i \in DetectUnreachable(rs.strategy, sorted)}]
-------------------------------------------------------------------------------
(* What rule_set_violations says of a rule set comes true: a host without  *)
(* violations never fails by sending to a port that it does not declare,   *)
(* and no packet that reaches a host comes from a node that one of its     *)
(* conditions was reported to name in vain.                                *)
ViolationsForetellRun ==
  \A h \in Hosts :
    LET violations == RuleSetViolations(h, ruleSet[h])
    IN  /\ violations = {} => failure[h] # "unknown_port"
        /\ held[h] # NoPacket =>
             \A v \in violations :
               v.kind \in {"unknown_source_node", "unreachable_source_node"} =>
                 v.name # View(held[h]).source

(* What the documentation of UnreachableRule says: "A rule that can never  *)
(* fire, identified at projection time."  A rule fires when the evaluator  *)
(* comes to it and its condition holds.                                    *)
UnreachableNeverFires ==
  \A h \in Hosts : status[h] = "scanning" /\ MoreRules(h) /\ Matches(h) =>
    NextRule(h).id \notin IntrospectRuleSet(ruleSet[h], rules[h]).unreachable
===============================================================================
