------------------------------ MODULE RuleValues -------------------------------
(***************************************************************************)
(* Rule evaluation across the guest boundary (pureflow-wasm rules.rs): the *)
(* rule set and the packet context a guest is given, the evaluation by the *)
(* rules guest, and the decision it returns, next to the decision of the   *)
(* native evaluator.  A scalar is [t, v], an action [kind, arg], an entry  *)
(* [key, value]; a missing node or port name is NoName.  What conditions   *)
(* mean, and the flat encoding of their trees, is the subject of module    *)
(* Conditions: here a condition [op, arg] crosses as one value, and there  *)
(* is one on each part of the context that it is evaluated in.             *)
(***************************************************************************)
EXTENDS WitValues

NoName == Id(0)

ScalarToVal(s) ==
  IF s.t = "null-value" THEN Variant(s.t, <<>>) ELSE Variant(s.t, <<[val |-> s.t, v |-> s.v]>>)

ScalarEntryToVal(e) ==
  Record(<<Field("key", String(e.key)), Field("value", ScalarToVal(e.value))>>)

(* An action's argument: a port, a reason, a message, or an entry.         *)
ActionToVal(a) ==
  CASE a.kind = "drop" -> Variant("drop", <<>>)
    [] a.kind = "tag" -> Variant("tag", <<ScalarEntryToVal(a.arg)>>)
    [] OTHER -> Variant(a.kind, <<String(a.arg)>>)

RuleToVal(r) ==
  Record(<<Field("id", String(r.id)), Field("condition", String(r.cond)),
           Field("action", ActionToVal(r.action)), Field("priority", U32(r.priority)),
           Field("description", String(r.description))>>)

RuleSetToVal(rs) ==
  Record(<<Field("id", String(rs.id)),
           Field("strategy", [val |-> "enum", name |-> rs.strategy]),
           Field("rules", List([k \in DOMAIN rs.rules |-> RuleToVal(rs.rules[k])])),
           Field("default-action", ActionToVal(rs.default)),
           Field("trace-conditions", Bool(rs.trace))>>)

ScalarEntriesToVal(entries) ==
  List([k \in DOMAIN entries |-> ScalarEntryToVal(entries[k])])

OptionalToVal(name) == IF name = NoName THEN None ELSE Some(String(name))

EvalContextToVal(c) ==
  Record(<<Field("payload", PayloadToVal(c.payload)),
           Field("tags", ScalarEntriesToVal(c.tags)),
           Field("source-node", OptionalToVal(c.source)),
           Field("arrival-port", OptionalToVal(c.port)),
           Field("hop-count", U32(c.hops)),
           Field("workflow-id", String(c.workflow)),
           Field("execution-metadata", ScalarEntriesToVal(c.metadata))>>)
-------------------------------------------------------------------------------
(* Decoding the decision.                                                  *)
ScalarFromVal(v) ==
  IF v.val # "variant" THEN Err
  ELSE IF v.name = "null-value" THEN Ok([t |-> v.name, v |-> 0])
  ELSE IF v.payload = <<>> \/ v.name \notin {"text", "integer", "float-value", "boolean"}
  THEN Err
  ELSE IF v.payload[1].val = v.name THEN Ok([t |-> v.name, v |-> v.payload[1].v]) ELSE Err

ScalarEntryFromVal(v) ==
  LET key == RequiredField(v, "key", StringOf)
      value == RequiredField(v, "value", ScalarFromVal)
  IN  IF key.ok /\ value.ok THEN Ok([key |-> key.v, value |-> value.v]) ELSE Err

(* action_from_val: only the port of a route must be an identifier, and a  *)
(* payload of "drop" is ignored.                                           *)
ActionFromVal(v) ==
  LET arg == IF v.name = "route" THEN IdOf(v.payload[1])
             ELSE IF v.name = "tag" THEN ScalarEntryFromVal(v.payload[1])
             ELSE StringOf(v.payload[1])
  IN  IF v.val # "variant" THEN Err
      ELSE IF v.name = "drop" THEN Ok([kind |-> "drop", arg |-> NoName])
      ELSE IF v.payload = <<>> \/ v.name \notin {"route", "dead-letter", "tag", "halt"}
      THEN Err
      ELSE IF arg.ok THEN Ok([kind |-> v.name, arg |-> arg.v]) ELSE Err

Surfaces == {"payload", "tag", "provenance", "execution-context", "combinator", "constant"}

SurfaceFromVal(v) ==
  IF v.val = "enum" /\ v.name \in Surfaces THEN Ok(v.name) ELSE Err

BoolOf(v) == IF v.val = "bool" THEN Ok(v.b) ELSE Err

(* The description of a condition does not cross the boundary.             *)
ConditionTraceFromVal(v) ==
  LET rule == RequiredField(v, "rule-id", StringOf)
      surface == RequiredField(v, "surface", SurfaceFromVal)
      matched == RequiredField(v, "matched", BoolOf)
  IN  IF rule.ok /\ surface.ok /\ matched.ok
        THEN Ok([rule |-> rule.v, surface |-> surface.v, matched |-> matched.v])
        ELSE Err

OptionalString(v) ==
  IF v.val # "option" THEN Err
  ELSE IF v.some = <<>> THEN Ok(NoName) ELSE StringOf(v.some[1])

ListField(v, name, Op(_)) ==
  LET items == RequiredField(v, name, ListOf)
  IN  IF items.ok THEN Collect([k \in DOMAIN items.v |-> Op(items.v[k])]) ELSE Err

DecisionFromVal(v) ==
  LET action == RequiredField(v, "action", ActionFromVal)
      matched == RequiredField(v, "matched-rule", OptionalString)
      tags == ListField(v, "tags-applied", ScalarEntryFromVal)
      traces == ListField(v, "conditions-evaluated", ConditionTraceFromVal)
  IN  IF action.ok /\ matched.ok /\ tags.ok /\ traces.ok
        THEN Ok([action |-> action.v, matched |-> matched.v, tags |-> tags.v,
                 traces |-> traces.v])
        ELSE Err

(* decision_from_result_val, with rule_error_from_val.                     *)
DecodeDecision(v) ==
  IF v.val # "result" \/ v.payload = <<>> \/ ~v.ok
    THEN Err
    ELSE DecisionFromVal(v.payload[1])
-------------------------------------------------------------------------------
(* Evaluation.  A rule is [id, cond, action, priority, description], in    *)
(* sorted order; a rule set [id, strategy, rules, default, trace].         *)
Terminal(action) == action.kind # "tag"
Surface(cond) ==
  CASE cond.op = "always" -> "constant"
    [] cond.op = "field_exists" -> "payload"
    [] cond.op = "tag_eq" -> "tag"
    [] cond.op \in {"source_node", "arrived_on_port", "hop_count_gt"} -> "provenance"
    [] cond.op \in {"workflow_is", "execution_metadata_eq"} -> "execution-context"

(* A control payload has the field that is asked for, bytes have none.     *)
Holds(cond, c) ==
  CASE cond.op = "always" -> TRUE
    [] cond.op = "field_exists" -> c.payload.kind = "control"
    [] cond.op = "tag_eq" -> \E k \in DOMAIN c.tags : c.tags[k] = cond.arg
    [] cond.op = "source_node" -> c.source = cond.arg
    [] cond.op = "arrived_on_port" -> c.port = cond.arg
    [] cond.op = "hop_count_gt" -> c.hops > cond.arg
    [] cond.op = "workflow_is" -> c.workflow = cond.arg
    [] cond.op = "execution_metadata_eq" ->
         \E k \in DOMAIN c.metadata : c.metadata[k] = cond.arg

(* The decision of a strategy over the rules that match: evaluation stops  *)
(* behind the last rule visited, and the first terminal match decides.     *)
Decision(rs, Matches(_)) ==
  LET all == DOMAIN rs.rules
      hits == {k \in all : Matches(rs.rules[k]) /\ Terminal(rs.rules[k].action)}
      best == CHOOSE k \in hits : \A j \in hits : k <= j
      last == IF rs.strategy = "first-match" /\ hits # {} THEN best ELSE Len(rs.rules)
      visited == SubSeq(rs.rules, 1, last)
      tagging == SelectSeq(visited, LAMBDA r : Matches(r) /\ ~Terminal(r.action))
      decided == rs.strategy # "all-matches" /\ hits # {}
  IN  [action |-> IF decided THEN rs.rules[best].action ELSE rs.default,
       matched |-> IF decided THEN rs.rules[best].id ELSE NoName,
       tags |-> [k \in DOMAIN tagging |-> tagging[k].action.arg],
       traces |-> IF ~rs.trace THEN <<>> ELSE
         [k \in DOMAIN visited |->
            [rule |-> visited[k].id, surface |-> Surface(visited[k].cond),
             matched |-> Matches(visited[k])]]]

(* RuleSetEvaluator::evaluate.                                             *)
NativeDecision(rs, c) == Decision(rs, LAMBDA r : Holds(r.cond, c))

(* The guest works on what was encoded: its bindings give it the rule set  *)
(* and the context, and encode its decision.                               *)
GuestRuleSet(v) ==
  LET rule(w) == Ok([id |-> RequiredField(w, "id", StringOf).v,
                     cond |-> RequiredField(w, "condition", StringOf).v,
                     action |-> RequiredField(w, "action", ActionFromVal).v])
      strategy(w) == Ok(w.name)
  IN  [strategy |-> RequiredField(v, "strategy", strategy).v,
       rules |-> ListField(v, "rules", rule).v,
       default |-> RequiredField(v, "default-action", ActionFromVal).v,
       trace |-> RequiredField(v, "trace-conditions", BoolOf).v]

GuestContext(v) ==
  [payload |-> RequiredField(v, "payload", PayloadFromVal).v,
   tags |-> ListField(v, "tags", ScalarEntryFromVal).v,
   source |-> RequiredField(v, "source-node", OptionalString).v,
   port |-> RequiredField(v, "arrival-port", OptionalString).v,
   hops |-> RequiredField(v, "hop-count", U32Of).v,
   workflow |-> RequiredField(v, "workflow-id", StringOf).v,
   metadata |-> ListField(v, "execution-metadata", ScalarEntryFromVal).v]

DecisionToVal(d) ==
  LET trace(t) == Record(<<Field("rule-id", String(t.rule)),
                           Field("surface", [val |-> "enum", name |-> t.surface]),
                           Field("matched", Bool(t.matched))>>)
  IN  Record(<<Field("action", ActionToVal(d.action)),
               Field("matched-rule", OptionalToVal(d.matched)),
               Field("tags-applied", ScalarEntriesToVal(d.tags)),
               Field("conditions-evaluated",
                     List([k \in DOMAIN d.traces |-> trace(d.traces[k])]))>>)

RulesGuest(rsVal, contextVal) ==
  LET rs == GuestRuleSet(rsVal)
      c == GuestContext(contextVal)
  IN  OkResult(DecisionToVal(Decision(rs, LAMBDA r : Holds(r.cond, c))))
===============================================================================
