---------------------------- MODULE MetadataRecords ----------------------------
(***************************************************************************)
(* The facts the runtime reports, and the JSON object a log line holds for *)
(* each (pureflow-core metadata.rs, lifecycle.rs and context.rs).  An      *)
(* optional value is the empty or a one-element sequence, in a record and  *)
(* in its JSON (null or the value).  A label is the text the projection    *)
(* writes for an enumeration's member.                                     *)
(***************************************************************************)
EXTENDS Naturals, Sequences, Errors

None == <<>>
Some(x) == <<x>>
MapOption(Op(_), opt) == IF opt = None THEN None ELSE Some(Op(opt[1]))

(* ExecutionMetadata and NodeContext.  Attempts count from one.            *)
ExecutionMetadata(id, attempt) == [id |-> id, attempt |-> attempt]
FirstAttempt(id) == ExecutionMetadata(id, 1)
NodeContext(workflow, node, execution, reason) ==
  [workflow |-> workflow, node |-> node, execution |-> execution, reason |-> reason]

(* The enumerations.                                                       *)
LifecycleKinds == {"scheduled", "started", "completed", "failed", "cancelled"}
MessageKinds == {"Enqueued", "Dequeued", "Dropped"}
PressureKinds == {"ReceiveAttempted", "ReceiveReady", "ReceiveEmpty", "ReceiveClosed",
                  "ReserveAttempted", "ReserveReady", "ReserveFull", "SendCommitted",
                  "SendDropped"}
Directions == {"Input", "Output"}
EffectKinds == {"Requested", "Completed", "Failed"}
ErrorKinds == {"NodeFailed", "WorkflowFailed"}
Strategies == {"FirstMatch", "AllMatches", "Score"}
Surfaces == {"Payload", "Tag", "Provenance", "ExecutionContext", "Combinator", "Constant"}

(* MetadataRecord, one constructor per variant.                            *)
ContextRecord(ctx) == [type |-> "execution_context", ctx |-> ctx]
LifecycleRecord(kind, ctx) == [type |-> "lifecycle", kind |-> kind, ctx |-> ctx]
MessageRecord(kind, message) == [type |-> "message", kind |-> kind, message |-> message]
PressureRecord(ctx, direction, port, kind, edges, capacity, queued) ==
  [type |-> "queue_pressure", ctx |-> ctx, direction |-> direction, port |-> port,
   kind |-> kind, edges |-> edges, capacity |-> capacity, queued |-> queued]
EffectRecord(kind, ctx, effect, operation, target, status) ==
  [type |-> "external_effect", kind |-> kind, ctx |-> ctx, effect |-> effect,
   operation |-> operation, target |-> target, status |-> status]
ErrorRecord(kind, workflow, node, execution, err, diagnostic) ==
  [type |-> "error", kind |-> kind, workflow |-> workflow, node |-> node,
   execution |-> execution, error |-> err, diagnostic |-> diagnostic]
NodeFailed(ctx, err) ==
  ErrorRecord("NodeFailed", ctx.workflow, Some(ctx.node), ctx.execution, err, None)
WorkflowFailed(workflow, execution, err, diagnostic) ==
  ErrorRecord("WorkflowFailed", workflow, None, execution, err, diagnostic)

(* DeadlockDiagnosticMetadata: what the watchdog saw when it fired.        *)
NodeCounts(scheduled, pending, completed, failed, cancelled) ==
  [scheduled |-> scheduled, pending |-> pending, completed |-> completed,
   failed |-> failed, cancelled |-> cancelled]
DeadlockDiagnostic(counts, edges, timeout, policy, startup, termination) ==
  [counts |-> counts, edges |-> edges, timeout |-> timeout, policy |-> policy,
   startup |-> startup, termination |-> termination]

(* RuleEvalRecord.  An action is its kind and its arguments: a port, a     *)
(* reason, a message, or the key and value of a tag.  Tags are pairs.      *)
RuleEvalAction(kind, args) == [kind |-> kind, args |-> args]
PacketView(source, arrival, hops, tags) ==
  [source |-> source, arrival |-> arrival, hops |-> hops, tags |-> tags]
RuleEval(ctx, ruleSet, strategy, matched, action, evaluated, applied, packet, trace) ==
  [type |-> "rule_eval", workflow |-> ctx.workflow, node |-> ctx.node,
   execution |-> ctx.execution, ruleSet |-> ruleSet, strategy |-> strategy,
   matched |-> matched, action |-> action, evaluated |-> evaluated, applied |-> applied,
   packet |-> packet, trace |-> trace]
ConditionTrace(rule, condition, matched, surface) ==
  [rule |-> rule, condition |-> condition, matched |-> matched, surface |-> surface]

(* The types: the fields each value has, and nothing of what is in those   *)
(* that the projection writes as they are.                                 *)
IsOption(o) == o = None \/ o = Some(o[1])
IsExecution(x) == x = ExecutionMetadata(x.id, x.attempt)
IsContext(c) ==
  /\ c = NodeContext(c.workflow, c.node, c.execution, c.reason)
  /\ IsExecution(c.execution) /\ IsOption(c.reason)
IsEndpoint(p) == p = [node |-> p.node, port |-> p.port]
IsMessage(m) ==
  /\ m = [id |-> m.id, workflow |-> m.workflow, execution |-> m.execution,
          source |-> m.source, target |-> m.target]
  /\ IsExecution(m.execution) /\ IsEndpoint(m.target)
  /\ m.source = None \/ (m.source = Some(m.source[1]) /\ IsEndpoint(m.source[1]))
IsError(err) == err = Error(err.family, err.text)
IsDiagnostic(d) ==
  /\ d = DeadlockDiagnostic(d.counts, d.edges, d.timeout, d.policy, d.startup, d.termination)
  /\ d.counts = NodeCounts(d.counts.scheduled, d.counts.pending, d.counts.completed,
                           d.counts.failed, d.counts.cancelled)
IsAction(action) ==
  /\ action = RuleEvalAction(action.kind, action.args)
  /\ \/ action.kind \in {"Route", "DeadLetter", "Halt"} /\ action.args = <<action.args[1]>>
     \/ action.kind \in {"Drop", "Default"} /\ action.args = <<>>
     \/ action.kind = "Tag" /\ action.args = <<action.args[1], action.args[2]>>
IsTags(tags) ==
  /\ tags = [k \in DOMAIN tags |-> tags[k]]
  /\ \A k \in DOMAIN tags : tags[k] = <<tags[k][1], tags[k][2]>>
IsPacketView(p) == p = PacketView(p.source, p.arrival, p.hops, p.tags) /\ IsTags(p.tags)
IsTrace(t) == t = ConditionTrace(t.rule, t.condition, t.matched, t.surface) /\ t.surface \in Surfaces

IsRecord(r) ==
  \/ /\ r.type = "execution_context"
     /\ r = ContextRecord(r.ctx) /\ IsContext(r.ctx)
  \/ /\ r.type = "lifecycle"
     /\ r = LifecycleRecord(r.kind, r.ctx)
     /\ r.kind \in LifecycleKinds /\ IsContext(r.ctx)
  \/ /\ r.type = "message"
     /\ r = MessageRecord(r.kind, r.message)
     /\ r.kind \in MessageKinds /\ IsMessage(r.message)
  \/ /\ r.type = "queue_pressure"
     /\ r = PressureRecord(r.ctx, r.direction, r.port, r.kind, r.edges, r.capacity, r.queued)
     /\ r.kind \in PressureKinds /\ r.direction \in Directions
     /\ r.ctx = None \/ (r.ctx = Some(r.ctx[1]) /\ IsContext(r.ctx[1]))
  \/ /\ r.type = "external_effect"
     /\ r = EffectRecord(r.kind, r.ctx, r.effect, r.operation, r.target, r.status)
     /\ r.kind \in EffectKinds /\ IsContext(r.ctx)
  \/ /\ r.type = "error"
     /\ r = ErrorRecord(r.kind, r.workflow, r.node, r.execution, r.error, r.diagnostic)
     /\ r.kind \in ErrorKinds /\ IsExecution(r.execution) /\ IsError(r.error)
     /\ r.diagnostic = None
          \/ (r.diagnostic = Some(r.diagnostic[1]) /\ IsDiagnostic(r.diagnostic[1]))
  \/ /\ r.type = "rule_eval"
     /\ r = RuleEval(r, r.ruleSet, r.strategy, r.matched, r.action, r.evaluated, r.applied,
                     r.packet, r.trace)
     /\ r.strategy \in Strategies /\ IsExecution(r.execution) /\ IsAction(r.action)
     /\ IsTags(r.applied) /\ IsPacketView(r.packet)
     /\ r.trace = [k \in DOMAIN r.trace |-> r.trace[k]]
     /\ \A k \in DOMAIN r.trace : IsTrace(r.trace[k])
-------------------------------------------------------------------------------
(* The labels.                                                             *)
LifecycleLabel(kind) ==
  CASE kind = "scheduled" -> "node_scheduled"
    [] kind = "started"   -> "node_started"
    [] kind = "completed" -> "node_completed"
    [] kind = "failed"    -> "node_failed"
    [] kind = "cancelled" -> "node_cancelled"

MessageLabel(kind) ==
  CASE kind = "Enqueued" -> "enqueued"
    [] kind = "Dequeued" -> "dequeued"
    [] kind = "Dropped"  -> "dropped"

PressureLabel(kind) ==
  CASE kind = "ReceiveAttempted" -> "receive_attempted"
    [] kind = "ReceiveReady"     -> "receive_ready"
    [] kind = "ReceiveEmpty"     -> "receive_empty"
    [] kind = "ReceiveClosed"    -> "receive_closed"
    [] kind = "ReserveAttempted" -> "reserve_attempted"
    [] kind = "ReserveReady"     -> "reserve_ready"
    [] kind = "ReserveFull"      -> "reserve_full"
    [] kind = "SendCommitted"    -> "send_committed"
    [] kind = "SendDropped"      -> "send_dropped"

DirectionLabel(direction) == IF direction = "Input" THEN "input" ELSE "output"

ErrorLabel(kind) == IF kind = "NodeFailed" THEN "node_failed" ELSE "workflow_failed"

EffectLabel(kind) ==
  CASE kind = "Requested" -> "external_effect_requested"
    [] kind = "Completed" -> "external_effect_completed"
    [] kind = "Failed"    -> "external_effect_failed"

StrategyLabel(strategy) ==
  CASE strategy = "FirstMatch" -> "first_match"
    [] strategy = "AllMatches" -> "all_matches"
    [] strategy = "Score"      -> "score"

SurfaceLabel(surface) ==
  CASE surface = "Payload"          -> "payload"
    [] surface = "Tag"              -> "tag"
    [] surface = "Provenance"       -> "provenance"
    [] surface = "ExecutionContext" -> "execution_context"
    [] surface = "Combinator"       -> "combinator"
    [] surface = "Constant"         -> "constant"
-------------------------------------------------------------------------------
(* The projection of the parts.  A cancellation shows as its reason.       *)
ExecutionJson(execution) ==
  [execution_id |-> execution.id, attempt |-> execution.attempt]

(* Fault: a context that was cancelled logs like one that is active.       *)
CancellationStateOnly(reason) == [state |-> "active"]

CancellationJson(reason) ==
  IF reason = None THEN [state |-> "active"]
                   ELSE [state |-> "requested", reason |-> reason[1]]

ContextJson(ctx) ==
  [workflow_id |-> ctx.workflow, node_id |-> ctx.node,
   execution |-> ExecutionJson(ctx.execution), cancellation |-> CancellationJson(ctx.reason)]

EndpointJson(endpoint) == [node_id |-> endpoint.node, port_id |-> endpoint.port]

MessageJson(message) ==
  [message_id |-> message.id, workflow_id |-> message.workflow,
   execution |-> ExecutionJson(message.execution),
   route |-> [source |-> MapOption(EndpointJson, message.source),
              target |-> EndpointJson(message.target)]]

PureflowErrorJson(err) ==
  [code |-> Code(err), message |-> Message(err), visibility |-> Visibility(err),
   retry_disposition |-> RetryDisposition(err)]

DiagnosticJson(d) ==
  [type |-> "workflow_deadlock", scheduled_node_count |-> d.counts.scheduled,
   pending_node_count |-> d.counts.pending, completed_node_count |-> d.counts.completed,
   failed_node_count |-> d.counts.failed, cancelled_node_count |-> d.counts.cancelled,
   bounded_edge_count |-> d.edges, no_progress_timeout_ms |-> d.timeout,
   cycle_policy |-> d.policy, feedback_loop_startup |-> d.startup,
   feedback_loop_termination |-> d.termination]

ActionJson(action) ==
  CASE action.kind = "Route"      -> [kind |-> "route", port |-> action.args[1]]
    [] action.kind = "Drop"       -> [kind |-> "drop"]
    [] action.kind = "DeadLetter" -> [kind |-> "dead_letter", reason |-> action.args[1]]
    [] action.kind = "Tag"        -> [kind |-> "tag", key |-> action.args[1],
                                      value |-> action.args[2]]
    [] action.kind = "Halt"       -> [kind |-> "halt", message |-> action.args[1]]
    [] action.kind = "Default"    -> [kind |-> "default"]

TagsJson(tags) == [k \in DOMAIN tags |-> [key |-> tags[k][1], value |-> tags[k][2]]]

TraceJson(trace) ==
  [rule_id |-> trace.rule, condition |-> trace.condition, matched |-> trace.matched,
   surface |-> SurfaceLabel(trace.surface)]

RuleEvalJson(r) ==
  [record_type |-> "rule_eval", node_id |-> r.node, workflow_id |-> r.workflow,
   execution |-> ExecutionJson(r.execution), rule_set_id |-> r.ruleSet,
   strategy |-> StrategyLabel(r.strategy), matched_rule |-> r.matched,
   action_taken |-> ActionJson(r.action), rules_evaluated |-> r.evaluated,
   tags_applied |-> TagsJson(r.applied), source_node |-> r.packet.source,
   arrival_port |-> r.packet.arrival, hop_count |-> r.packet.hops,
   tags_present_at_eval |-> TagsJson(r.packet.tags),
   conditions_evaluated |-> [k \in DOMAIN r.trace |-> TraceJson(r.trace[k])]]

(* metadata_record_to_json_value.                                          *)
RecordJson(r) ==
  CASE r.type = "execution_context" ->
         [record_type |-> "execution_context", kind |-> "execution_context",
          context |-> ContextJson(r.ctx)]
    [] r.type = "lifecycle" ->
         [record_type |-> "lifecycle", kind |-> LifecycleLabel(r.kind),
          context |-> ContextJson(r.ctx)]
    [] r.type = "message" ->
         [record_type |-> "message", kind |-> MessageLabel(r.kind),
          message |-> MessageJson(r.message)]
    [] r.type = "queue_pressure" ->
         [record_type |-> "queue_pressure", kind |-> PressureLabel(r.kind),
          direction |-> DirectionLabel(r.direction), port_id |-> r.port,
          context |-> MapOption(ContextJson, r.ctx), connected_edge_count |-> r.edges,
          capacity |-> r.capacity, queued_count |-> r.queued]
    [] r.type = "error" ->
         [record_type |-> "error", kind |-> ErrorLabel(r.kind), workflow_id |-> r.workflow,
          node_id |-> r.node, execution |-> ExecutionJson(r.execution),
          error |-> PureflowErrorJson(r.error),
          diagnostic |-> MapOption(DiagnosticJson, r.diagnostic)]
    [] r.type = "external_effect" ->
         [record_type |-> "external_effect", kind |-> EffectLabel(r.kind),
          context |-> ContextJson(r.ctx), effect |-> r.effect, operation |-> r.operation,
          target |-> r.target, response_status |-> r.status]
    [] r.type = "rule_eval" -> RuleEvalJson(r)
===============================================================================
