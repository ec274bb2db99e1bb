-------------------------------- MODULE MCSinks --------------------------------
(***************************************************************************)
(* Two threads that record through one tiered sink, with facts of every    *)
(* variant of MetadataRecord.                                              *)
(***************************************************************************)
EXTENDS MetadataLog, TLC

MCPolicies == {control_only, sample_data_every(2), with_high_cost_data(record_data)}
Symmetry == Permutations(Threads)
MCFacts == {[tier |-> tier, record |-> tier] : tier \in Tiers}

Contexts ==
  {NodeContext("w", "n", e, reason) :
     e \in {FirstAttempt("x"), ExecutionMetadata("x", 2)}, reason \in {None, Some("stop")}}
Ctx == NodeContext("w", "n", FirstAttempt("x"), None)
EndpointA == [node |-> "n", port |-> "in"]
Messages ==
  {[id |-> "m", workflow |-> "w", execution |-> FirstAttempt("x"), source |-> s,
    target |-> EndpointA] : s \in {None, Some(EndpointA)}}
CountsSeen == {NodeCounts(2, 1, 1, 0, 0), NodeCounts(2, 1, 0, 1, 0), NodeCounts(2, 1, 0, 0, 1)}
Diagnostics ==
  {None} \cup {Some(DeadlockDiagnostic(c, 1, 5, "allow_feedback_loops", start, end)) :
                 c \in CountsSeen, start \in {None, Some("start_all")},
                 end \in {None, Some("deadlock")}}
Packets == {PacketView(s, Some("in"), 0, tags) : s \in {None, Some("n")},
                                                tags \in {<<>>, <<<<"k", "v">>>>}}
Actions == {RuleEvalAction(k, <<a>>) : k \in {"Route", "DeadLetter", "Halt"}, a \in {"p", "q"}}
             \cup {RuleEvalAction(k, <<>>) : k \in {"Drop", "Default"}}
             \cup {RuleEvalAction("Tag", <<"k", v>>) : v \in {"p", "q"}}

MCRecords ==
  {ContextRecord(ctx) : ctx \in Contexts}
    \cup {LifecycleRecord(kind, ctx) : kind \in LifecycleKinds, ctx \in Contexts}
    \cup {MessageRecord(kind, m) : kind \in MessageKinds, m \in Messages}
    \cup {PressureRecord(ctx, d, "p", kind, 1, Some(2), q) :
            ctx \in {None, Some(Ctx)}, d \in Directions, kind \in PressureKinds,
            q \in {None, Some(0)}}
    \cup {NodeFailed(Ctx, Error(family, "e")) : family \in Families}
    \cup {NodeFailed(Ctx, FromBoundary(f)) : f \in {"cancelled", "closed"}}
    \cup {WorkflowFailed("w", FirstAttempt("x"), Execution("stuck"), d) : d \in Diagnostics}
    \cup {EffectRecord(kind, Ctx, "network_outbound", "op", "to", s) :
            kind \in EffectKinds, s \in {None, Some("200")}}
    \cup {RuleEval(Ctx, "rs", s, m, a, 1, <<>>, PacketView(None, None, 0, <<>>), <<>>) :
            s \in Strategies, m \in {None, Some("r")}, a \in Actions}
    \cup {RuleEval(Ctx, "rs", "Score", None, RuleEvalAction("Default", <<>>), 1, tags, p, tr) :
            tags \in {<<>>, <<<<"k", "v">>>>}, p \in Packets,
            tr \in {<<>>} \cup {<<ConditionTrace("r", "c", TRUE, su)>> : su \in Surfaces}}
===============================================================================
