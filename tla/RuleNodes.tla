------------------------------- MODULE RuleNodes -------------------------------
(***************************************************************************)
(* Rule nodes at work in a workflow: the construction of their rule sets   *)
(* (pureflow-rules rule.rs), the three evaluation strategies (eval.rs),    *)
(* the receive / evaluate / record / act loop of RuleNode (node.rs) and    *)
(* WasmRuleNode (pureflow-wasm rules_node.rs).                             *)
(*                                                                         *)
(* An edge is [from, port, to]; every host declares and receives on its    *)
(* port "in" (without it, its first receive would fail the node).  A       *)
(* send is the atomic broadcast that Ports is shown to implement.  A rule  *)
(* set is [strategy, rules, default] and a rule [id, cond, action,         *)
(* priority]; an action is [kind, arg].  What a condition means is the     *)
(* parameter Holds, a predicate over the view of a packet.                 *)
(***************************************************************************)
EXTENDS Naturals, Sequences, FiniteSets

CONSTANTS
  Hosts,          \* nodes that run a rule set
  WasmHosts,      \* the hosts whose rule set is evaluated by a guest
  Source, Sinks,  \* the other nodes: one producer, and consumers
  Edges,          \* the edges of the workflow
  Outputs,        \* Outputs[h]: the declared output ports of host h
  Candidates,     \* Candidates[h]: the rule sets host h may be given
  Holds(_, _),    \* Holds(condition, view)
  Payloads,       \* payloads the producer sends
  Workflow,       \* the workflow's identifier
  Cap,            \* slots per edge
  MaxPackets      \* bound on the packets the producer sends

IN_PORT == "in"
DEAD_LETTER_PORT == "dead_letter"

ASSUME RuleNodesAssumption ==
  /\ WasmHosts \subseteq Hosts
  /\ Source \notin Hosts \cup Sinks
  /\ Hosts \cap Sinks = {}
  /\ Cap \in Nat \ {0}
  /\ MaxPackets \in Nat

VARIABLES
  ruleSet,    \* ruleSet[h]: the rule set as declared
  rules,      \* rules[h]: its rules, sorted by RuleSet::new
  status,     \* where each host is in its loop, or how it ended
  failure,    \* why a host failed
  held,       \* held[h]: the packet host h has taken
  scan,       \* scan[h]: the evaluator's loop: next rule, best match, tags
  verdict,    \* verdict[h]: the action of the RuleDecision
  queue,      \* queue[e]: the packets on edge e
  log,        \* log[h]: the RuleEvalRecords h has offered to its sink
  fed,        \* packets the producer has sent
  delivered,  \* packets a consumer has received
  consumed,   \* packets a host has finished with and sent nowhere
  dropped,    \* packets a host had in its hands when it ended
  gone,       \* other nodes whose port handles are dropped
  cancelled   \* the run's CancellationToken

vars == <<ruleSet, rules, status, failure, held, scan, verdict, queue, log,
          fed, delivered, consumed, dropped, gone, cancelled>>

evalVars == <<ruleSet, rules>>
flowVars == <<queue, fed, delivered, consumed, dropped, gone>>

Nothing == [kind |-> "nothing", arg |-> ""]
NoPacket == [id |-> 0]

Ended == {"done", "failed", "cancelled"}

(* What the types of a rule set guarantee, none of its values.             *)
ASSUME RuleSetsAssumption ==
  \A h \in Hosts : \A rs \in Candidates[h] :
    /\ rs.strategy \in {"first_match", "all_matches", "score"}
    /\ rs.rules \in Seq({rs.rules[i] : i \in DOMAIN rs.rules})
    /\ \A i \in DOMAIN rs.rules :
         rs.rules[i].priority \in Nat /\ rs.rules[i].action # Nothing

(* RuleAction::is_terminal.                                                *)
IsTerminal(action) == action.kind # "tag"
-------------------------------------------------------------------------------
(* RuleSet::new refuses terminal rules under AllMatches (identifiers are   *)
(* taken to be non-empty).                                                 *)
Acceptable(rs) ==
  rs.strategy = "all_matches" =>
    \A i \in DOMAIN rs.rules : ~IsTerminal(rs.rules[i].action)

(* rules.sort_by_key is stable: i goes before j when its priority number   *)
(* is lower, or equal and i was declared first.                            *)
Before(seq, i, j) ==
  \/ seq[i].priority < seq[j].priority
  \/ seq[i].priority = seq[j].priority /\ i < j

SortedByPriority(seq) ==
  [k \in DOMAIN seq |->
     seq[CHOOSE i \in DOMAIN seq :
           Cardinality({j \in DOMAIN seq : Before(seq, j, i)}) = k - 1]]

(* The context that the host builds from the packet's route: tags and      *)
(* execution metadata are empty maps and the hop count is zero.            *)
View(packet) ==
  [payload |-> packet.payload, source |-> packet.source,
   port |-> packet.port, tags |-> [key \in {} |-> key], hops |-> 0,
   workflow |-> Workflow, metadata |-> [key \in {} |-> key]]

(* The port an action sends to, if it sends.                               *)
Target(action) ==
  CASE action.kind = "route" -> {action.arg}
    [] action.kind = "dead_letter" -> {DEAD_LETTER_PORT}
    [] OTHER -> {}

EdgesFrom(n, port) == {e \in Edges : e.from = n /\ e.port = port}
EdgesTo(n) == {e \in Edges : e.to = n}

Alive(n) == IF n \in Hosts THEN status[n] \notin Ended ELSE n \notin gone

(* A full edge has no slot to reserve.                                     *)
HasSlot(e) == Len(queue[e]) < Cap

CanSend(edges) == \A e \in edges : HasSlot(e) /\ Alive(e.to)

Delivering(edges, packet) ==
  [e \in Edges |-> IF e \in edges THEN Append(queue[e], packet) ELSE queue[e]]
-------------------------------------------------------------------------------
NoScan == [next |-> 1, best |-> Nothing, tags |-> <<>>]

Init ==
  /\ ruleSet \in {f \in [Hosts -> UNION {Candidates[h] : h \in Hosts}] :
                    \A h \in Hosts : f[h] \in Candidates[h]}
  /\ rules = [h \in Hosts |-> <<>>]
  /\ status = [h \in Hosts |-> "loading"]
  /\ failure = [h \in Hosts |-> "none"]
  /\ held = [h \in Hosts |-> NoPacket]
  /\ scan = [h \in Hosts |-> NoScan]
  /\ verdict = [h \in Hosts |-> Nothing]
  /\ queue = [e \in Edges |-> <<>>]
  /\ log = [h \in Hosts |-> <<>>]
  /\ fed = 0
  /\ delivered = {}
  /\ consumed = {}
  /\ dropped = {}
  /\ gone = {}
  /\ cancelled = FALSE

(* The run starts once every rule set has been built.                      *)
Running == \A h \in Hosts : status[h] \notin {"loading", "refused"}

(* RuleSet::new.                                                           *)
Load(h) ==
  /\ status[h] = "loading"
  /\ \/ /\ ~Acceptable(ruleSet[h])
        /\ status' = [status EXCEPT ![h] = "refused"]
        /\ UNCHANGED rules
     \/ /\ Acceptable(ruleSet[h])
        /\ status' = [status EXCEPT ![h] = "waiting"]
        /\ rules' = [rules EXCEPT ![h] = SortedByPriority(ruleSet[h].rules)]
  /\ UNCHANGED <<ruleSet, failure, held, scan, verdict, log, cancelled, flowVars>>

(* recv: the token is looked at before the edges.                          *)
Receive(h) ==
  /\ Running
  /\ status[h] = "waiting"
  /\ ~cancelled
  /\ \E e \in EdgesTo(h) :
       /\ queue[e] # <<>>
       /\ held' = [held EXCEPT ![h] = Head(queue[e])]
       /\ queue' = [queue EXCEPT ![e] = Tail(@)]
  /\ scan' = [scan EXCEPT ![h] = NoScan]
  /\ status' = [status EXCEPT ![h] = "scanning"]
  /\ UNCHANGED <<evalVars, failure, verdict, log, fed, delivered, consumed,
                 dropped, gone, cancelled>>

ReceiveCancelled(h) ==
  /\ Running
  /\ status[h] = "waiting"
  /\ cancelled
  /\ status' = [status EXCEPT ![h] = "cancelled"]
  /\ UNCHANGED <<evalVars, failure, held, scan, verdict, log, cancelled, flowVars>>

EndOfInput(h) ==
  /\ Running
  /\ status[h] = "waiting"
  /\ ~cancelled
  /\ \A e \in EdgesTo(h) : queue[e] = <<>> /\ ~Alive(e.from)
  /\ status' = [status EXCEPT ![h] = "done"]
  /\ UNCHANGED <<evalVars, failure, held, scan, verdict, log, cancelled, flowVars>>
-------------------------------------------------------------------------------
(* The rule that evaluate looks at next, and whether it matches.           *)
NextRule(h) == rules[h][scan[h].next]
MoreRules(h) == scan[h].next <= Len(rules[h])
Matches(h) == Holds(NextRule(h).cond, View(held[h]))

TagsAfter(h) ==
  IF Matches(h) /\ NextRule(h).action.kind = "tag"
    THEN Append(scan[h].tags, NextRule(h).action.arg)
    ELSE scan[h].tags

(* A slip of evaluate_score: every later match replaces the best one.      *)
BestAfterLast(h) ==
  IF /\ ruleSet[h].strategy = "score"
     /\ Matches(h) /\ IsTerminal(NextRule(h).action)
    THEN NextRule(h).action
    ELSE scan[h].best

(* Only evaluate_score remembers a best match, and it keeps the first.     *)
BestAfter(h) ==
  IF /\ ruleSet[h].strategy = "score"
     /\ scan[h].best = Nothing
     /\ Matches(h) /\ IsTerminal(NextRule(h).action)
    THEN NextRule(h).action
    ELSE scan[h].best

(* evaluate_first_match returns from its loop.                             *)
Stops(h) ==
  /\ ruleSet[h].strategy = "first_match"
  /\ Matches(h)
  /\ IsTerminal(NextRule(h).action)

(* A guest is not called once the token is set.                            *)
Evaluating(h) ==
  /\ status[h] = "scanning"
  /\ ~(h \in WasmHosts /\ cancelled /\ scan[h].next = 1)

StopAtMatch(h) ==
  /\ Evaluating(h)
  /\ MoreRules(h)
  /\ Stops(h)
  /\ verdict' = [verdict EXCEPT ![h] = NextRule(h).action]
  /\ status' = [status EXCEPT ![h] = "recording"]
  /\ UNCHANGED <<evalVars, failure, held, scan, log, cancelled, flowVars>>

PassRule(h) ==
  /\ Evaluating(h)
  /\ MoreRules(h)
  /\ ~Stops(h)
  /\ scan' = [scan EXCEPT ![h] = [next |-> @.next + 1, best |-> BestAfter(h),
                                  tags |-> TagsAfter(h)]]
  /\ UNCHANGED <<evalVars, status, failure, held, verdict, log, cancelled, flowVars>>

FinishScan(h) ==
  /\ Evaluating(h)
  /\ ~MoreRules(h)
  /\ verdict' = [verdict EXCEPT ![h] =
       IF scan[h].best = Nothing THEN ruleSet[h].default ELSE scan[h].best]
  /\ status' = [status EXCEPT ![h] = "recording"]
  /\ UNCHANGED <<evalVars, failure, held, scan, log, cancelled, flowVars>>

(* The packet in the hands of h, and what h saw of it.                     *)
InHand(h) == [id |-> held[h].id, host |-> h, view |-> View(held[h])]

(* The node returns an error: the packet it had taken is dropped with it.  *)
Fail(h, why) ==
  /\ status' = [status EXCEPT ![h] = "failed"]
  /\ failure' = [failure EXCEPT ![h] = why]
  /\ dropped' = dropped \cup {InHand(h)}
  /\ held' = [held EXCEPT ![h] = NoPacket]
  /\ UNCHANGED <<evalVars, scan, verdict, log, cancelled, queue, fed, delivered,
                 consumed, gone>>

(* A guest's evaluation may be interrupted by the token, run out of fuel,  *)
(* trap or answer with an error: always an execution error of the node.    *)
GuestFails(h) ==
  /\ h \in WasmHosts
  /\ status[h] = "scanning"
  /\ Fail(h, "guest")
-------------------------------------------------------------------------------
(* The record is offered to the sink, whose answer is ignored, so the log  *)
(* holds what was offered.                                                 *)
Offered(h) ==
  [id |-> held[h].id, action |-> verdict[h], tags |-> scan[h].tags]

(* A slip: only verdicts of a rule are recorded, not the default action.   *)
RecordVerdictOfRules(h) ==
  /\ status[h] = "recording"
  /\ log' = [log EXCEPT ![h] =
       IF verdict[h] = ruleSet[h].default THEN @ ELSE Append(@, Offered(h))]
  /\ status' = [status EXCEPT ![h] = "acting"]
  /\ UNCHANGED <<evalVars, failure, held, scan, verdict, cancelled, flowVars>>

RecordVerdict(h) ==
  /\ status[h] = "recording"
  /\ log' = [log EXCEPT ![h] = Append(@, Offered(h))]
  /\ status' = [status EXCEPT ![h] = "acting"]
  /\ UNCHANGED <<evalVars, failure, held, scan, verdict, cancelled, flowVars>>

(* forward_packet: the route's source and its target are both the host's   *)
(* own output port.                                                        *)
Forwarded(h, port) == [held[h] EXCEPT !.source = h, !.port = port]

(* Route and DeadLetter: the send waits for a slot on every edge.  A       *)
(* declared port without edges takes the packet and keeps nothing.         *)
Send(h) ==
  /\ status[h] = "acting"
  /\ ~cancelled
  /\ \E port \in Target(verdict[h]) \cap Outputs[h] :
       /\ CanSend(EdgesFrom(h, port))
       /\ queue' = Delivering(EdgesFrom(h, port), Forwarded(h, port))
       /\ consumed' = IF EdgesFrom(h, port) = {}
                        THEN consumed \cup {InHand(h)} ELSE consumed
  /\ held' = [held EXCEPT ![h] = NoPacket]
  /\ status' = [status EXCEPT ![h] = "acted"]
  /\ UNCHANGED <<evalVars, failure, scan, verdict, log, fed, delivered, dropped,
                 gone, cancelled>>

(* A send fails on an undeclared port, on an edge whose receiver is gone,  *)
(* or because the token is set: in each case an execution error.           *)
SendFails(h) ==
  /\ status[h] = "acting"
  /\ \E port \in Target(verdict[h]) :
       \/ /\ port \notin Outputs[h]
          /\ Fail(h, "unknown_port")
       \/ /\ port \in Outputs[h]
          /\ cancelled \/ \E e \in EdgesFrom(h, port) : ~Alive(e.to)
          /\ Fail(h, "send")

(* A slip: dead letters fall into the arm that discards.                   *)
DiscardDeadLetters(h) ==
  /\ status[h] = "acting"
  /\ verdict[h].kind \in {"drop", "tag", "dead_letter"}
  /\ consumed' = consumed \cup {InHand(h)}
  /\ held' = [held EXCEPT ![h] = NoPacket]
  /\ status' = [status EXCEPT ![h] = "acted"]
  /\ UNCHANGED <<evalVars, failure, scan, verdict, log, queue, fed, delivered,
                 dropped, gone, cancelled>>

Discard(h) ==
  /\ status[h] = "acting"
  /\ verdict[h].kind \in {"drop", "tag"}
  /\ consumed' = consumed \cup {InHand(h)}
  /\ held' = [held EXCEPT ![h] = NoPacket]
  /\ status' = [status EXCEPT ![h] = "acted"]
  /\ UNCHANGED <<evalVars, failure, scan, verdict, log, queue, fed, delivered,
                 dropped, gone, cancelled>>

Halt(h) ==
  /\ status[h] = "acting"
  /\ verdict[h].kind = "halt"
  /\ Fail(h, "halt")

(* The token is looked at between packets.                                 *)
CheckCancelled(h) ==
  /\ status[h] = "acted"
  /\ status' = [status EXCEPT ![h] = IF cancelled THEN "cancelled" ELSE "waiting"]
  /\ UNCHANGED <<evalVars, failure, held, scan, verdict, log, cancelled, flowVars>>
-------------------------------------------------------------------------------
(* The rest of the workflow.  The producer's packets carry the route of    *)
(* the edge they travel on; consumers receive, or drop their ports.        *)
Feed ==
  /\ Running
  /\ Source \notin gone
  /\ fed < MaxPackets
  /\ \E e \in Edges, payload \in Payloads :
       /\ e.from = Source
       /\ HasSlot(e) /\ Alive(e.to)
       /\ queue' = [queue EXCEPT ![e] = Append(@,
            [id |-> fed + 1, payload |-> payload, source |-> Source,
             port |-> IN_PORT])]
  /\ fed' = fed + 1
  /\ UNCHANGED <<evalVars, status, failure, held, scan, verdict, log, delivered,
                 consumed, dropped, gone, cancelled>>

Take(s) ==
  /\ s \notin gone
  /\ \E e \in EdgesTo(s) :
       /\ queue[e] # <<>>
       /\ delivered' = delivered \cup {[edge |-> e, id |-> Head(queue[e]).id]}
       /\ queue' = [queue EXCEPT ![e] = Tail(@)]
  /\ UNCHANGED <<evalVars, status, failure, held, scan, verdict, log, fed,
                 consumed, dropped, gone, cancelled>>

Leave(n) ==
  /\ Running
  /\ n \notin gone
  /\ gone' = gone \cup {n}
  /\ UNCHANGED <<evalVars, status, failure, held, scan, verdict, log, queue, fed,
                 delivered, consumed, dropped, cancelled>>

Cancel ==
  /\ Running
  /\ ~cancelled
  /\ cancelled' = TRUE
  /\ UNCHANGED <<evalVars, status, failure, held, scan, verdict, log, flowVars>>

HostStep(h) ==
  \/ Load(h) \/ Receive(h) \/ ReceiveCancelled(h) \/ EndOfInput(h)
  \/ StopAtMatch(h) \/ PassRule(h) \/ FinishScan(h) \/ GuestFails(h)
  \/ RecordVerdict(h) \/ Send(h) \/ SendFails(h) \/ Discard(h) \/ Halt(h)
  \/ CheckCancelled(h)

Next ==
  \/ \E h \in Hosts : HostStep(h)
  \/ Feed
  \/ \E s \in Sinks : Take(s)
  \/ \E n \in Sinks \cup {Source} : Leave(n)
  \/ Cancel

Spec == Init /\ [][Next]_vars
-------------------------------------------------------------------------------
(* What a rule set decides, said over the rules as declared: AllMatches    *)
(* always takes the default action, the other strategies the matching      *)
(* terminal rule with the lowest priority number, the first declared among *)
(* equals.                                                                 *)
MatchingRules(rs, view) ==
  {i \in DOMAIN rs.rules : Holds(rs.rules[i].cond, view)}

DecidingRules(rs, view) ==
  LET terminal == {i \in MatchingRules(rs, view) : IsTerminal(rs.rules[i].action)}
  IN  {i \in terminal :
         /\ rs.strategy # "all_matches"
         /\ \A j \in terminal \ {i} : Before(rs.rules, i, j)}

DecidedAction(rs, view) ==
  IF DecidingRules(rs, view) = {} THEN rs.default
  ELSE rs.rules[CHOOSE i \in DecidingRules(rs, view) : TRUE].action

(* The rules whose tags a decision carries: all matching tag rules, and    *)
(* under FirstMatch only those in front of the deciding rule.              *)
TaggingRules(rs, view) ==
  {i \in MatchingRules(rs, view) :
     /\ ~IsTerminal(rs.rules[i].action)
     /\ rs.strategy = "first_match" =>
          \A j \in DecidingRules(rs, view) : Before(rs.rules, i, j)}

TagsOf(rs, tagging) ==
  [k \in 1..Cardinality(tagging) |->
     rs.rules[CHOOSE i \in tagging :
       Cardinality({j \in tagging : Before(rs.rules, j, i)}) = k - 1].action.arg]

(* The loops over the sorted rules return the action and the tags that the *)
(* rule set decides as declared (evaluate_first_match, evaluate_all_matches *)
(* and evaluate_score after the sort of RuleSet::new).                     *)
DecisionIsBest ==
  \A h \in Hosts : status[h] \in {"recording", "acting"} =>
    LET view == View(held[h])
    IN  /\ verdict[h] = DecidedAction(ruleSet[h], view)
        /\ scan[h].tags = TagsOf(ruleSet[h], TaggingRules(ruleSet[h], view))

(* A node that ended before its input did.                                 *)
EndedEarly(n) == IF n \in Hosts THEN status[n] \in {"failed", "cancelled"} ELSE n \in gone

OnEdge(id, e) == \E k \in DOMAIN queue[e] : queue[e][k].id = id

(* No packet disappears in silence on its way through rule nodes.  Each    *)
(* one fed is on an edge to a node at work, in the hands of a host at      *)
(* work, with a consumer, or finished with by a host whose rule set as     *)
(* declared discards it or sends it to a declared port without edges; or a *)
(* node that ended early took it along.  That is one packet in hand per    *)
(* host and always with an error of the node: a halt that the rule set     *)
(* decides for this packet, a send refused by the cancellation or by a     *)
(* receiver that ended, a port that is not declared, the guest's failure.  *)
(* A host that ended well left nothing behind.                             *)
NothingLost ==
  /\ \A id \in 1..fed :
       \/ \E e \in Edges : OnEdge(id, e) /\ (Alive(e.to) \/ EndedEarly(e.to))
       \/ \E h \in Hosts : held[h].id = id /\ Alive(h)
       \/ \E d \in delivered \cup consumed \cup dropped : d.id = id
  /\ \A c \in consumed :
       LET decided == DecidedAction(ruleSet[c.host], c.view)
       IN  \/ decided.kind \in {"drop", "tag"}
           \/ \A port \in Target(decided) : EdgesFrom(c.host, port) = {}
  /\ \A d \in dropped :
       LET decided == DecidedAction(ruleSet[d.host], d.view)
       IN  /\ failure[d.host] # "none"
           /\ failure[d.host] = "halt" => decided.kind = "halt"
           /\ failure[d.host] = "send" =>
                \/ cancelled
                \/ \E port \in Target(decided) : \E e \in EdgesFrom(d.host, port) : ~Alive(e.to)
           /\ \A other \in dropped : other.host = d.host => other = d
  /\ \A e \in Edges : e.to \in Hosts /\ status[e.to] = "done" => queue[e] = <<>>

HasRecord(h, id, ports) ==
  \E k \in DOMAIN log[h] : log[h][k].id = id /\ ports \subseteq Target(log[h][k].action)

(* The finalize guarantee: whatever a host did with a packet (sent it,     *)
(* consumed it, halted on it or failed to send it) was recorded before,    *)
(* with the port it went to.                                               *)
AuditTrail ==
  /\ \A e \in Edges : e.from \in Hosts =>
       /\ \A k \in DOMAIN queue[e] : HasRecord(e.from, queue[e][k].id, {e.port})
       /\ \A d \in delivered :
            d.edge = e => HasRecord(e.from, d.id, {e.port})
  /\ \A c \in consumed : HasRecord(c.host, c.id, {})
  /\ \A h \in Hosts : failure[h] \in {"unknown_port", "send", "halt"} =>
       \E d \in dropped : d.host = h /\ HasRecord(h, d.id, {})
===============================================================================
