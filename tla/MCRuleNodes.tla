------------------------------ MODULE MCRuleNodes ------------------------------
(***************************************************************************)
(* A producer, a native rule node h1, a rule node h2 evaluated by a guest, *)
(* and a consumer, with the conditions of Conditions:                      *)
(*   src -> h1 "hi" -> h2 "out" -> sink,   h1 "dead_letter" -> sink.       *)
(* h2 also declares a port "aux" that no edge is connected to.             *)
(***************************************************************************)
EXTENDS RuleAnalysis, Conditions

MCEdges ==
  {[from |-> "src", port |-> "out", to |-> "h1"],
   [from |-> "h1", port |-> "hi", to |-> "h2"],
   [from |-> "h1", port |-> "dead_letter", to |-> "sink"],
   [from |-> "h2", port |-> "out", to |-> "sink"]}

MCOutputs == [h1 |-> {"hi", "dead_letter"}, h2 |-> {"out", "aux"}]

(* The text "ab", the integer 2, and raw bytes.                           *)
Control(value) == [kind |-> "control", fields |-> [f |-> value]]
MCPayloads ==
  {Control([t |-> "text", s |-> <<"a", "b">>]),
   Control([t |-> "int", n |-> 4]),
   [kind |-> "bytes"]}

Always == [op |-> "always"]
Glob(pattern) == [op |-> "field_matches", path |-> "f", pattern |-> pattern]
IsTwo == [op |-> "field_eq", path |-> "f", value |-> [t |-> "float", n |-> 4]]
Small == [op |-> "field_lt", path |-> "f", value |-> [t |-> "int", n |-> 6]]
Not(c) == [op |-> "not", args |-> <<c>>]
And(c, d) == [op |-> "and", args |-> <<c, d>>]
Or(c, d) == [op |-> "or", args |-> <<c, d>>]

Action(kind, arg) == [kind |-> kind, arg |-> arg]
Route(port) == Action("route", port)
Drop == Action("drop", "")
Tag(key) == Action("tag", key)
DeadLetter == Action("dead_letter", "reason")
HaltNode == Action("halt", "message")

Rule(i, c, a, p) == [id |-> i, cond |-> c, action |-> a, priority |-> p]
RuleSet(s, rs, d) == [strategy |-> s, rules |-> rs, default |-> d]

(* Host h1: every strategy over two rules of equal or different priority,  *)
(* the later one in front or behind.  The default action is a declared     *)
(* port or one that is not.                                                *)
FirstRules ==
  {Rule(1, Not(Or(IsTwo, Glob(<<"a", "*", "b">>))), a, 1) :
     a \in {Route("hi"), DeadLetter, Tag("k")}}
SecondRules ==
  {Rule(2, Glob(<<"*", "a", "*", "b">>), Drop, 0), Rule(2, Glob(<<"?", "b">>), Tag("m"), 0),
   Rule(2, Glob(<<"*", "a">>), Drop, 0), Rule(2, Small, Tag("m"), 1),
   Rule(2, Small, DeadLetter, 1), Rule(2, Always, Route("hi"), 1)}
FirstHost ==
  {RuleSet(s, <<r, q>>, Route(IF q.priority = 0 THEN "lo" ELSE "hi")) :
     s \in {"first_match", "all_matches", "score"}, r \in FirstRules, q \in SecondRules}

(* Host h2: what a second rule node does with what the first forwards.     *)
From(node) == [op |-> "source_node", node |-> node]
Arrived == [op |-> "arrived_on_port", port |-> "in"]
SecondHost ==
  {RuleSet("first_match",
           <<Rule(3, And(Arrived, Not(From("src"))), Route("out"), 0),
             Rule(4, IsTwo, HaltNode, 1)>>, Tag("z")),
   RuleSet("score", <<>>, Route("aux"))}

(* Conditions that name nodes without a path to the host.                  *)
Misplaced == RuleSet("first_match",
  <<Rule(5, Or(From("sink"), From("ghost")), Drop, 0)>>, Route("out"))

MCCandidates == [h1 |-> FirstHost, h2 |-> SecondHost \cup {Misplaced}]

(* Rules in front of one that introspection calls unreachable: one that    *)
(* always matches, or one with the same condition, each a tag or a route.  *)
Shadowed ==
  {RuleSet("first_match", <<Rule(1, c, a, 0), Rule(2, IsTwo, Drop, 1)>>, Route("hi")) :
     c \in {Always, IsTwo}, a \in {Tag("k"), Route("hi")}}
ShadowCandidates == [h1 |-> Shadowed, h2 |-> {Misplaced}]

(* The guest, given the flat encoding of a rule's condition, answers as    *)
(* the native evaluator does on the tree (condition_tree_to_val and the    *)
(* guest's eval_node against eval_condition).                              *)
GuestAgrees ==
  \A h \in Hosts : status[h] = "scanning" /\ MoreRules(h) =>
    GuestHolds(NextRule(h).cond, View(held[h])) = Matches(h)

(* A glob condition matches exactly when the pattern covers the text: "*"  *)
(* any sequence, "?" any single character (GlobPattern::matches).          *)
GlobMeansWildcards ==
  \A h \in Hosts : status[h] = "scanning" /\ MoreRules(h) =>
    LET c == NextRule(h).cond
        found == ResolvePayload(held[h].payload, "f")
    IN  c.op = "field_matches" =>
          (Matches(h) <=> \E j \in found : j.t = "text" /\ WildcardMatch(c.pattern, j.s))
===============================================================================
