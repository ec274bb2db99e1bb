------------------------------ MODULE Conditions ------------------------------
(***************************************************************************)
(* The predicate language of rule sets (pureflow-rules condition.rs and    *)
(* eval.rs), the flat encoding in which the WASM host hands a predicate to *)
(* a guest (pureflow-wasm rules.rs), and the guest's evaluator (the guest  *)
(* fixture of pureflow-wasm).                                              *)
(*                                                                         *)
(* A payload is [kind, fields]: a control payload maps the field paths it  *)
(* defines to values, a bytes payload has no fields.  A value is           *)
(* [t, n] for a number (t is "int" or "float", n counts halves, so that    *)
(* 2 and 2.0 differ in kind and agree in size), [t |-> "text", s] for a    *)
(* string, [t |-> "bool", b], or [t |-> "null"]; a scalar of a condition   *)
(* has the same shapes.  Rounding of i64 to f64 beyond 2^53 is left out.   *)
(* A text is a sequence of characters only where a glob pattern reads it.  *)
(*                                                                         *)
(* A VIEW is what an evaluation sees of a packet: its payload and the      *)
(* fields of EvalContext.                                                  *)
(***************************************************************************)
EXTENDS Naturals, Sequences, SequencesExt

Numbers == {"int", "float"}

(* resolve_payload: the value at a path, as a set of at most one value.    *)
ResolvePayload(payload, path) ==
  IF payload.kind = "control" /\ path \in DOMAIN payload.fields
    THEN {payload.fields[path]}
    ELSE {}

(* json_value_eq_scalar: an integer scalar equals only an integer, a float *)
(* scalar any number of that size.                                         *)
JsonEqScalar(json, scalar) ==
  \/ json = scalar
  \/ /\ scalar.t = "float"
     /\ json.t \in Numbers
     /\ json.n = scalar.n

(* json_value_cmp_scalar is Some(ord) exactly for two numbers.             *)
Comparable(json, scalar) == json.t \in Numbers /\ scalar.t \in Numbers

RECURSIVE GlobMatchInner(_, _)

(* A bug a reader might overlook: "*" has to match at least one character. *)
GlobStarNotEmpty(pattern, value) ==
  IF pattern = <<>> THEN value = <<>>
  ELSE IF Head(pattern) = "*"
    THEN /\ value # <<>>
         /\ \/ GlobMatchInner(Tail(pattern), Tail(value))
            \/ GlobMatchInner(pattern, Tail(value))
    ELSE /\ value # <<>>
         /\ Head(pattern) \in {"?", Head(value)}
         /\ GlobMatchInner(Tail(pattern), Tail(value))

GlobMatchInner(pattern, value) ==
  IF pattern = <<>> THEN value = <<>>
  ELSE IF Head(pattern) = "*"
    THEN \/ GlobMatchInner(Tail(pattern), value)
         \/ value # <<>> /\ GlobMatchInner(pattern, Tail(value))
    ELSE /\ value # <<>>
         /\ Head(pattern) \in {"?", Head(value)}
         /\ GlobMatchInner(Tail(pattern), Tail(value))

(* What the documentation of GlobPattern says: "*" stands for any          *)
(* sequence and "?" for any single character.  cuts[i] is the length of    *)
(* the part of the value that the first i characters of the pattern cover. *)
WildcardMatch(pattern, value) ==
  \E cuts \in [0..Len(pattern) -> 0..Len(value)] :
    /\ cuts[0] = 0
    /\ cuts[Len(pattern)] = Len(value)
    /\ \A i \in 1..Len(pattern) :
         IF pattern[i] = "*"
           THEN cuts[i - 1] <= cuts[i]
           ELSE /\ cuts[i] = cuts[i - 1] + 1
                /\ pattern[i] \in {"?", value[cuts[i]]}

(* The conditions without operands, as eval_condition reads them; the      *)
(* guest's arms for them are the same.                                     *)
LeafHolds(c, view) ==
  LET found == ResolvePayload(view.payload, c.path)
  IN  CASE c.op = "field_eq"  -> \E j \in found : JsonEqScalar(j, c.value)
        [] c.op = "field_neq" -> \E j \in found : ~JsonEqScalar(j, c.value)
        [] c.op = "field_gt"  ->
             \E j \in found : Comparable(j, c.value) /\ j.n > c.value.n
        [] c.op = "field_lt"  ->
             \E j \in found : Comparable(j, c.value) /\ j.n < c.value.n
        [] c.op = "field_gte" ->
             \E j \in found : Comparable(j, c.value) /\ j.n >= c.value.n
        [] c.op = "field_lte" ->
             \E j \in found : Comparable(j, c.value) /\ j.n <= c.value.n
        [] c.op = "field_in"  ->
             \E j \in found, s \in c.values : JsonEqScalar(j, s)
        [] c.op = "field_exists" -> found # {}
        [] c.op = "field_absent" -> \A j \in found : j.t = "null"
        [] c.op = "field_matches" ->
             \E j \in found : j.t = "text" /\ GlobMatchInner(c.pattern, j.s)
        [] c.op = "tag_eq" ->
             c.key \in DOMAIN view.tags /\ view.tags[c.key] = c.value
        [] c.op = "tag_exists" -> c.key \in DOMAIN view.tags
        [] c.op = "tag_absent" -> c.key \notin DOMAIN view.tags
        [] c.op = "source_node" -> view.source = c.node
        [] c.op = "arrived_on_port" -> view.port = c.port
        [] c.op = "hop_count_gt" -> view.hops > c.n
        [] c.op = "hop_count_lte" -> view.hops <= c.n
        [] c.op = "workflow_is" -> view.workflow = c.workflow
        [] c.op = "execution_metadata_eq" ->
             c.key \in DOMAIN view.metadata /\ view.metadata[c.key] = c.value
        [] c.op = "always" -> TRUE
        [] c.op = "never" -> FALSE

(* eval_condition: the evaluator of native rule nodes.                     *)
RECURSIVE EvalCondition(_, _)
EvalCondition(c, view) ==
  CASE c.op = "and" -> \A i \in DOMAIN c.args : EvalCondition(c.args[i], view)
    [] c.op = "or"  -> \E i \in DOMAIN c.args : EvalCondition(c.args[i], view)
    [] c.op = "not" -> ~EvalCondition(c.args[1], view)
    [] OTHER        -> LeafHolds(c, view)

Operands(c) == IF c.op \in {"and", "or", "not"} THEN c.args ELSE <<>>

(* Every condition of a tree: the condition itself and, for a combinator,  *)
(* the conditions of its operands.                                         *)
RECURSIVE Subconditions(_)
Subconditions(c) ==
  {c} \cup UNION {Subconditions(Operands(c)[i]) : i \in DOMAIN Operands(c)}
-------------------------------------------------------------------------------
(* The arena: [nodes, root], children named by their zero-based index.     *)
RECURSIVE PushCondition(_, _)

(* The operands are pushed in order, each after the ones before it.        *)
PushOperands(c, nodes) ==
  FoldLeft(LAMBDA acc, arg :
             LET pushed == PushCondition(arg, acc.nodes)
             IN  [nodes |-> pushed.nodes,
                  refs  |-> Append(acc.refs, pushed.root)],
           [nodes |-> nodes, refs |-> <<>>],
           Operands(c))

WithRefs(c, refs) ==
  IF c.op \in {"and", "or", "not"} THEN [c EXCEPT !.args = refs] ELSE c

(* A plausible slip: the index is read after the node has been pushed.     *)
PushConditionLate(c, nodes) ==
  LET kids == PushOperands(c, nodes)
  IN  [nodes |-> Append(kids.nodes, WithRefs(c, kids.refs)),
       root  |-> Len(kids.nodes) + 1]

(* push_condition: the operands, then the node itself, whose index is the  *)
(* length of the arena before it is pushed.                                *)
PushCondition(c, nodes) ==
  LET kids == PushOperands(c, nodes)
  IN  [nodes |-> Append(kids.nodes, WithRefs(c, kids.refs)),
       root  |-> Len(kids.nodes)]

ConditionTree(c) == PushCondition(c, <<>>)

(* eval_node: an index outside the arena is false.                         *)
RECURSIVE EvalNode(_, _, _)
EvalNode(nodes, index, view) ==
  IF index >= Len(nodes) THEN FALSE
  ELSE LET c == nodes[index + 1]
       IN  CASE c.op = "and" ->
                  \A i \in DOMAIN c.args : EvalNode(nodes, c.args[i], view)
             [] c.op = "or"  ->
                  \E i \in DOMAIN c.args : EvalNode(nodes, c.args[i], view)
             [] c.op = "not" -> ~EvalNode(nodes, c.args[1], view)
             [] OTHER        -> LeafHolds(c, view)

GuestHolds(c, view) ==
  LET tree == ConditionTree(c)
  IN  EvalNode(tree.nodes, tree.root, view)
===============================================================================
