-------------------------------- MODULE MCWasm ---------------------------------
(***************************************************************************)
(* Two calls of one engine, with a token each: batches for the uppercase   *)
(* guest and for a guest that returns what it was given, rule evaluations  *)
(* by the rules guest, and replies that are damaged in one place.          *)
(***************************************************************************)
EXTENDS WasmInvoke, RuleValues

MCEngineOf == [c1 |-> "e", c2 |-> "e"]
MCTokenOf == [c1 |-> "t1", c2 |-> "t2"]
MCRequests == {[size |-> 5, align |-> 2], [size |-> 3, align |-> 3]}

Out == 9
Meta(n) == Metadata(Id(n), Id(7), Execution(Id(8), n),
                    IF n = 1 THEN NoEndpoint ELSE Endpoint(Id(3), Id(4)),
                    Endpoint(Id(5), Id(6)))
Packet(n, payload) == PortPacket(Meta(n), payload)
Bytes(n) == Packet(n, Payload("bytes", <<"a", "b">>))
Control(n) == Packet(n, Payload("control", "v"))

Entry(n, scalar) == [key |-> Id(n), value |-> scalar]
Text == [t |-> "text", v |-> "x"]
Integer == [t |-> "integer", v |-> 0]
Null == [t |-> "null-value", v |-> 0]
Act(kind, arg) == [kind |-> kind, arg |-> arg]
Rule(n, op, arg, action) ==
  [id |-> Id(n), cond |-> [op |-> op, arg |-> arg], action |-> action, priority |-> n,
   description |-> Id(20 + n)]
TagRule(n, op, arg) == Rule(n, op, arg, Act("tag", Entry(10 + n, IF n = 1 THEN Null ELSE Integer)))

(* One rule for each part of the context, one that decides, one behind it. *)
RuleSets ==
  {[id |-> Id(1), strategy |-> s, trace |-> s # "score", default |-> Act("route", Id(1)),
    rules |-> <<TagRule(1, "tag_eq", Entry(2, Text)), TagRule(2, "source_node", Id(3)),
                TagRule(3, "arrived_on_port", Id(4)), TagRule(4, "hop_count_gt", 1),
                TagRule(5, "workflow_is", Id(7)),
                TagRule(6, "execution_metadata_eq", Entry(5, Integer)),
                IF s = "all-matches" THEN TagRule(7, "field_exists", Id(9))
                ELSE Rule(7, "field_exists", Id(9), Act("halt", Id(2))),
                TagRule(8, "always", Id(0))>>] :
   s \in {"first-match", "all-matches", "score"}}
Contexts ==
  {[payload |-> Payload("control", "v"), tags |-> <<Entry(1, Null), Entry(2, Text)>>,
    source |-> Id(3), port |-> Id(4), hops |-> 2, workflow |-> Id(7),
    metadata |-> <<Entry(5, Integer)>>],
   [payload |-> Payload("bytes", <<"a">>), tags |-> <<>>, source |-> NoName, port |-> NoName,
    hops |-> 0, workflow |-> Id(1), metadata |-> <<>>]}

Batch(b) == [kind |-> "batch", batch |-> b]
Evaluation(rs, c) == [kind |-> "rule", set |-> rs, context |-> c]
Small == Batch(1 :> <<Bytes(1)>>)
Data ==
  {Batch((2 :> <<Bytes(1), Bytes(2)>>) @@ (1 :> <<Bytes(3)>>)),
   Batch((1 :> <<Control(1), Bytes(2)>>) @@ (2 :> <<>>))}
    \cup {Evaluation(rs, c) : rs \in RuleSets, c \in Contexts}
Absent == [kind |-> "none"]

(* Two small calls that race, or one call on more interesting data.        *)
MCScenarios ==
  {[c1 |-> Small, c2 |-> Small]} \cup {[c1 |-> d, c2 |-> Absent] : d \in Data}

(* The guests.  One returns its input; another one packet per port batch.  *)
Echo(batch) == OkResult(BatchInputsToVal(batch))
OneByOne(batch) ==
  LET ports == SetToSortSeq(DOMAIN batch, <)
      single(p) == [k \in DOMAIN batch[p] |-> PortBatchToVal(p, <<batch[p][k]>>)]
  IN  OkResult(List(FlattenSeq([k \in DOMAIN ports |-> single(ports[k])])))
WellFormed(batch) == {Echo(batch), OneByOne(batch), UppercaseGuest(batch, Out)}

(* Values no guest that follows the interface would return: a record in    *)
(* which one field has another value, or is missing.                       *)
Having(v, name, w) ==
  [v EXCEPT !.fields = [k \in DOMAIN @ |-> IF @[k][1] = name THEN Field(name, w) ELSE @[k]]]
Omitting(v, name) == [v EXCEPT !.fields = SelectSeq(@, LAMBDA f : f[1] # name)]

TooLong == String([name |-> 1, len |-> 257, kinds |-> {"plain"}])
Empty == String([name |-> 1, len |-> 0, kinds |-> {}])

Damaged ==
  LET reply(p) == OkResult(List(<<Record(<<Field("port-id", String(Id(1))),
                                           Field("packets", List(<<p>>))>>)>>))
      good == PacketToVal(Bytes(2))
      meta == MetadataToVal(Meta(2))
      execution == ExecutionToVal(Execution(Id(8), 2))
      packets == {Omitting(good, "payload")}
        \cup {Having(good, "metadata", m) :
                m \in {Having(meta, "message-id", TooLong), Having(meta, "workflow-id", Empty),
                       Omitting(meta, "workflow-id")}
                      \cup {Having(meta, "execution", x) :
                              x \in {Having(execution, "execution-id", TooLong),
                                     Omitting(execution, "execution-id"),
                                     Having(execution, "attempt", U32(0))}}}
        \cup {Having(good, "payload", p) :
                p \in {Variant("control", <<String([json |-> FALSE, v |-> "v"])>>),
                       Variant("table", <<String(JsonText("v"))>>),
                       Variant("bytes", <<U8("a")>>),
                       Variant("bytes", <<List(<<U8("a"), U32(1)>>)>>)}}
  IN  {Bool(FALSE), EmptyResult(TRUE), EmptyResult(FALSE), OkResult(Bool(TRUE))}
        \cup {reply(p) : p \in packets}

DamagedDecision ==
  OkResult(Record(<<Field("action", Variant("route", <<String([name |-> 1, len |-> 2,
                                                               kinds |-> {"plain", "space"}])>>)),
                    Field("matched-rule", None), Field("tags-applied", List(<<>>)),
                    Field("conditions-evaluated", List(<<>>))>>))

GuestRules(i) == RulesGuest(RuleSetToVal(i.set), EvalContextToVal(i.context))

(* The replies to each input, and what the host makes of each, as tables.  *)
AllInputs == Data \cup {Small}
ReplyTable ==
  [i \in AllInputs |->
     IF i = Small THEN {Echo(i.batch)}
     ELSE IF i.kind = "batch" THEN WellFormed(i.batch) \cup Damaged
     ELSE {GuestRules(i), DamagedDecision, EmptyResult(FALSE)}]
DecodeTable ==
  [i \in AllInputs |-> [value \in ReplyTable[i] |->
     IF i.kind = "batch" THEN DecodeReply(value) ELSE DecodeDecision(value)]]
MCReplies(i) == ReplyTable[i]
MCDecode(i, value) == DecodeTable[i][value]
-------------------------------------------------------------------------------
(* What the replies mean: the batch that was sent, without its empty       *)
(* ports; all its packets in upper case; the native decision.              *)
Meant(batch) ==
  LET sent == [p \in {q \in DOMAIN batch : batch[q] # <<>>} |-> batch[p]]
      ports == SetToSortSeq(DOMAIN batch, <)
      upper(p) == [p EXCEPT !.payload.data = [k \in DOMAIN @ |-> Upper(@[k])]]
      all == FlattenSeq([k \in DOMAIN ports |-> batch[ports[k]]])
  IN  {<<Echo(batch), sent>>, <<OneByOne(batch), sent>>}
        \cup IF \A k \in DOMAIN all : all[k].payload.kind = "bytes"
               THEN {<<UppercaseGuest(batch, Out), Out :> [k \in DOMAIN all |-> upper(all[k])]>>}
               ELSE {}
MeaningTable ==
  [i \in AllInputs |->
     IF i.kind = "batch" THEN Meant(i.batch)
                         ELSE {<<GuestRules(i), NativeDecision(i.set, i.context)>>}]

(* What the host hands on is what the guest meant, and nothing of a        *)
(* damaged reply: every packet of a batch, with its metadata, on its port  *)
(* and in its place; for a rule set, through both encodings, the decision  *)
(* of the native evaluator (invoke_with_cancellation,                      *)
(* evaluate_with_cancellation and the conversions they use).               *)
GuestAnswersIntact ==
  \A i \in Calls : outcome[i].kind = "ok" =>
    <<call[i].value, outcome[i].outputs>> \in MeaningTable[input[i]]
===============================================================================
