------------------------------- MODULE WitValues -------------------------------
(***************************************************************************)
(* What crosses the boundary of a guest component: batches of packets as   *)
(* the host keeps them (pureflow-core batch.rs, message.rs), as WIT port   *)
(* batches, and as Component Model values (pureflow-wasm lib.rs), with the *)
(* decoding that refuses what is malformed, and the uppercase guest.       *)
(*                                                                         *)
(* Batches are functions from port numbers to sequences of packets; names  *)
(* are numbers, in the order of the identifiers.  A control payload        *)
(* crosses as JSON text: [json, v] is a text that parses to v, or does     *)
(* not parse.                                                              *)
(***************************************************************************)
EXTENDS Naturals, Sequences, SequencesExt, Identifiers

(* A packet: its metadata and its payload.                                 *)
Endpoint(node, port) == [node |-> node, port |-> port]
Execution(id, attempt) == [id |-> id, attempt |-> attempt]
Metadata(message, workflow, execution, source, target) ==
  [message |-> message, workflow |-> workflow, execution |-> execution,
   source |-> source, target |-> target]
Payload(kind, data) == [kind |-> kind, data |-> data]
PortPacket(metadata, payload) == [metadata |-> metadata, payload |-> payload]
NoEndpoint == Endpoint(Id(0), Id(0))

PortName(port) == Id(port)
JsonText(v) == [json |-> TRUE, v |-> v]
-------------------------------------------------------------------------------
(* Component Model values.                                                 *)
String(s) == [val |-> "string", s |-> s]
U32(n) == [val |-> "u32", n |-> n]
U8(byte) == [val |-> "u8", byte |-> byte]
List(items) == [val |-> "list", items |-> items]
Record(fields) == [val |-> "record", fields |-> fields]
Variant(name, payload) == [val |-> "variant", name |-> name, payload |-> payload]
Some(v) == [val |-> "option", some |-> <<v>>]
None == [val |-> "option", some |-> <<>>]
OkResult(v) == [val |-> "result", ok |-> TRUE, payload |-> <<v>>]
ErrResult(v) == [val |-> "result", ok |-> FALSE, payload |-> <<v>>]
EmptyResult(ok) == [val |-> "result", ok |-> ok, payload |-> <<>>]
Bool(b) == [val |-> "bool", b |-> b]
Field(name, v) == <<name, v>>

EndpointToVal(e) ==
  Record(<<Field("node-id", String(e.node)), Field("port-id", String(e.port))>>)

RouteToVal(m) ==
  Record(<<Field("source", IF m.source = NoEndpoint THEN None
                                                    ELSE Some(EndpointToVal(m.source))),
           Field("target", EndpointToVal(m.target))>>)

ExecutionToVal(x) ==
  Record(<<Field("execution-id", String(x.id)), Field("attempt", U32(x.attempt))>>)

MetadataToVal(m) ==
  Record(<<Field("message-id", String(m.message)),
           Field("workflow-id", String(m.workflow)),
           Field("execution", ExecutionToVal(m.execution)),
           Field("route", RouteToVal(m))>>)

(* to_wit_packet and payload_to_val: bytes as a list of bytes, a control   *)
(* value as its JSON text.                                                 *)
PayloadToVal(p) ==
  IF p.kind = "bytes"
    THEN Variant("bytes", <<List([k \in DOMAIN p.data |-> U8(p.data[k])])>>)
    ELSE Variant("control", <<String(JsonText(p.data))>>)

PacketToVal(p) ==
  Record(<<Field("metadata", MetadataToVal(p.metadata)),
           Field("payload", PayloadToVal(p.payload))>>)

PortBatchToVal(port, packets) ==
  Record(<<Field("port-id", String(PortName(port))),
           Field("packets", List([k \in DOMAIN packets |-> PacketToVal(packets[k])]))>>)

(* to_wit_port_batches: one port batch per port, in the order of ports.    *)
BatchInputsToVal(inputs) ==
  LET ports == SetToSortSeq(DOMAIN inputs, <)
  IN  List([k \in DOMAIN ports |-> PortBatchToVal(ports[k], inputs[ports[k]])])
-------------------------------------------------------------------------------
(* Decoding: [ok, v], or an execution error.                               *)
Ok(v) == [ok |-> TRUE, v |-> v]
Err == [ok |-> FALSE, v |-> 0]

(* The first field of a record with a name, decoded by Op.                 *)
RequiredField(v, name, Op(_)) ==
  IF v.val # "record" \/ ~\E k \in DOMAIN v.fields : v.fields[k][1] = name
    THEN Err
    ELSE Op(SelectSeq(v.fields, LAMBDA f : f[1] = name)[1][2])

StringOf(v) == IF v.val = "string" THEN Ok(v.s) ELSE Err
U8Of(v) == IF v.val = "u8" THEN Ok(v.byte) ELSE Err
U32Of(v) == IF v.val = "u32" THEN Ok(v.n) ELSE Err
ListOf(v) == IF v.val = "list" THEN Ok(v.items) ELSE Err
IdOf(v) == IF StringOf(v).ok /\ IsIdentifier(v.s) THEN Ok(v.s) ELSE Err

(* collect::<Result<Vec<_>>>.                                              *)
Collect(results) ==
  IF \A k \in DOMAIN results : results[k].ok
    THEN Ok([k \in DOMAIN results |-> results[k].v])
    ELSE Err

EndpointFromVal(v) ==
  LET node == RequiredField(v, "node-id", IdOf)
      port == RequiredField(v, "port-id", IdOf)
  IN  IF node.ok /\ port.ok THEN Ok(Endpoint(node.v, port.v)) ELSE Err

SourceFromVal(v) ==
  IF v.val # "option" THEN Err
  ELSE IF v.some = <<>> THEN Ok(NoEndpoint)
  ELSE EndpointFromVal(v.some[1])

RouteFromVal(v) ==
  LET source == RequiredField(v, "source", SourceFromVal)
      target == RequiredField(v, "target", EndpointFromVal)
  IN  IF source.ok /\ target.ok THEN Ok(<<source.v, target.v>>) ELSE Err

(* An attempt is a NonZeroU32.                                             *)
AttemptOf(v) == IF U32Of(v).ok /\ v.n > 0 THEN Ok(v.n) ELSE Err

ExecutionFromVal(v) ==
  LET id == RequiredField(v, "execution-id", IdOf)
      attempt == RequiredField(v, "attempt", AttemptOf)
  IN  IF id.ok /\ attempt.ok THEN Ok(Execution(id.v, attempt.v)) ELSE Err

MetadataFromVal(v) ==
  LET message == RequiredField(v, "message-id", IdOf)
      workflow == RequiredField(v, "workflow-id", IdOf)
      execution == RequiredField(v, "execution", ExecutionFromVal)
      route == RequiredField(v, "route", RouteFromVal)
  IN  IF message.ok /\ workflow.ok /\ execution.ok /\ route.ok
        THEN Ok(Metadata(message.v, workflow.v, execution.v, route.v[1], route.v[2]))
        ELSE Err

(* bytes_from_val: a list, every element a byte.                           *)
BytesFromVal(v) ==
  IF ListOf(v).ok THEN Collect([k \in DOMAIN v.items |-> U8Of(v.items[k])]) ELSE Err

(* payload_from_val, and from_wit_packet, which parses the JSON text.      *)
PayloadFromVal(v) ==
  IF v.val # "variant" \/ v.payload = <<>> THEN Err
  ELSE LET p == v.payload[1] IN
    IF v.name = "bytes" /\ BytesFromVal(p).ok
    THEN Ok(Payload("bytes", BytesFromVal(p).v))
    ELSE IF v.name = "control" /\ StringOf(p).ok /\ p.s.json
    THEN Ok(Payload("control", p.s.v))
    ELSE Err

PacketFromVal(v) ==
  LET metadata == RequiredField(v, "metadata", MetadataFromVal)
      payload == RequiredField(v, "payload", PayloadFromVal)
  IN  IF metadata.ok /\ payload.ok THEN Ok(PortPacket(metadata.v, payload.v)) ELSE Err

PortBatchFromVal(v) ==
  LET port == RequiredField(v, "port-id", IdOf)
      packets == RequiredField(v, "packets", ListOf)
      decoded == Collect([k \in DOMAIN packets.v |-> PacketFromVal(packets.v[k])])
  IN  IF ~port.ok \/ ~packets.ok \/ ~decoded.ok
        THEN Err
        ELSE Ok([port |-> port.v.name, packets |-> decoded.v])

(* Fault: a later batch for a port replaces an earlier one.                *)
OutputsReplaced(batches) ==
  LET last(p) == CHOOSE k \in DOMAIN batches :
                   /\ batches[k].port = p
                   /\ \A j \in DOMAIN batches : batches[j].port = p => j <= k
  IN  [p \in {batches[k].port : k \in DOMAIN batches} |-> batches[last(p)].packets]

(* from_wit_port_batches: packets are pushed port batch by port batch, so  *)
(* batches for the same port are joined in the order given.                *)
Outputs(batches) ==
  LET ports == {batches[k].port :
                  k \in {j \in DOMAIN batches : batches[j].packets # <<>>}}
  IN  [p \in ports |->
         FlattenSeq([k \in DOMAIN batches |->
                       IF batches[k].port = p THEN batches[k].packets ELSE <<>>])]

(* batch_outputs_from_result_val, with batch_error_from_val: every error   *)
(* of the guest becomes an execution error.                                *)
DecodeReply(v) ==
  IF v.val # "result" \/ v.payload = <<>> \/ ~v.ok THEN Err
  ELSE LET items == ListOf(v.payload[1]) IN
    IF ~items.ok THEN Err
    ELSE LET batches == Collect([k \in DOMAIN items.v |-> PortBatchFromVal(items.v[k])])
         IN  IF batches.ok THEN Ok(Outputs(batches.v)) ELSE Err
-------------------------------------------------------------------------------
(* The uppercase guest: all packets, in the order of their ports, to "out" *)
(* with the case of their bytes changed; it refuses control payloads.      *)
Upper(byte) == IF byte = "a" THEN "A" ELSE byte

UppercaseGuest(inputs, out) ==
  LET ports == SetToSortSeq(DOMAIN inputs, <)
      all == FlattenSeq([k \in DOMAIN ports |-> inputs[ports[k]]])
      changed == [k \in DOMAIN all |->
                    [all[k] EXCEPT !.payload.data =
                       [b \in DOMAIN @ |-> Upper(@[b])]]]
  IN  IF \E k \in DOMAIN all : all[k].payload.kind # "bytes"
        THEN ErrResult(Variant("unsupported-payload", <<String("bytes only")>>))
        ELSE OkResult(List(<<PortBatchToVal(out, changed)>>))
===============================================================================
