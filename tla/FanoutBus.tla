------------------------------ MODULE FanoutBus ------------------------------
(***************************************************************************)
(* What the ports of a workflow promise their nodes: one indivisible       *)
(* broadcast to all edges of an output port, a bounded FIFO per edge, and  *)
(* an end of input that is announced only after the last packet.  Permits, *)
(* retries and the order in which channels are visited do not appear.      *)
(***************************************************************************)
EXTENDS Naturals, Sequences

CONSTANTS Writers, Readers, Edges, Fanout, Fanin, Capacity, MaxPackets

VARIABLES
  log,       \* log[e]: packets broadcast to edge e, oldest first
  read,      \* read[e]: how many of them have been received
  senders,   \* writers that still hold their output port
  ended,     \* readers that have been told their input is over
  gone       \* readers that have dropped their input port

busVars == <<log, read, senders, ended, gone>>

EdgesOf(s) == {s[i] : i \in DOMAIN s}

BusInit ==
  /\ log = [e \in Edges |-> <<>>]
  /\ read = [e \in Edges |-> 0]
  /\ senders = Writers
  /\ ended = {}
  /\ gone = {}

(* Some reader still owns the receiver of e. *)
Received(e) == \E r \in Readers \ gone : e \in EdgesOf(Fanin[r])

(* One packet enters every edge of the port at once; each edge that is     *)
(* still received has room for it.                                         *)
Broadcast(w) ==
  /\ w \in senders
  /\ \A e \in EdgesOf(Fanout[w]) :
       Received(e) => Len(log[e]) - read[e] < Capacity[e]
  /\ \E n \in 1..MaxPackets :
       /\ \A e \in EdgesOf(Fanout[w]) : \A i \in DOMAIN log[e] :
            log[e][i][1] = w => log[e][i][2] < n
       /\ log' = [e \in Edges |-> IF e \in EdgesOf(Fanout[w])
                                  THEN Append(log[e], <<w, n>>) ELSE log[e]]
  /\ UNCHANGED <<read, senders, ended, gone>>

Receive(r) ==
  /\ r \notin ended \cup gone
  /\ \E e \in EdgesOf(Fanin[r]) :
       /\ read[e] < Len(log[e])
       /\ read' = [read EXCEPT ![e] = @ + 1]
  /\ UNCHANGED <<log, senders, ended, gone>>

EndOfInput(r) ==
  /\ r \notin ended \cup gone
  /\ \A e \in EdgesOf(Fanin[r]) :
       /\ read[e] = Len(log[e])
       /\ \A w \in senders : e \notin EdgesOf(Fanout[w])
  /\ ended' = ended \cup {r}
  /\ UNCHANGED <<log, read, senders, gone>>

CloseOutput(w) ==
  /\ senders' = senders \ {w}
  /\ UNCHANGED <<log, read, ended, gone>>

CloseInput(r) ==
  /\ gone' = gone \cup {r}
  /\ ended' = ended \ {r}
  /\ UNCHANGED <<log, read, senders>>

BusNext ==
  \/ \E w \in Writers : Broadcast(w) \/ CloseOutput(w)
  \/ \E r \in Readers : Receive(r) \/ EndOfInput(r) \/ CloseInput(r)

BusSpec == BusInit /\ [][BusNext]_busVars
=============================================================================
