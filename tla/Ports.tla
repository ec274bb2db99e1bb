-------------------------------- MODULE Ports --------------------------------
(***************************************************************************)
(* The port handles of pureflow-core (ports.rs) over bounded edge          *)
(* channels.                                                               *)
(*                                                                         *)
(* A WRITER is one task that sends through a declared output port: the     *)
(* port's OutputPortHandle is the sequence Fanout[w] of senders, one per   *)
(* downstream edge.  PortsOut is Clone, so two writers may share a         *)
(* fan-out.  A READER is one task that receives from a declared input      *)
(* port, whose InputPortHandle is the sequence Fanin[r] of receivers.      *)
(*                                                                         *)
(* Every call into an edge's channel (try_reserve, permit.send, poll_recv) *)
(* is one step: handles may be driven from different threads, so the steps *)
(* of a fan-out and of a poll over several receivers interleave with those *)
(* of the other tasks.  The channel itself (asupersync::channel::mpsc) is  *)
(* external and modelled from how ports.rs uses it.                        *)
(***************************************************************************)
EXTENDS Naturals, Sequences, FiniteSets

CONSTANTS
  Writers,     \* tasks that send through an output port
  Readers,     \* tasks that receive from an input port
  Edges,       \* bounded edge channels
  Fanout,      \* Fanout[w]: the senders of w's output port, in order
  Fanin,       \* Fanin[r]: the receivers of r's input port, in order
  Capacity,    \* Capacity[e]: slots of edge e (NonZeroUsize)
  MaxPackets   \* bound on the packets each writer tries to send

Elems(s) == {s[i] : i \in DOMAIN s}

Injective(s) == \A i, j \in DOMAIN s : s[i] = s[j] => i = j

(* bounded_edge_channel creates one sender and one receiver: a port never  *)
(* holds an edge twice, and an edge has one receiving port.                *)
ASSUME PortsAssumption ==
  /\ IsFiniteSet(Writers)
  /\ Fanout \in [Writers -> Seq(Edges)]
  /\ Fanin \in [Readers -> Seq(Edges)]
  /\ Capacity \in [Edges -> Nat \ {0}]
  /\ MaxPackets \in Nat
  /\ \A w \in Writers : Injective(Fanout[w])
  /\ \A r \in Readers : Injective(Fanin[r])
  /\ \A r, q \in Readers : r # q => Elems(Fanin[r]) \cap Elems(Fanin[q]) = {}

VARIABLES
  committed,   \* committed[e]: the packets handed to edge e, oldest first
  taken,       \* taken[e]: how many of them the receiver has dequeued
  rxLive,      \* rxLive[e]: the receiver of e has not been dropped
  permits,     \* permits[e]: the writers that hold a reserved slot of e
  pc,          \* where each writer is in reserve / send
  mode,        \* "async" inside reserve().await, "try" inside try_reserve
  held,        \* how many leading senders of Fanout[w] have given a permit
  released,    \* how many of those permits w has already committed
  seqno,       \* packets w has tried to send so far
  cancelled,   \* the CancellationToken shared by the tasks
  rpc,         \* where each reader is in recv
  pos,         \* next receiver the poll of r looks at
  nclosed,     \* disconnected_count of the current poll of r
  enqueued,    \* packets with an Enqueued message boundary record
  dequeued     \* packets with a Dequeued message boundary record

edgeVars   == <<committed, taken, rxLive, permits>>
writerVars == <<pc, mode, held, released, seqno>>
readerVars == <<rpc, pos, nclosed>>
recordVars == <<enqueued, dequeued>>
vars == <<edgeVars, writerVars, cancelled, readerVars, recordVars>>

Packets == Writers \X (1..MaxPackets)

(* The packet w is sending. *)
Current(w) == <<w, seqno[w]>>

Queued(e) == Len(committed[e]) - taken[e]

(* Fault: outstanding permits are not counted.                             *)
HasSlotIgnoringPermits(e) == Queued(e) < Capacity[e]

(* try_reserve of the channel succeeds while queued packets and            *)
(* outstanding permits leave a slot.                                       *)
HasSlot(e) == Queued(e) + Cardinality(permits[e]) < Capacity[e]

(* Every sender handle of e has been dropped. *)
SendersGone(e) == \A w \in Writers : e \in Elems(Fanout[w]) => pc[w] = "dropped"

(* Every variable has its type: counters of a call stay within the senders *)
(* and receivers of its port, and no more packets are taken than committed. *)
TypeOK ==
  /\ committed \in [Edges -> Seq(Packets)]
  /\ taken \in [Edges -> Nat]
  /\ rxLive \in [Edges -> BOOLEAN]
  /\ permits \in [Edges -> SUBSET Writers]
  /\ pc \in [Writers -> {"idle", "checking", "reserving", "held",
                         "committing", "dropped"}]
  /\ mode \in [Writers -> {"async", "try"}]
  /\ held \in [Writers -> Nat]
  /\ released \in [Writers -> Nat]
  /\ seqno \in [Writers -> 0..MaxPackets]
  /\ cancelled \in BOOLEAN
  /\ rpc \in [Readers -> {"idle", "polling", "closed", "stopped", "dropped"}]
  /\ pos \in [Readers -> Nat]
  /\ nclosed \in [Readers -> Nat]
  /\ enqueued \subseteq Packets
  /\ dequeued \subseteq Packets
  /\ \A e \in Edges : taken[e] <= Len(committed[e])
  /\ \A w \in Writers : released[w] <= held[w] /\ held[w] <= Len(Fanout[w])
  /\ \A r \in Readers : nclosed[r] < pos[r] /\ pos[r] <= Len(Fanin[r]) + 1

Init ==
  /\ committed = [e \in Edges |-> <<>>]
  /\ taken = [e \in Edges |-> 0]
  /\ rxLive = [e \in Edges |-> TRUE]
  /\ permits = [e \in Edges |-> {}]
  /\ pc = [w \in Writers |-> "idle"]
  /\ mode = [w \in Writers |-> "try"]
  /\ held = [w \in Writers |-> 0]
  /\ released = [w \in Writers |-> 0]
  /\ seqno = [w \in Writers |-> 0]
  /\ cancelled = FALSE
  /\ rpc = [r \in Readers |-> "idle"]
  /\ pos = [r \in Readers |-> 1]
  /\ nclosed = [r \in Readers |-> 0]
  /\ enqueued = {}
  /\ dequeued = {}

-----------------------------------------------------------------------------
(* Sending *)

(* PortsOut::reserve / send: the loop that checks the token first.         *)
BeginReserve(w) ==
  /\ pc[w] = "idle"
  /\ seqno[w] < MaxPackets
  /\ pc' = [pc EXCEPT ![w] = "checking"]
  /\ mode' = [mode EXCEPT ![w] = "async"]
  /\ seqno' = [seqno EXCEPT ![w] = @ + 1]
  /\ UNCHANGED <<edgeVars, held, released, cancelled, readerVars, recordVars>>

(* PortsOut::try_reserve / try_send: no token, one attempt.                *)
BeginTryReserve(w) ==
  /\ pc[w] = "idle"
  /\ seqno[w] < MaxPackets
  /\ pc' = [pc EXCEPT ![w] = "reserving"]
  /\ mode' = [mode EXCEPT ![w] = "try"]
  /\ seqno' = [seqno EXCEPT ![w] = @ + 1]
  /\ UNCHANGED <<edgeVars, held, released, cancelled, readerVars, recordVars>>

(* Fault: the loop does not look at the token.                             *)
CheckCancelledIgnored(w) ==
  /\ pc[w] = "checking"
  /\ pc' = [pc EXCEPT ![w] = "reserving"]
  /\ UNCHANGED <<edgeVars, mode, held, released, seqno, cancelled,
                 readerVars, recordVars>>

(* Head of the reserve loop: a requested cancellation is an error.         *)
CheckCancelled(w) ==
  /\ pc[w] = "checking"
  /\ pc' = [pc EXCEPT ![w] = IF cancelled THEN "idle" ELSE "reserving"]
  /\ UNCHANGED <<edgeVars, mode, held, released, seqno, cancelled,
                 readerVars, recordVars>>

(* Fault: best-effort fan-out, a full edge is passed over.                 *)
AcquirePermitBestEffort(w) ==
  /\ pc[w] = "reserving"
  /\ held[w] < Len(Fanout[w])
  /\ LET e == Fanout[w][held[w] + 1] IN
       /\ rxLive[e]
       /\ permits' = [permits EXCEPT ![e] = IF HasSlot(e) THEN @ \cup {w} ELSE @]
  /\ held' = [held EXCEPT ![w] = @ + 1]
  /\ UNCHANGED <<committed, taken, rxLive, pc, mode, released, seqno,
                 cancelled, readerVars, recordVars>>

(* try_reserve on the next sender of the fan-out.                          *)
AcquirePermit(w) ==
  /\ pc[w] = "reserving"
  /\ held[w] < Len(Fanout[w])
  /\ LET e == Fanout[w][held[w] + 1] IN
       /\ rxLive[e]
       /\ HasSlot(e)
       /\ permits' = [permits EXCEPT ![e] = @ \cup {w}]
  /\ held' = [held EXCEPT ![w] = @ + 1]
  /\ UNCHANGED <<committed, taken, rxLive, pc, mode, released, seqno,
                 cancelled, readerVars, recordVars>>

(* Every permit w still holds is dropped or aborted.                       *)
ReleasePermits(w) ==
  /\ permits' = [e \in Edges |-> permits[e] \ {w}]
  /\ held' = [held EXCEPT ![w] = 0]

(* Fault: the permits of the leading senders are leaked.                   *)
ReserveFullLeaking(w) ==
  /\ pc[w] = "reserving"
  /\ held[w] < Len(Fanout[w])
  /\ LET e == Fanout[w][held[w] + 1] IN rxLive[e] /\ ~HasSlot(e)
  /\ held' = [held EXCEPT ![w] = 0]
  /\ pc' = [pc EXCEPT ![w] = IF mode[w] = "async" THEN "checking" ELSE "idle"]
  /\ UNCHANGED <<edgeVars, mode, released, seqno, cancelled,
                 readerVars, recordVars>>

(* The next edge is full: the permits acquired so far are dropped; reserve *)
(* yields and starts over, try_reserve returns Full.                       *)
ReserveFull(w) ==
  /\ pc[w] = "reserving"
  /\ held[w] < Len(Fanout[w])
  /\ LET e == Fanout[w][held[w] + 1] IN rxLive[e] /\ ~HasSlot(e)
  /\ ReleasePermits(w)
  /\ pc' = [pc EXCEPT ![w] = IF mode[w] = "async" THEN "checking" ELSE "idle"]
  /\ UNCHANGED <<committed, taken, rxLive, mode, released, seqno, cancelled,
                 readerVars, recordVars>>

(* The next edge's receiver is gone: both forms return Disconnected.       *)
ReserveDisconnected(w) ==
  /\ pc[w] = "reserving"
  /\ held[w] < Len(Fanout[w])
  /\ ~rxLive[Fanout[w][held[w] + 1]]
  /\ ReleasePermits(w)
  /\ pc' = [pc EXCEPT ![w] = "idle"]
  /\ UNCHANGED <<committed, taken, rxLive, mode, released, seqno, cancelled,
                 readerVars, recordVars>>

(* Fault: one permit is taken for a reservation of the whole port.         *)
ReserveReadyPartial(w) ==
  /\ pc[w] = "reserving"
  /\ held[w] > 0
  /\ pc' = [pc EXCEPT ![w] = "held"]
  /\ UNCHANGED <<edgeVars, mode, held, released, seqno, cancelled,
                 readerVars, recordVars>>

(* A permit for every edge of the port: an unconnected port is ready at    *)
(* once.                                                                   *)
ReserveReady(w) ==
  /\ pc[w] = "reserving"
  /\ held[w] = Len(Fanout[w])
  /\ pc' = [pc EXCEPT ![w] = "held"]
  /\ UNCHANGED <<edgeVars, mode, held, released, seqno, cancelled,
                 readerVars, recordVars>>

(* PortSendPermit::abort, a dropped permit, or a packet the output         *)
(* validator rejects.                                                      *)
AbortPermit(w) ==
  /\ pc[w] = "held"
  /\ ReleasePermits(w)
  /\ pc' = [pc EXCEPT ![w] = "idle"]
  /\ UNCHANGED <<committed, taken, rxLive, mode, released, seqno, cancelled,
                 readerVars, recordVars>>

(* Fault: Enqueued and Dropped are swapped.                                *)
RecordSendSwapped(w) ==
  /\ pc[w] = "held"
  /\ IF Fanout[w] = <<>>
     THEN /\ pc' = [pc EXCEPT ![w] = "idle"]
          /\ enqueued' = enqueued \cup {Current(w)}
     ELSE /\ pc' = [pc EXCEPT ![w] = "committing"]
          /\ UNCHANGED enqueued
  /\ UNCHANGED <<edgeVars, mode, held, released, seqno, cancelled,
                 readerVars, dequeued>>

(* PortSendPermit::send, up to the boundary record.  Without a connected   *)
(* edge the packet is recorded as Dropped and the call is over.            *)
RecordSend(w) ==
  /\ pc[w] = "held"
  /\ IF Fanout[w] = <<>>
     THEN /\ pc' = [pc EXCEPT ![w] = "idle"]
          /\ UNCHANGED enqueued
     ELSE /\ pc' = [pc EXCEPT ![w] = "committing"]
          /\ enqueued' = enqueued \cup {Current(w)}
  /\ UNCHANGED <<edgeVars, mode, held, released, seqno, cancelled,
                 readerVars, dequeued>>

(* Fault: a packet overtakes the queued ones.                              *)
CommitPermitInFront(w) ==
  /\ pc[w] = "committing"
  /\ LET i == released[w] + 1
         e == Fanout[w][i]
     IN /\ committed' = [committed EXCEPT ![e] = <<Current(w)>> \o @]
        /\ permits' = [permits EXCEPT ![e] = @ \ {w}]
        /\ IF i = held[w]
           THEN /\ pc' = [pc EXCEPT ![w] = "idle"]
                /\ held' = [held EXCEPT ![w] = 0]
                /\ released' = [released EXCEPT ![w] = 0]
           ELSE /\ released' = [released EXCEPT ![w] = i]
                /\ UNCHANGED <<pc, held>>
  /\ UNCHANGED <<taken, rxLive, mode, seqno, cancelled, readerVars, recordVars>>

(* permit.send on the next permit, in fan-out order.  If the receiver has  *)
(* been dropped meanwhile the channel discards the packet.                 *)
CommitPermit(w) ==
  /\ pc[w] = "committing"
  /\ LET i == released[w] + 1
         e == Fanout[w][i]
     IN /\ committed' = [committed EXCEPT ![e] = Append(@, Current(w))]
        /\ permits' = [permits EXCEPT ![e] = @ \ {w}]
        /\ IF i = held[w]
           THEN /\ pc' = [pc EXCEPT ![w] = "idle"]
                /\ held' = [held EXCEPT ![w] = 0]
                /\ released' = [released EXCEPT ![w] = 0]
           ELSE /\ released' = [released EXCEPT ![w] = i]
                /\ UNCHANGED <<pc, held>>
  /\ UNCHANGED <<taken, rxLive, mode, seqno, cancelled, readerVars, recordVars>>

(* The task ends and drops its PortsOut.                                   *)
DropOutputs(w) ==
  /\ pc[w] = "idle"
  /\ pc' = [pc EXCEPT ![w] = "dropped"]
  /\ UNCHANGED <<edgeVars, mode, held, released, seqno, cancelled,
                 readerVars, recordVars>>

-----------------------------------------------------------------------------
(* Receiving *)

(* First poll of recv, or a poll after a wake-up: the token is looked at   *)
(* before any receiver.  A port without an edge answers None instead.      *)
BeginRecv(r) ==
  /\ rpc[r] = "idle"
  /\ Fanin[r] # <<>>
  /\ IF cancelled
     THEN rpc' = [rpc EXCEPT ![r] = "stopped"]
     ELSE rpc' = [rpc EXCEPT ![r] = "polling"]
  /\ UNCHANGED <<edgeVars, writerVars, cancelled, pos, nclosed, recordVars>>

(* try_recv polls without looking at the token.                            *)
BeginTryRecv(r) ==
  /\ rpc[r] \in {"idle", "stopped"}
  /\ Fanin[r] # <<>>
  /\ rpc' = [rpc EXCEPT ![r] = "polling"]
  /\ UNCHANGED <<edgeVars, writerVars, cancelled, pos, nclosed, recordVars>>

(* Fault: disconnected_count is declared outside the poll closure, so the  *)
(* disconnections seen by earlier polls are counted again.                 *)
ResetPollKeepingCount(r) ==
  /\ pos' = [pos EXCEPT ![r] = 1]
  /\ UNCHANGED nclosed

(* The position and the count are locals of one poll.                      *)
ResetPoll(r) ==
  /\ pos' = [pos EXCEPT ![r] = 1]
  /\ nclosed' = [nclosed EXCEPT ![r] = 0]

(* The receiver under the poll has a packet: it is dequeued, recorded and  *)
(* returned.                                                               *)
PollPacket(r) ==
  /\ rpc[r] = "polling"
  /\ pos[r] <= Len(Fanin[r])
  /\ LET e == Fanin[r][pos[r]] IN
       /\ Queued(e) > 0
       /\ taken' = [taken EXCEPT ![e] = @ + 1]
       /\ dequeued' = dequeued \cup {committed[e][taken[e] + 1]}
  /\ rpc' = [rpc EXCEPT ![r] = "idle"]
  /\ ResetPoll(r)
  /\ UNCHANGED <<committed, rxLive, permits, writerVars, cancelled, enqueued>>

(* The receiver under the poll has none: Disconnected is counted once its  *)
(* senders are gone and it is drained, Empty is passed over.               *)
PollNoPacket(r) ==
  /\ rpc[r] = "polling"
  /\ pos[r] <= Len(Fanin[r])
  /\ LET e == Fanin[r][pos[r]] IN
       /\ Queued(e) = 0
       /\ nclosed' = [nclosed EXCEPT ![r] = IF SendersGone(e) THEN @ + 1 ELSE @]
  /\ pos' = [pos EXCEPT ![r] = @ + 1]
  /\ UNCHANGED <<edgeVars, writerVars, cancelled, rpc, recordVars>>

(* Fault: one disconnected upstream ends the whole port.                   *)
PollEndAnyClosed(r) ==
  /\ rpc[r] = "polling"
  /\ pos[r] = Len(Fanin[r]) + 1
  /\ rpc' = [rpc EXCEPT ![r] = IF nclosed[r] > 0 THEN "closed" ELSE "idle"]
  /\ ResetPoll(r)
  /\ UNCHANGED <<edgeVars, writerVars, cancelled, recordVars>>

(* The poll has looked at every receiver: Disconnected if all of them were *)
(* disconnected, otherwise Pending (recv) or Empty (try_recv).             *)
PollEnd(r) ==
  /\ rpc[r] = "polling"
  /\ pos[r] = Len(Fanin[r]) + 1
  /\ rpc' = [rpc EXCEPT ![r] = IF nclosed[r] = Len(Fanin[r])
                               THEN "closed" ELSE "idle"]
  /\ ResetPoll(r)
  /\ UNCHANGED <<edgeVars, writerVars, cancelled, recordVars>>

(* The task ends and drops its PortsIn: every receiver of the port goes.   *)
DropInputs(r) ==
  /\ rpc[r] \notin {"polling", "dropped"}
  /\ rxLive' = [e \in Edges |-> rxLive[e] /\ e \notin Elems(Fanin[r])]
  /\ rpc' = [rpc EXCEPT ![r] = "dropped"]
  /\ UNCHANGED <<committed, taken, permits, writerVars, cancelled, pos,
                 nclosed, recordVars>>

(* CancellationHandle::cancel, by whoever holds the handle.                *)
Cancel ==
  /\ ~cancelled
  /\ cancelled' = TRUE
  /\ UNCHANGED <<edgeVars, writerVars, readerVars, recordVars>>

-----------------------------------------------------------------------------

ReserveStep(w) ==
  \/ CheckCancelled(w)
  \/ AcquirePermit(w)
  \/ ReserveFull(w)
  \/ ReserveDisconnected(w)
  \/ ReserveReady(w)

PermitStep(w) == AbortPermit(w) \/ RecordSend(w) \/ CommitPermit(w)

WriterNext(w) ==
  \/ BeginReserve(w)
  \/ BeginTryReserve(w)
  \/ ReserveStep(w)
  \/ PermitStep(w)
  \/ DropOutputs(w)

PollStep(r) == PollPacket(r) \/ PollNoPacket(r) \/ PollEnd(r)

ReaderNext(r) ==
  \/ BeginRecv(r)
  \/ BeginTryRecv(r)
  \/ PollStep(r)
  \/ DropInputs(r)

Next ==
  \/ \E w \in Writers : WriterNext(w)
  \/ \E r \in Readers : ReaderNext(r)
  \/ Cancel

Spec == Init /\ [][Next]_vars

(* The executor keeps polling a task that has woken itself (yield_now) and *)
(* a call that has started runs to its end; nothing obliges a task to make *)
(* another call.                                                           *)
CallFairness ==
  /\ \A w \in Writers : WF_vars(ReserveStep(w))
  /\ \A r \in Readers : WF_vars(PollStep(r))

(* In addition, a task that holds a permit uses it, and a reader keeps     *)
(* receiving until its input ends and then drops it.                       *)
TaskFairness ==
  /\ \A w \in Writers : WF_vars(PermitStep(w))
  /\ \A r \in Readers : WF_vars(BeginRecv(r))
  /\ \A r \in Readers : WF_vars(DropInputs(r) /\ rpc[r] \in {"stopped", "closed"})

LiveSpec == Spec /\ CallFairness

-----------------------------------------------------------------------------
(* Safety *)

(* No edge ever holds more queued packets and outstanding permits than its *)
(* capacity, whatever the interleaving of reservations, aborts, commits    *)
(* and receives (try_reserve, SendPermit, poll_recv).                      *)
CapacityRespected ==
  \A e \in Edges : Queued(e) + Cardinality(permits[e]) <= Capacity[e]

(* A reserved slot belongs to a reservation in progress: no early return   *)
(* of try_reserve, abort or send leaves a slot reserved behind.            *)
PermitsAccounted ==
  \A w \in Writers : \A e \in Edges :
    w \in permits[e] <=> \E i \in (released[w] + 1)..held[w] : Fanout[w][i] = e

(* Fan-out is all or nothing: outside the commit loop of send, a packet is *)
(* on every edge of its output port or on none of them.                    *)
AtomicFanout ==
  \A w \in Writers : pc[w] # "committing" =>
    \A e, f \in Elems(Fanout[w]) : \A n \in 1..MaxPackets :
      <<w, n>> \in Elems(committed[e]) => <<w, n>> \in Elems(committed[f])

(* Each edge carries a writer's packets at most once and in the order in   *)
(* which it sent them.                                                     *)
PerWriterOrder ==
  \A e \in Edges : \A i, j \in DOMAIN committed[e] :
    i < j /\ committed[e][i][1] = committed[e][j][1]
      => committed[e][i][2] < committed[e][j][2]

(* recv reports Disconnected only when nothing was lost: every packet any  *)
(* upstream committed has been received and no sender remains, although    *)
(* the receivers were polled one after the other.                          *)
ClosedMeansDrained ==
  \A r \in Readers : rpc[r] = "closed" =>
    \A e \in Elems(Fanin[r]) : SendersGone(e) /\ Queued(e) = 0

(* In the metadata a packet is Enqueued before it is Dequeued: send records *)
(* the boundary before it commits the first permit.                        *)
EnqueuedBeforeDequeued == dequeued \subseteq enqueued

(* Liveness *)

(* Cancellation frees a blocked sender without help from any reader: the   *)
(* reserve loop looks at the token on every round.                         *)
CancelReleasesSenders ==
  \A w \in Writers :
    (cancelled /\ pc[w] = "checking") ~> pc[w] \in {"idle", "held"}

(* As long as readers drain or drop their inputs, an awaited reserve ends, *)
(* even when clones compete for the same edges and the fan-out must get    *)
(* all its slots in one attempt.                                           *)
ReserveEnds ==
  TaskFairness =>
    \A w \in Writers : pc[w] = "checking" ~> pc[w] \in {"idle", "held"}
=============================================================================
