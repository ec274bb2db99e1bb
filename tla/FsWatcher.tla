------------------------------- MODULE FsWatcher -------------------------------
(***************************************************************************)
(* The file-system watcher node (pureflow-nodes-fs lib.rs).  The           *)
(* notification library's thread puts events into an unbounded channel.    *)
(* The node's loop looks at its token, then at its control port, then      *)
(* drains the channel: an event that is taken less than Debounce after the *)
(* last emission is dropped, any other is sent, one packet per path, on a  *)
(* bounded edge.  The clock may move between any two steps.                *)
(***************************************************************************)
EXTENDS Integers, Sequences

CONSTANTS
  Debounce,   \* debounce_ms
  Capacity,   \* slots of the edge behind "changes"
  SeqFits,    \* the numbers below make an identifier with the node's name
  MaxPaths,   \* bound: paths of one event
  MaxEvents,  \* bound: events of the notification library
  MaxClock    \* bound: the clock

ASSUME WatcherAssumption ==
  /\ Debounce \in Nat
  /\ Capacity \in Nat \ {0}
  /\ SeqFits \in Nat
  /\ MaxPaths \in Nat /\ MaxEvents \in Nat /\ MaxClock \in Nat

VARIABLES
  clock,
  channel,     \* events the library has sent and the node has not taken
  events,      \* events so far
  pc,          \* where the node is
  event,       \* the event it has taken, with the paths still to send
  last_emit,   \* Instant of the last emission, Never before the first
  got_event,
  seq,         \* number of the next packet
  out,         \* packets on the edge behind "changes"
  consumer,    \* "reading" or "gone"
  control,     \* packets on the control port
  upstream,    \* "open" or "closed": who sends control packets
  cancelled,
  notifier,    \* "running" or "gone": the library's thread, which owns the sender
  outcome,     \* what run returned, "none" before
  emission,    \* when the node last started to send an event's packets
  quiet,       \* events that arrived in quiet: see QuietEventReported
  dropped      \* events that were debounced

vars == <<clock, channel, events, pc, event, last_emit, got_event, seq, out, consumer,
          control, upstream, cancelled, notifier, outcome, emission, quiet, dropped>>

nodeVars == <<pc, event, last_emit, got_event, seq, outcome, emission, dropped>>
envVars == <<clock, channel, events, consumer, control, upstream, cancelled, notifier, quiet>>

Never == -1
NoEvent == [id |-> 0, paths |-> 0]

Init ==
  /\ clock = 0 /\ events = 0
  /\ channel = <<>> /\ out = <<>>
  /\ pc = "start" /\ outcome = "none"
  /\ event = NoEvent
  /\ last_emit = Never /\ emission = Never
  /\ got_event = FALSE
  /\ seq = 0 /\ control = 0
  /\ consumer = "reading" /\ upstream = "open"
  /\ cancelled = FALSE /\ notifier = "running"
  /\ quiet = {} /\ dropped = {}

Goto(step) == pc' = step /\ UNCHANGED outcome
Return(result) == pc' = "done" /\ outcome' = result
-------------------------------------------------------------------------------
(* Around the node.                                                        *)
Tick ==
  /\ clock < MaxClock
  /\ clock' = clock + 1
  /\ UNCHANGED <<channel, events, consumer, control, upstream, cancelled, notifier, quiet, nodeVars, out>>

(* Nothing is on its way, and the last emission is Debounce ago.           *)
InQuiet ==
  /\ channel = <<>>
  /\ pc # "stamp"
  /\ emission = Never \/ clock - emission >= Debounce

(* The library's thread: the handler sends what it is given.               *)
Notify(paths) ==
  /\ events < MaxEvents /\ notifier = "running"
  /\ pc \notin {"start", "done"}
  /\ events' = events + 1
  /\ channel' = Append(channel, [id |-> events + 1, paths |-> paths])
  /\ quiet' = IF InQuiet THEN quiet \cup {events + 1} ELSE quiet
  /\ UNCHANGED <<clock, consumer, control, upstream, cancelled, notifier, nodeVars, out>>

(* Its thread ends and drops the handler with the channel's sender; what   *)
(* it has sent stays in the channel.                                       *)
NotifierEnds ==
  /\ notifier = "running"
  /\ pc \notin {"start", "done"}
  /\ notifier' = "gone"
  /\ UNCHANGED <<clock, channel, events, consumer, control, upstream, cancelled, quiet, nodeVars,
                 out>>

Consume ==
  /\ consumer = "reading"
  /\ out # <<>>
  /\ out' = Tail(out)
  /\ UNCHANGED <<envVars, nodeVars>>

ConsumerLeaves ==
  /\ consumer = "reading"
  /\ consumer' = "gone"
  /\ UNCHANGED <<clock, channel, events, control, upstream, cancelled, notifier, quiet, nodeVars, out>>

SendControl ==
  /\ upstream = "open"
  /\ control = 0
  /\ control' = 1
  /\ UNCHANGED <<clock, channel, events, consumer, upstream, cancelled, notifier, quiet, nodeVars, out>>

UpstreamEnds ==
  /\ upstream = "open"
  /\ upstream' = "closed"
  /\ UNCHANGED <<clock, channel, events, consumer, control, cancelled, notifier, quiet, nodeVars, out>>

Cancel ==
  /\ ~cancelled
  /\ cancelled' = TRUE
  /\ UNCHANGED <<clock, channel, events, consumer, control, upstream, notifier, quiet, nodeVars, out>>
-------------------------------------------------------------------------------
(* recommended_watcher and watch: either may fail.                         *)
Start ==
  /\ pc = "start"
  /\ Goto("token") \/ Return("failed")
  /\ UNCHANGED <<event, last_emit, got_event, seq, emission, dropped, out, envVars>>

CheckToken ==
  /\ pc = "token"
  /\ IF cancelled THEN Return("cancelled") ELSE Goto("control")
  /\ UNCHANGED <<event, last_emit, got_event, seq, emission, dropped, out, envVars>>

(* PortsIn::try_recv: a packet before the end of the port, and an error    *)
(* once its upstream is gone.                                              *)
CheckControl ==
  /\ pc = "control"
  /\ \/ control > 0 /\ control' = control - 1 /\ Return("ok")
     \/ control = 0 /\ upstream = "closed" /\ Return("failed") /\ UNCHANGED control
     \/ control = 0 /\ upstream = "open" /\ Goto("drain") /\ UNCHANGED control
  /\ got_event' = FALSE
  /\ UNCHANGED <<event, last_emit, seq, emission, dropped, out, clock, channel, events, consumer,
                 upstream, cancelled, notifier, quiet>>

TakeEvent ==
  /\ pc = "drain"
  /\ channel # <<>>
  /\ event' = Head(channel)
  /\ channel' = Tail(channel)
  /\ got_event' = TRUE
  /\ Goto("stamp")
  /\ UNCHANGED <<last_emit, seq, emission, dropped, out, clock, events, consumer, control, upstream,
                 cancelled, notifier, quiet>>

WithinDebounce == last_emit # Never /\ clock - last_emit < Debounce

(* Fault: an event that is dropped starts the window anew.                 *)
StampRestarts ==
  /\ pc = "stamp"
  /\ last_emit' = clock
  /\ IF WithinDebounce
       THEN /\ dropped' = dropped \cup {event.id}
            /\ Goto("drain") /\ UNCHANGED emission
       ELSE Goto("send") /\ emission' = clock /\ UNCHANGED dropped
  /\ UNCHANGED <<event, got_event, seq, out, envVars>>

(* Instant::now and the comparison.                                        *)
Stamp ==
  /\ pc = "stamp"
  /\ IF WithinDebounce
       THEN /\ dropped' = dropped \cup {event.id}
            /\ Goto("drain")
            /\ UNCHANGED <<last_emit, emission>>
       ELSE /\ last_emit' = clock /\ emission' = clock
            /\ Goto("send")
            /\ UNCHANGED dropped
  /\ UNCHANGED <<event, got_event, seq, out, envVars>>

(* make_packet and outputs.send, for each path.  The packet is named after *)
(* the node and its number, which together may be too long; the            *)
(* reservation looks at the token, then for a slot, and waits while the    *)
(* edge is full.                                                           *)
SendPath ==
  /\ pc = "send" /\ event.paths > 0 /\ seq < SeqFits
  /\ ~cancelled /\ consumer = "reading" /\ Len(out) < Capacity
  /\ out' = Append(out, [seq |-> seq, event |-> event.id])
  /\ seq' = seq + 1
  /\ event' = [event EXCEPT !.paths = @ - 1]
  /\ UNCHANGED <<pc, outcome, last_emit, got_event, emission, dropped, envVars>>

SendFails ==
  /\ pc = "send" /\ event.paths > 0
  /\ \/ seq >= SeqFits /\ Return("failed")
     \/ seq < SeqFits /\ cancelled /\ Return("cancelled")
     \/ seq < SeqFits /\ ~cancelled /\ consumer = "gone" /\ Return("failed")
  /\ UNCHANGED <<event, last_emit, got_event, seq, emission, dropped, out, envVars>>

Sent ==
  /\ pc = "send" /\ event.paths = 0
  /\ Goto("drain")
  /\ UNCHANGED <<event, last_emit, got_event, seq, emission, dropped, out, envVars>>

(* Fault: an empty channel is looked at again at once.                     *)
DrainedSpinning ==
  /\ pc = "drain"
  /\ channel = <<>>
  /\ got_event' = FALSE
  /\ UNCHANGED <<pc, outcome, event, last_emit, seq, emission, dropped, out, envVars>>

(* The channel is empty: the node ends when nobody can send any more       *)
(* (Disconnected); otherwise (Empty) the loop starts again, after a yield  *)
(* when no event was there.                                                *)
Drained ==
  /\ pc = "drain"
  /\ channel = <<>>
  /\ IF notifier = "gone" THEN Return("ok") ELSE Goto(IF got_event THEN "token" ELSE "yield")
  /\ UNCHANGED <<event, last_emit, got_event, seq, emission, dropped, out, envVars>>

Yielded ==
  /\ pc = "yield"
  /\ Goto("token")
  /\ UNCHANGED <<event, last_emit, got_event, seq, emission, dropped, out, envVars>>

Node ==
  \/ Start \/ CheckToken \/ CheckControl \/ TakeEvent \/ Stamp
  \/ SendPath \/ SendFails \/ Sent \/ Drained \/ Yielded

Environment ==
  \/ Tick \/ NotifierEnds \/ Consume \/ ConsumerLeaves \/ SendControl \/ UpstreamEnds \/ Cancel
  \/ \E paths \in 0 .. MaxPaths : Notify(paths)

Next == Node \/ Environment

Spec == Init /\ [][Next]_vars

(* The executor keeps polling the node, and a consumer that is there keeps *)
(* reading.                                                                *)
FairSpec == Spec /\ WF_vars(Node) /\ WF_vars(Consume)
-------------------------------------------------------------------------------
(* Debouncing loses no change of a quiet time: an event that arrives when  *)
(* no other is on its way and the last emission is Debounce ago is never   *)
(* dropped, however long the node takes to look at it and whatever arrives *)
(* meanwhile.                                                              *)
QuietEventReported == quiet \cap dropped = {}

(* A control packet, the end of its upstream, a cancellation or the end of *)
(* the notification library stops the node, also one that is blocked on a  *)
(* full edge or busy with a burst, as long as the burst ends and somebody  *)
(* reads the packets or is gone.                                           *)
StopRequestEnds ==
  (control > 0 \/ upstream = "closed" \/ cancelled \/ notifier = "gone") ~> pc = "done"
===============================================================================
