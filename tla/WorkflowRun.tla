----------------------------- MODULE WorkflowRun -----------------------------
(***************************************************************************)
(* One run of a workflow (pureflow-engine): every node is a future with    *)
(* its ports, one token cancels them all, and a collector polls them in a  *)
(* FuturesUnordered, records each result and, optionally, races a deadlock *)
(* watchdog.  Nodes run through run_node_with_observers (pureflow-runtime) *)
(* and are of three kinds:                                                 *)
(*   "batch"   BatchNodeExecutor: drain all inputs, invoke, send outputs;  *)
(*   "native"  the generic CLI executor: drain the input ports one after   *)
(*             the other, send one packet on each output port;             *)
(*   "rule"    RuleNode: for each packet of its input port, route it, drop *)
(*             it or halt.                                                 *)
(*                                                                         *)
(* The nodes are polled by one task: a future that is polled runs until it *)
(* sleeps, yields or returns, and a port operation is one step (a send is  *)
(* the indivisible broadcast of FanoutBus).  A future that waits in recv   *)
(* sleeps until one of the edges it polled changes; nothing else wakes it, *)
(* a requested cancellation in particular does not.                        *)
(***************************************************************************)
EXTENDS RunSetup

CONSTANT MaxOut   \* bound on the packets a batch sends on one port

ASSUME MaxOutAssumption == MaxOut \in Nat

VARIABLES
  setup,      \* how the run was asked for; never changes
  phase,      \* "setup" | "running" | "finished" (a summary) | "error"
  polling,    \* the future being polled: {} or a singleton
  stage,      \* where each node's future is
  at,         \* the port the future works on
  quota,      \* packets still to send on each output port of a batch
  asleep,     \* the future returned Pending from recv and was not woken
  inflight,   \* packets queued on each edge
  cancelled,  \* the workflow's cancellation token
  result,     \* what each node's future returned
  events,     \* lifecycle events of each node in the metadata
  summary,    \* WorkflowRunSummary
  failures,   \* workflow_failed records in the metadata
  abandoned   \* rule nodes that gave up the packet they were routing

nodeVars == <<stage, at, quota, asleep, result, events>>
runVars  == <<setup, phase, cancelled, summary, failures>>
vars == <<nodeVars, runVars, polling, inflight, abandoned>>

Over == {"done", "dropped"}

SenderGone(e) == stage[Wire[e].src] \in Over
ReceiverGone(e) == stage[Wire[e].dst] \in Over

InEdges(n) == {e \in Edges : Wire[e].dst = n}
OutEdges(n) == {e \in Edges : Wire[e].src = n}
PortEdges(n, p) == {e \in OutEdges(n) : Wire[e].out = p}

(* The edges the current receive of n polls: recv_any polls all input      *)
(* ports, recv one of them.                                                *)
Polled(n) == IF Kind[n] = "batch" THEN InEdges(n)
             ELSE {e \in InEdges(n) : Wire[e].in = at[n]}

(* Polling order: ports as declared, edges of a port in workflow order.    *)
Before(e, f) == \/ Wire[e].in < Wire[f].in
                \/ Wire[e].in = Wire[f].in /\ e < f

FirstOf(S) == CHOOSE e \in S : \A f \in S \ {e} : Before(e, f)

HasSlot(e) == inflight[e] < Wire[e].cap

(* Fault: a poll stops at the first pending receiver.                      *)
WokenByFirstEdge(S) ==
  [m \in Nodes |-> asleep[m] /\ ~ (Polled(m) # {} /\ FirstOf(Polled(m)) \in S)]

(* Receivers that sleep on an edge of S are woken.                         *)
Woken(S) ==
  [m \in Nodes |-> asleep[m] /\ ~ \E e \in S : Wire[e].dst = m /\ e \in Polled(m)]

EmptySummary ==
  [completed |-> 0, failed |-> 0, cancelled |-> 0, errors |-> 0,
   first |-> "none", terminal |-> "completed", deadlock |-> {}]

Init ==
  /\ setup \in Setups
  /\ phase = "setup"
  /\ polling = {}
  /\ stage = [n \in Nodes |-> "unstarted"]
  /\ at = [n \in Nodes |-> 1]
  /\ quota = [n \in Nodes |-> [p \in 1..Outputs[n] |-> 0]]
  /\ asleep = [n \in Nodes |-> FALSE]
  /\ inflight = [e \in Edges |-> 0]
  /\ cancelled = FALSE
  /\ result = [n \in Nodes |-> "none"]
  /\ events = [n \in Nodes |-> {}]
  /\ summary = EmptySummary
  /\ failures = 0
  /\ abandoned = {}

-----------------------------------------------------------------------------
(* Setting up the run *)

(* Contracts and policy accepted, an executor found for every node and the *)
(* edges wired: the futures are handed to the collector.                   *)
StartRun ==
  /\ phase = "setup"
  /\ ~SetupFails(setup)
  /\ phase' = "running"
  /\ UNCHANGED <<nodeVars, setup, polling, cancelled, summary, failures,
                 inflight, abandoned>>

(* No future has been polled.                                              *)
RejectRun ==
  /\ phase = "setup"
  /\ SetupFails(setup)
  /\ phase' = "error"
  /\ stage' = [n \in Nodes |-> "dropped"]
  /\ UNCHANGED <<setup, at, quota, asleep, result, events, polling, cancelled,
                 summary, failures, inflight, abandoned>>

-----------------------------------------------------------------------------
(* Collecting results *)

(* Fault: a cancelled node counts as a failed one too.                     *)
RecordedAsFailed(r) ==
  CASE r = "ok" -> [summary EXCEPT !.completed = @ + 1]
    [] r # "ok" ->
         [summary EXCEPT
            !.errors    = @ + 1,
            !.failed    = @ + 1,
            !.cancelled = IF r = "cancelled" THEN @ + 1 ELSE @,
            !.first     = IF summary.first = "none" THEN r ELSE @,
            !.terminal  = IF summary.first = "none" THEN r ELSE @]

(* WorkflowRunSummary::record_success and record_error.                    *)
Recorded(r) ==
  CASE r = "ok" -> [summary EXCEPT !.completed = @ + 1]
    [] r # "ok" ->
         [summary EXCEPT
            !.errors    = @ + 1,
            !.failed    = IF r = "failed" THEN @ + 1 ELSE @,
            !.cancelled = IF r = "cancelled" THEN @ + 1 ELSE @,
            !.first     = IF summary.first = "none" THEN r ELSE @,
            !.terminal  = IF summary.first = "none" THEN r ELSE @]

(* Fault: a node's own cancellation is not taken for an error.             *)
IsFirstFailure(r) == r = "failed" /\ summary.first = "none"

IsFirstError(r) == r # "ok" /\ summary.first = "none"

(* The future of n returns r: its ports are dropped, which wakes its       *)
(* downstream receivers, and record_node_run_result takes the result.  The *)
(* first error is written to the metadata and then cancels the workflow;   *)
(* if the record fails the whole run returns that error instead, and the   *)
(* other futures are dropped where they stand.                             *)
Collect(n, r) ==
  /\ \/ /\ summary' = Recorded(r)
        /\ failures' = IF IsFirstError(r) THEN failures + 1 ELSE failures
        /\ cancelled' = (cancelled \/ IsFirstError(r))
        /\ stage' = [stage EXCEPT ![n] = "done"]
        /\ UNCHANGED phase
     \/ /\ IsFirstError(r) /\ HasSink(setup)
        /\ phase' = "error"
        /\ stage' = [m \in Nodes |-> IF m = n \/ stage[m] = "done"
                                     THEN "done" ELSE "dropped"]
        /\ UNCHANGED <<summary, failures, cancelled>>
  /\ result' = [result EXCEPT ![n] = r]
  /\ asleep' = Woken(OutEdges(n))
  /\ polling' = {}

(* Fault: the outcome of the terminal observation is ignored.              *)
AfterFailedObservationIgnored(r) == r

(* A failed observation is an error of its own after success, and nothing  *)
(* after an error.                                                         *)
AfterFailedObservation(r) == IF r = "ok" THEN "failed" ELSE r

(* observe_lifecycle fails with the sink or, once the record is written,   *)
(* with the hook; seen says that the event is in the metadata.             *)
ObservationFails(seen) == IF seen THEN HasHook(setup) ELSE HasSink(setup)

(* The end of run_node_with_observers after the node returned r.  After an *)
(* error the sink is also offered a record of it, which may fail alone.    *)
Finish(n, r) ==
  LET event == IF r = "ok" THEN "completed" ELSE r IN
    \/ /\ events' = [events EXCEPT ![n] = @ \cup {event}]
       /\ Collect(n, r)
    \/ /\ \E seen \in BOOLEAN :
            /\ ObservationFails(seen) \/ (HasSink(setup) /\ r # "ok")
            /\ events' = [events EXCEPT ![n] = IF seen THEN @ \cup {event} ELSE @]
       /\ Collect(n, AfterFailedObservation(r))

(* The loop over the node results ends when no future is left.             *)
FinishRun ==
  /\ phase = "running"
  /\ \A n \in Nodes : stage[n] = "done"
  /\ phase' = "finished"
  /\ UNCHANGED <<nodeVars, setup, polling, cancelled, summary, failures, inflight,
                 abandoned>>

(* WorkflowDeadlockDiagnostic::from_run: the summary's counts as they are  *)
(* before the watchdog's own error is added.                               *)
Diagnostic ==
  [pending   |-> Cardinality(Nodes)
                   - (summary.completed + summary.failed + summary.cancelled),
   completed |-> summary.completed,
   failed    |-> summary.failed,
   cancelled |-> summary.cancelled,
   edges     |-> Len(Wire),
   cycles    |-> Policy(setup).cycles]

(* The deadline passes before another future completes: the diagnostic is  *)
(* recorded, the token is set and the run returns its summary; the futures *)
(* that are left are dropped without being polled again.  If that record   *)
(* fails, or the thread of the deadline cannot be started, the run returns *)
(* the error.                                                              *)
WatchdogFires ==
  /\ Policy(setup).watchdog
  /\ phase = "running"
  /\ polling = {}
  /\ \E n \in Nodes : stage[n] # "done"
  /\ \/ /\ phase' = "finished"
        /\ failures' = failures + 1
        /\ cancelled' = TRUE
        /\ summary' = [summary EXCEPT
                         !.errors   = @ + 1,
                         !.first    = IF @ = "none" THEN "failed" ELSE @,
                         !.terminal = IF summary.first = "none" THEN "failed" ELSE @,
                         !.deadlock = {Diagnostic}]
     \/ /\ phase' = "error"
        /\ UNCHANGED <<failures, cancelled, summary>>
  /\ stage' = [n \in Nodes |-> IF stage[n] = "done" THEN "done" ELSE "dropped"]
  /\ UNCHANGED <<setup, at, quota, asleep, result, events, polling, inflight,
                 abandoned>>

-----------------------------------------------------------------------------
(* A node's future *)

(* First poll: NodeStarted is observed, then the executor runs.            *)
StartNode(n) ==
  /\ stage[n] = "unstarted"
  /\ stage' = [stage EXCEPT ![n] = "recv"]
  /\ events' = [events EXCEPT ![n] = {"started"}]
  /\ polling' = {n}
  /\ UNCHANGED <<at, quota, asleep, result, runVars, inflight, abandoned>>

(* The observation of NodeStarted fails: the node never runs.              *)
StartNodeFails(n) ==
  /\ stage[n] = "unstarted"
  /\ \E seen \in BOOLEAN :
    /\ ObservationFails(seen)
    /\ events' = [events EXCEPT ![n] = IF seen THEN {"started"} ELSE {}]
  /\ Collect(n, "failed")
  /\ UNCHANGED <<at, quota, inflight, abandoned>>

Awake(n) == stage[n] = "recv" /\ ~asleep[n]

(* recv_any looks at the token before any declared port; recv only if the  *)
(* port has an edge.                                                       *)
TokenSeen(n) ==
  /\ cancelled
  /\ IF Kind[n] = "batch" THEN Inputs[n] > 0 ELSE Polled(n) # {}

RecvCancelled(n) ==
  /\ Awake(n)
  /\ TokenSeen(n)
  /\ Finish(n, "cancelled")
  /\ UNCHANGED <<at, quota, inflight, abandoned>>

(* The first polled edge with a packet is taken.                           *)
RecvPacket(n) ==
  /\ Awake(n)
  /\ ~TokenSeen(n)
  /\ LET full == {e \in Polled(n) : inflight[e] > 0} IN
       /\ full # {}
       /\ inflight' = [inflight EXCEPT ![FirstOf(full)] = @ - 1]
  /\ stage' = [stage EXCEPT ![n] = IF Kind[n] = "rule" THEN "packet" ELSE "recv"]
  /\ polling' = {n}
  /\ UNCHANGED <<at, quota, asleep, result, events, runVars, abandoned>>

(* Nothing queued and a sender left: the future sleeps on its edges.       *)
RecvPending(n) ==
  /\ Awake(n)
  /\ ~TokenSeen(n)
  /\ \A e \in Polled(n) : inflight[e] = 0
  /\ \E e \in Polled(n) : ~SenderGone(e)
  /\ asleep' = [asleep EXCEPT ![n] = TRUE]
  /\ polling' = {}
  /\ UNCHANGED <<stage, at, quota, result, events, runVars, inflight, abandoned>>

InputEnded(n) ==
  /\ Awake(n)
  /\ ~TokenSeen(n)
  /\ \A e \in Polled(n) : inflight[e] = 0 /\ SenderGone(e)

(* The native executor goes on to its next input port, then to sending.    *)
NextInput(n) ==
  /\ Kind[n] = "native"
  /\ InputEnded(n)
  /\ IF at[n] < Inputs[n]
     THEN at' = [at EXCEPT ![n] = @ + 1] /\ UNCHANGED <<stage, quota>>
     ELSE /\ at' = [at EXCEPT ![n] = 1]
          /\ stage' = [stage EXCEPT ![n] = "send"]
          /\ quota' = [quota EXCEPT ![n] = [p \in 1..Outputs[n] |-> 1]]
  /\ polling' = {n}
  /\ UNCHANGED <<asleep, result, events, runVars, inflight, abandoned>>

(* BatchExecutor::invoke returns the packets of each output port ...       *)
Invoke(n) ==
  /\ Kind[n] = "batch"
  /\ InputEnded(n)
  /\ \E q \in [1..Outputs[n] -> 0..MaxOut] : quota' = [quota EXCEPT ![n] = q]
  /\ polling' = {n}
  /\ stage' = [stage EXCEPT ![n] = "send"]
  /\ UNCHANGED <<at, asleep, result, events, runVars, inflight, abandoned>>

(* ... or an error, which may be a cancellation of its own.                *)
InvokeFails(n) ==
  /\ Kind[n] = "batch"
  /\ InputEnded(n)
  /\ \E r \in {"failed", "cancelled"} : Finish(n, r)
  /\ UNCHANGED <<at, quota, inflight, abandoned>>

(* RuleNode: end of the input stream.                                      *)
RuleEnds(n) ==
  /\ Kind[n] = "rule"
  /\ InputEnded(n)
  /\ Finish(n, "ok")
  /\ UNCHANGED <<at, quota, inflight, abandoned>>

(* The decision is to route the packet (DeadLetter routes to its port).    *)
RuleRoutes(n) ==
  /\ stage[n] = "packet"
  /\ \E p \in 1..Outputs[n] : at' = [at EXCEPT ![n] = p]
  /\ polling' = {n}
  /\ stage' = [stage EXCEPT ![n] = "send"]
  /\ UNCHANGED <<quota, asleep, result, events, runVars, inflight, abandoned>>

(* After each packet the node looks at the token.                          *)
RuleDrops(n) ==
  /\ stage[n] = "packet"
  /\ IF cancelled
     THEN Finish(n, "cancelled") /\ UNCHANGED at
     ELSE /\ stage' = [stage EXCEPT ![n] = "recv"]
          /\ polling' = {n}
          /\ UNCHANGED <<at, asleep, result, events, runVars>>
  /\ UNCHANGED <<quota, inflight, abandoned>>

(* Halt, an evaluation error, or a route to an undeclared port.            *)
RuleHalts(n) ==
  /\ stage[n] = "packet"
  /\ Finish(n, "failed")
  /\ UNCHANGED <<at, quota, inflight, abandoned>>

(* The output port n sends on, 0 when all packets are sent.                *)
OpenPorts(n) == {p \in 1..Outputs[n] : quota[n][p] > 0}
SendPort(n) ==
  IF Kind[n] = "rule" THEN at[n]
  ELSE IF OpenPorts(n) = {} THEN 0
  ELSE CHOOSE p \in OpenPorts(n) : \A q \in OpenPorts(n) : p <= q

Sending(n) == stage[n] = "send" /\ SendPort(n) # 0

(* reserve + send: the token, then a slot on every edge of the port.  A    *)
(* rule node then looks at the token, still unset, and goes on to receive. *)
Send(n) ==
  /\ Sending(n)
  /\ ~cancelled
  /\ LET S == PortEdges(n, SendPort(n)) IN
       /\ \A e \in S : HasSlot(e) /\ ~ReceiverGone(e)
       /\ inflight' = [e \in Edges |-> IF e \in S THEN inflight[e] + 1 ELSE inflight[e]]
       /\ asleep' = Woken(S)
  /\ polling' = {n}
  /\ IF Kind[n] = "rule"
     THEN /\ stage' = [stage EXCEPT ![n] = "recv"]
          /\ at' = [at EXCEPT ![n] = 1]
          /\ UNCHANGED quota
     ELSE /\ quota' = [quota EXCEPT ![n][SendPort(n)] = @ - 1]
          /\ UNCHANGED <<stage, at>>
  /\ UNCHANGED <<result, events, runVars, abandoned>>

(* The first edge without a slot has a receiver: the loop yields, and the  *)
(* next attempts that fail the same way change nothing.                    *)
SendYields(n) ==
  /\ Sending(n)
  /\ polling = {n}
  /\ ~cancelled
  /\ \E e \in PortEdges(n, SendPort(n)) :
       /\ ~HasSlot(e) /\ ~ReceiverGone(e)
       /\ \A f \in PortEdges(n, SendPort(n)) :
            f < e => HasSlot(f) /\ ~ReceiverGone(f)
  /\ polling' = {}
  /\ UNCHANGED <<nodeVars, runVars, inflight, abandoned>>

(* The slots are there and the output validator refuses the packet.        *)
SendRejected(n) ==
  /\ Sending(n)
  /\ setup.entry.contracts
  /\ \E claim \in Claims(n) : ~Validates(claim)
  /\ ~cancelled
  /\ \A e \in PortEdges(n, SendPort(n)) : HasSlot(e) /\ ~ReceiverGone(e)
  /\ Finish(n, "failed")
  /\ UNCHANGED <<at, quota, inflight, abandoned>>

(* A RuleNode reports every send error as an execution error.              *)
SendCancelled(n) ==
  /\ Sending(n)
  /\ cancelled
  /\ Finish(n, IF Kind[n] = "rule" THEN "failed" ELSE "cancelled")
  /\ abandoned' = IF Kind[n] = "rule" THEN abandoned \cup {n} ELSE abandoned
  /\ UNCHANGED <<at, quota, inflight>>

(* A receiver of the port is gone, and every edge before it has a slot.    *)
SendDisconnected(n) ==
  /\ Sending(n)
  /\ ~cancelled
  /\ \E e \in PortEdges(n, SendPort(n)) :
       /\ ReceiverGone(e)
       /\ \A f \in PortEdges(n, SendPort(n)) :
            f < e => HasSlot(f) /\ ~ReceiverGone(f)
  /\ Finish(n, "failed")
  /\ UNCHANGED <<at, quota, inflight, abandoned>>

(* All packets of a batch or native node are sent.                         *)
SendDone(n) ==
  /\ stage[n] = "send"
  /\ SendPort(n) = 0
  /\ Finish(n, "ok")
  /\ UNCHANGED <<at, quota, inflight, abandoned>>

-----------------------------------------------------------------------------

NodeStep(n) ==
  /\ phase = "running"
  /\ polling \subseteq {n}
  /\ UNCHANGED setup
  /\ \/ StartNode(n)
     \/ StartNodeFails(n)
     \/ RecvCancelled(n)
     \/ RecvPacket(n)
     \/ RecvPending(n)
     \/ NextInput(n)
     \/ Invoke(n)
     \/ InvokeFails(n)
     \/ RuleEnds(n)
     \/ RuleRoutes(n)
     \/ RuleDrops(n)
     \/ RuleHalts(n)
     \/ Send(n)
     \/ SendYields(n)
     \/ SendRejected(n)
     \/ SendCancelled(n)
     \/ SendDisconnected(n)
     \/ SendDone(n)

Next ==
  \/ StartRun
  \/ RejectRun
  \/ \E n \in Nodes : NodeStep(n)
  \/ FinishRun
  \/ WatchdogFires

Spec == Init /\ [][Next]_vars

(* The ready queue of FuturesUnordered is first in, first out: a future    *)
(* that is not asleep is polled again (a sender that waits for a slot has  *)
(* woken itself) however many polls of other futures come between, hence   *)
(* strong fairness.  The deadline is a thread that sleeps for the timeout  *)
(* and completes: it fires if no future does.                              *)
Fairness ==
  /\ WF_vars(StartRun \/ RejectRun)
  /\ WF_vars(FinishRun)
  /\ WF_vars(WatchdogFires)
  /\ \A n \in Nodes : SF_vars(NodeStep(n))

FairSpec == Spec /\ Fairness

-----------------------------------------------------------------------------

With(r) == Cardinality({n \in Nodes : result[n] = r})

(* Once the collector has seen an error every node can see the token, and  *)
(* before that none can: no result slips past the fail-fast policy.        *)
FirstErrorCancels ==
  phase = "running" => (cancelled <=> \E n \in Nodes : result[n] \in {"failed", "cancelled"})

(* The summary accounts for every collected result exactly once, whatever  *)
(* order the futures ended in, and the metadata holds one workflow_failed  *)
(* record however many nodes failed; the watchdog adds one of its own,     *)
(* whose diagnostic counts as pending exactly the futures it dropped.      *)
(* (A run that returns an error returns no summary.)                       *)
SummaryAccounts ==
  phase # "error" =>
    /\ summary.completed = With("ok")
    /\ summary.failed = With("failed")
    /\ summary.cancelled = With("cancelled")
    /\ summary.errors = summary.failed + summary.cancelled
                          + Cardinality(summary.deadlock)
    /\ summary.terminal = "completed" <=> summary.errors = 0
    /\ \A d \in summary.deadlock :
         d.pending = Cardinality({n \in Nodes : stage[n] = "dropped"})
    /\ failures = (IF With("failed") + With("cancelled") > 0 THEN 1 ELSE 0)
                    + Cardinality(summary.deadlock)

(* WorkflowRunSummary::into_result, for the entry points that return a     *)
(* Result instead of the summary.                                          *)
IntoResult == IF summary.first = "none" THEN "ok" ELSE "err"

(* A run that reports success has delivered everything: no packet is left  *)
(* on an edge, and the metadata shows each node started and completed,     *)
(* even when observers can fail.                                           *)
CompletedMeansDelivered ==
  /\ phase = "finished"
  /\ IF setup.entry.answer = "result" THEN IntoResult = "ok"
                                      ELSE summary.terminal = "completed"
  =>
    /\ \A e \in Edges : inflight[e] = 0
    /\ \A n \in Nodes : events[n] = {"started", "completed"}

(* A node asleep in recv has nothing to receive: no packet and no end of   *)
(* input is missed while it sleeps (no lost wake-up).                      *)
NoMissedWake ==
  \A n \in Nodes : stage[n] = "recv" /\ asleep[n] =>
    /\ \A e \in Polled(n) : inflight[e] = 0
    /\ \E e \in Polled(n) : ~SenderGone(e)

(* A native node drains one input port and sleeps there while the sender   *)
(* of a later port of it waits for the slot that this port has not freed.  *)
CrossedWait(n) ==
  /\ Kind[n] = "native" /\ stage[n] = "recv" /\ asleep[n]
  /\ \E e \in InEdges(n) :
       /\ Wire[e].in > at[n] /\ ~HasSlot(e)
       /\ LET m == Wire[e].src IN Sending(m) /\ e \in PortEdges(m, SendPort(m))

(* A run with a deadline always ends.  Without one, on an acyclic graph,   *)
(* it ends unless a native node and the sender of one of its later ports   *)
(* wait for each other: whatever else fails, is cancelled or is dropped,   *)
(* the executors cannot wait on each other for ever in another way.        *)
RunEnds ==
  \/ <>(phase \in {"finished", "error"})
  \/ ~Policy(setup).watchdog /\ <>[](\E n \in Nodes : CrossedWait(n))

(* RuleNode, "Cancel semantics": a node that waits for a packet when       *)
(* cancellation is requested stops waiting.                                *)
WaitingRuleNodeCancels ==
  \A n \in Nodes : Kind[n] = "rule" =>
    (cancelled /\ stage[n] = "recv") ~> stage[n] # "recv"

(* RuleNode, "Cancel semantics": the packet in flight is always fully      *)
(* processed.                                                              *)
DrainGuarantee == abandoned = {}
=============================================================================
