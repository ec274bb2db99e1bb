------------------------------ MODULE RunProofs ------------------------------
(***************************************************************************)
(* Proofs about WorkflowRun, for every workflow, every setup and every     *)
(* number of nodes: the first error is what cancels the run, the summary   *)
(* accounts for every result, no wake-up is lost, and a run that reports   *)
(* success has delivered every packet.                                     *)
(*                                                                         *)
(* A step of a node either ends its future (Ends: one of the ten actions   *)
(* that call Finish or Collect) or moves it on (Moves); NodeStepShape      *)
(* shows that there is nothing else, and the accounting rests on it.       *)
(***************************************************************************)
EXTENDS WorkflowRun, FiniteSetTheorems, WellFoundedInduction, TLAPS

Live == {"unstarted", "recv", "packet", "send"}
Outcomes == {"ok", "failed", "cancelled"}
Errors == {"failed", "cancelled"}

Diagnostics ==
  [pending : Int, completed : Nat, failed : Nat, cancelled : Nat, edges : Nat,
   cycles : {"reject", "feedback"}]

Firsts == {"none"} \cup Errors
Terminals == {"completed"} \cup Errors
Deadlocks == SUBSET Diagnostics

Summaries ==
  [completed : Nat, failed : Nat, cancelled : Nat, errors : Nat,
   first : Firsts, terminal : Terminals, deadlock : Deadlocks]

Typed ==
  /\ setup \in Setups
  /\ phase \in {"setup", "running", "finished", "error"}
  /\ stage \in [Nodes -> Live \cup Over]
  /\ at \in [Nodes -> Nat \ {0}]
  /\ quota \in [Nodes -> UNION {[1 .. k -> Nat] : k \in Nat}]
  /\ \A n \in Nodes : DOMAIN quota[n] = 1 .. Outputs[n]
  /\ asleep \in [Nodes -> BOOLEAN]
  /\ inflight \in [Edges -> Nat]
  /\ cancelled \in BOOLEAN
  /\ result \in [Nodes -> {"none"} \cup Outcomes]
  /\ events \in [Nodes -> SUBSET {"started", "completed", "failed", "cancelled"}]
  /\ summary \in Summaries
  /\ failures \in Nat

Going == phase \in {"setup", "running"}

(* No future is polled before the run starts; a result is there exactly    *)
(* when the future has ended; futures are dropped only when the run is     *)
(* over; only a receiver sleeps.                                           *)
Futures ==
  /\ phase = "setup" => \A n \in Nodes : stage[n] = "unstarted"
  /\ \A n \in Nodes : result[n] = "none" <=> stage[n] # "done"
  /\ Going => \A n \in Nodes : stage[n] # "dropped"
  /\ \A n \in Nodes : asleep[n] => stage[n] \in {"recv", "dropped"}
  /\ \A n \in Nodes : stage[n] \in Live \ {"unstarted"} => events[n] = {"started"}
  /\ \A n \in Nodes : stage[n] = "packet" => Kind[n] = "rule"

(* The counts of the summary while nodes run.                              *)
Counts ==
  Going =>
    /\ summary.completed = With("ok")
    /\ summary.failed = With("failed")
    /\ summary.cancelled = With("cancelled")
    /\ summary.errors = summary.failed + summary.cancelled
    /\ summary.first = "none" <=> summary.errors = 0
    /\ summary.terminal = "completed" <=> summary.errors = 0
    /\ summary.deadlock = {}
    /\ failures = (IF summary.errors > 0 THEN 1 ELSE 0)
    /\ cancelled <=> summary.errors > 0

(* Only a run that the collector finished has a summary without an error.  *)
Verdict ==
  phase = "finished" =>
    /\ summary.first = "none" <=> summary.terminal = "completed"
    /\ summary.first = "none" =>
         \A n \in Nodes : stage[n] = "done" /\ result[n] = "ok"

-----------------------------------------------------------------------------
(* The shape of a step of a node *)

(* What the future of n leaves behind when it returns.                     *)
Ends(n) ==
  \E q \in Outcomes, seen \in SUBSET {"started", "completed", "failed", "cancelled"} :
    /\ phase = "running"
    /\ stage[n] \in Live
    /\ ~asleep[n]
    /\ Collect(n, q)
    /\ events' = [events EXCEPT ![n] = seen]
    /\ UNCHANGED <<setup, at, quota, inflight>>
    /\ q = "ok" => /\ seen = {"started", "completed"}
                   /\ RuleEnds(n) \/ SendDone(n)

(* What a step does that leaves the future of n pending.                   *)
Moves(n) ==
  /\ phase = "running"
  /\ stage[n] \in Live
  /\ \E s \in Live \ {"unstarted"} : stage' = [stage EXCEPT ![n] = s]
  /\ stage'[n] = "packet" => Kind[n] = "rule"
  /\ events' = IF stage[n] = "unstarted" THEN [events EXCEPT ![n] = {"started"}]
                                         ELSE events
  /\ \A m \in Nodes : asleep'[m] => asleep[m] \/ (m = n /\ stage'[n] = "recv")
  /\ stage'[n] # "recv" => ~asleep'[n]
  /\ UNCHANGED <<result, runVars>>

(* The end of run_node_with_observers: an error is never turned into       *)
(* success, and success is recorded.                                       *)
LEMMA FinishCollects ==
  ASSUME Typed, NEW n \in Nodes, NEW r \in Outcomes, Finish(n, r),
         events[n] = {"started"}
  PROVE  \E q \in Outcomes, seen \in SUBSET {"started", "completed", "failed", "cancelled"} :
           /\ Collect(n, q)
           /\ events' = [events EXCEPT ![n] = seen]
           /\ q = "ok" => r = "ok" /\ seen = {"started", "completed"}
<1> DEFINE ev == IF r = "ok" THEN "completed" ELSE r
           All == {"started", "completed", "failed", "cancelled"}
<1>1. events \in [Nodes -> SUBSET All] /\ ev \in All
  BY DEF Typed, Outcomes
<1>2. CASE events' = [events EXCEPT ![n] = @ \cup {ev}] /\ Collect(n, r)
  <2>1. events' = [events EXCEPT ![n] = {"started", ev}]
    BY <1>1, <1>2
  <2>2. {"started", ev} \in SUBSET All
    BY <1>1
  <2>3. r = "ok" => {"started", ev} = {"started", "completed"}
    OBVIOUS
  <2>4. QED
    BY <1>2, <2>1, <2>2, <2>3
<1>3. CASE /\ \E seen \in BOOLEAN :
                events' = [events EXCEPT ![n] = IF seen THEN @ \cup {ev} ELSE @]
           /\ Collect(n, AfterFailedObservation(r))
  <2> DEFINE q == AfterFailedObservation(r)
  <2>1. q \in Outcomes /\ q # "ok"
    BY DEF AfterFailedObservation, Outcomes
  <2>2. PICK seen \in BOOLEAN :
          events' = [events EXCEPT ![n] = IF seen THEN @ \cup {ev} ELSE @]
    BY <1>3
  <2>3. PICK t \in SUBSET All : events' = [events EXCEPT ![n] = t]
    <3>1. (IF seen THEN events[n] \cup {ev} ELSE events[n]) \in SUBSET All
      BY <1>1
    <3>2. QED
      BY <2>2, <3>1
  <2> HIDE DEF q
  <2>4. Collect(n, q)
    BY <1>3 DEF q
  <2>5. QED
    BY <2>1, <2>3, <2>4
<1>4. QED
  BY <1>2, <1>3 DEF Finish

LEMMA NodeStepShape ==
  ASSUME Typed, Futures, NEW n \in Nodes, NodeStep(n)
  PROVE  Ends(n) \/ Moves(n)
<1> USE DEF nodeVars, runVars, Live
<1> DEFINE All == {"started", "completed", "failed", "cancelled"}
<1>a. /\ phase = "running" /\ UNCHANGED setup
      /\ stage \in [Nodes -> Live \cup Over]
      /\ asleep \in [Nodes -> BOOLEAN]
      /\ events \in [Nodes -> SUBSET All]
      /\ at \in [Nodes -> Nat \ {0}]
      /\ asleep[n] => stage[n] \in {"recv", "dropped"}
      /\ stage[n] \in Live \ {"unstarted"} => events[n] = {"started"}
      /\ stage[n] = "packet" => Kind[n] = "rule"
  BY DEF NodeStep, Typed, Futures
<1>b. ASSUME NEW S, asleep' = Woken(S)
      PROVE  \A m \in Nodes : asleep'[m] => asleep[m]
  BY <1>b DEF Woken
<1>e. ASSUME NEW r \in Outcomes, Finish(n, r), UNCHANGED <<at, quota, inflight>>,
             stage[n] \in Live \ {"unstarted"}, ~asleep[n],
             r = "ok" => RuleEnds(n) \/ SendDone(n)
      PROVE  Ends(n)
  <2>1. PICK q \in Outcomes, seen \in SUBSET All :
           /\ Collect(n, q)
           /\ events' = [events EXCEPT ![n] = seen]
           /\ q = "ok" => r = "ok" /\ seen = {"started", "completed"}
    BY <1>a, <1>e, FinishCollects
  <2>2. QED
    BY <2>1, <1>a, <1>e DEF Ends
<1>1. CASE StartNode(n)
  <2>1. Moves(n)
    BY <1>1, <1>a DEF StartNode, Moves
  <2>2. QED
    BY <2>1
<1>2. CASE StartNodeFails(n)
  <2>1. PICK seen \in SUBSET All : events' = [events EXCEPT ![n] = seen]
    BY <1>2 DEF StartNodeFails
  <2>2. Collect(n, "failed") /\ "failed" \in Outcomes
    BY <1>2 DEF StartNodeFails, Outcomes
  <2>3. QED
    BY <1>2, <1>a, <2>1, <2>2 DEF StartNodeFails, Ends
<1>3. CASE RecvCancelled(n)
  BY <1>3, <1>a, <1>e DEF RecvCancelled, Awake, Outcomes
<1>4. CASE RecvPacket(n)
  <2>1. Moves(n)
    BY <1>4, <1>a DEF RecvPacket, Awake, Moves
  <2>2. QED
    BY <2>1
<1>5. CASE RecvPending(n)
  <2>1. stage' = [stage EXCEPT ![n] = "recv"]
    BY <1>5, <1>a DEF RecvPending, Awake
  <2>2. \A m \in Nodes : asleep'[m] => asleep[m] \/ m = n
    BY <1>5, <1>a DEF RecvPending
  <2>3. Moves(n)
    BY <1>5, <1>a, <2>1, <2>2 DEF RecvPending, Awake, Moves
  <2>4. QED
    BY <2>3
<1>6. CASE NextInput(n)
  <2>1. PICK s \in {"recv", "send"} : stage' = [stage EXCEPT ![n] = s]
    BY <1>6, <1>a DEF NextInput, InputEnded, Awake
  <2>2. Moves(n)
    BY <1>6, <1>a, <2>1 DEF NextInput, InputEnded, Awake, Moves
  <2>3. QED
    BY <2>2
<1>7. CASE Invoke(n)
  <2>1. Moves(n)
    BY <1>7, <1>a DEF Invoke, InputEnded, Awake, Moves
  <2>2. QED
    BY <2>1
<1>8. CASE InvokeFails(n)
  BY <1>8, <1>a, <1>e DEF InvokeFails, InputEnded, Awake, Outcomes
<1>9. CASE RuleEnds(n)
  <2>1. Finish(n, "ok") /\ UNCHANGED <<at, quota, inflight>>
        /\ stage[n] = "recv" /\ ~asleep[n] /\ "ok" \in Outcomes
    BY <1>9 DEF RuleEnds, InputEnded, Awake, Outcomes
  <2>2. QED
    BY <1>9, <2>1, <1>e
<1>10. CASE RuleRoutes(n)
  <2>1. Moves(n)
    BY <1>10, <1>a DEF RuleRoutes, Moves
  <2>2. QED
    BY <2>1
<1>11. CASE RuleDrops(n)
  <2>1. CASE cancelled
    BY <1>11, <1>a, <1>e, <2>1 DEF RuleDrops, Outcomes
  <2>2. CASE ~cancelled
    <3>1. Moves(n)
      BY <1>11, <1>a, <2>2 DEF RuleDrops, Moves
    <3>2. QED
      BY <3>1
  <2>3. QED
    BY <2>1, <2>2
<1>12. CASE RuleHalts(n)
  BY <1>12, <1>a, <1>e DEF RuleHalts, Outcomes
<1>13. CASE Send(n)
  <2>1. PICK s \in {"recv", "send"} : stage' = [stage EXCEPT ![n] = s]
    BY <1>13, <1>a DEF Send, Sending
  <2>2. \A m \in Nodes : asleep'[m] => asleep[m]
    BY <1>13, <1>b DEF Send
  <2>3. Moves(n)
    BY <1>13, <1>a, <2>1, <2>2 DEF Send, Sending, Moves
  <2>4. QED
    BY <2>3
<1>14. CASE SendYields(n)
  <2>1. stage' = [stage EXCEPT ![n] = "send"]
    BY <1>14, <1>a DEF SendYields, Sending
  <2>2. Moves(n)
    BY <1>14, <1>a, <2>1 DEF SendYields, Sending, Moves
  <2>3. QED
    BY <2>2
<1>15. CASE SendRejected(n)
  BY <1>15, <1>a, <1>e DEF SendRejected, Sending, Outcomes
<1>16. CASE SendCancelled(n)
  <2>1. PICK r \in Errors : Finish(n, r)
    BY <1>16 DEF SendCancelled, Errors
  <2>2. QED
    BY <1>16, <1>a, <1>e, <2>1 DEF SendCancelled, Sending, Outcomes, Errors
<1>17. CASE SendDisconnected(n)
  BY <1>17, <1>a, <1>e DEF SendDisconnected, Sending, Outcomes
<1>18. CASE SendDone(n)
  <2>1. Finish(n, "ok") /\ UNCHANGED <<at, quota, inflight>>
        /\ stage[n] = "send" /\ "ok" \in Outcomes
    BY <1>18 DEF SendDone, Outcomes
  <2>2. QED
    BY <1>18, <1>a, <2>1, <1>e
<1>19. QED
  BY <1>1, <1>2, <1>3, <1>4, <1>5, <1>6, <1>7, <1>8, <1>9, <1>10, <1>11, <1>12,
     <1>13, <1>14, <1>15, <1>16, <1>17, <1>18 DEF NodeStep

-----------------------------------------------------------------------------
(* Types *)

(* Every non-empty set of natural numbers has a least element.             *)
LEMMA LeastNumber ==
  ASSUME NEW T, T \subseteq Nat, T # {}
  PROVE  \E n \in T : \A m \in T : n <= m
<1> DEFINE U == {0 .. n : n \in T}
           R == StrictSubsetOrdering(Nat)
<1>1. U \subseteq FiniteSubsetsOf(Nat) /\ U # {}
  <2>1. \A n \in Nat : IsFiniteSet(0 .. n) /\ 0 .. n \subseteq Nat
    BY FS_Interval
  <2>2. QED
    BY <2>1 DEF FiniteSubsetsOf
<1>2. IsWellFoundedOn(R, FiniteSubsetsOf(Nat))
  BY FS_StrictSubsetOrderingWellFounded
<1> HIDE DEF R
<1>3. PICK x \in U : \A y \in U : ~(<<y, x>> \in R)
  <2> HIDE DEF U
  <2> QED
    BY <1>1, <1>2, WFMin
<1>4. PICK n \in T : x = 0 .. n
  OBVIOUS
<1>5. ASSUME NEW m \in T, m < n PROVE FALSE
  <2>1. n \in 0 .. n /\ n \notin 0 .. m
    BY <1>5
  <2>2. 0 .. m \subseteq 0 .. n /\ 0 .. m # 0 .. n /\ 0 .. n \subseteq Nat
    BY <1>5, <2>1
  <2>3. <<0 .. m, 0 .. n>> \in R
    BY <2>2 DEF R, StrictSubsetOrdering
  <2>4. QED
    BY <1>3, <1>4, <2>3
<1>6. QED
  BY <1>5

(* A poll finds the first edge of any non-empty set of edges.              *)
LEMMA FirstOfIsIn ==
  ASSUME NEW S, S \subseteq Edges, S # {}
  PROVE  FirstOf(S) \in S
<1>1. Edges \subseteq Nat /\ \A e \in Edges : Wire[e].in \in Nat
  <2> DEFINE W == [src : Nodes, out : Nat, dst : Nodes, in : Nat, cap : Nat]
  <2>1. Wire \in Seq(W)
    BY WorkflowAssumption
  <2>2. \A w \in W : w.in \in Nat
    OBVIOUS
  <2> HIDE DEF W
  <2>3. DOMAIN Wire = 1 .. Len(Wire) /\ Len(Wire) \in Nat /\ \A e \in DOMAIN Wire : Wire[e] \in W
    BY <2>1
  <2>4. QED
    BY <2>2, <2>3 DEF Edges
<1> DEFINE Ins == {Wire[e].in : e \in S}
<1>2. Ins \subseteq Nat /\ Ins # {}
  BY <1>1
<1>3. PICK i \in Ins : \A j \in Ins : i <= j
  <2> HIDE DEF Ins
  <2> QED
    BY <1>2, LeastNumber
<1> DEFINE T == {e \in S : Wire[e].in = i}
<1>4. T \subseteq Nat /\ T # {}
  BY <1>1, <1>3
<1>5. PICK e \in T : \A f \in T : e <= f
  <2> HIDE DEF T
  <2> QED
    BY <1>4, LeastNumber
<1>6. e \in S
  BY <1>5
<1>7. \A f \in S \ {e} : Before(e, f)
  <2> SUFFICES ASSUME NEW f \in S \ {e} PROVE Before(e, f)
    OBVIOUS
  <2>1. Wire[f].in \in Nat /\ Wire[e].in = i /\ i <= Wire[f].in /\ e \in Nat /\ f \in Nat
    BY <1>1, <1>3, <1>5
  <2>2. CASE Wire[f].in = i
    BY <1>5, <2>1, <2>2 DEF Before
  <2>3. CASE Wire[f].in # i
    BY <2>1, <2>3, <1>2, <1>3 DEF Before
  <2>4. QED
    BY <2>2, <2>3
<1>8. QED
  BY <1>6, <1>7 DEF FirstOf

LEMMA RecordedTyped ==
  ASSUME Typed, NEW r \in Outcomes
  PROVE  /\ Recorded(r) \in Summaries
         /\ Recorded(r).completed = summary.completed + (IF r = "ok" THEN 1 ELSE 0)
         /\ Recorded(r).failed = summary.failed + (IF r = "failed" THEN 1 ELSE 0)
         /\ Recorded(r).cancelled = summary.cancelled + (IF r = "cancelled" THEN 1 ELSE 0)
         /\ Recorded(r).errors = summary.errors + (IF r = "ok" THEN 0 ELSE 1)
         /\ Recorded(r).first = IF summary.first = "none" /\ r # "ok"
                                  THEN r ELSE summary.first
         /\ Recorded(r).terminal = IF summary.first = "none" /\ r # "ok"
                                     THEN r ELSE summary.terminal
         /\ Recorded(r).deadlock = summary.deadlock
<1>1. summary \in Summaries
  BY DEF Typed
<1>2. CASE r = "ok"
  BY <1>1, <1>2 DEF Recorded, Summaries
<1>3. CASE r # "ok"
  <2> DEFINE f == IF r = "failed" THEN summary.failed + 1 ELSE summary.failed
             c == IF r = "cancelled" THEN summary.cancelled + 1 ELSE summary.cancelled
             i == IF summary.first = "none" THEN r ELSE summary.first
             t == IF summary.first = "none" THEN r ELSE summary.terminal
  <2>1. Recorded(r) = [summary EXCEPT !.errors = summary.errors + 1, !.failed = f,
                                      !.cancelled = c, !.first = i, !.terminal = t]
    BY <1>1, <1>3 DEF Recorded, Summaries
  <2>2. /\ f \in Nat /\ f = summary.failed + (IF r = "failed" THEN 1 ELSE 0)
        /\ c \in Nat /\ c = summary.cancelled + (IF r = "cancelled" THEN 1 ELSE 0)
        /\ i \in Firsts
        /\ t \in Terminals
    BY <1>1, <1>3 DEF Summaries, Firsts, Terminals, Outcomes, Errors
  <2> HIDE DEF f, c
  <2>3. Recorded(r) = [completed |-> summary.completed, failed |-> f, cancelled |-> c,
                       errors |-> summary.errors + 1, first |-> i, terminal |-> t,
                       deadlock |-> summary.deadlock]
    BY <1>1, <2>1 DEF Summaries
  <2>4. Recorded(r) \in Summaries
    BY <1>1, <2>2, <2>3 DEF Summaries
  <2>5. QED
    <3>1. summary.completed \in Nat /\ summary.errors \in Nat
      BY <1>1 DEF Summaries
    <3>2. QED
      BY <1>3, <2>2, <2>3, <2>4, <3>1
<1>4. QED
  BY <1>2, <1>3

LEMMA EndsTyped ==
  ASSUME Typed, NEW n \in Nodes, Ends(n)
  PROVE  Typed'
<1>1. PICK q \in Outcomes, seen \in SUBSET {"started", "completed", "failed", "cancelled"} :
        /\ phase = "running"
        /\ stage[n] \in Live
        /\ Collect(n, q)
        /\ events' = [events EXCEPT ![n] = seen]
        /\ UNCHANGED <<setup, at, quota, inflight>>
  BY DEF Ends
<1>2. /\ setup' \in Setups
      /\ at' \in [Nodes -> Nat \ {0}]
      /\ quota' \in [Nodes -> UNION {[1 .. k -> Nat] : k \in Nat}]
      /\ \A m \in Nodes : DOMAIN quota'[m] = 1 .. Outputs[m]
      /\ inflight' \in [Edges -> Nat]
      /\ events' \in [Nodes -> SUBSET {"started", "completed", "failed", "cancelled"}]
  BY <1>1 DEF Typed
<1>3. asleep' \in [Nodes -> BOOLEAN]
  <2>1. asleep' = [m \in Nodes |-> asleep[m] /\ ~ \E e \in OutEdges(n) : Wire[e].dst = m /\ e \in Polled(m)]
    BY <1>1 DEF Collect, Woken
  <2>2. \A m \in Nodes : asleep'[m] \in BOOLEAN
    BY <2>1, Zenon
  <2>3. QED
    BY <2>1, <2>2
<1>4. result' \in [Nodes -> {"none"} \cup Outcomes]
  BY <1>1 DEF Collect, Typed
<1>5. stage' \in [Nodes -> Live \cup Over]
  BY <1>1 DEF Collect, Typed, Over
<1>6. /\ phase' \in {"setup", "running", "finished", "error"}
      /\ cancelled' \in BOOLEAN
      /\ failures' \in Nat
  <2>1. phase \in {"setup", "running", "finished", "error"} /\ cancelled \in BOOLEAN /\ failures \in Nat
    BY DEF Typed
  <2>2. IsFirstError(q) \in BOOLEAN
    BY DEF IsFirstError
  <2>3. cancelled' = cancelled \/ cancelled' = (cancelled \/ IsFirstError(q))
    BY <1>1 DEF Collect
  <2>4. cancelled' \in BOOLEAN
    BY <2>1, <2>2, <2>3, Zenon
  <2>5. phase' \in {"setup", "running", "finished", "error"} /\ failures' \in Nat
    BY <1>1, <2>1 DEF Collect
  <2>6. QED
    BY <2>4, <2>5
<1>7. summary' \in Summaries
  BY <1>1, RecordedTyped DEF Collect, Typed
<1>8. QED
  BY <1>2, <1>3, <1>4, <1>5, <1>6, <1>7 DEF Typed

LEMMA SendPortOpen ==
  ASSUME Typed, NEW n \in Nodes, Kind[n] # "rule", SendPort(n) # 0
  PROVE  SendPort(n) \in OpenPorts(n)
<1>1. OpenPorts(n) # {}
  BY DEF SendPort
<1>2. OpenPorts(n) \subseteq Nat
  BY WorkflowAssumption DEF OpenPorts
<1>3. \E p \in OpenPorts(n) : \A q \in OpenPorts(n) : p <= q
  BY <1>1, <1>2, LeastNumber
<1>4. QED
  BY <1>1, <1>3 DEF SendPort

LEMMA MovesTyped ==
  ASSUME Typed, NEW n \in Nodes, NodeStep(n), Moves(n)
  PROVE  Typed'
<1> USE DEF nodeVars, runVars
<1> DEFINE All == {"started", "completed", "failed", "cancelled"}
           Quotas == UNION {[1 .. k -> Nat] : k \in Nat}
<1>1. /\ setup' \in Setups
      /\ phase' \in {"setup", "running", "finished", "error"}
      /\ stage' \in [Nodes -> Live \cup Over]
      /\ cancelled' \in BOOLEAN
      /\ result' \in [Nodes -> {"none"} \cup Outcomes]
      /\ events' \in [Nodes -> SUBSET All]
      /\ summary' \in Summaries
      /\ failures' \in Nat
  BY DEF Moves, Typed
<1>2. at' \in [Nodes -> Nat \ {0}]
  <2>1. at \in [Nodes -> Nat \ {0}]
    BY DEF Typed
  <2>2. Outputs[n] \in Nat
    BY WorkflowAssumption
  <2>3. UNCHANGED at \/ \E p \in Nat \ {0} : at' = [at EXCEPT ![n] = p]
    <3>1. CASE NextInput(n)
      BY <2>1, <3>1 DEF NextInput
    <3>2. CASE RuleRoutes(n)
      <4>1. PICK p \in 1 .. Outputs[n] : at' = [at EXCEPT ![n] = p]
        BY <3>2 DEF RuleRoutes
      <4>2. p \in Nat \ {0}
        BY <2>2
      <4>3. QED
        BY <4>1, <4>2
    <3>3. CASE Send(n)
      BY <3>3 DEF Send
    <3>4. QED
      BY <3>1, <3>2, <3>3 DEF NodeStep, StartNode, StartNodeFails, RecvCancelled,
         RecvPacket, RecvPending, Invoke, InvokeFails, RuleEnds, RuleDrops,
         RuleHalts, SendYields, SendRejected, SendCancelled, SendDisconnected,
         SendDone
  <2>4. QED
    BY <2>1, <2>3
<1>3. quota' \in [Nodes -> Quotas] /\ \A m \in Nodes : DOMAIN quota'[m] = 1 .. Outputs[m]
  <2>1. quota \in [Nodes -> Quotas] /\ \A m \in Nodes : DOMAIN quota[m] = 1 .. Outputs[m]
    BY DEF Typed
  <2>2. Outputs[n] \in Nat /\ MaxOut \in Nat
    BY WorkflowAssumption, MaxOutAssumption
  <2>3. UNCHANGED quota \/ \E q \in [1 .. Outputs[n] -> Nat] : quota' = [quota EXCEPT ![n] = q]
    <3>1. CASE NextInput(n)
      <4>1. [p \in 1 .. Outputs[n] |-> 1] \in [1 .. Outputs[n] -> Nat]
        OBVIOUS
      <4>2. QED
        BY <3>1, <4>1 DEF NextInput
    <3>2. CASE Invoke(n)
      <4>1. PICK q \in [1 .. Outputs[n] -> 0 .. MaxOut] : quota' = [quota EXCEPT ![n] = q]
        BY <3>2 DEF Invoke
      <4>2. q \in [1 .. Outputs[n] -> Nat]
        BY <2>2
      <4>3. QED
        BY <4>1, <4>2
    <3>3. CASE Send(n) /\ Kind[n] # "rule"
      <4>1. SendPort(n) \in OpenPorts(n)
        BY <3>3, SendPortOpen DEF Send, Sending
      <4>2. quota[n] \in [1 .. Outputs[n] -> Nat]
        <5>1. PICK k \in Nat : quota[n] \in [1 .. k -> Nat]
          BY <2>1
        <5>2. QED
          BY <2>1, <5>1
      <4>3. SendPort(n) \in 1 .. Outputs[n] /\ quota[n][SendPort(n)] \in Nat \ {0}
        <5> DEFINE p == SendPort(n)
        <5>1. p \in 1 .. Outputs[n] /\ quota[n][p] > 0
          BY <4>1 DEF OpenPorts
        <5> HIDE DEF p
        <5>2. quota[n][p] \in Nat
          BY <5>1, <4>2
        <5>3. QED
          BY <5>1, <5>2 DEF p
      <4>4. quota' = [quota EXCEPT ![n] = [quota[n] EXCEPT ![SendPort(n)] = @ - 1]]
        BY <3>3, <2>1 DEF Send
      <4>5. [quota[n] EXCEPT ![SendPort(n)] = @ - 1] \in [1 .. Outputs[n] -> Nat]
        <5> DEFINE p == SendPort(n)
        <5>1. p \in 1 .. Outputs[n] /\ quota[n][p] - 1 \in Nat
          BY <4>3
        <5> HIDE DEF p
        <5>2. [quota[n] EXCEPT ![p] = @ - 1] \in [1 .. Outputs[n] -> Nat]
          BY <5>1, <4>2
        <5>3. QED
          BY <5>2 DEF p
      <4>6. QED
        BY <4>4, <4>5
    <3>4. CASE Send(n) /\ Kind[n] = "rule"
      BY <3>4 DEF Send
    <3>5. QED
      BY <3>1, <3>2, <3>3, <3>4 DEF NodeStep, StartNode, StartNodeFails,
         RecvCancelled, RecvPacket, RecvPending, InvokeFails, RuleEnds, RuleRoutes,
         RuleDrops, RuleHalts, SendYields, SendRejected, SendCancelled,
         SendDisconnected, SendDone
  <2>4. CASE UNCHANGED quota
    BY <2>1, <2>4
  <2>5. ASSUME NEW q \in [1 .. Outputs[n] -> Nat], quota' = [quota EXCEPT ![n] = q]
        PROVE  quota' \in [Nodes -> Quotas] /\ \A m \in Nodes : DOMAIN quota'[m] = 1 .. Outputs[m]
    <3>1. q \in Quotas /\ DOMAIN q = 1 .. Outputs[n]
      BY <2>2
    <3> HIDE DEF Quotas
    <3>2. QED
      BY <2>1, <2>5, <3>1
  <2>6. QED
    BY <2>3, <2>4, <2>5
<1>4. inflight' \in [Edges -> Nat]
  <2>1. inflight \in [Edges -> Nat]
    BY DEF Typed
  <2>2. CASE RecvPacket(n)
    <3> DEFINE full == {e \in Polled(n) : inflight[e] > 0}
    <3>1. full # {} /\ inflight' = [inflight EXCEPT ![FirstOf(full)] = @ - 1]
      BY <2>2 DEF RecvPacket
    <3>2. full \subseteq Edges
      BY DEF Polled, InEdges
    <3>3. FirstOf(full) \in full
      <4> HIDE DEF full
      <4> QED
        BY <3>1, <3>2, FirstOfIsIn
    <3>4. inflight[FirstOf(full)] > 0 /\ FirstOf(full) \in Edges
      BY <3>2, <3>3
    <3> DEFINE f == FirstOf(full)
    <3>5. inflight[f] - 1 \in Nat
      BY <2>1, <3>4
    <3> HIDE DEF f
    <3>6. inflight' = [inflight EXCEPT ![f] = @ - 1]
      BY <3>1 DEF f
    <3>7. QED
      BY <2>1, <3>5, <3>6
  <2>3. CASE Send(n)
    BY <2>1, <2>3 DEF Send
  <2>4. QED
    BY <2>1, <2>2, <2>3 DEF NodeStep, StartNode, StartNodeFails, RecvCancelled,
       RecvPending, NextInput, Invoke, InvokeFails, RuleEnds, RuleRoutes,
       RuleDrops, RuleHalts, SendYields, SendRejected, SendCancelled,
       SendDisconnected, SendDone
<1>5. asleep' \in [Nodes -> BOOLEAN]
  <2>1. asleep \in [Nodes -> BOOLEAN]
    BY DEF Typed
  <2>w. ASSUME NEW S, asleep' = Woken(S) PROVE asleep' \in [Nodes -> BOOLEAN]
    <3>1. \A m \in Nodes : asleep'[m] \in BOOLEAN
      BY <2>w, Zenon DEF Woken
    <3>2. QED
      BY <2>w, <3>1 DEF Woken
  <2>2. CASE RecvPending(n)
    BY <2>1, <2>2 DEF RecvPending
  <2>3. CASE Send(n)
    BY <2>3, <2>w DEF Send
  <2>c. ASSUME NEW q, Collect(n, q) PROVE asleep' \in [Nodes -> BOOLEAN]
    BY <2>c, <2>w DEF Collect
  <2>f. ASSUME NEW q, Finish(n, q) PROVE asleep' \in [Nodes -> BOOLEAN]
    BY <2>f, <2>c DEF Finish
  <2>4. QED
    BY <2>1, <2>2, <2>3, <2>c, <2>f DEF NodeStep, StartNode, StartNodeFails, RecvCancelled,
       RecvPacket, NextInput, Invoke, InvokeFails, RuleEnds, RuleRoutes,
       RuleDrops, RuleHalts, SendYields, SendRejected, SendCancelled,
       SendDisconnected, SendDone
<1>6. QED
  BY <1>1, <1>2, <1>3, <1>4, <1>5 DEF Typed

LEMMA InitTyped == Init => Typed /\ Futures /\ Counts /\ Verdict
<1> SUFFICES ASSUME Init PROVE Typed /\ Futures /\ Counts /\ Verdict
  OBVIOUS
<1>1. Typed
  <2>1. quota \in [Nodes -> UNION {[1 .. k -> Nat] : k \in Nat}]
        /\ \A n \in Nodes : DOMAIN quota[n] = 1 .. Outputs[n]
    <3>1. \A n \in Nodes : [p \in 1 .. Outputs[n] |-> 0] \in UNION {[1 .. k -> Nat] : k \in Nat}
      BY WorkflowAssumption
    <3>2. QED
      BY <3>1 DEF Init
  <2>2. summary \in Summaries
    BY DEF Init, EmptySummary, Summaries, Firsts, Terminals, Deadlocks
  <2>3. QED
    <3>1. /\ setup \in Setups
          /\ phase \in {"setup", "running", "finished", "error"}
          /\ cancelled \in BOOLEAN
          /\ failures \in Nat
      BY DEF Init
    <3>2. /\ stage \in [Nodes -> Live \cup Over]
          /\ at \in [Nodes -> Nat \ {0}]
          /\ asleep \in [Nodes -> BOOLEAN]
          /\ inflight \in [Edges -> Nat]
          /\ result \in [Nodes -> {"none"} \cup Outcomes]
      BY DEF Init, Live
    <3>3. events \in [Nodes -> SUBSET {"started", "completed", "failed", "cancelled"}]
      BY DEF Init
    <3>4. QED
      BY <2>1, <2>2, <3>1, <3>2, <3>3 DEF Typed
<1>2. Futures
  BY DEF Init, Futures, Live
<1>3. Counts
  <2>1. \A r \in Outcomes : {n \in Nodes : result[n] = r} = {}
    BY DEF Init, Outcomes
  <2>2. \A r \in Outcomes : With(r) = 0
    BY <2>1, FS_EmptySet DEF With
  <2>3. QED
    BY <2>2 DEF Init, Counts, EmptySummary, Outcomes
<1>4. Verdict
  BY DEF Init, Verdict
<1>5. QED
  BY <1>1, <1>2, <1>3, <1>4

LEMMA TypedStep == Typed /\ Futures /\ [Next]_vars => Typed'
<1> SUFFICES ASSUME Typed, Futures, [Next]_vars PROVE Typed'
  OBVIOUS
<1> USE DEF nodeVars, runVars, Going
<1>1. CASE StartRun
  BY <1>1 DEF StartRun, Typed
<1>2. CASE RejectRun
  BY <1>2 DEF RejectRun, Typed, Over
<1>3. ASSUME NEW n \in Nodes, NodeStep(n) PROVE Typed'
  BY <1>3, NodeStepShape, EndsTyped, MovesTyped
<1>4. CASE FinishRun
  BY <1>4 DEF FinishRun, Typed
<1>5. CASE WatchdogFires
  <2>1. stage' \in [Nodes -> Live \cup Over]
    BY <1>5 DEF WatchdogFires, Typed, Over
  <2>2. summary' \in Summaries
    <3>1. summary \in Summaries /\ setup \in Setups
      BY DEF Typed
    <3>2. Policy(setup).cycles \in {"reject", "feedback"}
      BY <3>1, SetupAssumption DEF Policy, Policies, Acyclic
    <3>3. Cardinality(Nodes) \in Nat /\ Len(Wire) \in Nat
      BY WorkflowAssumption, FS_CardinalityType
    <3>4. Diagnostic \in Diagnostics
      BY <3>1, <3>2, <3>3 DEF Diagnostic, Diagnostics, Summaries
    <3> HIDE DEF Diagnostic
    <3> DEFINE t == IF summary.first = "none" THEN "failed" ELSE summary.terminal
               i == IF summary.first = "none" THEN "failed" ELSE summary.first
    <3>6. i \in Firsts /\ t \in Terminals
      BY <3>1 DEF Summaries, Firsts, Terminals, Errors
    <3> DEFINE d == {Diagnostic}
    <3>5. d \in Deadlocks
      BY <3>4 DEF Deadlocks
    <3>7. summary' = summary
          \/ summary' = [summary EXCEPT !.errors = summary.errors + 1, !.first = i,
                                        !.terminal = t, !.deadlock = d]
      BY <1>5, Zenon DEF WatchdogFires
    <3> HIDE DEF i, t, d
    <3>8. [summary EXCEPT !.errors = summary.errors + 1, !.first = i,
                          !.terminal = t, !.deadlock = d] \in Summaries
      <4>1. \A k \in Nat : [summary EXCEPT !.errors = k, !.first = i, !.terminal = t,
                                          !.deadlock = d] \in Summaries
        BY <3>1, <3>5, <3>6 DEF Summaries
      <4>2. summary.errors + 1 \in Nat
        BY <3>1 DEF Summaries
      <4>3. QED
        BY <4>1, <4>2
    <3>9. QED
      BY <3>1, <3>7, <3>8
  <2>3. /\ UNCHANGED <<setup, at, quota, asleep, result, events, inflight>>
        /\ phase' \in {"finished", "error"}
        /\ failures' \in Nat
        /\ cancelled' \in BOOLEAN
    <3>1. failures \in Nat /\ cancelled \in BOOLEAN
      BY DEF Typed
    <3>2. /\ UNCHANGED <<setup, at, quota, asleep, result, events, inflight>>
          /\ \/ phase' = "finished" /\ failures' = failures + 1 /\ cancelled' = TRUE
             \/ phase' = "error" /\ UNCHANGED <<failures, cancelled>>
      BY <1>5, Zenon DEF WatchdogFires
    <3>3. cancelled' \in BOOLEAN
      BY <3>1, <3>2, Zenon
    <3>4. QED
      BY <3>1, <3>2, <3>3
  <2>4. QED
    BY <2>1, <2>2, <2>3 DEF Typed
<1>6. CASE UNCHANGED vars
  BY <1>6 DEF vars, Typed
<1>7. QED
  BY <1>1, <1>2, <1>3, <1>4, <1>5, <1>6 DEF Next

LEMMA FuturesStep == Typed /\ Futures /\ [Next]_vars => Futures'
<1> SUFFICES ASSUME Typed, Futures, [Next]_vars PROVE Futures'
  OBVIOUS
<1> USE DEF nodeVars, runVars, Going
<1>0. /\ stage \in [Nodes -> Live \cup Over]
      /\ result \in [Nodes -> {"none"} \cup Outcomes]
      /\ asleep \in [Nodes -> BOOLEAN]
  BY DEF Typed
<1>1. CASE StartRun
  BY <1>1 DEF StartRun, Futures
<1>2. CASE RejectRun
  <2>1. \A n \in Nodes : stage[n] # "done"
    BY <1>2, <1>0 DEF RejectRun, Futures
  <2>2. QED
    BY <1>2, <2>1 DEF RejectRun, Futures, Live
<1>3. ASSUME NEW n \in Nodes, Ends(n) PROVE Futures'
  <2>1. PICK q \in Outcomes, seen \in SUBSET {"started", "completed", "failed", "cancelled"} :
          /\ phase = "running"
          /\ stage[n] \in Live
          /\ ~asleep[n]
          /\ Collect(n, q)
          /\ events' = [events EXCEPT ![n] = seen]
    BY <1>3 DEF Ends
  <2>2. /\ result' = [result EXCEPT ![n] = q]
        /\ asleep' = Woken(OutEdges(n))
        /\ \/ stage' = [stage EXCEPT ![n] = "done"] /\ phase' = phase
           \/ /\ phase' = "error"
              /\ stage' = [m \in Nodes |-> IF m = n \/ stage[m] = "done" THEN "done" ELSE "dropped"]
    BY <2>1 DEF Collect
  <2>3. \A m \in Nodes : asleep'[m] => asleep[m]
    BY <2>2 DEF Woken
  <2>4. stage'[n] = "done" /\ \A m \in Nodes \ {n} : stage'[m] = stage[m] \/ (phase' = "error" /\ stage[m] # "done" /\ stage'[m] = "dropped")
    BY <2>2, <1>0
  <2>5. Going => \A m \in Nodes : stage[m] # "dropped"
    BY DEF Futures
  <2>0. (phase = "setup" => \A m \in Nodes : stage[m] = "unstarted")'
    BY <2>1, <2>2
  <2>6. (\A m \in Nodes : result[m] = "none" <=> stage[m] # "done")'
    BY <1>0, <2>2, <2>4 DEF Futures, Outcomes
  <2>7. (Going => \A m \in Nodes : stage[m] # "dropped")'
    BY <2>1, <2>2, <2>4, <2>5
  <2>8. (\A m \in Nodes : asleep[m] => stage[m] \in {"recv", "dropped"})'
    BY <2>1, <2>3, <2>4, <1>0 DEF Futures
  <2>9. (\A m \in Nodes : stage[m] \in Live \ {"unstarted"} => events[m] = {"started"})'
    BY <2>1, <2>4 DEF Futures, Live, Typed
  <2>10. (\A m \in Nodes : stage[m] = "packet" => Kind[m] = "rule")'
    BY <2>4 DEF Futures
  <2>11. QED
    BY <2>0, <2>6, <2>7, <2>8, <2>9, <2>10 DEF Futures
<1>4. ASSUME NEW n \in Nodes, Moves(n) PROVE Futures'
  <2>1. PICK s \in Live \ {"unstarted"} : stage' = [stage EXCEPT ![n] = s]
    BY <1>4 DEF Moves
  <2>2. stage'[n] = s /\ \A m \in Nodes \ {n} : stage'[m] = stage[m]
    BY <2>1, <1>0
  <2>0. (phase = "setup" => \A m \in Nodes : stage[m] = "unstarted")'
    BY <1>4 DEF Moves
  <2>3. (\A m \in Nodes : result[m] = "none" <=> stage[m] # "done")'
    BY <1>4, <2>2 DEF Moves, Futures, Live
  <2>4. (Going => \A m \in Nodes : stage[m] # "dropped")'
    BY <1>4, <2>2 DEF Moves, Futures, Live
  <2>5. (\A m \in Nodes : asleep[m] => stage[m] \in {"recv", "dropped"})'
    BY <1>4, <2>2 DEF Moves, Futures, Live
  <2>6. (\A m \in Nodes : stage[m] \in Live \ {"unstarted"} => events[m] = {"started"})'
    BY <1>4, <2>2 DEF Moves, Futures, Live, Typed
  <2>7. (\A m \in Nodes : stage[m] = "packet" => Kind[m] = "rule")'
    BY <1>4, <2>2 DEF Moves, Futures
  <2>8. QED
    BY <2>0, <2>3, <2>4, <2>5, <2>6, <2>7 DEF Futures
<1>5. CASE FinishRun
  BY <1>5 DEF FinishRun, Futures
<1>6. CASE WatchdogFires
  BY <1>6, <1>0 DEF WatchdogFires, Futures, Live, Over
<1>7. CASE UNCHANGED vars
  BY <1>7 DEF vars, Futures
<1>8. QED
  BY <1>1, <1>2, <1>3, <1>4, <1>5, <1>6, <1>7, NodeStepShape DEF Next

-----------------------------------------------------------------------------
(* Accounting *)

LEMMA Counted ==
  ASSUME Typed
  PROVE  \A r : IsFiniteSet({n \in Nodes : result[n] = r}) /\ With(r) \in Nat
<1> SUFFICES ASSUME NEW r
             PROVE  IsFiniteSet({n \in Nodes : result[n] = r}) /\ With(r) \in Nat
  OBVIOUS
<1>1. IsFiniteSet({n \in Nodes : result[n] = r})
  BY WorkflowAssumption, FS_Subset
<1>2. QED
  BY <1>1, FS_CardinalityType DEF With

(* Collecting a result adds one to the count of that result alone.         *)
LEMMA CollectCounts ==
  ASSUME Typed, NEW n \in Nodes, NEW q \in Outcomes, result[n] = "none",
         result' = [result EXCEPT ![n] = q]
  PROVE  \A r \in Outcomes : With(r)' = With(r) + (IF r = q THEN 1 ELSE 0)
<1> SUFFICES ASSUME NEW r \in Outcomes
             PROVE  With(r)' = With(r) + (IF r = q THEN 1 ELSE 0)
  OBVIOUS
<1> DEFINE A == {m \in Nodes : result[m] = r}
           B == {m \in Nodes : result'[m] = r}
<1>1. IsFiniteSet(A) /\ Cardinality(A) \in Nat
  BY Counted, FS_CardinalityType
<1>2. n \notin A /\ "none" # q
  BY DEF Outcomes
<1>3. result \in [Nodes -> {"none"} \cup Outcomes]
  BY DEF Typed
<1>4. CASE r = q
  <2>1. B = A \cup {n}
    BY <1>3, <1>4
  <2> HIDE DEF A, B
  <2>2. Cardinality(B) = Cardinality(A) + 1
    BY <1>1, <1>2, <2>1, FS_AddElement
  <2>3. QED
    BY <1>4, <2>2 DEF A, B, With
<1>5. CASE r # q
  <2>1. B = A
    BY <1>2, <1>3, <1>5
  <2>2. QED
    BY <1>1, <1>5, <2>1 DEF With
<1>6. QED
  BY <1>4, <1>5

(* Every node either has a result or is pending.                           *)
LEMMA ResultsPartition ==
  ASSUME Typed
  PROVE  Cardinality(Nodes) = With("ok") + With("failed") + With("cancelled") + With("none")
<1> DEFINE A(r) == {n \in Nodes : result[n] = r}
<1>1. \A r : IsFiniteSet(A(r)) /\ Cardinality(A(r)) \in Nat
  BY Counted, FS_CardinalityType
<1>2. A("ok") \cap A("failed") = {}
      /\ (A("ok") \cup A("failed")) \cap A("cancelled") = {}
      /\ ((A("ok") \cup A("failed")) \cup A("cancelled")) \cap A("none") = {}
  OBVIOUS
<1>3. ((A("ok") \cup A("failed")) \cup A("cancelled")) \cup A("none") = Nodes
  BY DEF Typed, Outcomes
<1> HIDE DEF A
<1>4. \A S, T : IsFiniteSet(S) /\ IsFiniteSet(T) /\ S \cap T = {} =>
        /\ IsFiniteSet(S \cup T)
        /\ Cardinality(S \cup T) = Cardinality(S) + Cardinality(T)
  <2> SUFFICES ASSUME NEW S, NEW T, IsFiniteSet(S), IsFiniteSet(T), S \cap T = {}
               PROVE  /\ IsFiniteSet(S \cup T)
                      /\ Cardinality(S \cup T) = Cardinality(S) + Cardinality(T)
    OBVIOUS
  <2>1. IsFiniteSet(S \cup T)
        /\ Cardinality(S \cup T) = Cardinality(S) + Cardinality(T) - Cardinality(S \cap T)
    BY FS_Union
  <2>2. Cardinality(S \cap T) = 0
    BY FS_EmptySet
  <2>3. Cardinality(S) \in Nat /\ Cardinality(T) \in Nat
    BY FS_CardinalityType
  <2>4. QED
    BY <2>1, <2>2, <2>3
<1>5. IsFiniteSet(A("ok") \cup A("failed"))
      /\ Cardinality(A("ok") \cup A("failed")) = Cardinality(A("ok")) + Cardinality(A("failed"))
  BY <1>1, <1>2, <1>4
<1>6. IsFiniteSet((A("ok") \cup A("failed")) \cup A("cancelled"))
      /\ Cardinality((A("ok") \cup A("failed")) \cup A("cancelled"))
         = Cardinality(A("ok") \cup A("failed")) + Cardinality(A("cancelled"))
  BY <1>1, <1>2, <1>4, <1>5
<1>7. Cardinality(Nodes)
         = Cardinality((A("ok") \cup A("failed")) \cup A("cancelled")) + Cardinality(A("none"))
  BY <1>1, <1>2, <1>3, <1>4, <1>6
<1>8. QED
  BY <1>5, <1>6, <1>7 DEF A, With

LEMMA CountsStep == Typed /\ Futures /\ Counts /\ [Next]_vars => Counts'
<1> SUFFICES ASSUME Typed, Futures, Counts, [Next]_vars PROVE Counts'
  OBVIOUS
<1> USE DEF nodeVars, runVars, Going
<1>0. \A r : UNCHANGED result => UNCHANGED With(r)
  BY DEF With
<1>1. CASE StartRun
  BY <1>0, <1>1 DEF StartRun, Counts
<1>2. CASE RejectRun
  BY <1>2 DEF RejectRun, Counts
<1>3. ASSUME NEW n \in Nodes, Ends(n) PROVE Counts'
  <2>1. PICK q \in Outcomes : /\ phase = "running"
                              /\ stage[n] \in Live
                              /\ Collect(n, q)
    BY <1>3 DEF Ends
  <2>2. result' = [result EXCEPT ![n] = q] /\ result[n] = "none"
    BY <2>1 DEF Collect, Futures, Live
  <2>3. \A r \in Outcomes : With(r)' = With(r) + (IF r = q THEN 1 ELSE 0)
    BY <2>2, CollectCounts
  <2>4. CASE phase' = "error"
    BY <2>4 DEF Counts
  <2>5. CASE phase' # "error"
    <3>1. /\ summary' = Recorded(q)
          /\ failures' = IF IsFirstError(q) THEN failures + 1 ELSE failures
          /\ cancelled' = (cancelled \/ IsFirstError(q))
      BY <2>1, <2>5 DEF Collect
    <3>2. /\ summary'.completed = summary.completed + (IF q = "ok" THEN 1 ELSE 0)
          /\ summary'.failed = summary.failed + (IF q = "failed" THEN 1 ELSE 0)
          /\ summary'.cancelled = summary.cancelled + (IF q = "cancelled" THEN 1 ELSE 0)
          /\ summary'.errors = summary.errors + (IF q = "ok" THEN 0 ELSE 1)
          /\ summary'.first = IF summary.first = "none" /\ q # "ok"
                                THEN q ELSE summary.first
          /\ summary'.terminal = IF summary.first = "none" /\ q # "ok"
                                   THEN q ELSE summary.terminal
          /\ summary'.deadlock = summary.deadlock
      BY <3>1, RecordedTyped
    <3>3. /\ summary.completed = With("ok")
          /\ summary.failed = With("failed")
          /\ summary.cancelled = With("cancelled")
          /\ summary.errors = summary.failed + summary.cancelled
          /\ summary.first = "none" <=> summary.errors = 0
          /\ summary.terminal = "completed" <=> summary.errors = 0
          /\ summary.deadlock = {}
          /\ failures = (IF summary.errors > 0 THEN 1 ELSE 0)
          /\ cancelled <=> summary.errors > 0
      BY <2>1 DEF Counts
    <3>4. summary.failed \in Nat /\ summary.cancelled \in Nat /\ summary.errors \in Nat
          /\ summary.completed \in Nat
      BY DEF Typed, Summaries
    <3>5. /\ summary'.completed = With("ok")'
          /\ summary'.failed = With("failed")'
          /\ summary'.cancelled = With("cancelled")'
      BY <2>3, <3>2, <3>3 DEF Outcomes
    <3>6. summary'.errors = summary'.failed + summary'.cancelled
      BY <3>2, <3>3, <3>4 DEF Outcomes
    <3>7. CASE q = "ok"
      <4>1. UNCHANGED <<failures, summary.errors, summary.first, summary.terminal, summary.deadlock>>
        BY <3>1, <3>2, <3>4, <3>7 DEF IsFirstError
      <4>2. cancelled' <=> cancelled
        BY <3>1, <3>7 DEF IsFirstError
      <4>3. QED
        BY <3>3, <3>5, <3>6, <4>1, <4>2 DEF Counts
    <3>8. CASE q # "ok"
      <4>1. summary'.errors > 0 /\ summary'.errors # 0
        BY <3>2, <3>4, <3>8
      <4>2. cancelled'
        <5>1. summary.first = "none" => IsFirstError(q)
          BY <3>8 DEF IsFirstError
        <5>2. summary.first # "none" => cancelled
          BY <3>3, <3>4
        <5>3. QED
          BY <3>1, <5>1, <5>2, Zenon
      <4>3. failures' = 1
        BY <3>1, <3>3, <3>4, <3>8 DEF IsFirstError
      <4>4. summary'.first # "none" /\ summary'.terminal # "completed"
        BY <3>2, <3>3, <3>4, <3>8 DEF Outcomes
      <4>5. QED
        BY <3>2, <3>3, <3>5, <3>6, <4>1, <4>2, <4>3, <4>4 DEF Counts
    <3>9. QED
      BY <3>7, <3>8
  <2>6. QED
    BY <2>4, <2>5
<1>4. ASSUME NEW n \in Nodes, Moves(n) PROVE Counts'
  BY <1>0, <1>4 DEF Moves, Counts
<1>5. CASE FinishRun
  BY <1>5 DEF FinishRun, Counts
<1>6. CASE WatchdogFires
  <2>1. phase' \in {"finished", "error"}
    BY <1>6 DEF WatchdogFires
  <2>2. QED
    BY <2>1 DEF Counts
<1>7. CASE UNCHANGED vars
  BY <1>0, <1>7 DEF vars, Counts
<1>8. QED
  BY <1>1, <1>2, <1>3, <1>4, <1>5, <1>6, <1>7, NodeStepShape DEF Next

(* The watchdog's summary: the counts are kept, the error is its own.      *)
LEMMA WatchdogSummary ==
  ASSUME Typed, WatchdogFires, phase' = "finished"
  PROVE  /\ summary'.completed = summary.completed
         /\ summary'.failed = summary.failed
         /\ summary'.cancelled = summary.cancelled
         /\ summary'.errors = summary.errors + 1
         /\ summary'.first # "none"
         /\ summary.first # "none" => summary'.terminal = summary.terminal
         /\ summary.first = "none" => summary'.terminal = "failed"
         /\ summary'.deadlock = {Diagnostic}
         /\ failures' = failures + 1
<1>1. summary \in Summaries
  BY DEF Typed
<1> DEFINE i == IF summary.first = "none" THEN "failed" ELSE summary.first
           t == IF summary.first = "none" THEN "failed" ELSE summary.terminal
<1>2. phase' # "error"
  OBVIOUS
<1>3. /\ failures' = failures + 1
      /\ summary' = [summary EXCEPT !.errors = summary.errors + 1, !.first = i,
                                    !.terminal = t, !.deadlock = {Diagnostic}]
  BY <1>2, Zenon DEF WatchdogFires
<1>4. i # "none"
  OBVIOUS
<1> HIDE DEF i
<1>5. QED
  BY <1>1, <1>3, <1>4 DEF Summaries

LEMMA VerdictStep == Typed /\ Futures /\ Counts /\ Verdict /\ [Next]_vars => Verdict'
<1> SUFFICES ASSUME Typed, Futures, Counts, Verdict, [Next]_vars PROVE Verdict'
  OBVIOUS
<1> USE DEF nodeVars, runVars, Going
<1>1. CASE StartRun
  BY <1>1 DEF StartRun, Verdict
<1>2. CASE RejectRun
  BY <1>2 DEF RejectRun, Verdict
<1>3. ASSUME NEW n \in Nodes, Ends(n) PROVE Verdict'
  <2>1. phase' # "finished"
    BY <1>3 DEF Ends, Collect
  <2>2. QED
    BY <2>1 DEF Verdict
<1>4. ASSUME NEW n \in Nodes, Moves(n) PROVE Verdict'
  BY <1>4 DEF Moves, Verdict
<1>5. CASE FinishRun
  <2>1. /\ summary.first = "none" <=> summary.errors = 0
        /\ summary.terminal = "completed" <=> summary.errors = 0
        /\ summary.errors = With("failed") + With("cancelled")
    BY <1>5 DEF FinishRun, Counts
  <2>2. ASSUME summary.first = "none", NEW n \in Nodes PROVE result[n] = "ok"
    <3>1. With("failed") = 0 /\ With("cancelled") = 0
      <4>1. With("failed") \in Nat /\ With("cancelled") \in Nat
        BY Counted
      <4>2. With("failed") + With("cancelled") = 0
        BY <2>1, <2>2
      <4>3. QED
        BY <4>1, <4>2
    <3>2. \A r : With(r) = 0 => result[n] # r
      <4>1. \A r : Cardinality({m \in Nodes : result[m] = r}) = 0 => {m \in Nodes : result[m] = r} = {}
        BY Counted, FS_EmptySet
      <4>2. QED
        BY <4>1 DEF With
    <3>3. result[n] # "none"
      BY <1>5 DEF FinishRun, Futures
    <3>4. QED
      BY <3>1, <3>2, <3>3 DEF Typed, Outcomes
  <2>3. QED
    BY <1>5, <2>1, <2>2 DEF FinishRun, Verdict
<1>6. CASE WatchdogFires
  <2>1. CASE phase' = "finished"
    <3>1. phase = "running"
      BY <1>6 DEF WatchdogFires
    <3>2. summary.first = "none" <=> summary.terminal = "completed"
      BY <3>1 DEF Counts
    <3>3. QED
      BY <1>6, <2>1, <3>2, WatchdogSummary DEF Verdict
  <2>2. CASE phase' # "finished"
    BY <2>2 DEF Verdict
  <2>3. QED
    BY <2>1, <2>2
<1>7. CASE UNCHANGED vars
  BY <1>7 DEF vars, Verdict
<1>8. QED
  BY <1>1, <1>2, <1>3, <1>4, <1>5, <1>6, <1>7, NodeStepShape DEF Next

(* While nodes run the counts say all that the summary must.               *)
LEMMA RunningAccounts ==
  Typed /\ Counts /\ Going => SummaryAccounts
<1> SUFFICES ASSUME Typed, Counts, Going
             PROVE  SummaryAccounts
  OBVIOUS
<1>1. Cardinality(summary.deadlock) = 0
  BY FS_EmptySet DEF Counts
<1>2. With("failed") \in Nat /\ With("cancelled") \in Nat
  BY Counted
<1>3. QED
  BY <1>1, <1>2 DEF Counts, SummaryAccounts

LEMMA AccountsStep ==
  Typed /\ Futures /\ Counts /\ SummaryAccounts /\ [Next]_vars => SummaryAccounts'
<1> SUFFICES ASSUME Typed, Futures, Counts, SummaryAccounts, [Next]_vars
             PROVE  SummaryAccounts'
  OBVIOUS
<1>0. Typed' /\ Counts'
  BY TypedStep, CountsStep
<1>1. CASE Going'
  BY <1>0, <1>1, RunningAccounts, PTL
<1>2. CASE phase' = "error"
  BY <1>2 DEF SummaryAccounts
<1>3. CASE phase' = "finished" /\ WatchdogFires
  <2>1. phase = "running" /\ result' = result
        /\ stage' = [n \in Nodes |-> IF stage[n] = "done" THEN "done" ELSE "dropped"]
    BY <1>3 DEF WatchdogFires
  <2>2. /\ summary.completed = With("ok")
        /\ summary.failed = With("failed")
        /\ summary.cancelled = With("cancelled")
        /\ summary.errors = summary.failed + summary.cancelled
        /\ summary.first = "none" <=> summary.errors = 0
        /\ summary.terminal = "completed" <=> summary.errors = 0
        /\ failures = (IF summary.errors > 0 THEN 1 ELSE 0)
    BY <2>1 DEF Counts, Going
  <2>3. \A r : With(r)' = With(r) /\ With(r) \in Nat
    BY <2>1, Counted DEF With
  <2>4. Cardinality(summary'.deadlock) = 1
    BY <1>3, WatchdogSummary, FS_Singleton
  <2>5. Diagnostic.pending = Cardinality({n \in Nodes : stage'[n] = "dropped"})
    <3>1. {n \in Nodes : stage'[n] = "dropped"} = {n \in Nodes : result[n] = "none"}
      BY <2>1 DEF Futures
    <3>2. Diagnostic.pending = With("none")
      <4>1. Diagnostic.pending = Cardinality(Nodes) - (With("ok") + With("failed") + With("cancelled"))
        BY <2>2 DEF Diagnostic
      <4>2. QED
        BY <2>3, <4>1, ResultsPartition
    <3>3. QED
      BY <3>1, <3>2 DEF With
  <2>6. /\ summary'.completed = With("ok")'
        /\ summary'.failed = With("failed")'
        /\ summary'.cancelled = With("cancelled")'
        /\ summary'.errors = summary'.failed + summary'.cancelled + Cardinality(summary'.deadlock)
    BY <1>3, <2>2, <2>3, <2>4, WatchdogSummary
  <2>7. summary'.terminal # "completed" /\ summary'.errors # 0
    BY <1>3, <2>2, <2>3, WatchdogSummary
  <2>8. failures' = (IF With("failed")' + With("cancelled")' > 0 THEN 1 ELSE 0)
                      + Cardinality(summary'.deadlock)
    BY <1>3, <2>2, <2>3, <2>4, WatchdogSummary
  <2>9. \A d \in summary'.deadlock : d.pending = Cardinality({n \in Nodes : stage'[n] = "dropped"})
    BY <1>3, <2>5, WatchdogSummary
  <2>10. QED
    BY <2>6, <2>7, <2>8, <2>9 DEF SummaryAccounts
<1>4. CASE phase' = "finished" /\ ~WatchdogFires
  <2>1. UNCHANGED <<summary, result, stage, failures>> /\ phase # "error"
    <3>1. ASSUME NEW n \in Nodes, NodeStep(n) PROVE FALSE
      <4>1. phase' # "finished"
        BY <3>1, NodeStepShape DEF Ends, Moves, Collect, runVars
      <4>2. QED
        BY <1>4, <4>1
    <3>2. QED
      BY <1>4, <3>1 DEF Next, StartRun, RejectRun, FinishRun, vars, nodeVars, runVars
  <2>2. \A r : With(r)' = With(r)
    BY <2>1 DEF With
  <2>3. QED
    BY <2>1, <2>2 DEF SummaryAccounts
<1>5. QED
  BY <1>0, <1>1, <1>2, <1>3, <1>4 DEF Typed, Going

(* Spec => Accounting: what the collector knows agrees with what happened. *)
Accounting == Typed /\ Futures /\ Counts /\ Verdict /\ SummaryAccounts

LEMMA AccountingInvariant == Spec => []Accounting
<1>1. Init => Accounting
  <2>1. Init => Going
    BY DEF Init, Going
  <2>2. QED
    BY <2>1, InitTyped, RunningAccounts DEF Accounting
<1>2. Accounting /\ [Next]_vars => Accounting'
  BY TypedStep, FuturesStep, CountsStep, VerdictStep, AccountsStep DEF Accounting
<1>3. QED
  BY <1>1, <1>2, PTL DEF Spec

(* The summary that a run returns accounts for every collected result      *)
(* exactly once, whatever order the futures ended in, and the diagnostic   *)
(* of the watchdog counts as pending exactly the futures that it dropped.  *)
THEOREM SummaryIsExact == Spec => []SummaryAccounts
<1>1. Accounting => SummaryAccounts
  BY DEF Accounting
<1>2. QED
  BY <1>1, AccountingInvariant, PTL

(* The token is set from the first error on, and never before it: no       *)
(* result slips past the fail-fast policy of record_node_run_result.       *)
THEOREM FailFast == Spec => []FirstErrorCancels
<1>1. Accounting => FirstErrorCancels
  <2> SUFFICES ASSUME Accounting, phase = "running"
               PROVE  cancelled <=> \E n \in Nodes : result[n] \in {"failed", "cancelled"}
    BY DEF FirstErrorCancels
  <2>1. cancelled <=> With("failed") + With("cancelled") > 0
    BY DEF Accounting, Counts, Going
  <2>2. \A r : With(r) \in Nat /\ (With(r) = 0 <=> {n \in Nodes : result[n] = r} = {})
    BY Counted, FS_EmptySet DEF Accounting, With
  <2>3. QED
    BY <2>1, <2>2
<1>2. QED
  BY <1>1, AccountingInvariant, PTL

-----------------------------------------------------------------------------
(* Wake-ups *)

LEMMA PolledInto ==
  ASSUME NEW n \in Nodes
  PROVE  Polled(n) \subseteq InEdges(n) /\ Polled(n) \subseteq Edges
         /\ \A e \in Polled(n) : Wire[e].dst = n /\ Wire[e].src \in Nodes
  BY WorkflowAssumption DEF Polled, InEdges

(* The end of a future wakes every receiver that polls one of its edges.   *)
LEMMA EndsWakes ==
  ASSUME Typed, NoMissedWake, NEW n \in Nodes, Ends(n)
  PROVE  NoMissedWake'
<1> SUFFICES ASSUME NEW m \in Nodes, stage'[m] = "recv", asleep'[m]
             PROVE  /\ \A e \in Polled(m)' : inflight'[e] = 0
                    /\ \E e \in Polled(m)' : ~SenderGone(e)'
  BY DEF NoMissedWake
<1>1. PICK q \in Outcomes : Collect(n, q) /\ UNCHANGED <<at, inflight>>
  BY DEF Ends
<1>2. stage \in [Nodes -> Live \cup Over]
  BY DEF Typed
<1>3. stage' = [stage EXCEPT ![n] = "done"]
  BY <1>1 DEF Collect
<1>4. m # n /\ stage[m] = "recv"
  BY <1>2, <1>3
<1>5. asleep[m] /\ ~ \E e \in OutEdges(n) : Wire[e].dst = m /\ e \in Polled(m)
  BY <1>1 DEF Collect, Woken
<1>6. Polled(m)' = Polled(m)
  BY <1>1 DEF Polled
<1>7. (\A e \in Polled(m) : inflight[e] = 0) /\ \E e \in Polled(m) : ~SenderGone(e)
  BY <1>4, <1>5 DEF NoMissedWake
<1>8. ASSUME NEW e \in Polled(m), ~SenderGone(e) PROVE ~SenderGone(e)'
  <2>1. e \in Edges /\ Wire[e].dst = m /\ Wire[e].src \in Nodes
    BY PolledInto
  <2>2. Wire[e].src # n
    BY <1>5, <2>1 DEF OutEdges
  <2>3. QED
    BY <1>2, <1>3, <1>8, <2>1, <2>2 DEF SenderGone
<1>9. QED
  BY <1>1, <1>6, <1>7, <1>8

(* What a step that keeps the future of n pending may do to a sleeper.     *)
LEMMA MovesGently ==
  ASSUME Typed, Futures, NEW n \in Nodes, NodeStep(n), Moves(n)
  PROVE  /\ asleep'[n] => RecvPending(n)
         /\ \A m \in Nodes \ {n} : at'[m] = at[m]
         /\ \A m \in Nodes \ {n} : asleep'[m] =>
              \A e \in Polled(m) : inflight[e] = 0 => inflight'[e] = 0
<1> USE DEF nodeVars, runVars
<1>a. /\ asleep \in [Nodes -> BOOLEAN]
      /\ at \in [Nodes -> Nat \ {0}]
      /\ inflight \in [Edges -> Nat]
      /\ stage \in [Nodes -> Live \cup Over]
      /\ asleep[n] => stage[n] \in {"recv", "dropped"}
  BY DEF Typed, Futures
<1>c. ASSUME NEW q, Collect(n, q) PROVE FALSE
  <2>1. stage'[n] = "done"
    BY <1>a, <1>c DEF Collect
  <2>2. QED
    BY <1>a, <2>1 DEF Moves, Live
<1>f. ASSUME NEW q, Finish(n, q) PROVE FALSE
  BY <1>c, <1>f DEF Finish
<1> DEFINE Still == /\ ~asleep[n] /\ UNCHANGED <<asleep, inflight>>
                    /\ \A m \in Nodes \ {n} : at'[m] = at[m]
           Goal == /\ asleep'[n] => RecvPending(n)
                   /\ \A m \in Nodes \ {n} : at'[m] = at[m]
                   /\ \A m \in Nodes \ {n} : asleep'[m] =>
                        \A e \in Polled(m) : inflight[e] = 0 => inflight'[e] = 0
<1>s. Still => Goal
  OBVIOUS
<1>1. CASE StartNode(n)
  BY <1>1, <1>a, <1>s DEF StartNode
<1>2. CASE RecvPacket(n)
  <2> DEFINE full == {e \in Polled(n) : inflight[e] > 0}
  <2>1. full # {} /\ inflight' = [inflight EXCEPT ![FirstOf(full)] = @ - 1]
    BY <1>2 DEF RecvPacket
  <2>2. full \subseteq Edges
    BY PolledInto
  <2>3. FirstOf(full) \in full
    <3> HIDE DEF full
    <3> QED
      BY <2>1, <2>2, FirstOfIsIn
  <2>4. Wire[FirstOf(full)].dst = n
    BY <2>3, PolledInto
  <2>5. ASSUME NEW m \in Nodes \ {n}, NEW e \in Polled(m) PROVE inflight'[e] = inflight[e]
    <3>1. e \in Edges /\ e # FirstOf(full)
      BY <2>4, PolledInto
    <3> HIDE DEF full
    <3>2. QED
      BY <1>a, <2>1, <3>1
  <2>6. ~asleep[n] /\ UNCHANGED <<asleep, at>>
    BY <1>2 DEF RecvPacket, Awake
  <2>7. QED
    BY <2>5, <2>6
<1>3. CASE RecvPending(n)
  BY <1>3 DEF RecvPending
<1>4. CASE NextInput(n)
  <2>1. Still
    BY <1>4, <1>a DEF NextInput, InputEnded, Awake
  <2>2. QED
    BY <1>s, <2>1
<1>5. CASE Invoke(n)
  BY <1>5, <1>s DEF Invoke, InputEnded, Awake
<1>6. CASE RuleRoutes(n)
  <2>1. Still
    BY <1>6, <1>a DEF RuleRoutes
  <2>2. QED
    BY <1>s, <2>1
<1>7. CASE RuleDrops(n)
  <2>1. ~cancelled
    BY <1>7, <1>f DEF RuleDrops
  <2>2. Still
    BY <1>7, <1>a, <2>1 DEF RuleDrops
  <2>3. QED
    BY <1>s, <2>2
<1>8. CASE Send(n)
  <2> DEFINE S == PortEdges(n, SendPort(n))
  <2>1. /\ inflight' = [e \in Edges |-> IF e \in S THEN inflight[e] + 1 ELSE inflight[e]]
        /\ asleep' = Woken(S)
        /\ stage[n] = "send"
    BY <1>8 DEF Send, Sending
  <2>2. \A m \in Nodes \ {n} : at'[m] = at[m]
    BY <1>8, <1>a DEF Send
  <2> HIDE DEF S
  <2>3. ~asleep[n] /\ ~asleep'[n]
    BY <1>a, <2>1 DEF Woken
  <2>4. ASSUME NEW m \in Nodes \ {n}, asleep'[m], NEW e \in Polled(m)
        PROVE  inflight'[e] = inflight[e]
    <3>1. e \in Edges /\ Wire[e].dst = m
      BY PolledInto
    <3>2. e \notin S
      BY <2>1, <2>4, <3>1 DEF Woken
    <3>3. QED
      BY <2>1, <3>1, <3>2
  <2>5. QED
    BY <2>2, <2>3, <2>4
<1>9. CASE SendYields(n)
  <2>1. Still
    BY <1>9, <1>a DEF SendYields, Sending
  <2>2. QED
    BY <1>s, <2>1
<1>10. QED
  BY <1>c, <1>f, <1>1, <1>2, <1>3, <1>4, <1>5, <1>6, <1>7, <1>8, <1>9
     DEF NodeStep, StartNodeFails, RecvCancelled, InvokeFails, RuleEnds, RuleHalts,
         SendRejected, SendCancelled, SendDisconnected, SendDone

LEMMA MovesWakes ==
  ASSUME Typed, Futures, NoMissedWake, NEW n \in Nodes, NodeStep(n), Moves(n)
  PROVE  NoMissedWake'
<1> SUFFICES ASSUME NEW m \in Nodes, stage'[m] = "recv", asleep'[m]
             PROVE  /\ \A e \in Polled(m)' : inflight'[e] = 0
                    /\ \E e \in Polled(m)' : ~SenderGone(e)'
  BY DEF NoMissedWake
<1>1. stage \in [Nodes -> Live \cup Over]
  BY DEF Typed
<1>2. stage[n] \in Live /\ \E s \in Live : stage' = [stage EXCEPT ![n] = s]
  BY DEF Moves
<1>3. ASSUME NEW e \in Edges PROVE SenderGone(e)' <=> SenderGone(e)
  <2>1. Wire[e].src \in Nodes
    BY WorkflowAssumption
  <2>2. QED
    BY <1>1, <1>2, <2>1 DEF SenderGone, Live, Over
<1>4. CASE m = n
  <2>1. RecvPending(n)
    BY <1>4, MovesGently
  <2>2. Polled(n)' = Polled(n) /\ inflight' = inflight
    BY <2>1 DEF RecvPending, Polled
  <2>3. QED
    BY <1>3, <1>4, <2>1, <2>2, PolledInto DEF RecvPending
<1>5. CASE m # n
  <2>1. at'[m] = at[m] /\ \A e \in Polled(m) : inflight[e] = 0 => inflight'[e] = 0
    BY <1>5, MovesGently
  <2>2. Polled(m)' = Polled(m)
    BY <2>1 DEF Polled
  <2>3. stage[m] = "recv" /\ asleep[m]
    BY <1>1, <1>2, <1>5 DEF Moves
  <2>4. QED
    BY <1>3, <2>1, <2>2, <2>3, PolledInto DEF NoMissedWake
<1>6. QED
  BY <1>4, <1>5

LEMMA WakeStep == Typed /\ Futures /\ NoMissedWake /\ [Next]_vars => NoMissedWake'
<1> SUFFICES ASSUME Typed, Futures, NoMissedWake, [Next]_vars PROVE NoMissedWake'
  OBVIOUS
<1> USE DEF nodeVars, runVars
<1>0. \A m \in Nodes : UNCHANGED at => UNCHANGED Polled(m)
  BY DEF Polled
<1>00. \A e \in Edges : UNCHANGED stage => UNCHANGED SenderGone(e)
  BY DEF SenderGone
<1>u. UNCHANGED <<at, stage, asleep, inflight>> => NoMissedWake'
  BY <1>0, <1>00, PolledInto DEF NoMissedWake
<1>1. CASE StartRun
  BY <1>u, <1>1 DEF StartRun
<1>2. CASE RejectRun
  BY <1>2 DEF RejectRun, NoMissedWake
<1>3. ASSUME NEW n \in Nodes, NodeStep(n) PROVE NoMissedWake'
  BY <1>3, NodeStepShape, EndsWakes, MovesWakes
<1>4. CASE FinishRun
  BY <1>u, <1>4 DEF FinishRun
<1>5. CASE WatchdogFires
  <2>1. stage' = [n \in Nodes |-> IF stage[n] = "done" THEN "done" ELSE "dropped"]
    BY <1>5 DEF WatchdogFires
  <2>2. QED
    BY <2>1 DEF NoMissedWake
<1>6. CASE UNCHANGED vars
  BY <1>u, <1>6 DEF vars
<1>7. QED
  BY <1>1, <1>2, <1>3, <1>4, <1>5, <1>6 DEF Next

(* A node asleep in recv has nothing to receive: every send and every end  *)
(* of a sender wakes the receivers that poll its edges, and nothing that   *)
(* happens to other nodes lets a sleeper miss a packet or an end of input. *)
THEOREM NoWakeIsLost == Spec => []NoMissedWake
<1>1. Init => NoMissedWake
  BY DEF Init, NoMissedWake
<1>2. Accounting /\ NoMissedWake /\ [Next]_vars => NoMissedWake'
  BY WakeStep DEF Accounting
<1>3. QED
  BY <1>1, <1>2, AccountingInvariant, PTL DEF Spec

-----------------------------------------------------------------------------
(* Delivery *)

(* Nothing is queued on e and nothing can be queued on it any more.        *)
Exhausted(e) == inflight[e] = 0 /\ SenderGone(e)

(* A rule node declares IN_PORT, the one port that it receives from.       *)
RulesReadTheirInput == \A n \in Nodes : Kind[n] = "rule" => Inputs[n] = 1

(* A future that is past an input has exhausted it.                        *)
Delivery ==
  /\ \A n \in Nodes : result[n] = "ok" =>
       /\ events[n] = {"started", "completed"}
       /\ \A e \in InEdges(n) : Exhausted(e)
  /\ \A n \in Nodes : Kind[n] # "rule" /\ stage[n] = "send" =>
       \A e \in InEdges(n) : Exhausted(e)
  /\ \A n \in Nodes : Kind[n] = "native" /\ stage[n] = "recv" =>
       \A e \in InEdges(n) : Wire[e].in < at[n] => Exhausted(e)
  /\ \A n \in Nodes : stage[n] = "unstarted" => at[n] = 1
  /\ \A n \in Nodes : Kind[n] = "rule" /\ stage[n] \in {"recv", "packet"} => at[n] = 1

(* An exhausted edge stays exhausted: only its sender puts packets on it.  *)
LEMMA ExhaustedStays ==
  ASSUME Typed, Futures, NEW n \in Nodes, NodeStep(n), NEW e \in Edges, Exhausted(e)
  PROVE  Exhausted(e)'
<1> USE DEF nodeVars, runVars
<1>0. /\ stage \in [Nodes -> Live \cup Over]
      /\ inflight \in [Edges -> Nat]
      /\ inflight[e] = 0
      /\ Wire[e].src \in Nodes
      /\ stage[Wire[e].src] = "done"
  BY WorkflowAssumption DEF Typed, Exhausted, SenderGone, Over, Futures, Going, NodeStep
<1>1. stage[n] \in Live /\ Wire[e].src # n
  BY <1>0, NodeStepShape DEF Ends, Moves, Live
<1>2. SenderGone(e)'
  <2>1. CASE Ends(n)
    BY <1>0, <1>1, <2>1 DEF Ends, Collect, SenderGone, Over
  <2>2. CASE Moves(n)
    BY <1>0, <1>1, <2>2 DEF Moves, SenderGone, Over
  <2>3. QED
    BY <2>1, <2>2, NodeStepShape
<1>3. inflight'[e] = 0
  <2>1. CASE RecvPacket(n)
    <3> DEFINE full == {f \in Polled(n) : inflight[f] > 0}
    <3>1. full # {} /\ inflight' = [inflight EXCEPT ![FirstOf(full)] = @ - 1]
      BY <2>1 DEF RecvPacket
    <3>2. full \subseteq Edges
      BY PolledInto
    <3>3. FirstOf(full) \in full
      <4> HIDE DEF full
      <4> QED
        BY <3>1, <3>2, FirstOfIsIn
    <3>4. e # FirstOf(full)
      BY <1>0, <3>3
    <3> HIDE DEF full
    <3>5. QED
      BY <1>0, <3>1, <3>4
  <2>2. CASE Send(n)
    <3>1. e \notin PortEdges(n, SendPort(n))
      BY <1>1 DEF PortEdges, OutEdges
    <3>2. QED
      BY <1>0, <2>2, <3>1 DEF Send
  <2>3. QED
    BY <1>0, <2>1, <2>2 DEF NodeStep, StartNode, StartNodeFails, RecvCancelled,
       RecvPending, NextInput, Invoke, InvokeFails, RuleEnds, RuleRoutes,
       RuleDrops, RuleHalts, SendYields, SendRejected, SendCancelled,
       SendDisconnected, SendDone
<1>4. QED
  BY <1>2, <1>3 DEF Exhausted

(* A future returns success only when all its inputs are exhausted.        *)
LEMMA SuccessDrained ==
  ASSUME RulesReadTheirInput, Typed, Delivery, NEW n \in Nodes,
         RuleEnds(n) \/ SendDone(n)
  PROVE  \A e \in InEdges(n) : Exhausted(e)
<1>1. CASE RuleEnds(n)
  <2>1. Kind[n] = "rule" /\ stage[n] = "recv" /\ \A e \in Polled(n) : Exhausted(e)
    BY <1>1 DEF RuleEnds, InputEnded, Awake, Exhausted
  <2>2. at[n] = 1 /\ Inputs[n] = 1
    BY <2>1 DEF Delivery, RulesReadTheirInput
  <2>3. \A e \in InEdges(n) : Wire[e].in \in 1 .. Inputs[n]
    BY WorkflowAssumption DEF InEdges
  <2>4. QED
    BY <2>1, <2>2, <2>3 DEF Polled
<1>2. CASE SendDone(n)
  <2>1. stage[n] = "send" /\ SendPort(n) = 0
    BY <1>2 DEF SendDone
  <2>2. at[n] # 0
    BY DEF Typed
  <2>3. Kind[n] # "rule"
    BY <2>1, <2>2 DEF SendPort
  <2>4. QED
    BY <2>1, <2>3 DEF Delivery
<1>3. QED
  BY <1>1, <1>2

LEMMA EndsDelivers ==
  ASSUME RulesReadTheirInput, Typed, Futures, Delivery,
         NEW n \in Nodes, NodeStep(n), Ends(n)
  PROVE  Delivery'
<1>0. /\ stage \in [Nodes -> Live \cup Over]
      /\ result \in [Nodes -> {"none"} \cup Outcomes]
      /\ events \in [Nodes -> SUBSET {"started", "completed", "failed", "cancelled"}]
  BY DEF Typed
<1>1. PICK q \in Outcomes, seen \in SUBSET {"started", "completed", "failed", "cancelled"} :
        /\ Collect(n, q)
        /\ events' = [events EXCEPT ![n] = seen]
        /\ UNCHANGED at
        /\ q = "ok" => /\ seen = {"started", "completed"}
                       /\ RuleEnds(n) \/ SendDone(n)
  BY DEF Ends
<1>2. result' = [result EXCEPT ![n] = q]
  BY <1>1 DEF Collect
<1>3. stage'[n] = "done" /\ \A m \in Nodes \ {n} : stage'[m] \in {stage[m], "done", "dropped"}
  BY <1>0, <1>1 DEF Collect
<1>4. \A m \in Nodes : \A e \in InEdges(m) : Exhausted(e) => Exhausted(e)'
  BY ExhaustedStays DEF InEdges
<1>5. ASSUME NEW m \in Nodes, result'[m] = "ok"
      PROVE  events'[m] = {"started", "completed"} /\ \A e \in InEdges(m) : Exhausted(e)'
  <2>1. CASE m = n
    <3>1. q = "ok"
      BY <1>0, <1>2, <1>5, <2>1
    <3>2. \A e \in InEdges(n) : Exhausted(e)
      BY <1>1, <3>1, SuccessDrained
    <3>3. QED
      BY <1>0, <1>1, <1>4, <2>1, <3>1, <3>2
  <2>2. CASE m # n
    <3>1. result[m] = "ok" /\ events'[m] = events[m]
      BY <1>0, <1>1, <1>2, <1>5, <2>2
    <3>2. QED
      BY <1>4, <3>1 DEF Delivery
  <2>3. QED
    BY <2>1, <2>2
<1>6. \A m \in Nodes : InEdges(m)' = InEdges(m)
  BY DEF InEdges
<1>7. \A m \in Nodes : stage'[m] \in Live => m # n /\ stage'[m] = stage[m]
  BY <1>3 DEF Live
<1>8. QED
  BY <1>1, <1>4, <1>5, <1>6, <1>7 DEF Delivery, Live

LEMMA MovesDelivers ==
  ASSUME Typed, Futures, Delivery, NEW n \in Nodes, NodeStep(n), Moves(n)
  PROVE  Delivery'
<1> USE DEF nodeVars, runVars
<1>0. /\ stage \in [Nodes -> Live \cup Over]
      /\ at \in [Nodes -> Nat \ {0}]
      /\ events \in [Nodes -> SUBSET {"started", "completed", "failed", "cancelled"}]
      /\ stage[n] = "packet" => Kind[n] = "rule"
      /\ stage[n] # "done"
  BY DEF Typed, Futures, Moves, Live
<1>1. \A m \in Nodes : \A e \in InEdges(m) : Exhausted(e) => Exhausted(e)'
  BY ExhaustedStays DEF InEdges
<1>2. \A m \in Nodes : \A e \in InEdges(m) : Wire[e].in \in Nat \ {0} /\ Wire[e].in <= Inputs[m]
  <2>1. \A m \in Nodes : Inputs[m] \in Nat /\ \A e \in InEdges(m) : Wire[e].in \in 1 .. Inputs[m]
    BY WorkflowAssumption DEF InEdges
  <2>2. QED
    BY <2>1
<1>3. \A m \in Nodes \ {n} : stage'[m] = stage[m] /\ at'[m] = at[m] /\ events'[m] = events[m]
  BY <1>0, MovesGently DEF Moves
<1>4. /\ UNCHANGED result
      /\ result[n] # "ok"
      /\ stage'[n] \in Live \ {"unstarted"}
  BY <1>0 DEF Moves, Futures
<1> DEFINE Past == /\ Kind[n] # "rule" /\ stage'[n] = "send" =>
                        \A e \in InEdges(n) : Exhausted(e)
                   /\ Kind[n] = "native" /\ stage'[n] = "recv" =>
                        \A e \in InEdges(n) : Wire[e].in < at'[n] => Exhausted(e)
                   /\ Kind[n] = "rule" /\ stage'[n] \in {"recv", "packet"} => at'[n] = 1
<1>c. ASSUME NEW q, Collect(n, q) PROVE FALSE
  <2>1. stage'[n] = "done"
    BY <1>0, <1>c DEF Collect
  <2>2. QED
    BY <1>4, <2>1 DEF Live
<1>f. ASSUME NEW q, Finish(n, q) PROVE FALSE
  BY <1>c, <1>f DEF Finish
<1>p. ASSUME InputEnded(n)
      PROVE  stage[n] = "recv" /\ \A e \in Polled(n) : Exhausted(e)
  BY <1>p DEF InputEnded, Awake, Exhausted
<1>5. Past
  <2>1. CASE StartNode(n)
    <3>1. stage[n] = "unstarted" /\ stage'[n] = "recv" /\ at'[n] = 1
      BY <1>0, <2>1 DEF StartNode, Delivery
    <3>2. QED
      BY <1>2, <3>1
  <2>2. CASE RecvPacket(n)
    <3>1. stage[n] = "recv" /\ UNCHANGED at /\ stage'[n] = IF Kind[n] = "rule" THEN "packet" ELSE "recv"
      BY <1>0, <2>2 DEF RecvPacket, Awake
    <3>2. QED
      BY <3>1 DEF Delivery
  <2>3. CASE RecvPending(n)
    <3>1. stage[n] = "recv" /\ UNCHANGED <<at, stage>>
      BY <2>3 DEF RecvPending, Awake
    <3>2. QED
      BY <3>1 DEF Delivery
  <2>4. CASE NextInput(n)
    <3>1. Kind[n] = "native" /\ stage[n] = "recv" /\ \A e \in Polled(n) : Exhausted(e)
      BY <1>p, <2>4 DEF NextInput
    <3>2. \A e \in InEdges(n) : Wire[e].in <= at[n] => Exhausted(e)
      <4>1. \A e \in InEdges(n) : Wire[e].in < at[n] => Exhausted(e)
        BY <3>1 DEF Delivery
      <4>2. \A e \in InEdges(n) : Wire[e].in = at[n] => Exhausted(e)
        BY <3>1 DEF Polled
      <4>3. QED
        BY <1>0, <1>2, <4>1, <4>2
    <3>3. CASE at[n] < Inputs[n]
      <4>1. stage' = stage /\ at'[n] = at[n] + 1
        BY <1>0, <2>4, <3>3 DEF NextInput
      <4>2. QED
        BY <1>0, <1>2, <3>1, <3>2, <4>1
    <3>4. CASE ~(at[n] < Inputs[n])
      <4>1. stage'[n] = "send"
        BY <1>0, <2>4, <3>4 DEF NextInput
      <4>2. \A e \in InEdges(n) : Exhausted(e)
        <5>1. Inputs[n] \in Nat
          BY WorkflowAssumption
        <5>2. \A e \in InEdges(n) : Wire[e].in <= at[n]
          BY <1>0, <1>2, <3>4, <5>1
        <5>3. QED
          BY <3>2, <5>2
      <4>3. QED
        BY <4>1, <4>2
    <3>5. QED
      BY <3>3, <3>4
  <2>5. CASE Invoke(n)
    <3>1. Kind[n] = "batch" /\ stage'[n] = "send"
      BY <1>0, <2>5 DEF Invoke
    <3>2. \A e \in Polled(n) : Exhausted(e)
      BY <1>p, <2>5 DEF Invoke
    <3>3. QED
      BY <3>1, <3>2 DEF Polled
  <2>6. CASE RuleRoutes(n)
    <3>1. Kind[n] = "rule" /\ stage'[n] = "send"
      BY <1>0, <2>6 DEF RuleRoutes
    <3>2. QED
      BY <3>1
  <2>7. CASE RuleDrops(n)
    <3>1. ~cancelled
      BY <1>f, <2>7 DEF RuleDrops
    <3>2. stage[n] = "packet" /\ Kind[n] = "rule" /\ UNCHANGED at
      BY <1>0, <2>7, <3>1 DEF RuleDrops
    <3>3. QED
      BY <3>2 DEF Delivery
  <2>8. CASE Send(n)
    <3>1. stage[n] = "send"
      BY <2>8 DEF Send, Sending
    <3>2. CASE Kind[n] = "rule"
      BY <1>0, <2>8, <3>2 DEF Send
    <3>3. CASE Kind[n] # "rule"
      <4>1. UNCHANGED stage
        BY <2>8, <3>3 DEF Send
      <4>2. QED
        BY <3>1, <3>3, <4>1 DEF Delivery
    <3>4. QED
      BY <3>2, <3>3
  <2>9. CASE SendYields(n)
    <3>1. stage[n] = "send" /\ UNCHANGED stage
      BY <2>9 DEF SendYields, Sending
    <3>2. QED
      BY <3>1 DEF Delivery
  <2>10. QED
    BY <1>c, <1>f, <2>1, <2>2, <2>3, <2>4, <2>5, <2>6, <2>7, <2>8, <2>9
       DEF NodeStep, StartNodeFails, RecvCancelled, InvokeFails, RuleEnds, RuleHalts,
           SendRejected, SendCancelled, SendDisconnected, SendDone
<1>6. \A m \in Nodes : InEdges(m)' = InEdges(m)
  BY DEF InEdges
<1>7. (\A m \in Nodes : result[m] = "ok" =>
         /\ events[m] = {"started", "completed"}
         /\ \A e \in InEdges(m) : Exhausted(e))'
  BY <1>1, <1>3, <1>4, <1>6 DEF Delivery
<1>8. (\A m \in Nodes : Kind[m] # "rule" /\ stage[m] = "send" =>
         \A e \in InEdges(m) : Exhausted(e))'
  BY <1>1, <1>3, <1>5, <1>6 DEF Delivery
<1>9. (\A m \in Nodes : Kind[m] = "native" /\ stage[m] = "recv" =>
         \A e \in InEdges(m) : Wire[e].in < at[m] => Exhausted(e))'
  BY <1>1, <1>3, <1>5, <1>6 DEF Delivery
<1>10. (\A m \in Nodes : stage[m] = "unstarted" => at[m] = 1)'
  BY <1>3, <1>4 DEF Delivery
<1>11. (\A m \in Nodes : Kind[m] = "rule" /\ stage[m] \in {"recv", "packet"} => at[m] = 1)'
  BY <1>3, <1>5 DEF Delivery
<1>12. QED
  BY <1>7, <1>8, <1>9, <1>10, <1>11 DEF Delivery

LEMMA DeliveryStep ==
  ASSUME RulesReadTheirInput
  PROVE  Typed /\ Futures /\ Delivery /\ [Next]_vars => Delivery'
<1> SUFFICES ASSUME Typed, Futures, Delivery, [Next]_vars PROVE Delivery'
  OBVIOUS
<1> USE DEF nodeVars, runVars
<1>0. \A e : UNCHANGED <<stage, inflight>> => UNCHANGED Exhausted(e)
  BY DEF Exhausted, SenderGone
<1>00. \A m \in Nodes : InEdges(m)' = InEdges(m)
  BY DEF InEdges
<1>u. UNCHANGED <<at, stage, result, events, inflight>> => Delivery'
  BY <1>0, <1>00 DEF Delivery
<1>1. CASE StartRun
  BY <1>u, <1>1 DEF StartRun
<1>2. CASE RejectRun
  <2>1. \A m \in Nodes : result'[m] # "ok" /\ stage'[m] = "dropped"
    BY <1>2 DEF RejectRun, Futures
  <2>2. QED
    BY <2>1 DEF Delivery
<1>3. ASSUME NEW n \in Nodes, NodeStep(n) PROVE Delivery'
  BY <1>3, NodeStepShape, EndsDelivers, MovesDelivers
<1>4. CASE FinishRun
  BY <1>u, <1>4 DEF FinishRun
<1>5. CASE WatchdogFires
  <2>1. /\ stage' = [n \in Nodes |-> IF stage[n] = "done" THEN "done" ELSE "dropped"]
        /\ UNCHANGED <<result, events, inflight>>
    BY <1>5 DEF WatchdogFires
  <2>2. \A e \in Edges : Exhausted(e) => Exhausted(e)'
    BY <2>1, WorkflowAssumption DEF Exhausted, SenderGone, Over
  <2>3. \A m \in Nodes : InEdges(m) \subseteq Edges
    BY DEF InEdges
  <2>4. (\A m \in Nodes : result[m] = "ok" =>
           /\ events[m] = {"started", "completed"}
           /\ \A e \in InEdges(m) : Exhausted(e))'
    BY <1>00, <2>1, <2>2, <2>3 DEF Delivery
  <2>5. \A m \in Nodes : stage'[m] \in {"done", "dropped"}
    BY <2>1
  <2>6. QED
    BY <2>4, <2>5 DEF Delivery
<1>6. CASE UNCHANGED vars
  BY <1>u, <1>6 DEF vars
<1>7. QED
  BY <1>1, <1>2, <1>3, <1>4, <1>5, <1>6 DEF Next

(* A run that reports success has delivered everything: no packet is left  *)
(* on an edge and the metadata shows each node started and completed, also *)
(* when observers can fail.  The hypothesis is needed: a rule node with a  *)
(* second wired input would never read it.                                 *)
THEOREM SuccessMeansDelivered ==
  ASSUME RulesReadTheirInput
  PROVE  Spec => []CompletedMeansDelivered
<1>1. Init => Delivery
  <2> SUFFICES ASSUME Init PROVE Delivery
    OBVIOUS
  <2>1. \A n \in Nodes : result[n] = "none" /\ stage[n] = "unstarted" /\ at[n] = 1
    BY DEF Init
  <2>2. QED
    BY <2>1 DEF Delivery
<1>2. Accounting /\ Delivery /\ [Next]_vars => Delivery'
  BY DeliveryStep DEF Accounting
<1>3. Accounting /\ Delivery => CompletedMeansDelivered
  <2> SUFFICES ASSUME Accounting, Delivery, phase = "finished",
                      IF setup.entry.answer = "result" THEN IntoResult = "ok"
                                                       ELSE summary.terminal = "completed"
               PROVE  /\ \A e \in Edges : inflight[e] = 0
                      /\ \A n \in Nodes : events[n] = {"started", "completed"}
    BY DEF CompletedMeansDelivered
  <2>1. summary.first = "none"
    BY DEF IntoResult, Accounting, Verdict
  <2>2. \A n \in Nodes : result[n] = "ok"
    BY <2>1 DEF Accounting, Verdict
  <2>3. ASSUME NEW e \in Edges PROVE inflight[e] = 0
    <3>1. Wire[e].dst \in Nodes /\ e \in InEdges(Wire[e].dst)
      BY WorkflowAssumption DEF InEdges
    <3>2. QED
      BY <2>2, <3>1 DEF Delivery, Exhausted
  <2>4. QED
    BY <2>2, <2>3 DEF Delivery
<1>4. QED
  BY <1>1, <1>2, <1>3, AccountingInvariant, PTL DEF Spec
=============================================================================
