----------------------------- MODULE PortsProofs -----------------------------
(***************************************************************************)
(* Proofs about Ports for any number of writers, readers and edges and for *)
(* any wiring and capacities.                                              *)
(*                                                                         *)
(* None of the safety properties is inductive as stated: each depends on   *)
(* what the locals of a call (permits acquired so far, permits committed   *)
(* so far, receivers polled so far) can be at each point of the call.      *)
(* Shape says that; every other invariant is proved on top of it.  The     *)
(* first part is about capacity and permits, the second about what is      *)
(* delivered: the end of input is honest, metadata is in causal order,     *)
(* fan-out is all or nothing, each edge keeps the order of a writer's      *)
(* packets, and altogether the handles implement the indivisible broadcast *)
(* of FanoutBus.                                                           *)
(***************************************************************************)
EXTENDS PortsBus, FiniteSetTheorems, TLAPS

(* The locals of reserve and send at each point of the call.               *)
WriterShape ==
  \A w \in Writers :
    /\ pc[w] \in {"idle", "checking", "dropped"} => held[w] = 0
    /\ pc[w] # "committing" => released[w] = 0
    /\ pc[w] \in {"held", "committing"} => held[w] = Len(Fanout[w])
    /\ pc[w] = "committing" => released[w] < held[w]
    /\ pc[w] \notin {"idle", "dropped"} => seqno[w] > 0

(* The locals of a poll start afresh on every poll.                        *)
ReaderShape ==
  \A r \in Readers : rpc[r] # "polling" => pos[r] = 1 /\ nclosed[r] = 0

Shape == TypeOK /\ WriterShape /\ ReaderShape

(* What the proofs use of the wiring most often.                           *)
LEMMA Sizes ==
  /\ \A w \in Writers : Len(Fanout[w]) \in Nat
  /\ \A r \in Readers : Len(Fanin[r]) \in Nat
  /\ MaxPackets \in Nat
BY PortsAssumption

LEMMA InitShape == Init => Shape
<1> SUFFICES ASSUME Init
             PROVE  Shape
  OBVIOUS
<1>1. TypeOK
  <2>1. committed \in [Edges -> Seq(Packets)] /\ \A e \in Edges : taken[e] <= Len(committed[e])
    BY DEF Init
  <2>2. /\ taken \in [Edges -> Nat]
        /\ rxLive \in [Edges -> BOOLEAN]
        /\ permits \in [Edges -> SUBSET Writers]
        /\ enqueued \subseteq Packets /\ dequeued \subseteq Packets
    BY DEF Init
  <2>3. /\ held \in [Writers -> Nat]
        /\ released \in [Writers -> Nat]
        /\ seqno \in [Writers -> 0..MaxPackets]
        /\ \A w \in Writers : released[w] <= held[w] /\ held[w] <= Len(Fanout[w])
    BY Sizes DEF Init
  <2>4. /\ pos \in [Readers -> Nat]
        /\ nclosed \in [Readers -> Nat]
        /\ \A r \in Readers : nclosed[r] < pos[r] /\ pos[r] <= Len(Fanin[r]) + 1
    BY Sizes DEF Init
  <2>5. QED
    BY <2>1, <2>2, <2>3, <2>4 DEF Init, TypeOK
<1>2. WriterShape /\ ReaderShape
  BY DEF Init, WriterShape, ReaderShape
<1>3. QED
  BY <1>1, <1>2 DEF Shape

(* An index of a fan-out or fan-in names an edge.                          *)
LEMMA FanoutEdge ==
  ASSUME NEW w \in Writers, NEW i \in 1..Len(Fanout[w])
  PROVE  Fanout[w][i] \in Edges
BY PortsAssumption

LEMMA FaninEdge ==
  ASSUME NEW r \in Readers, NEW i \in 1..Len(Fanin[r])
  PROVE  Fanin[r][i] \in Edges
BY PortsAssumption

LEMMA FanoutInjective ==
  ASSUME NEW w \in Writers, NEW i \in 1..Len(Fanout[w]), NEW j \in 1..Len(Fanout[w]),
         Fanout[w][i] = Fanout[w][j]
  PROVE  i = j
<1>1. DOMAIN Fanout[w] = 1..Len(Fanout[w])
  BY PortsAssumption
<1>2. Injective(Fanout[w])
  BY PortsAssumption
<1>3. QED
  BY <1>1, <1>2 DEF Injective

LEMMA CurrentPacket ==
  ASSUME Shape, NEW w \in Writers, pc[w] \notin {"idle", "dropped"}
  PROVE  Current(w) \in Packets
BY PortsAssumption DEF Shape, TypeOK, WriterShape, Current, Packets

LEMMA WriterStepShape ==
  ASSUME Shape, NEW w \in Writers, WriterNext(w)
  PROVE  Shape'
<1> USE Sizes DEF Shape, TypeOK, WriterShape, ReaderShape, edgeVars,
        writerVars, readerVars, recordVars
<1>1. CASE BeginReserve(w)
  BY <1>1 DEF BeginReserve
<1>2. CASE BeginTryReserve(w)
  BY <1>2 DEF BeginTryReserve
<1>3. CASE CheckCancelled(w)
  BY <1>3 DEF CheckCancelled
<1>4. CASE AcquirePermit(w)
  <2> held[w] + 1 \in 1..Len(Fanout[w])
    BY <1>4 DEF AcquirePermit
  <2>1. Fanout[w][held[w] + 1] \in Edges
    BY FanoutEdge
  <2>2. permits' \in [Edges -> SUBSET Writers]
    BY <1>4, <2>1 DEF AcquirePermit
  <2>3. QED
    BY <1>4, <2>2 DEF AcquirePermit
<1>5. CASE ReserveFull(w)
  BY <1>5 DEF ReserveFull, ReleasePermits
<1>6. CASE ReserveDisconnected(w)
  BY <1>6 DEF ReserveDisconnected, ReleasePermits
<1>7. CASE ReserveReady(w)
  BY <1>7 DEF ReserveReady
<1>8. CASE AbortPermit(w)
  BY <1>8 DEF AbortPermit, ReleasePermits
<1>9. CASE RecordSend(w)
  <2>1. Current(w) \in Packets
    BY <1>9, CurrentPacket DEF RecordSend
  <2>2. Fanout[w] # <<>> <=> Len(Fanout[w]) > 0
    BY PortsAssumption
  <2>3. TypeOK' /\ ReaderShape'
    <3>1. enqueued' \subseteq Packets
      BY <1>9, <2>1 DEF RecordSend
    <3>2. \/ pc' = [pc EXCEPT ![w] = "idle"]
          \/ pc' = [pc EXCEPT ![w] = "committing"]
      BY <1>9 DEF RecordSend
    <3>3. pc' \in [Writers -> {"idle", "checking", "reserving", "held",
                              "committing", "dropped"}]
      BY <3>2
    <3>4. QED
      BY <1>9, <3>1, <3>3 DEF RecordSend
  <2>4. WriterShape'
    <3>1. CASE Fanout[w] = <<>>
      BY <1>9, <2>2, <3>1 DEF RecordSend
    <3>2. CASE Fanout[w] # <<>>
      BY <1>9, <2>2, <3>2 DEF RecordSend
    <3>3. QED
      BY <3>1, <3>2
  <2>5. QED
    BY <2>3, <2>4
<1>10. CASE CommitPermit(w)
  <2>1. released[w] + 1 \in 1..Len(Fanout[w])
    BY <1>10 DEF CommitPermit
  <2>2. Fanout[w][released[w] + 1] \in Edges
    BY <2>1, FanoutEdge
  <2>3. Current(w) \in Packets
    BY <1>10, CurrentPacket DEF CommitPermit
  <2>4. committed' \in [Edges -> Seq(Packets)] /\ permits' \in [Edges -> SUBSET Writers]
    BY <1>10, <2>2, <2>3 DEF CommitPermit
  <2>5. \A e \in Edges : Len(committed'[e]) >= Len(committed[e])
    BY <1>10, <2>2, <2>3 DEF CommitPermit
  <2>6. \A e \in Edges : taken'[e] <= Len(committed'[e])
    BY <1>10, <2>4, <2>5 DEF CommitPermit
  <2>7. CASE released[w] + 1 = held[w]
    <3>1. /\ pc' = [pc EXCEPT ![w] = "idle"]
          /\ held' = [held EXCEPT ![w] = 0]
          /\ released' = [released EXCEPT ![w] = 0]
      BY <1>10, <2>7 DEF CommitPermit
    <3>2. QED
      BY <1>10, <2>4, <2>6, <3>1 DEF CommitPermit
  <2>8. CASE released[w] + 1 # held[w]
    <3>1. /\ released' = [released EXCEPT ![w] = released[w] + 1]
          /\ pc' = pc /\ held' = held
      BY <1>10, <2>8 DEF CommitPermit
    <3>2. /\ released' \in [Writers -> Nat]
          /\ \A v \in Writers : released'[v] <= held'[v]
      BY <1>10, <2>8, <3>1 DEF CommitPermit
    <3>3. TypeOK'
      BY <1>10, <2>4, <2>6, <3>1, <3>2 DEF CommitPermit
    <3>4. WriterShape'
      BY <1>10, <2>8, <3>1 DEF CommitPermit
    <3>5. QED
      BY <1>10, <3>3, <3>4 DEF CommitPermit
  <2>9. QED
    BY <2>7, <2>8
<1>11. CASE DropOutputs(w)
  BY <1>11 DEF DropOutputs
<1>12. QED
  BY <1>1, <1>2, <1>3, <1>4, <1>5, <1>6, <1>7, <1>8, <1>9, <1>10, <1>11
     DEF WriterNext, ReserveStep, PermitStep

LEMMA ReaderStepShape ==
  ASSUME Shape, NEW r \in Readers, ReaderNext(r)
  PROVE  Shape'
<1> USE Sizes DEF Shape, TypeOK, WriterShape, ReaderShape, edgeVars,
        writerVars, readerVars, recordVars
<1>1. CASE BeginRecv(r)
  BY <1>1 DEF BeginRecv
<1>2. CASE BeginTryRecv(r)
  BY <1>2 DEF BeginTryRecv
<1>3. CASE PollPacket(r)
  <2>1. Fanin[r][pos[r]] \in Edges
    BY <1>3, FaninEdge DEF PollPacket
  <2>2. taken' \in [Edges -> Nat] /\ \A e \in Edges : taken'[e] <= Len(committed'[e])
    BY <1>3, <2>1 DEF PollPacket, Queued
  <2>3. dequeued' \subseteq Packets
    BY <1>3, <2>1 DEF PollPacket, Queued
  <2>4. /\ pos' = [pos EXCEPT ![r] = 1] /\ nclosed' = [nclosed EXCEPT ![r] = 0]
        /\ rpc' = [rpc EXCEPT ![r] = "idle"]
        /\ UNCHANGED <<committed, rxLive, permits, writerVars, cancelled, enqueued>>
    BY <1>3 DEF PollPacket, ResetPoll
  <2>5. QED
    BY <2>2, <2>3, <2>4, SMTT(60)
<1>4. CASE PollNoPacket(r)
  BY <1>4 DEF PollNoPacket
<1>5. CASE PollEnd(r)
  BY <1>5 DEF PollEnd, ResetPoll
<1>6. CASE DropInputs(r)
  BY <1>6 DEF DropInputs
<1>7. QED
  BY <1>1, <1>2, <1>3, <1>4, <1>5, <1>6 DEF ReaderNext, PollStep

LEMMA StepShape == Shape /\ [Next]_vars => Shape'
<1> SUFFICES ASSUME Shape, [Next]_vars
             PROVE  Shape'
  OBVIOUS
<1>1. CASE Cancel
  BY <1>1 DEF Cancel, Shape, TypeOK, WriterShape, ReaderShape, edgeVars,
              writerVars, readerVars, recordVars
<1>2. CASE UNCHANGED vars
  BY <1>2 DEF vars, Shape, TypeOK, WriterShape, ReaderShape, edgeVars,
              writerVars, readerVars, recordVars
<1>3. QED
  BY <1>1, <1>2, WriterStepShape, ReaderStepShape DEF Next

(* Every call keeps its locals in range at every step: held permits,       *)
(* committed permits, poll position, count of disconnected receivers.      *)
THEOREM ShapeInvariant == Spec => []Shape
BY InitShape, StepShape, PTL DEF Spec

(* The state of the ports keeps its types and bounds for every wiring      *)
(* (TypeOK of the PortsLive run).                                          *)
THEOREM TypeCorrect == Spec => []TypeOK
<1>1. Shape => TypeOK
  BY DEF Shape
<1>2. QED
  BY <1>1, ShapeInvariant, PTL

-----------------------------------------------------------------------------
(* Reserved slots *)

(* The steps that change a permit or the locals that account for it; every *)
(* other step of a writer, a reader or the canceller leaves them alone.    *)
Releasing(w) == ReserveFull(w) \/ ReserveDisconnected(w) \/ AbortPermit(w)

LEMMA PermitSteps ==
  ASSUME [Next]_vars
  PROVE  \/ UNCHANGED <<permits, held, released>>
         \/ \E w \in Writers : AcquirePermit(w) \/ Releasing(w) \/ CommitPermit(w)
<1> USE DEF edgeVars, writerVars, readerVars, recordVars
<1>1. CASE UNCHANGED vars
  BY <1>1 DEF vars
<1>2. CASE Cancel
  BY <1>2 DEF Cancel
<1>3. ASSUME NEW r \in Readers, ReaderNext(r)
      PROVE  UNCHANGED <<permits, held, released>>
  BY <1>3 DEF ReaderNext, PollStep, BeginRecv, BeginTryRecv, PollPacket,
              PollNoPacket, PollEnd, DropInputs
<1>4. ASSUME NEW w \in Writers, WriterNext(w)
      PROVE  \/ UNCHANGED <<permits, held, released>>
             \/ AcquirePermit(w) \/ Releasing(w) \/ CommitPermit(w)
  BY <1>4 DEF WriterNext, ReserveStep, PermitStep, Releasing, BeginReserve,
              BeginTryReserve, CheckCancelled, ReserveReady, RecordSend, DropOutputs
<1>5. QED
  BY <1>1, <1>2, <1>3, <1>4 DEF Next

LEMMA PermitsStep ==
  ASSUME Shape, PermitsAccounted, [Next]_vars
  PROVE  PermitsAccounted'
<1> USE Sizes DEF Shape, TypeOK, WriterShape, PermitsAccounted
<1>1. CASE UNCHANGED <<permits, held, released>>
  BY <1>1
<1>2. ASSUME NEW w \in Writers, AcquirePermit(w)
      PROVE  PermitsAccounted'
  <2> DEFINE k == held[w] + 1
             e == Fanout[w][k]
  <2>1. k \in 1..Len(Fanout[w]) /\ released[w] = 0
    BY <1>2 DEF AcquirePermit
  <2>2. e \in Edges
    BY <2>1, FanoutEdge
  <2>3. /\ permits' = [permits EXCEPT ![e] = @ \cup {w}]
        /\ held' = [held EXCEPT ![w] = k]
        /\ released' = released
    BY <1>2 DEF AcquirePermit
  <2> HIDE DEF e
  <2>4. ASSUME NEW v \in Writers, NEW f \in Edges
        PROVE  (v \in permits[f])' <=> (\E i \in (released[v] + 1)..held[v] : Fanout[v][i] = f)'
    <3>1. CASE v # w
      BY <2>2, <2>3, <3>1
    <3>2. CASE v = w
      <4>1. (released[w] + 1)..held'[w] = ((released[w] + 1)..held[w]) \cup {k}
        BY <2>1, <2>3
      <4>2. w \in permits'[f] <=> w \in permits[f] \/ f = e
        BY <2>2, <2>3
      <4>3. QED
        BY <2>3, <3>2, <4>1, <4>2 DEF e
    <3>3. QED
      BY <3>1, <3>2
  <2>5. QED
    BY <2>4
<1>3. ASSUME NEW w \in Writers, Releasing(w)
      PROVE  PermitsAccounted'
  <2>1. /\ permits' = [f \in Edges |-> permits[f] \ {w}]
        /\ held' = [held EXCEPT ![w] = 0]
        /\ released' = released /\ released[w] = 0
    BY <1>3 DEF Releasing, ReserveFull, ReserveDisconnected, AbortPermit, ReleasePermits
  <2>2. QED
    BY <2>1
<1>4. ASSUME NEW w \in Writers, CommitPermit(w)
      PROVE  PermitsAccounted'
  <2> DEFINE k == released[w] + 1
             e == Fanout[w][k]
  <2>1. k \in 1..Len(Fanout[w]) /\ k <= held[w] /\ held[w] = Len(Fanout[w])
    BY <1>4 DEF CommitPermit
  <2>2. e \in Edges
    BY <2>1, FanoutEdge
  <2>3. permits' = [permits EXCEPT ![e] = @ \ {w}]
    BY <1>4 DEF CommitPermit
  <2>4. \/ /\ k = held[w]
           /\ held' = [held EXCEPT ![w] = 0]
           /\ released' = [released EXCEPT ![w] = 0]
        \/ /\ k # held[w]
           /\ held' = held
           /\ released' = [released EXCEPT ![w] = k]
    BY <1>4 DEF CommitPermit
  <2>5. \A i \in k..held[w] : Fanout[w][i] = e => i = k
    BY <2>1, FanoutInjective
  <2> HIDE DEF e
  <2>6. ASSUME NEW v \in Writers, NEW f \in Edges
        PROVE  (v \in permits[f])' <=> (\E i \in (released[v] + 1)..held[v] : Fanout[v][i] = f)'
    <3>1. CASE v # w
      <4>1. v \in permits'[f] <=> v \in permits[f]
        BY <2>2, <2>3, <3>1
      <4>2. released'[v] = released[v] /\ held'[v] = held[v]
        BY <2>4, <3>1
      <4>3. v \in permits[f] <=> \E i \in (released[v] + 1)..held[v] : Fanout[v][i] = f
        BY DEF PermitsAccounted
      <4>4. QED
        BY <4>1, <4>2, <4>3
    <3>2. CASE v = w
      <4>1. w \in permits'[f] <=> w \in permits[f] /\ f # e
        BY <2>2, <2>3
      <4>2. (released'[w] + 1)..held'[w] = (k..held[w]) \ {k}
        BY <2>1, <2>4
      <4>3. QED
        BY <2>1, <2>5, <3>2, <4>1, <4>2 DEF e
    <3>3. QED
      BY <3>1, <3>2
  <2>7. QED
    BY <2>6
<1>5. QED
  BY <1>1, <1>2, <1>3, <1>4, PermitSteps

(* The number of reserved slots of an edge, and of queued packets.         *)
LEMMA SlotCounts ==
  ASSUME Shape, NEW e \in Edges
  PROVE  /\ IsFiniteSet(permits[e])
         /\ Cardinality(permits[e]) \in Nat
         /\ Queued(e) \in Nat
         /\ Capacity[e] \in Nat
<1>1. IsFiniteSet(permits[e])
  BY PortsAssumption, FS_Subset DEF Shape, TypeOK
<1>2. Cardinality(permits[e]) \in Nat
  BY <1>1, FS_CardinalityType
<1>3. Queued(e) \in Nat
  BY DEF Shape, TypeOK, Queued
<1>4. QED
  BY <1>1, <1>2, <1>3, PortsAssumption

(* The steps that move packets.                                            *)
LEMMA QueueSteps ==
  ASSUME [Next]_vars
  PROVE  \/ UNCHANGED <<committed, taken>>
         \/ \E w \in Writers : CommitPermit(w)
         \/ \E r \in Readers : PollPacket(r)
<1> USE DEF edgeVars, writerVars, readerVars, recordVars
<1>1. CASE UNCHANGED vars
  BY <1>1 DEF vars
<1>2. CASE Cancel
  BY <1>2 DEF Cancel
<1>3. ASSUME NEW r \in Readers, ReaderNext(r)
      PROVE  UNCHANGED <<committed, taken>> \/ PollPacket(r)
  BY <1>3 DEF ReaderNext, PollStep, BeginRecv, BeginTryRecv, PollNoPacket,
              PollEnd, DropInputs
<1>4. ASSUME NEW w \in Writers, WriterNext(w)
      PROVE  UNCHANGED <<committed, taken>> \/ CommitPermit(w)
  BY <1>4 DEF WriterNext, ReserveStep, PermitStep, BeginReserve, BeginTryReserve,
              CheckCancelled, AcquirePermit, ReserveFull, ReserveDisconnected,
              ReserveReady, AbortPermit, RecordSend, DropOutputs
<1>5. QED
  BY <1>1, <1>2, <1>3, <1>4 DEF Next

LEMMA CardinalityAdd ==
  ASSUME NEW S, IsFiniteSet(S), NEW x
  PROVE  Cardinality(S \cup {x}) \in {Cardinality(S), Cardinality(S) + 1}
BY FS_AddElement

LEMMA CardinalityRemove ==
  ASSUME NEW S, IsFiniteSet(S), NEW x
  PROVE  Cardinality(S \ {x}) = IF x \in S THEN Cardinality(S) - 1 ELSE Cardinality(S)
BY FS_RemoveElement

LEMMA CapacityStep ==
  ASSUME Shape, PermitsAccounted, CapacityRespected, [Next]_vars
  PROVE  CapacityRespected'
<1> USE Sizes DEF Shape, TypeOK, WriterShape
<1> SUFFICES ASSUME NEW e \in Edges
             PROVE  (Queued(e) + Cardinality(permits[e]) <= Capacity[e])'
  BY DEF CapacityRespected
<1>0. Queued(e) + Cardinality(permits[e]) <= Capacity[e]
  BY DEF CapacityRespected
<1>a. /\ IsFiniteSet(permits[e])
      /\ Cardinality(permits[e]) \in Nat
      /\ Queued(e) \in Nat
      /\ Capacity[e] \in Nat
  BY SlotCounts
<1>1. CASE permits' = permits /\ committed' = committed /\ taken' = taken
  BY <1>0, <1>1 DEF Queued
<1>2. ASSUME NEW w \in Writers, AcquirePermit(w)
      PROVE  (Queued(e) + Cardinality(permits[e]) <= Capacity[e])'
  <2> DEFINE f == Fanout[w][held[w] + 1]
  <2>1. /\ f \in Edges
        /\ permits' = [permits EXCEPT ![f] = @ \cup {w}]
        /\ HasSlot(f)
        /\ Queued(e)' = Queued(e)
    <3> held[w] + 1 \in 1..Len(Fanout[w])
      BY <1>2 DEF AcquirePermit
    <3> QED
      BY <1>2, FanoutEdge DEF AcquirePermit, Queued
  <2> HIDE DEF f
  <2>2. CASE e = f
    <3>1. permits'[e] = permits[e] \cup {w}
      BY <2>1, <2>2
    <3>2. Cardinality(permits'[e]) \in {Cardinality(permits[e]), Cardinality(permits[e]) + 1}
      BY <1>a, <3>1, CardinalityAdd
    <3>3. Queued(e) + Cardinality(permits[e]) < Capacity[e]
      BY <2>1, <2>2 DEF HasSlot
    <3>4. QED
      BY <1>a, <2>1, <3>2, <3>3
  <2>3. CASE e # f
    BY <1>0, <2>1, <2>3
  <2>4. QED
    BY <2>2, <2>3
<1>3. ASSUME NEW w \in Writers, Releasing(w)
      PROVE  (Queued(e) + Cardinality(permits[e]) <= Capacity[e])'
  <2>1. permits'[e] = permits[e] \ {w} /\ Queued(e)' = Queued(e)
    BY <1>3 DEF Releasing, ReserveFull, ReserveDisconnected, AbortPermit,
                ReleasePermits, Queued
  <2>2. \/ Cardinality(permits'[e]) = Cardinality(permits[e])
        \/ Cardinality(permits'[e]) = Cardinality(permits[e]) - 1
    <3> DEFINE S == permits[e]
    <3>1. Cardinality(S \ {w}) = IF w \in S THEN Cardinality(S) - 1 ELSE Cardinality(S)
      BY <1>a, CardinalityRemove
    <3>2. QED
      BY <2>1, <3>1
  <2>3. QED
    BY <1>0, <1>a, <2>1, <2>2
<1>4. ASSUME NEW w \in Writers, CommitPermit(w)
      PROVE  (Queued(e) + Cardinality(permits[e]) <= Capacity[e])'
  <2> DEFINE k == released[w] + 1
             f == Fanout[w][k]
  <2>1. k \in 1..Len(Fanout[w]) /\ k \in (released[w] + 1)..held[w]
    BY <1>4 DEF CommitPermit
  <2>2. f \in Edges
    BY <2>1, FanoutEdge
  <2>3. w \in permits[f]
    BY <2>1, <2>2 DEF PermitsAccounted
  <2>4. /\ permits' = [permits EXCEPT ![f] = @ \ {w}]
        /\ committed' = [committed EXCEPT ![f] = Append(@, Current(w))]
        /\ taken' = taken
    BY <1>4 DEF CommitPermit
  <2>5. Current(w) \in Packets
    BY <1>4, CurrentPacket DEF CommitPermit
  <2> HIDE DEF f
  <2>6. CASE e = f
    <3>1. Queued(e)' = Queued(e) + 1
      <4>1. committed'[e] = Append(committed[e], Current(w)) /\ taken'[e] = taken[e]
        BY <2>2, <2>4, <2>6
      <4>2. Len(committed'[e]) = Len(committed[e]) + 1
        BY <2>5, <4>1
      <4>3. QED
        BY <4>1, <4>2 DEF Queued
    <3>2. Cardinality(permits'[e]) = Cardinality(permits[e]) - 1
      <4>1. permits'[e] = permits[e] \ {w} /\ w \in permits[e]
        BY <2>2, <2>3, <2>4, <2>6
      <4>2. QED
        BY <1>a, <4>1, CardinalityRemove
    <3>3. QED
      BY <1>0, <1>a, <3>1, <3>2
  <2>7. CASE e # f
    BY <1>0, <2>2, <2>4, <2>7 DEF Queued
  <2>8. QED
    BY <2>6, <2>7
<1>5. ASSUME NEW r \in Readers, PollPacket(r)
      PROVE  (Queued(e) + Cardinality(permits[e]) <= Capacity[e])'
  <2> DEFINE f == Fanin[r][pos[r]]
  <2>1. /\ taken' = [taken EXCEPT ![f] = @ + 1]
        /\ committed' = committed /\ permits' = permits
    BY <1>5 DEF PollPacket
  <2> HIDE DEF f
  <2>2. Queued(e)' \in Int /\ Queued(e)' <= Queued(e)
    BY <2>1 DEF Queued
  <2>3. QED
    BY <1>0, <1>a, <2>1, <2>2
<1>6. QED
  BY <1>1, <1>2, <1>3, <1>4, <1>5, PermitSteps, QueueSteps

(* No early return of try_reserve, abort or send leaves a slot reserved,   *)
(* for any number of writers that share any fan-outs.                      *)
THEOREM NoLeakedPermits == Spec => []PermitsAccounted
<1>1. Init => PermitsAccounted
  BY DEF Init, PermitsAccounted
<1>2. Shape /\ PermitsAccounted /\ [Next]_vars => PermitsAccounted'
  BY PermitsStep
<1>3. QED
  BY <1>1, <1>2, ShapeInvariant, PTL DEF Spec

(* Queued packets and reserved slots together never exceed the capacity of *)
(* an edge, for any wiring and capacities.  The bound needs the accounting *)
(* of permits: a commit trades a permit the writer really holds for a      *)
(* queued packet.                                                          *)
THEOREM CapacityInvariant == Spec => []CapacityRespected
<1>1. Init => CapacityRespected
  BY PortsAssumption, FS_EmptySet DEF Init, CapacityRespected, Queued
<1>2. Shape /\ PermitsAccounted /\ CapacityRespected /\ [Next]_vars => CapacityRespected'
  BY CapacityStep
<1>3. QED
  BY <1>1, <1>2, ShapeInvariant, NoLeakedPermits, PTL DEF Spec

-----------------------------------------------------------------------------
(* Delivery *)

(* Nothing is left on e and nothing can come.                              *)
Drained(e) == SendersGone(e) /\ Queued(e) = 0

(* As long as a poll has met disconnected receivers only, each of them     *)
(* really is at its end, although the poll looked at them at different     *)
(* times.                                                                  *)
PolledClosed ==
  \A r \in Readers : rpc[r] = "polling" /\ nclosed[r] = pos[r] - 1 =>
    \A i \in 1..(pos[r] - 1) : Drained(Fanin[r][i])

(* A writer that has dropped its ports takes no step.                      *)
LEMMA DroppedStays ==
  ASSUME Shape, [Next]_vars, NEW v \in Writers, pc[v] = "dropped"
  PROVE  pc'[v] = "dropped"
<1> USE DEF edgeVars, writerVars, readerVars, recordVars, Shape, TypeOK
<1>1. CASE UNCHANGED vars
  BY <1>1 DEF vars
<1>2. CASE Cancel
  BY <1>2 DEF Cancel
<1>3. ASSUME NEW r \in Readers, ReaderNext(r)
      PROVE  pc' = pc
  BY <1>3 DEF ReaderNext, PollStep, BeginRecv, BeginTryRecv, PollPacket,
              PollNoPacket, PollEnd, DropInputs
<1>4. ASSUME NEW w \in Writers, WriterNext(w)
      PROVE  pc'[v] = "dropped"
  <2>1. pc[w] # "dropped" /\ (v # w => pc'[v] = pc[v])
    BY <1>4 DEF WriterNext, ReserveStep, PermitStep, BeginReserve, BeginTryReserve,
                CheckCancelled, AcquirePermit, ReserveFull, ReserveDisconnected,
                ReserveReady, AbortPermit, RecordSend, CommitPermit, DropOutputs
  <2>2. QED
    BY <2>1
<1>5. QED
  BY <1>1, <1>2, <1>3, <1>4 DEF Next

LEMMA DrainedStays ==
  ASSUME Shape, [Next]_vars, NEW e \in Edges, Drained(e)
  PROVE  Drained(e)'
<1>1. SendersGone(e)'
  BY DroppedStays DEF Drained, SendersGone
<1>2. CASE UNCHANGED <<committed, taken>>
  BY <1>1, <1>2 DEF Drained, Queued
<1>3. ASSUME NEW w \in Writers, CommitPermit(w)
      PROVE  Drained(e)'
  <2> DEFINE k == released[w] + 1
             f == Fanout[w][k]
  <2>1. k \in 1..Len(Fanout[w])
    BY <1>3, Sizes DEF CommitPermit, Shape, TypeOK, WriterShape
  <2>2. f \in Elems(Fanout[w])
    BY <2>1, PortsAssumption DEF Elems
  <2>3. f # e
    BY <1>3, <2>2 DEF CommitPermit, Drained, SendersGone
  <2>4. committed'[e] = committed[e] /\ taken' = taken
    BY <1>3, <2>3 DEF CommitPermit, Shape, TypeOK
  <2>5. QED
    BY <1>1, <2>4 DEF Drained, Queued
<1>4. ASSUME NEW r \in Readers, PollPacket(r)
      PROVE  Drained(e)'
  <2>1. taken'[e] = taken[e] /\ committed' = committed
    BY <1>4 DEF PollPacket, Drained, Shape, TypeOK
  <2>2. QED
    BY <1>1, <2>1 DEF Drained, Queued
<1>5. QED
  BY <1>2, <1>3, <1>4, QueueSteps

(* The steps that change the locals of a poll.                             *)
LEMMA PollSteps ==
  ASSUME [Next]_vars
  PROVE  \/ UNCHANGED <<rpc, pos, nclosed>>
         \/ \E r \in Readers : ReaderNext(r)
<1> USE DEF edgeVars, writerVars, readerVars, recordVars
<1>1. CASE UNCHANGED vars
  BY <1>1 DEF vars
<1>2. CASE Cancel
  BY <1>2 DEF Cancel
<1>3. ASSUME NEW w \in Writers, WriterNext(w)
      PROVE  UNCHANGED <<rpc, pos, nclosed>>
  BY <1>3 DEF WriterNext, ReserveStep, PermitStep, BeginReserve, BeginTryReserve,
              CheckCancelled, AcquirePermit, ReserveFull, ReserveDisconnected,
              ReserveReady, AbortPermit, RecordSend, CommitPermit, DropOutputs
<1>4. QED
  BY <1>1, <1>2, <1>3 DEF Next

LEMMA ClosedStep ==
  ASSUME Shape, PolledClosed, ClosedMeansDrained, [Next]_vars
  PROVE  PolledClosed' /\ ClosedMeansDrained'
<1> SUFFICES ASSUME NEW r \in Readers
             PROVE  /\ (rpc[r] = "polling" /\ nclosed[r] = pos[r] - 1 =>
                          \A i \in 1..(pos[r] - 1) : Drained(Fanin[r][i]))'
                    /\ (rpc[r] = "closed" =>
                          \A e \in Elems(Fanin[r]) : Drained(e))'
  BY DEF PolledClosed, ClosedMeansDrained, Drained
<1>a. DOMAIN Fanin[r] = 1..Len(Fanin[r]) /\ Len(Fanin[r]) \in Nat
  BY PortsAssumption
<1>b. \A i \in 1..Len(Fanin[r]) : Drained(Fanin[r][i]) => Drained(Fanin[r][i])'
  BY FaninEdge, DrainedStays
<1>c. pos[r] \in Nat /\ nclosed[r] \in Nat /\ nclosed[r] < pos[r] /\ pos[r] <= Len(Fanin[r]) + 1
  BY DEF Shape, TypeOK
<1>d. rpc[r] = "polling" /\ nclosed[r] = pos[r] - 1 =>
        \A i \in 1..(pos[r] - 1) : Drained(Fanin[r][i])'
  BY <1>a, <1>b, <1>c DEF PolledClosed
<1>e. rpc[r] = "closed" => \A i \in 1..Len(Fanin[r]) : Drained(Fanin[r][i])'
  BY <1>a, <1>b DEF ClosedMeansDrained, Drained, Elems
<1>f. (\A i \in 1..Len(Fanin[r]) : Drained(Fanin[r][i])') =>
        (\A e \in Elems(Fanin[r]) : Drained(e))'
  BY <1>a DEF Elems
<1>1. CASE rpc'[r] = rpc[r] /\ pos'[r] = pos[r] /\ nclosed'[r] = nclosed[r]
  BY <1>1, <1>d, <1>e, <1>f
<1>2. CASE BeginRecv(r) \/ BeginTryRecv(r)
  <2>1. rpc'[r] \in {"polling", "stopped"} /\ pos'[r] = 1
    BY <1>2 DEF BeginRecv, BeginTryRecv, Shape, TypeOK, ReaderShape
  <2>2. QED
    BY <2>1
<1>3. CASE PollPacket(r) \/ DropInputs(r)
  <2>1. rpc'[r] \in {"idle", "dropped"}
    BY <1>3 DEF PollPacket, DropInputs, Shape, TypeOK
  <2>2. QED
    BY <2>1
<1>4. CASE PollNoPacket(r)
  <2>1. PICK p \in 1..Len(Fanin[r]) : p = pos[r]
    BY <1>4, <1>a, <1>c DEF PollNoPacket
  <2>2. /\ rpc'[r] = "polling" /\ rpc[r] = "polling"
        /\ pos'[r] = p + 1
        /\ nclosed'[r] = nclosed[r] \/ nclosed'[r] = nclosed[r] + 1
        /\ nclosed'[r] # nclosed[r] => SendersGone(Fanin[r][p])
        /\ Queued(Fanin[r][p]) = 0
    BY <1>4, <1>c, <2>1 DEF PollNoPacket, Shape, TypeOK
  <2>3. ASSUME nclosed'[r] = pos'[r] - 1
        PROVE  \A i \in 1..p : Drained(Fanin[r][i])'
    <3>1. nclosed'[r] # nclosed[r] /\ nclosed[r] = p - 1
      BY <1>c, <2>1, <2>2, <2>3
    <3>2. Drained(Fanin[r][p])
      BY <2>2, <3>1 DEF Drained
    <3>3. QED
      BY <1>b, <1>d, <2>1, <2>2, <3>1, <3>2
  <2>4. QED
    BY <2>2, <2>3
<1>5. CASE PollEnd(r)
  <2>1. /\ rpc[r] = "polling" /\ pos[r] = Len(Fanin[r]) + 1
        /\ rpc'[r] = IF nclosed[r] = Len(Fanin[r]) THEN "closed" ELSE "idle"
    BY <1>5 DEF PollEnd, Shape, TypeOK
  <2>2. QED
    BY <1>a, <1>c, <1>d, <1>f, <2>1
<1>6. ASSUME NEW q \in Readers, q # r, ReaderNext(q)
      PROVE  rpc'[r] = rpc[r] /\ pos'[r] = pos[r] /\ nclosed'[r] = nclosed[r]
  BY <1>6 DEF ReaderNext, PollStep, BeginRecv, BeginTryRecv, PollPacket, PollNoPacket,
              PollEnd, DropInputs, ResetPoll, Shape, TypeOK
<1>7. QED
  BY <1>1, <1>2, <1>3, <1>4, <1>5, <1>6, PollSteps DEF ReaderNext, PollStep

LEMMA ClosedInvariant == Spec => [](PolledClosed /\ ClosedMeansDrained)
<1>1. Init => PolledClosed /\ ClosedMeansDrained
  BY DEF Init, PolledClosed, ClosedMeansDrained
<1>2. Shape /\ PolledClosed /\ ClosedMeansDrained /\ [Next]_vars
        => PolledClosed' /\ ClosedMeansDrained'
  BY ClosedStep
<1>3. QED
  BY <1>1, <1>2, ShapeInvariant, PTL DEF Spec

(* recv reports the end of a port only when every upstream is gone and     *)
(* everything they committed has been received, for any fan-in and any     *)
(* interleaving with the poll.                                             *)
THEOREM HonestEndOfInput == Spec => []ClosedMeansDrained
BY ClosedInvariant, PTL

-----------------------------------------------------------------------------
(* Packets on edges *)

(* The n-th packet of w has been committed to e.                           *)
On(e, w, n) == <<w, n>> \in Elems(committed[e])

LEMMA ElemsAppend ==
  ASSUME NEW S, NEW s \in Seq(S), NEW x \in S
  PROVE  Elems(Append(s, x)) = Elems(s) \cup {x}
<1>1. /\ DOMAIN s = 1..Len(s) /\ Len(s) \in Nat
      /\ DOMAIN Append(s, x) = 1..(Len(s) + 1)
      /\ \A i \in 1..Len(s) : Append(s, x)[i] = s[i]
      /\ Append(s, x)[Len(s) + 1] = x
  OBVIOUS
<1>2. ASSUME NEW y \in Elems(Append(s, x)) PROVE y \in Elems(s) \cup {x}
  BY <1>1, <1>2 DEF Elems
<1>3. ASSUME NEW y \in Elems(s) PROVE y \in Elems(Append(s, x))
  BY <1>1, <1>3 DEF Elems
<1>4. x \in Elems(Append(s, x))
  BY <1>1 DEF Elems
<1>5. QED
  BY <1>2, <1>3, <1>4

(* A commit puts the writer's current packet on one edge of its fan-out.   *)
LEMMA CommitAdds ==
  ASSUME Shape, NEW w \in Writers, CommitPermit(w),
         NEW e \in Edges, e = Fanout[w][released[w] + 1]
  PROVE  /\ Elems(committed'[e]) = Elems(committed[e]) \cup {Current(w)}
         /\ \A f \in Edges \ {e} : committed'[f] = committed[f]
<1>1. Current(w) \in Packets
  BY CurrentPacket DEF CommitPermit
<1>2. committed' = [committed EXCEPT ![e] = Append(@, Current(w))]
  BY DEF CommitPermit
<1>3. committed \in [Edges -> Seq(Packets)]
  BY DEF Shape, TypeOK
<1>4. committed'[e] = Append(committed[e], Current(w)) /\ committed[e] \in Seq(Packets)
  BY <1>2, <1>3
<1>5. Elems(committed'[e]) = Elems(committed[e]) \cup {Current(w)}
  BY <1>1, <1>4, ElemsAppend
<1>6. QED
  BY <1>2, <1>3, <1>5

(* What is committed, or about to be, has its Enqueued record.             *)
Recorded ==
  /\ \A e \in Edges : Elems(committed[e]) \subseteq enqueued
  /\ \A w \in Writers : pc[w] = "committing" => Current(w) \in enqueued

LEMMA RecordedStep ==
  ASSUME Shape, Recorded, EnqueuedBeforeDequeued, [Next]_vars
  PROVE  Recorded' /\ EnqueuedBeforeDequeued'
<1> USE DEF edgeVars, writerVars, readerVars, recordVars
<1>1. ASSUME NEW w \in Writers, CommitPermit(w)
      PROVE  Recorded' /\ EnqueuedBeforeDequeued'
  <2> released[w] + 1 \in 1..Len(Fanout[w])
    BY <1>1, Sizes DEF CommitPermit, Shape, TypeOK, WriterShape
  <2>1. PICK e \in Edges : e = Fanout[w][released[w] + 1]
    BY FanoutEdge
  <2>2. \A f \in Edges : Elems(committed'[f]) \subseteq Elems(committed[f]) \cup {Current(w)}
    BY <1>1, <2>1, CommitAdds
  <2>3. enqueued' = enqueued /\ dequeued' = dequeued /\ seqno' = seqno /\ pc[w] = "committing"
    BY <1>1 DEF CommitPermit
  <2>4. \A v \in Writers : pc'[v] = "committing" => pc[v] = "committing"
    BY <1>1 DEF CommitPermit, Shape, TypeOK
  <2>5. QED
    BY <2>2, <2>3, <2>4 DEF Recorded, EnqueuedBeforeDequeued, Current, Elems
<1>2. ASSUME NEW w \in Writers, RecordSend(w)
      PROVE  Recorded' /\ EnqueuedBeforeDequeued'
  <2>1. /\ committed' = committed /\ dequeued' = dequeued /\ seqno' = seqno
        /\ enqueued \subseteq enqueued'
    BY <1>2 DEF RecordSend
  <2>2. \A v \in Writers : pc'[v] = "committing" =>
          pc[v] = "committing" \/ (v = w /\ Current(w) \in enqueued')
    BY <1>2 DEF RecordSend, Shape, TypeOK
  <2>3. QED
    BY <2>1, <2>2 DEF Recorded, EnqueuedBeforeDequeued, Current
<1>3. ASSUME NEW r \in Readers, PollPacket(r)
      PROVE  Recorded' /\ EnqueuedBeforeDequeued'
  <2>1. /\ committed' = committed /\ enqueued' = enqueued
        /\ pc' = pc /\ seqno' = seqno
    BY <1>3 DEF PollPacket
  <2>2. dequeued' \subseteq enqueued
    <3>1. Fanin[r][pos[r]] \in Edges
      BY <1>3, FaninEdge DEF PollPacket, Shape, TypeOK
    <3>2. PICK e \in Edges : e = Fanin[r][pos[r]]
      BY <3>1
    <3>3. dequeued' = dequeued \cup {committed[e][taken[e] + 1]} /\ Queued(e) > 0
      BY <1>3, <3>2 DEF PollPacket
    <3>4. taken[e] + 1 \in DOMAIN committed[e]
      BY <3>3 DEF Queued, Shape, TypeOK
    <3>5. committed[e][taken[e] + 1] \in Elems(committed[e])
      BY <3>4 DEF Elems
    <3>6. QED
      BY <3>3, <3>5 DEF Recorded, EnqueuedBeforeDequeued
  <2>3. QED
    BY <2>1, <2>2 DEF Recorded, EnqueuedBeforeDequeued, Current
<1>4. CASE /\ UNCHANGED <<committed, enqueued, dequeued>>
           /\ \A v \in Writers : pc'[v] = "committing" =>
                                 pc[v] = "committing" /\ seqno'[v] = seqno[v]
  BY <1>4 DEF Recorded, EnqueuedBeforeDequeued, Current
<1>5. ASSUME NEW w \in Writers, WriterNext(w), ~CommitPermit(w), ~RecordSend(w)
      PROVE  /\ UNCHANGED <<committed, enqueued, dequeued>>
             /\ \A v \in Writers : pc'[v] = "committing" =>
                                   pc[v] = "committing" /\ seqno'[v] = seqno[v]
  BY <1>5 DEF WriterNext, ReserveStep, PermitStep, BeginReserve, BeginTryReserve,
              CheckCancelled, AcquirePermit, ReserveFull, ReserveDisconnected,
              ReserveReady, AbortPermit, DropOutputs, Shape, TypeOK
<1>6. ASSUME NEW r \in Readers, ReaderNext(r), ~PollPacket(r)
      PROVE  UNCHANGED <<committed, enqueued, dequeued, pc, seqno>>
  BY <1>6 DEF ReaderNext, PollStep, BeginRecv, BeginTryRecv, PollNoPacket, PollEnd,
              DropInputs
<1>7. Cancel \/ UNCHANGED vars => UNCHANGED <<committed, enqueued, dequeued, pc, seqno>>
  BY DEF Cancel, vars
<1>8. QED
  BY <1>1, <1>2, <1>3, <1>4, <1>5, <1>6, <1>7 DEF Next

(* In the metadata no packet is Dequeued before it is Enqueued, for any    *)
(* wiring: send records the boundary before the first commit.              *)
THEOREM CausalRecords == Spec => []EnqueuedBeforeDequeued
<1>1. Init => Recorded /\ EnqueuedBeforeDequeued
  BY DEF Init, Recorded, EnqueuedBeforeDequeued, Elems
<1>2. Shape /\ Recorded /\ EnqueuedBeforeDequeued /\ [Next]_vars
        => Recorded' /\ EnqueuedBeforeDequeued'
  BY RecordedStep
<1>3. QED
  BY <1>1, <1>2, ShapeInvariant, PTL DEF Spec

-----------------------------------------------------------------------------
(* Fan-out *)

(* No packet is on an edge before its turn ...                             *)
NotEarly ==
  \A w \in Writers : \A e \in Edges : \A n \in 1..MaxPackets : On(e, w, n) =>
    /\ n <= seqno[w]
    /\ pc[w] \in {"checking", "reserving", "held"} => n < seqno[w]

(* ... while it is being committed, the edges that have it are the ones    *)
(* whose permits are spent ...                                             *)
PartlyOn ==
  \A w \in Writers : pc[w] = "committing" =>
    \A i \in 1..Len(Fanout[w]) : On(Fanout[w][i], w, seqno[w]) <=> i <= released[w]

(* ... and every earlier packet is on all edges of the port or on none.    *)
EarlierAtomic ==
  \A w \in Writers : \A i, j \in 1..Len(Fanout[w]) : \A n \in 1..MaxPackets :
    (pc[w] = "committing" => n # seqno[w])
      => (On(Fanout[w][i], w, n) => On(Fanout[w][j], w, n))

FanoutInv == NotEarly /\ PartlyOn /\ EarlierAtomic

(* The steps that neither commit nor begin a packet.                       *)
LEMMA FanoutSteps ==
  ASSUME Shape, [Next]_vars
  PROVE  \/ \E w \in Writers : CommitPermit(w) \/ BeginReserve(w) \/ BeginTryReserve(w)
         \/ \E w \in Writers : RecordSend(w)
         \/ /\ committed' = committed /\ seqno' = seqno
            /\ \A v \in Writers : pc[v] # "committing" => released'[v] = released[v]
            /\ \A v \in Writers : pc'[v] = "committing" <=> pc[v] = "committing"
            /\ \A v \in Writers : pc[v] = "committing" => released'[v] = released[v]
            /\ \A v \in Writers : pc'[v] \in {"checking", "reserving", "held"} =>
                                  pc[v] \in {"checking", "reserving", "held"}
<1> USE DEF edgeVars, writerVars, readerVars, recordVars, Shape, TypeOK
<1>1. Cancel \/ UNCHANGED vars => UNCHANGED <<committed, seqno, pc, released>>
  BY DEF Cancel, vars
<1>2. ASSUME NEW r \in Readers, ReaderNext(r)
      PROVE  UNCHANGED <<committed, seqno, pc, released>>
  BY <1>2 DEF ReaderNext, PollStep, BeginRecv, BeginTryRecv, PollPacket, PollNoPacket,
              PollEnd, DropInputs
<1>3. ASSUME NEW w \in Writers, WriterNext(w), ~CommitPermit(w), ~BeginReserve(w),
             ~BeginTryReserve(w), ~RecordSend(w)
      PROVE  /\ UNCHANGED <<committed, seqno, released>>
             /\ \A v \in Writers : pc'[v] = "committing" <=> pc[v] = "committing"
             /\ \A v \in Writers : pc'[v] \in {"checking", "reserving", "held"} =>
                                   pc[v] \in {"checking", "reserving", "held"}
  BY <1>3 DEF WriterNext, ReserveStep, PermitStep, CheckCancelled, AcquirePermit,
              ReserveFull, ReserveDisconnected, ReserveReady, AbortPermit, DropOutputs
<1>4. QED
  BY <1>1, <1>2, <1>3 DEF Next

LEMMA FanoutStep ==
  ASSUME Shape, FanoutInv, [Next]_vars
  PROVE  FanoutInv'
<1> USE Sizes DEF FanoutInv
<1>a. /\ pc \in [Writers -> {"idle", "checking", "reserving", "held", "committing", "dropped"}]
      /\ seqno \in [Writers -> 0..MaxPackets] /\ released \in [Writers -> Nat]
      /\ held \in [Writers -> Nat]
  BY DEF Shape, TypeOK
<1>1. CASE /\ committed' = committed /\ seqno' = seqno
           /\ \A v \in Writers : pc[v] # "committing" => released'[v] = released[v]
           /\ \A v \in Writers : pc'[v] = "committing" <=> pc[v] = "committing"
           /\ \A v \in Writers : pc[v] = "committing" => released'[v] = released[v]
           /\ \A v \in Writers : pc'[v] \in {"checking", "reserving", "held"} =>
                                 pc[v] \in {"checking", "reserving", "held"}
  BY <1>1 DEF NotEarly, PartlyOn, EarlierAtomic, On
<1>2. ASSUME NEW w \in Writers, BeginReserve(w) \/ BeginTryReserve(w)
      PROVE  FanoutInv'
  <2>1. /\ committed' = committed /\ released' = released
        /\ seqno' = [seqno EXCEPT ![w] = seqno[w] + 1]
        /\ pc[w] = "idle" /\ pc'[w] \in {"checking", "reserving"}
        /\ \A v \in Writers \ {w} : pc'[v] = pc[v]
    BY <1>2, <1>a DEF BeginReserve, BeginTryReserve, edgeVars
  <2>2. NotEarly'
    BY <1>a, <2>1 DEF NotEarly, On
  <2>3. PartlyOn' /\ EarlierAtomic'
    BY <1>a, <2>1 DEF PartlyOn, EarlierAtomic, On
  <2>4. QED
    BY <2>2, <2>3
<1>3. ASSUME NEW w \in Writers, RecordSend(w)
      PROVE  FanoutInv'
  <2>1. /\ committed' = committed /\ released' = released /\ seqno' = seqno
        /\ pc[w] = "held" /\ pc'[w] \in {"idle", "committing"}
        /\ \A v \in Writers \ {w} : pc'[v] = pc[v]
    BY <1>3, <1>a DEF RecordSend, edgeVars
  <2>2. NotEarly' /\ EarlierAtomic'
    BY <1>a, <2>1 DEF NotEarly, EarlierAtomic, On
  <2>3. released[w] = 0 /\ seqno[w] \in 1..MaxPackets
    BY <1>a, <2>1 DEF Shape, WriterShape
  <2>4. \A i \in 1..Len(Fanout[w]) : ~On(Fanout[w][i], w, seqno[w])
    BY <2>1, <2>3, FanoutEdge DEF NotEarly
  <2>5. PartlyOn'
    <3> SUFFICES ASSUME NEW v \in Writers, pc'[v] = "committing",
                        NEW i \in 1..Len(Fanout[v])
                 PROVE  On(Fanout[v][i], v, seqno[v]) <=> i <= released[v]
      BY <2>1 DEF PartlyOn, On
    <3>1. CASE v = w
      BY <1>a, <2>3, <2>4, <3>1
    <3>2. CASE v # w
      BY <2>1, <3>2 DEF PartlyOn
    <3>3. QED
      BY <3>1, <3>2
  <2>6. QED
    BY <2>2, <2>5
<1>4. ASSUME NEW w \in Writers, CommitPermit(w)
      PROVE  FanoutInv'
  <2>1. PICK k \in 1..Len(Fanout[w]) : k = released[w] + 1
    BY <1>4, <1>a DEF CommitPermit, Shape, TypeOK, WriterShape
  <2>2. PICK e \in Edges : e = Fanout[w][k]
    BY FanoutEdge
  <2>3. PICK m \in 1..MaxPackets : m = seqno[w]
    BY <1>4, <1>a DEF CommitPermit, Shape, WriterShape
  <2>4. \A f \in Edges, v \in Writers, n \in 1..MaxPackets :
          On(f, v, n)' <=> On(f, v, n) \/ (f = e /\ v = w /\ n = m)
    BY <1>4, <2>1, <2>2, <2>3, CommitAdds DEF On, Current
  <2>5. /\ seqno' = seqno /\ pc[w] = "committing" /\ held[w] = Len(Fanout[w])
        /\ \A v \in Writers \ {w} : pc'[v] = pc[v] /\ released'[v] = released[v]
        /\ \/ k = Len(Fanout[w]) /\ pc'[w] = "idle"
           \/ k < Len(Fanout[w]) /\ pc'[w] = "committing" /\ released'[w] = k
    BY <1>4, <1>a, <2>1 DEF CommitPermit, Shape, WriterShape
  <2>6. NotEarly'
    <3> SUFFICES ASSUME NEW v \in Writers, NEW f \in Edges, NEW n \in 1..MaxPackets,
                        On(f, v, n)'
                 PROVE  /\ n <= seqno'[v]
                        /\ pc'[v] \in {"checking", "reserving", "held"} => n < seqno'[v]
      BY DEF NotEarly
    <3>1. CASE v = w /\ n = m
      BY <1>a, <2>3, <2>5, <3>1
    <3>2. CASE ~(v = w /\ n = m)
      <4>1. On(f, v, n)
        BY <2>4, <3>2
      <4>2. QED
        BY <2>5, <4>1 DEF NotEarly
    <3>3. QED
      BY <3>1, <3>2
  <2>7. \A i \in 1..Len(Fanout[w]) : On(Fanout[w][i], w, m)' <=> i <= k
    <3>1. \A i \in 1..Len(Fanout[w]) : Fanout[w][i] = e <=> i = k
      BY <2>2, FanoutInjective
    <3>2. \A i \in 1..Len(Fanout[w]) : On(Fanout[w][i], w, m) <=> i <= released[w]
      BY <2>3, <2>5 DEF PartlyOn
    <3>3. QED
      BY <1>a, <2>1, <2>4, <3>1, <3>2, FanoutEdge
  <2>8. PartlyOn'
    <3> SUFFICES ASSUME NEW v \in Writers, pc'[v] = "committing",
                        NEW i \in 1..Len(Fanout[v])
                 PROVE  On(Fanout[v][i], v, seqno[v])' <=> i <= released'[v]
      BY DEF PartlyOn
    <3>1. CASE v = w
      BY <2>3, <2>5, <2>7, <3>1 DEF On
    <3>2. CASE v # w
      <4>1. PICK n \in 1..MaxPackets : n = seqno[v]
        <5>1. pc[v] = "committing"
          BY <2>5, <3>2
        <5>2. QED
          BY <1>a, <5>1 DEF Shape, WriterShape
      <4>2. On(Fanout[v][i], v, n)' <=> On(Fanout[v][i], v, n)
        BY <2>4, <3>2, FanoutEdge
      <4>3. QED
        BY <2>5, <3>2, <4>1, <4>2 DEF PartlyOn, On
    <3>3. QED
      BY <3>1, <3>2
  <2>9. EarlierAtomic'
    <3> SUFFICES ASSUME NEW v \in Writers, NEW i \in 1..Len(Fanout[v]),
                        NEW j \in 1..Len(Fanout[v]), NEW n \in 1..MaxPackets,
                        pc'[v] = "committing" => n # seqno'[v],
                        On(Fanout[v][i], v, n)'
                 PROVE  On(Fanout[v][j], v, n)'
      BY DEF EarlierAtomic
    <3>1. Fanout[v][i] \in Edges /\ Fanout[v][j] \in Edges
      BY FanoutEdge
    <3>2. CASE v = w /\ n = m
      BY <2>3, <2>5, <2>7, <3>2
    <3>3. CASE ~(v = w /\ n = m)
      <4>1. On(Fanout[v][i], v, n)
        BY <2>4, <3>1, <3>3
      <4>2. pc[v] = "committing" => n # seqno[v]
        BY <2>3, <2>5, <3>3
      <4>3. On(Fanout[v][j], v, n)
        BY <4>1, <4>2 DEF EarlierAtomic
      <4>4. QED
        BY <2>4, <3>1, <4>3
    <3>4. QED
      BY <3>2, <3>3
  <2>10. QED
    BY <2>6, <2>8, <2>9
<1>5. QED
  BY <1>1, <1>2, <1>3, <1>4, FanoutSteps

LEMMA FanoutInvariant == Spec => []FanoutInv
<1>1. Init => FanoutInv
  BY Sizes, FanoutEdge DEF Init, FanoutInv, NotEarly, PartlyOn, EarlierAtomic, On, Elems
<1>2. Shape /\ FanoutInv /\ [Next]_vars => FanoutInv'
  BY FanoutStep
<1>3. QED
  BY <1>1, <1>2, ShapeInvariant, PTL DEF Spec

(* A packet is on every edge of its output port or on none of them, for    *)
(* any fan-out and any number of writers: what the reserve-then-commit     *)
(* protocol is for.                                                        *)
THEOREM AllOrNothing == Spec => []AtomicFanout
<1>1. FanoutInv => AtomicFanout
  <2> SUFFICES ASSUME FanoutInv, NEW w \in Writers, pc[w] # "committing",
                      NEW e \in Elems(Fanout[w]), NEW f \in Elems(Fanout[w]),
                      NEW n \in 1..MaxPackets, On(e, w, n)
               PROVE  On(f, w, n)
    BY DEF AtomicFanout, On
  <2>1. PICK i, j \in 1..Len(Fanout[w]) : e = Fanout[w][i] /\ f = Fanout[w][j]
    BY PortsAssumption DEF Elems
  <2>2. QED
    BY <2>1 DEF FanoutInv, EarlierAtomic
<1>2. QED
  BY <1>1, FanoutInvariant, PTL

LEMMA OrderStep ==
  ASSUME Shape, FanoutInv, PerWriterOrder, [Next]_vars
  PROVE  PerWriterOrder'
<1>1. CASE committed' = committed
  BY <1>1 DEF PerWriterOrder
<1>2. ASSUME NEW w \in Writers, CommitPermit(w)
      PROVE  PerWriterOrder'
  <2>1. PICK k \in 1..Len(Fanout[w]) : k = released[w] + 1
    BY <1>2, Sizes DEF CommitPermit, Shape, TypeOK, WriterShape
  <2>2. PICK e \in Edges : e = Fanout[w][k]
    BY FanoutEdge
  <2>3. PICK m \in 1..MaxPackets : m = seqno[w]
    BY <1>2 DEF CommitPermit, Shape, TypeOK, WriterShape
  <2>4. /\ committed \in [Edges -> Seq(Packets)]
        /\ committed' = [committed EXCEPT ![e] = Append(@, <<w, m>>)]
        /\ <<w, m>> \in Packets
    BY <1>2, <2>1, <2>2, <2>3 DEF CommitPermit, Current, Packets, Shape, TypeOK
  <2>5. PICK s \in Seq(Packets) : s = committed[e]
    BY <2>4
  <2>6. /\ DOMAIN s = 1..Len(s) /\ Len(s) \in Nat
        /\ DOMAIN Append(s, <<w, m>>) = 1..(Len(s) + 1)
        /\ \A i \in 1..Len(s) : Append(s, <<w, m>>)[i] = s[i]
        /\ Append(s, <<w, m>>)[Len(s) + 1] = <<w, m>>
    BY <2>4
  <2>7. \A i \in 1..Len(s) : s[i][1] = w => s[i][2] < m
    <3> SUFFICES ASSUME NEW i \in 1..Len(s), s[i][1] = w
                 PROVE  s[i][2] < m
      OBVIOUS
    <3>1. PICK n \in 1..MaxPackets : s[i] = <<w, n>>
      <4>1. s[i] \in Writers \X (1..MaxPackets)
        BY <2>6 DEF Packets
      <4>2. QED
        BY <4>1
    <3>2. On(e, w, n)
      BY <2>5, <2>6, <3>1 DEF On, Elems
    <3>3. n <= m
      BY <2>3, <3>2 DEF FanoutInv, NotEarly
    <3>4. ~On(e, w, m)
      BY <1>2, <2>1, <2>2, <2>3 DEF CommitPermit, FanoutInv, PartlyOn, Shape, TypeOK
    <3>5. n < m
      BY <3>2, <3>3, <3>4
    <3>6. QED
      BY <3>1, <3>5
  <2>8. ASSUME NEW f \in Edges, NEW i \in DOMAIN committed'[f], NEW j \in DOMAIN committed'[f],
               i < j, committed'[f][i][1] = committed'[f][j][1]
        PROVE  committed'[f][i][2] < committed'[f][j][2]
    <3>1. CASE f # e
      BY <2>4, <2>8, <3>1 DEF PerWriterOrder
    <3>2. CASE f = e
      <4>1. committed'[f] = Append(s, <<w, m>>)
        BY <2>4, <2>5, <3>2
      <4>2. CASE j \in 1..Len(s)
        <5>1. /\ i \in 1..Len(s)
              /\ committed'[f][i] = s[i] /\ committed'[f][j] = s[j]
          BY <2>6, <2>8, <4>1, <4>2
        <5>2. QED
          BY <2>5, <2>6, <2>8, <4>2, <5>1 DEF PerWriterOrder
      <4>3. CASE j \notin 1..Len(s)
        <5>1. j = Len(s) + 1 /\ i \in 1..Len(s)
          BY <2>6, <2>8, <4>1, <4>3
        <5>2. committed'[f][i] = s[i] /\ committed'[f][j] = <<w, m>>
          BY <2>6, <4>1, <5>1
        <5>3. QED
          BY <2>7, <2>8, <5>1, <5>2
      <4>4. QED
        BY <4>2, <4>3
    <3>3. QED
      BY <3>1, <3>2
  <2>9. QED
    BY <2>8 DEF PerWriterOrder
<1>3. QED
  <2>1. ASSUME NEW r \in Readers, PollPacket(r) PROVE committed' = committed
    BY <2>1 DEF PollPacket
  <2>2. QED
    BY <1>1, <1>2, <2>1, QueueSteps

(* Each edge carries a writer's packets in the order in which they were    *)
(* sent and none of them twice, also when other writers share the edge.    *)
THEOREM OrderKept == Spec => []PerWriterOrder
<1>1. Init => PerWriterOrder
  BY DEF Init, PerWriterOrder
<1>2. Shape /\ FanoutInv /\ PerWriterOrder /\ [Next]_vars => PerWriterOrder'
  BY OrderStep
<1>3. QED
  BY <1>1, <1>2, ShapeInvariant, FanoutInvariant, PTL DEF Spec

-----------------------------------------------------------------------------
(* Refinement *)

(* What an edge of the bus holds: the packets committed to it and, from    *)
(* the Enqueued record on, the one that is being committed.                *)
LogIs ==
  \A e \in Edges :
    /\ \A w \in Writers : Committing(w, e) => BusLog[e] = Append(committed[e], Current(w))
    /\ (\A w \in Writers : ~Committing(w, e)) => BusLog[e] = committed[e]

(* A writer commits to edges of its own port only.                         *)
LEMMA CommittingOwn ==
  ASSUME Shape, NEW w \in Writers, NEW e, Committing(w, e)
  PROVE  e \in Elems(Fanout[w]) /\ e \in Edges
<1>1. PICK i \in (released[w] + 1)..held[w] : Fanout[w][i] = e
  BY DEF Committing
<1>2. released[w] \in Nat /\ held[w] \in Nat /\ held[w] <= Len(Fanout[w])
  BY DEF Shape, TypeOK
<1>3. i \in 1..Len(Fanout[w])
  BY <1>2, Sizes
<1>4. DOMAIN Fanout[w] = 1..Len(Fanout[w])
  BY PortsAssumption
<1>5. QED
  BY <1>1, <1>3, <1>4, FanoutEdge DEF Elems

LEMMA CommittingAlone ==
  ASSUME ExclusiveFanouts, Shape, NEW w \in Writers, NEW v \in Writers, NEW e,
         Committing(w, e), e \in Elems(Fanout[v])
  PROVE  w = v
BY CommittingOwn DEF ExclusiveFanouts

LEMMA LogStands ==
  ASSUME ExclusiveFanouts, Shape
  PROVE  LogIs
<1> SUFFICES ASSUME NEW e \in Edges
             PROVE  /\ \A w \in Writers : Committing(w, e) =>
                         BusLog[e] = Append(committed[e], Current(w))
                    /\ (\A w \in Writers : ~Committing(w, e)) => BusLog[e] = committed[e]
  BY DEF LogIs
<1> DEFINE c == CHOOSE w \in Writers : Committing(w, e)
<1>1. BusLog[e] = IF \E w \in Writers : Committing(w, e)
                  THEN Append(committed[e], Current(c)) ELSE committed[e]
  BY DEF BusLog
<1>2. ASSUME NEW w \in Writers, Committing(w, e)
      PROVE  c = w
  <2>1. c \in Writers /\ Committing(c, e)
    BY <1>2
  <2>2. QED
    BY <1>2, <2>1, CommittingOwn, CommittingAlone
<1> HIDE DEF c
<1>3. QED
  BY <1>1, <1>2

(* Every step but RecordSend leaves what the bus holds alone.              *)
LEMMA LogKept ==
  ASSUME Shape, LogIs, LogIs', UNCHANGED committed,
         \A w \in Writers : \A e \in Edges : Committing(w, e)' <=> Committing(w, e),
         \A w \in Writers : pc[w] = "committing" => seqno'[w] = seqno[w]
  PROVE  BusLog' = BusLog
<1>1. ASSUME NEW e \in Edges
      PROVE  BusLog'[e] = BusLog[e]
  <2>1. CASE \E w \in Writers : Committing(w, e)
    <3>1. PICK w \in Writers : Committing(w, e)
      BY <2>1
    <3>2. Current(w)' = Current(w)
      BY <3>1 DEF Current, Committing
    <3>3. QED
      BY <3>1, <3>2 DEF LogIs
  <2>2. CASE \A w \in Writers : ~Committing(w, e)
    BY <2>2 DEF LogIs
  <2>3. QED
    BY <2>1, <2>2
<1>2. QED
  BY <1>1 DEF BusLog

LEMMA RecordBroadcasts ==
  ASSUME ExclusiveFanouts, Shape, LogIs, LogIs', PermitsAccounted, CapacityRespected,
         FanoutInv, NEW w \in Writers, RecordSend(w), Fanout[w] # <<>>
  PROVE  Bus!Broadcast(w)
<1> USE DEF Shape, TypeOK
<1>a. /\ pc[w] = "held" /\ pc' = [pc EXCEPT ![w] = "committing"]
      /\ UNCHANGED <<committed, taken, permits, held, released, seqno, rpc>>
  BY DEF RecordSend, edgeVars, readerVars
<1>b. /\ released[w] = 0 /\ held[w] = Len(Fanout[w]) /\ seqno[w] \in 1..MaxPackets
      /\ Len(Fanout[w]) \in Nat /\ DOMAIN Fanout[w] = 1..Len(Fanout[w])
  <2>1. Len(Fanout[w]) \in Nat /\ DOMAIN Fanout[w] = 1..Len(Fanout[w])
    BY PortsAssumption
  <2>2. released[w] = 0 /\ held[w] = Len(Fanout[w]) /\ seqno[w] > 0
    BY <1>a DEF WriterShape
  <2>3. QED
    BY <2>1, <2>2, Sizes
<1>1. ASSUME NEW e \in Elems(Fanout[w])
      PROVE  /\ e \in Edges /\ w \in permits[e]
             /\ BusLog[e] = committed[e] /\ BusLog'[e] = Append(committed[e], Current(w))
  <2>1. PICK i \in 1..Len(Fanout[w]) : Fanout[w][i] = e
    BY <1>1, <1>b DEF Elems
  <2>2. e \in Edges
    BY <2>1, FanoutEdge
  <2>3. w \in permits[e]
    BY <1>b, <2>1, <2>2 DEF PermitsAccounted
  <2>4. \A v \in Writers : ~Committing(v, e)
    BY <1>a, CommittingAlone DEF Committing
  <2>5. Committing(w, e)' /\ Current(w)' = Current(w)
    BY <1>a, <1>b, <2>1 DEF Committing, Current
  <2>6. QED
    BY <1>a, <2>2, <2>3, <2>4, <2>5 DEF LogIs
<1>2. ASSUME NEW e \in Edges, e \notin Elems(Fanout[w])
      PROVE  BusLog'[e] = BusLog[e]
  <2>1. \A v \in Writers : Committing(v, e)' <=> Committing(v, e)
    <3> SUFFICES ASSUME NEW v \in Writers PROVE Committing(v, e)' <=> Committing(v, e)
      OBVIOUS
    <3>1. CASE v # w
      BY <1>a, <3>1 DEF Committing
    <3>2. CASE v = w
      <4>1. \A i \in 1..Len(Fanout[w]) : Fanout[w][i] # e
        BY <1>2, <1>b DEF Elems
      <4>2. QED
        BY <1>a, <1>b, <3>2, <4>1 DEF Committing
    <3>3. QED
      BY <3>1, <3>2
  <2>2. \A v \in Writers : Current(v)' = Current(v)
    BY <1>a DEF Current
  <2>3. CASE \E v \in Writers : Committing(v, e)
    <3>1. PICK v \in Writers : Committing(v, e)
      BY <2>3
    <3>2. /\ BusLog[e] = Append(committed[e], Current(v))
          /\ BusLog'[e] = Append(committed'[e], Current(v)')
      BY <1>2, <2>1, <3>1 DEF LogIs
    <3>3. QED
      BY <1>a, <2>2, <3>2
  <2>4. CASE \A v \in Writers : ~Committing(v, e)
    BY <1>2, <1>a, <2>1, <2>4 DEF LogIs
  <2>5. QED
    BY <2>3, <2>4
<1>3. ASSUME NEW e \in Elems(Fanout[w])
      PROVE  Len(BusLog[e]) - taken[e] < Capacity[e]
  <2>1. Queued(e) + Cardinality(permits[e]) <= Capacity[e]
    BY <1>1, <1>3 DEF CapacityRespected
  <2>2. IsFiniteSet(permits[e])
    BY <1>1, <1>3, PortsAssumption, FS_Subset
  <2>3. Cardinality(permits[e]) \in Nat \ {0}
    BY <1>1, <1>3, <2>2, FS_CardinalityType, FS_EmptySet
  <2>4. Len(committed[e]) \in Nat /\ taken[e] \in Nat /\ Capacity[e] \in Nat
    BY <1>1, <1>3, PortsAssumption
  <2>5. QED
    BY <1>1, <1>3, <2>1, <2>3, <2>4 DEF Queued
<1>4. ASSUME NEW e \in Elems(Fanout[w]), NEW i \in DOMAIN BusLog[e], BusLog[e][i][1] = w
      PROVE  BusLog[e][i][2] < seqno[w]
  <2>1. e \in Edges /\ BusLog[e] = committed[e] /\ committed[e] \in Seq(Packets)
    BY <1>1, <1>4
  <2>2. committed[e][i] \in Packets
    BY <1>4, <2>1
  <2>3. PICK n \in 1..MaxPackets : committed[e][i] = <<w, n>>
    BY <1>4, <2>1, <2>2 DEF Packets
  <2>4. On(e, w, n)
    BY <1>4, <2>1, <2>3 DEF On, Elems
  <2>5. n < seqno[w]
    BY <1>a, <2>1, <2>4 DEF FanoutInv, NotEarly
  <2>6. QED
    BY <2>1, <2>3, <2>5
<1>5. BusLog' = [e \in Edges |-> IF e \in Elems(Fanout[w])
                                 THEN Append(BusLog[e], <<w, seqno[w]>>) ELSE BusLog[e]]
  <2>1. \A e \in Edges : BusLog'[e] = IF e \in Elems(Fanout[w])
                                      THEN Append(BusLog[e], <<w, seqno[w]>>) ELSE BusLog[e]
    BY <1>1, <1>2 DEF Current
  <2>2. QED
    BY <2>1 DEF BusLog
<1>6. Elems(Fanout[w]) = Bus!EdgesOf(Fanout[w])
  BY DEF Elems, Bus!EdgesOf
<1>7. {v \in Writers : pc[v] # "dropped"}' = {v \in Writers : pc[v] # "dropped"}
  BY <1>a
<1> DEFINE n == seqno[w]
<1>8. /\ n \in 1..MaxPackets
      /\ \A e \in Bus!EdgesOf(Fanout[w]) : \A i \in DOMAIN BusLog[e] :
           BusLog[e][i][1] = w => BusLog[e][i][2] < n
      /\ BusLog' = [e \in Edges |-> IF e \in Bus!EdgesOf(Fanout[w])
                                    THEN Append(BusLog[e], <<w, n>>) ELSE BusLog[e]]
  BY <1>b, <1>4, <1>5, <1>6
<1>9. w \in {v \in Writers : pc[v] # "dropped"}
  BY <1>a
<1>10. \A e \in Bus!EdgesOf(Fanout[w]) : Len(BusLog[e]) - taken[e] < Capacity[e]
  BY <1>3, <1>6
<1>11. taken' = taken /\ rpc' = rpc
  BY <1>a
<1> HIDE DEF n
<1>12. QED
  BY <1>7, <1>8, <1>9, <1>10, <1>11 DEF Bus!Broadcast

(* permit.send moves a packet from the permits to the channel: the bus has *)
(* it on that edge before and after.                                       *)
LEMMA CommitStutters ==
  ASSUME ExclusiveFanouts, Shape, LogIs, LogIs', NEW w \in Writers, CommitPermit(w)
  PROVE  BusLog' = BusLog
<1> USE DEF Shape, TypeOK
<1>a. pc[w] = "committing" /\ held[w] = Len(Fanout[w]) /\ released[w] < held[w]
  BY DEF CommitPermit, WriterShape
<1>b. PICK k \in 1..Len(Fanout[w]) : k = released[w] + 1
  BY <1>a, Sizes
<1>c. PICK f \in Edges : f = Fanout[w][k]
  BY FanoutEdge
<1>d. /\ committed' = [committed EXCEPT ![f] = Append(@, Current(w))] /\ seqno' = seqno
      /\ \A v \in Writers \ {w} : pc'[v] = pc[v] /\ released'[v] = released[v] /\ held'[v] = held[v]
      /\ \/ k = held[w] /\ pc'[w] = "idle"
         \/ k < held[w] /\ pc'[w] = "committing" /\ released'[w] = k /\ held'[w] = held[w]
  BY <1>a, <1>b, <1>c, Sizes DEF CommitPermit
<1>e. \A v \in Writers : Current(v)' = Current(v)
  BY <1>d DEF Current
<1>1. \A i \in 1..Len(Fanout[w]) : Fanout[w][i] = f => i = k
  BY <1>c, FanoutInjective
<1>2. BusLog'[f] = BusLog[f]
  <2>1. Committing(w, f)
    BY <1>a, <1>b, <1>c, Sizes DEF Committing
  <2>2. f \in Elems(Fanout[w])
    BY <2>1, CommittingOwn
  <2>3. ~Committing(w, f)'
    <3>1. ASSUME NEW i \in (k + 1)..held[w] PROVE Fanout[w][i] # f
      <4>1. Len(Fanout[w]) \in Nat /\ held[w] = Len(Fanout[w])
        BY <1>a, Sizes
      <4>2. i \in 1..Len(Fanout[w]) /\ i # k
        BY <4>1
      <4>3. QED
        BY <1>1, <4>2
    <3>2. QED
      BY <1>d, <3>1 DEF Committing
  <2>4. \A v \in Writers \ {w} : Committing(v, f)' <=> Committing(v, f)
    BY <1>d DEF Committing
  <2>5. \A v \in Writers : ~Committing(v, f)'
    BY <2>2, <2>3, <2>4, CommittingAlone
  <2>6. BusLog[f] = Append(committed[f], Current(w)) /\ BusLog'[f] = committed'[f]
    BY <2>1, <2>5 DEF LogIs
  <2>7. QED
    BY <1>d, <2>6
<1>3. ASSUME NEW e \in Edges, e # f
      PROVE  BusLog'[e] = BusLog[e]
  <2>1. \A v \in Writers : Committing(v, e)' <=> Committing(v, e)
    <3> SUFFICES ASSUME NEW v \in Writers PROVE Committing(v, e)' <=> Committing(v, e)
      OBVIOUS
    <3>1. CASE v # w
      BY <1>d, <3>1 DEF Committing
    <3>2. CASE v = w
      <4>1. Committing(w, e) <=> \E i \in k..held[w] : Fanout[w][i] = e
        BY <1>a, <1>b DEF Committing
      <4>2. \A i \in k..held[w] : Fanout[w][i] = e => i \in (k + 1)..held[w]
        BY <1>3, <1>c
      <4>3. Committing(w, e)' <=> \E i \in (k + 1)..held[w] : Fanout[w][i] = e
        <5>1. CASE k = held[w] /\ pc'[w] = "idle"
          <6>1. (k + 1)..held[w] = {}
            BY <1>b, <5>1, Sizes
          <6>2. QED
            BY <5>1, <6>1 DEF Committing
        <5>2. CASE pc'[w] = "committing" /\ released'[w] = k /\ held'[w] = held[w]
          BY <5>2 DEF Committing
        <5>3. QED
          BY <1>d, <5>1, <5>2
      <4>4. (k + 1)..held[w] \subseteq k..held[w]
        OBVIOUS
      <4>5. QED
        BY <3>2, <4>1, <4>2, <4>3, <4>4
    <3>3. QED
      BY <3>1, <3>2
  <2>2. committed'[e] = committed[e]
    BY <1>3, <1>d
  <2>3. CASE \E v \in Writers : Committing(v, e)
    <3>1. PICK v \in Writers : Committing(v, e)
      BY <2>3
    <3>2. /\ BusLog[e] = Append(committed[e], Current(v))
          /\ BusLog'[e] = Append(committed'[e], Current(v)')
      BY <2>1, <3>1 DEF LogIs
    <3>3. QED
      BY <1>e, <2>2, <3>2
  <2>4. CASE \A v \in Writers : ~Committing(v, e)
    BY <2>1, <2>2, <2>4 DEF LogIs
  <2>5. QED
    BY <2>3, <2>4
<1>4. QED
  BY <1>2, <1>3 DEF BusLog

Senders == {w \in Writers : pc[w] # "dropped"}
Ended == {r \in Readers : rpc[r] = "closed"}
Gone == {r \in Readers : rpc[r] = "dropped"}

(* What a writer does is a broadcast, the end of its sending, or nothing   *)
(* to the bus.                                                             *)
LEMMA WriterRefines ==
  ASSUME ExclusiveFanouts, Shape, LogIs, LogIs', PermitsAccounted, CapacityRespected,
         FanoutInv, NEW w \in Writers, WriterNext(w)
  PROVE  Bus!Broadcast(w) \/ Bus!CloseOutput(w) \/ UNCHANGED Bus!busVars
<1> USE DEF Shape, TypeOK, edgeVars, writerVars, readerVars, recordVars
<1>1. CASE CommitPermit(w)
  <2>1. BusLog' = BusLog
    BY <1>1, CommitStutters
  <2>2. taken' = taken /\ rpc' = rpc
    BY <1>1 DEF CommitPermit
  <2>3. Senders' = Senders
    BY <1>1 DEF CommitPermit, Senders
  <2>4. QED
    BY <2>1, <2>2, <2>3 DEF Bus!busVars, Senders
<1>2. CASE RecordSend(w) /\ Fanout[w] # <<>>
  BY <1>2, RecordBroadcasts
<1>3. CASE WriterNext(w) /\ ~CommitPermit(w) /\ ~(RecordSend(w) /\ Fanout[w] # <<>>)
  <2>1. /\ committed' = committed /\ taken' = taken /\ rpc' = rpc /\ released' = released
        /\ pc[w] # "committing" /\ pc'[w] # "committing" /\ pc[w] # "dropped"
        /\ \A v \in Writers \ {w} : pc'[v] = pc[v] /\ held'[v] = held[v] /\ seqno'[v] = seqno[v]
        /\ pc'[w] = "dropped" => DropOutputs(w)
    BY <1>3 DEF WriterNext, ReserveStep, PermitStep, BeginReserve, BeginTryReserve,
                CheckCancelled, AcquirePermit, ReserveFull, ReserveDisconnected,
                ReserveReady, AbortPermit, RecordSend, DropOutputs, ReleasePermits
  <2>2. \A v \in Writers : \A e \in Edges : Committing(v, e)' <=> Committing(v, e)
    BY <2>1 DEF Committing
  <2>3. \A v \in Writers : pc[v] = "committing" => seqno'[v] = seqno[v]
    BY <2>1
  <2>4. BusLog' = BusLog
    BY <2>1, <2>2, <2>3, LogKept
  <2>5. CASE pc'[w] = "dropped"
    <3>1. Senders' = Senders \ {w}
      BY <2>1, <2>5 DEF Senders
    <3>2. QED
      BY <2>1, <2>4, <3>1 DEF Bus!CloseOutput, Senders
  <2>6. CASE pc'[w] # "dropped"
    <3>1. Senders' = Senders
      BY <2>1, <2>6 DEF Senders
    <3>2. QED
      BY <2>1, <2>4, <3>1 DEF Bus!busVars, Senders
  <2>7. QED
    BY <2>5, <2>6
<1>4. QED
  BY <1>1, <1>2, <1>3

(* What a reader does is a receive, the end of its input, dropping it, or  *)
(* nothing to the bus.                                                     *)
LEMMA ReaderRefines ==
  ASSUME Shape, LogIs, LogIs', PolledClosed, NEW r \in Readers, ReaderNext(r)
  PROVE  \/ Bus!Receive(r) \/ Bus!EndOfInput(r) \/ Bus!CloseInput(r)
         \/ UNCHANGED Bus!busVars
<1> USE DEF Shape, TypeOK, edgeVars, writerVars, readerVars, recordVars
<1>a. committed' = committed /\ pc' = pc /\ seqno' = seqno /\ held' = held /\ released' = released
  BY DEF ReaderNext, PollStep, BeginRecv, BeginTryRecv, PollPacket, PollNoPacket, PollEnd,
         DropInputs
<1>b. BusLog' = BusLog
  BY <1>a, LogKept DEF Committing
<1>c. Senders' = Senders
  BY <1>a DEF Senders
<1>d. \A q \in Readers \ {r} : rpc'[q] = rpc[q]
  BY DEF ReaderNext, PollStep, BeginRecv, BeginTryRecv, PollPacket, PollNoPacket, PollEnd,
         DropInputs
<1>e. DOMAIN Fanin[r] = 1..Len(Fanin[r]) /\ Len(Fanin[r]) \in Nat
  BY PortsAssumption
<1>1. CASE PollPacket(r)
  <2>1. PICK i \in 1..Len(Fanin[r]) : i = pos[r]
    BY <1>1, <1>e DEF PollPacket, ReaderShape
  <2>2. PICK e \in Edges : e = Fanin[r][i]
    BY FaninEdge
  <2>3. e \in Bus!EdgesOf(Fanin[r])
    BY <1>e, <2>1, <2>2 DEF Bus!EdgesOf
  <2>4. /\ taken' = [taken EXCEPT ![e] = @ + 1] /\ Queued(e) > 0
        /\ rpc[r] = "polling" /\ rpc'[r] = "idle"
    BY <1>1, <2>1, <2>2 DEF PollPacket
  <2>5. Len(BusLog[e]) \in Nat /\ Len(BusLog[e]) >= Len(committed[e])
    <3>1. CASE \E w \in Writers : Committing(w, e)
      <4>1. PICK w \in Writers : Committing(w, e)
        BY <3>1
      <4>2. BusLog[e] = Append(committed[e], Current(w)) /\ Current(w) \in Packets
        BY <4>1, CurrentPacket DEF LogIs, Committing
      <4>3. Len(BusLog[e]) = Len(committed[e]) + 1
        BY <4>2
      <4>4. QED
        BY <4>3
    <3>2. CASE \A w \in Writers : ~Committing(w, e)
      <4>1. BusLog[e] = committed[e]
        BY <3>2 DEF LogIs
      <4>2. QED
        BY <4>1
    <3>3. QED
      BY <3>1, <3>2
  <2>6. taken[e] < Len(BusLog[e])
    <3>1. taken[e] \in Nat /\ Len(committed[e]) \in Nat
      OBVIOUS
    <3>2. QED
      BY <2>4, <2>5, <3>1 DEF Queued
  <2>7. Ended' = Ended /\ Gone' = Gone /\ r \notin Ended \cup Gone
    BY <1>d, <2>4 DEF Ended, Gone
  <2>8. QED
    BY <1>b, <1>c, <2>3, <2>4, <2>6, <2>7 DEF Bus!Receive, Senders, Ended, Gone
<1>2. CASE PollEnd(r) /\ nclosed[r] = Len(Fanin[r])
  <2>1. /\ rpc[r] = "polling" /\ rpc'[r] = "closed" /\ taken' = taken
        /\ pos[r] = Len(Fanin[r]) + 1
    BY <1>2 DEF PollEnd
  <2>2. \A i \in 1..Len(Fanin[r]) : Drained(Fanin[r][i])
    <3>1. pos[r] - 1 = Len(Fanin[r]) /\ nclosed[r] = pos[r] - 1
      BY <1>2, <1>e, <2>1
    <3>2. \A i \in 1..(pos[r] - 1) : Drained(Fanin[r][i])
      BY <2>1, <3>1 DEF PolledClosed
    <3>3. QED
      BY <3>1, <3>2
  <2>3. ASSUME NEW e \in Bus!EdgesOf(Fanin[r])
        PROVE  /\ taken[e] = Len(BusLog[e])
               /\ \A w \in Senders : e \notin Bus!EdgesOf(Fanout[w])
    <3>1. PICK i \in 1..Len(Fanin[r]) : e = Fanin[r][i]
      BY <1>e, <2>3 DEF Bus!EdgesOf
    <3>2. e \in Edges /\ Drained(e)
      BY <2>2, <3>1, FaninEdge
    <3>3. \A w \in Senders : e \notin Elems(Fanout[w])
      BY <3>2 DEF Drained, SendersGone, Senders
    <3>4. \A w \in Writers : ~Committing(w, e)
      BY <3>3, CommittingOwn DEF Committing, Senders
    <3>5. BusLog[e] = committed[e]
      BY <3>2, <3>4 DEF LogIs
    <3>6. taken[e] = Len(committed[e])
      <4>1. taken[e] \in Nat /\ Len(committed[e]) \in Nat
        BY <3>2
      <4>2. QED
        BY <3>2, <4>1 DEF Drained, Queued
    <3>7. QED
      BY <3>3, <3>5, <3>6 DEF Elems, Bus!EdgesOf
  <2>4. Ended' = Ended \cup {r} /\ Gone' = Gone /\ r \notin Ended \cup Gone
    BY <1>d, <2>1 DEF Ended, Gone
  <2>5. QED
    BY <1>b, <1>c, <2>1, <2>3, <2>4 DEF Bus!EndOfInput, Senders, Ended, Gone
<1>3. CASE DropInputs(r)
  <2>1. rpc'[r] = "dropped" /\ taken' = taken
    BY <1>3 DEF DropInputs
  <2>2. Ended' = Ended \ {r} /\ Gone' = Gone \cup {r}
    BY <1>d, <2>1 DEF Ended, Gone
  <2>3. QED
    BY <1>b, <1>c, <2>1, <2>2 DEF Bus!CloseInput, Senders, Ended, Gone
<1>4. CASE ~PollPacket(r) /\ ~(PollEnd(r) /\ nclosed[r] = Len(Fanin[r])) /\ ~DropInputs(r)
  <2>1. /\ taken' = taken
        /\ rpc[r] \notin {"closed", "dropped"} /\ rpc'[r] \notin {"closed", "dropped"}
    BY <1>4 DEF ReaderNext, PollStep, BeginRecv, BeginTryRecv, PollNoPacket, PollEnd
  <2>2. Ended' = Ended /\ Gone' = Gone
    BY <1>d, <2>1 DEF Ended, Gone
  <2>3. QED
    BY <1>b, <1>c, <2>1, <2>2 DEF Bus!busVars, Senders, Ended, Gone
<1>5. QED
  BY <1>1, <1>2, <1>3, <1>4

(* Where no port is cloned, reserving, committing, polling and dropping    *)
(* handles one channel at a time is, to the nodes, an indivisible          *)
(* broadcast over bounded FIFO edges with an honest end of input: for any  *)
(* wiring, any capacity and any number of writers and readers.             *)
THEOREM PortsImplementBus ==
  ASSUME ExclusiveFanouts
  PROVE  Spec => ImplementsBus
<1>1. Init => Bus!BusInit
  <2> SUFFICES ASSUME Init PROVE Bus!BusInit
    OBVIOUS
  <2>1. BusLog = [e \in Edges |-> <<>>]
    BY DEF Init, BusLog, Committing
  <2>2. Senders = Writers /\ Ended = {} /\ Gone = {}
    BY DEF Init, Senders, Ended, Gone
  <2>3. QED
    BY <2>1, <2>2 DEF Init, Bus!BusInit, Senders, Ended, Gone
<1>2. Shape => LogIs
  BY LogStands
<1>3. Shape /\ LogIs /\ LogIs' /\ PermitsAccounted /\ CapacityRespected /\ FanoutInv
        /\ PolledClosed /\ [Next]_vars => [Bus!BusNext]_(Bus!busVars)
  <2> SUFFICES ASSUME Shape, LogIs, LogIs', PermitsAccounted, CapacityRespected, FanoutInv,
                      PolledClosed, [Next]_vars
               PROVE  Bus!BusNext \/ UNCHANGED Bus!busVars
    OBVIOUS
  <2>1. ASSUME NEW w \in Writers, WriterNext(w)
        PROVE  Bus!BusNext \/ UNCHANGED Bus!busVars
    BY <2>1, WriterRefines DEF Bus!BusNext
  <2>2. ASSUME NEW r \in Readers, ReaderNext(r)
        PROVE  Bus!BusNext \/ UNCHANGED Bus!busVars
    BY <2>2, ReaderRefines DEF Bus!BusNext
  <2>3. ASSUME Cancel \/ UNCHANGED vars
        PROVE  UNCHANGED Bus!busVars
    <3>1. UNCHANGED <<committed, taken, pc, seqno, held, released, rpc>>
      BY <2>3 DEF Cancel, vars, edgeVars, writerVars, readerVars
    <3>2. BusLog' = BusLog
      BY <3>1, LogKept DEF Committing
    <3>3. QED
      BY <3>1, <3>2 DEF Bus!busVars
  <2>4. QED
    BY <2>1, <2>2, <2>3 DEF Next
<1>4. QED
  BY <1>1, <1>2, <1>3, ShapeInvariant, NoLeakedPermits, CapacityInvariant, FanoutInvariant,
     ClosedInvariant, PTL DEF Spec, ImplementsBus, Bus!BusSpec
=============================================================================
