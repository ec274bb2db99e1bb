------------------------------ MODULE SinkProofs -------------------------------
(***************************************************************************)
(* Proofs about MetadataSinks for any number of threads, calls, flushes    *)
(* and faults, every buffer size and every policy.                         *)
(***************************************************************************)
EXTENDS MetadataLog, FiniteSetTheorems, SequenceTheorems, TLAPS

PieceSteps == {"head", "tail", "newline"}
Writes == Nat \X PieceSteps
CallRecords == [fact : Facts, stage : Stages]

(* Where a thread can be, and how far its call then is.                    *)
Places == {"idle", "decide", "lock", "head", "tail", "newline", "dead"}
Busy == {"decide", "lock", "head", "tail", "newline"}
StageAt(place) ==
  IF place = "decide" THEN "deciding" ELSE IF place = "lock" THEN "waiting" ELSE "writing"

Typed ==
  /\ calls \in Seq(CallRecords)
  /\ pc \in [Threads -> Places]
  /\ current \in [Threads -> Nat]
  /\ disk \in Seq(Writes)
  /\ buffer \in Seq(Writes)

(* Pieces, Following and Line, tabulated.                                  *)
LEMMA PieceTable ==
  /\ DOMAIN Pieces = PieceSteps
  /\ Following["head"] = "tail" /\ Following["tail"] = "newline"
  /\ \A c : \A p \in PieceSteps : Line(c)[Pieces[p]] = <<c, p>>
BY DEF Pieces, PieceSteps, Following, Line

(* The file only grows.                                                    *)
Grows ==
  /\ disk' \in Seq(Writes)
  /\ Len(disk) <= Len(disk')
  /\ \A k \in 1 .. Len(disk) : disk'[k] = disk[k]

(* A write goes to the end of the stream, wherever the buffer goes.        *)
LEMMA TakeAppends ==
  ASSUME Typed, NEW w \in Writes, Take(w)
  PROVE  /\ buffer' \in Seq(Writes) /\ Grows
         /\ Stream' = Append(Stream, w)
<1>1. CASE Len(buffer) < BufSize
  <2>1. buffer' = Append(buffer, w) /\ disk' = disk
    BY <1>1 DEF Take
  <2>2. disk \o Append(buffer, w) = Append(disk \o buffer, w)
    BY DEF Typed
  <2>3. QED
    BY <2>1, <2>2, AppendProperties DEF Typed, Grows, Stream
<1>2. CASE ~(Len(buffer) < BufSize)
  <2>1. buffer' = <<w>> /\ disk' = disk \o buffer
    BY <1>2 DEF Take
  <2>2. (disk \o buffer) \o <<w>> = Append(disk \o buffer, w)
    BY DEF Typed
  <2>3. QED
    BY <2>1, <2>2, ConcatProperties DEF Typed, Grows, Stream
<1>3. QED
  BY <1>1, <1>2

(* Writing the buffer out, wholly or in part, leaves the stream alone.     *)
LEMMA WriteOutKeeps ==
  ASSUME Typed, WriteOut \/ WriteOutFails
  PROVE  /\ buffer' \in Seq(Writes) /\ Grows
         /\ Stream' = Stream
<1>1. CASE WriteOut
  <2>1. buffer' = <<>> /\ disk' = disk \o buffer
    BY <1>1 DEF WriteOut
  <2>2. (disk \o buffer) \o <<>> = disk \o buffer
    BY DEF Typed
  <2>3. QED
    BY <2>1, <2>2, ConcatProperties DEF Typed, Grows, Stream
<1>2. CASE WriteOutFails
  <2>1. PICK n \in 0 .. Len(buffer) - 1 :
          /\ disk' = disk \o SubSeq(buffer, 1, n)
          /\ buffer' = SubSeq(buffer, n + 1, Len(buffer))
    BY <1>2 DEF WriteOutFails
  <2> DEFINE a == SubSeq(buffer, 1, n)
             z == SubSeq(buffer, n + 1, Len(buffer))
  <2>2. buffer \in Seq(Writes) /\ disk \in Seq(Writes) /\ Len(buffer) \in Nat
    BY DEF Typed
  <2>3. a \in Seq(Writes) /\ z \in Seq(Writes)
    <3>1. /\ \A k \in 1 .. n : buffer[k] \in Writes
          /\ \A k \in n + 1 .. Len(buffer) : buffer[k] \in Writes
      BY <2>2
    <3>2. QED
      BY <2>2, <3>1, SubSeqProperties
  <2>4. a \o z = buffer
    BY <2>2, ConcatAdjacentSubSeq, SubSeqFull
  <2>5. disk' = disk \o a /\ buffer' = z
    BY <2>1
  <2> HIDE DEF a, z
  <2>6. (disk \o a) \o z = disk \o buffer
    <3>1. (disk \o a) \o z = disk \o (a \o z)
      <4>1. \A s, t, u \in Seq(Writes) : (s \o t) \o u = s \o (t \o u)
        BY ConcatAssociative, SMTT(60)
      <4>2. disk \in Seq(Writes) /\ a \in Seq(Writes) /\ z \in Seq(Writes)
        BY <2>2, <2>3
      <4>3. QED
        BY <4>1, <4>2, Zenon
    <3>2. QED
      BY <2>4, <3>1
  <2>7. disk \o a \in Seq(Writes) /\ Grows
    <3>1. Len(disk) \in Nat /\ Len(a) \in Nat
      BY <2>2, <2>3
    <3>2. /\ disk \o a \in Seq(Writes) /\ Len(disk \o a) = Len(disk) + Len(a)
          /\ \A k \in 1 .. Len(disk) : (disk \o a)[k] = disk[k]
      BY <2>2, <2>3
    <3>3. QED
      BY <2>5, <3>1, <3>2 DEF Grows
  <2>8. QED
    BY <2>3, <2>5, <2>6, <2>7 DEF Stream
<1>3. QED
  BY <1>1, <1>2
-------------------------------------------------------------------------------
(* A thread in a call is where the call's stage says, no two are in the    *)
(* same call, and the one that writes holds the lock.                      *)
Handling ==
  /\ \A t \in Threads : pc[t] \in Busy =>
       current[t] \in 1 .. Len(calls) /\ calls[current[t]].stage = StageAt(pc[t])
  /\ \A t, u \in Threads :
       pc[t] \in Busy /\ pc[u] \in Busy /\ current[t] = current[u] => t = u
  /\ \A t \in Threads : pc[t] \in PieceSteps <=> holder = t
  /\ holder \in Threads \cup {Nobody}

Orderly == Typed /\ Handling

(* What a change of stage does to the calls.                               *)
LEMMA StageFacts ==
  ASSUME Typed, NEW c \in 1 .. Len(calls), NEW stage \in Stages, Stage(c, stage)
  PROVE  /\ calls' \in Seq(CallRecords)
         /\ Len(calls') = Len(calls)
         /\ calls'[c].stage = stage
         /\ \A d \in 1 .. Len(calls) : d # c => calls'[d] = calls[d]
         /\ \A d \in 1 .. Len(calls) : calls'[d].fact = calls[d].fact
<1> DEFINE r == [calls[c] EXCEPT !.stage = stage]
<1>1. calls[c] \in CallRecords
  BY DEF Typed
<1>2. r \in CallRecords /\ r.stage = stage /\ r.fact = calls[c].fact
  BY <1>1 DEF CallRecords
<1>3. calls' = [calls EXCEPT ![c] = r]
  BY DEF Stage
<1> HIDE DEF r
<1>4. QED
  BY <1>2, <1>3, ExceptSeq DEF Typed

(* A step of thread t that moves it and its call on.                       *)
Moves(t, place, stage) ==
  /\ pc' = [pc EXCEPT ![t] = place]
  /\ current' = current
  /\ Stage(current[t], stage)

LEMMA MovesOrderly ==
  ASSUME Orderly, NEW t \in Threads, NEW place \in Places, NEW stage \in Stages,
         pc[t] \in Busy, Moves(t, place, stage),
         place \in Busy => stage = StageAt(place),
         place \in PieceSteps => holder' = t /\ holder \in {t, Nobody},
         place \notin PieceSteps => holder' = IF holder = t THEN Nobody ELSE holder,
         disk' \in Seq(Writes), buffer' \in Seq(Writes)
  PROVE  Orderly'
<1>1. current[t] \in 1 .. Len(calls)
  BY DEF Orderly, Handling
<1>2. /\ calls' \in Seq(CallRecords)
      /\ Len(calls') = Len(calls)
      /\ calls'[current[t]].stage = stage
      /\ \A d \in 1 .. Len(calls) : d # current[t] => calls'[d] = calls[d]
  BY <1>1, StageFacts DEF Orderly, Moves
<1>3. /\ pc'[t] = place
      /\ \A u \in Threads : u # t => pc'[u] = pc[u]
      /\ pc' \in [Threads -> Places]
  BY DEF Moves, Orderly, Typed
<1>4. Typed'
  BY <1>2, <1>3 DEF Moves, Orderly, Typed
<1>5. Nobody # t
  BY SinkAssumption
<1>6. Handling'
  <2>1. ASSUME NEW u \in Threads, pc'[u] \in Busy
        PROVE  current'[u] \in 1 .. Len(calls') /\ calls'[current'[u]].stage = StageAt(pc'[u])
    BY <1>1, <1>2, <1>3, <2>1 DEF Moves, Orderly, Handling
  <2>2. ASSUME NEW u \in Threads, NEW v \in Threads, pc'[u] \in Busy, pc'[v] \in Busy,
               current'[u] = current'[v]
        PROVE  u = v
    BY <1>3, <2>2 DEF Moves, Orderly, Handling
  <2>3. ASSUME NEW u \in Threads PROVE pc'[u] \in PieceSteps <=> holder' = u
    BY <1>3, <1>5, SinkAssumption DEF Orderly, Handling
  <2>4. holder' \in Threads \cup {Nobody}
    BY DEF Orderly, Handling
  <2>5. QED
    BY <2>1, <2>2, <2>3, <2>4 DEF Handling
<1>7. QED
  BY <1>4, <1>6 DEF Orderly

(* A new call: the thread that makes it was in none.                       *)
LEMMA RecordOrderly ==
  ASSUME Orderly, NEW t \in Threads, NEW fact \in Facts, Record(t, fact)
  PROVE  Orderly'
<1> DEFINE r == [fact |-> fact, stage |-> "deciding"]
           n == Len(calls) + 1
<1>1. r \in CallRecords /\ r.stage = "deciding"
  BY DEF CallRecords, Stages
<1>2. calls' = Append(calls, r) /\ pc' = [pc EXCEPT ![t] = "decide"]
      /\ current' = [current EXCEPT ![t] = n] /\ pc[t] = "idle"
      /\ UNCHANGED <<holder, disk, buffer>>
  BY DEF Record, Goto, lockVars, fileVars
<1> HIDE DEF r
<1>3. /\ calls' \in Seq(CallRecords) /\ Len(calls') = n /\ Len(calls) \in Nat /\ calls'[n] = r
      /\ \A c \in 1 .. Len(calls) : calls'[c] = calls[c]
  BY <1>1, <1>2, AppendProperties DEF Orderly, Typed
<1>4. /\ pc'[t] = "decide" /\ current'[t] = n
      /\ \A u \in Threads : u # t => pc'[u] = pc[u] /\ current'[u] = current[u]
      /\ pc' \in [Threads -> Places] /\ current' \in [Threads -> Nat]
  BY <1>2, <1>3 DEF Orderly, Typed, Places
<1>5. Typed'
  BY <1>2, <1>3, <1>4 DEF Orderly, Typed
<1>6. Handling'
  <2>1. ASSUME NEW u \in Threads, pc'[u] \in Busy
        PROVE  current'[u] \in 1 .. Len(calls') /\ calls'[current'[u]].stage = StageAt(pc'[u])
    <3>1. CASE u = t
      BY <1>1, <1>3, <1>4, <3>1 DEF StageAt
    <3>2. CASE u # t
      BY <1>3, <1>4, <2>1, <3>2 DEF Orderly, Handling
    <3>3. QED
      BY <3>1, <3>2
  <2>2. ASSUME NEW u \in Threads, NEW v \in Threads, pc'[u] \in Busy, pc'[v] \in Busy,
               current'[u] = current'[v]
        PROVE  u = v
    <3>1. \A w \in Threads : w # t /\ pc[w] \in Busy => current[w] # n
      BY <1>3 DEF Orderly, Handling
    <3>2. QED
      BY <1>4, <2>2, <3>1 DEF Orderly, Handling
  <2>3. ASSUME NEW u \in Threads PROVE pc'[u] \in PieceSteps <=> holder' = u
    BY <1>2, <1>4 DEF Orderly, Handling, PieceSteps
  <2>4. QED
    BY <1>2, <2>1, <2>2, <2>3 DEF Orderly, Handling
<1>7. QED
  BY <1>5, <1>6 DEF Orderly

(* The steps of a call, each as a move of its thread.                      *)
LEMMA DecideMoves ==
  ASSUME NEW t \in Threads, Decide(t)
  PROVE  /\ pc[t] = "decide" /\ Running /\ UNCHANGED <<holder, disk, buffer, flushed, process>>
         /\ Moves(t, "lock", "waiting") \/ Moves(t, "idle", "skipped")
BY DEF Decide, Moves, Goto, lockVars, fileVars, flushVars

LEMMA LockMoves ==
  ASSUME NEW t \in Threads, LockWriter(t)
  PROVE  /\ pc[t] = "lock" /\ Running /\ holder = Nobody
         /\ UNCHANGED <<disk, buffer, flushed, process>>
         /\ \/ Moves(t, "idle", "failed") /\ holder' = holder
            \/ Moves(t, "head", "writing") /\ holder' = t
BY DEF LockWriter, Moves, Goto, fileVars, flushVars

LEMMA WriteMoves ==
  ASSUME NEW t \in Threads, WritePiece(t)
  PROVE  /\ pc[t] \in PieceSteps /\ Running /\ UNCHANGED <<flushed, process>>
         /\ Take(<<current[t], pc[t]>>)
         /\ \/ pc[t] = "newline" /\ Moves(t, "idle", "ok") /\ holder' = Nobody
            \/ /\ \/ pc[t] = "head" /\ pc' = [pc EXCEPT ![t] = "tail"]
                  \/ pc[t] = "tail" /\ pc' = [pc EXCEPT ![t] = "newline"]
               /\ UNCHANGED <<calls, current, holder>>
BY PieceTable DEF WritePiece, Moves, Goto, PieceSteps, flushVars

LEMMA FailMoves ==
  ASSUME NEW t \in Threads, WriteFails(t) \/ WritePanics(t)
  PROVE  /\ pc[t] \in PieceSteps /\ Running /\ UNCHANGED <<flushed, process>>
         /\ WriteOutFails \/ UNCHANGED <<disk, buffer>>
         /\ Moves(t, "idle", "failed") \/ Moves(t, "dead", "failed")
         /\ holder' = Nobody
BY PieceTable DEF WriteFails, WritePanics, TakeFails, Moves, Goto, flushVars

(* Everything else leaves the calls, their threads and the lock alone.     *)
Idles == UNCHANGED <<calls, pc, current, holder>>

LEMMA OtherIdles ==
  ASSUME (\E t \in Threads : Flush(t) \/ FlushFails(t)) \/ DropSink \/ Crash \/ UNCHANGED vars
  PROVE  Idles
BY DEF Flush, FlushFails, DropSink, Crash, vars, Idles, lockVars, fileVars, flushVars

(* The file, at a step that records no write.                              *)
LEMMA OtherFiles ==
  ASSUME Typed,
         \/ \E t \in Threads : Flush(t) \/ FlushFails(t)
         \/ DropSink \/ Crash \/ UNCHANGED vars
  PROVE  /\ buffer' \in Seq(Writes) /\ Grows
         /\ Running' => Stream' = Stream
         /\ Running' => Running
<1>1. CASE \/ \E t \in Threads : Flush(t) \/ FlushFails(t)
           \/ DropSink
  <2>1. /\ WriteOut \/ WriteOutFails \/ UNCHANGED <<disk, buffer>>
        /\ Running
    BY <1>1 DEF Flush, FlushFails, DropSink, fileVars
  <2>2. CASE WriteOut \/ WriteOutFails
    BY <2>1, <2>2, WriteOutKeeps
  <2>3. CASE UNCHANGED <<disk, buffer>>
    BY <2>1, <2>3 DEF Typed, Grows, Stream
  <2>4. QED
    BY <2>1, <2>2, <2>3
<1>2. CASE Crash
  BY <1>2 DEF Crash, Running, Typed, Grows
<1>3. CASE UNCHANGED vars
  BY <1>3 DEF vars, Running, Typed, Grows, Stream
<1>4. QED
  BY <1>1, <1>2, <1>3

(* Every step keeps the order.                                             *)
LEMMA NextOrderly == Orderly /\ [Next]_vars => Orderly'
<1> SUFFICES ASSUME Orderly, [Next]_vars PROVE Orderly'
  OBVIOUS
<1> USE DEF PieceSteps, Busy, Places, Stages, StageAt
<1>1. ASSUME NEW t \in Threads, NEW fact \in Facts, Record(t, fact) PROVE Orderly'
  BY <1>1, RecordOrderly
<1>2. ASSUME NEW t \in Threads, Decide(t) PROVE Orderly'
  <2>1. /\ pc[t] = "decide" /\ UNCHANGED <<holder, disk, buffer>>
        /\ Moves(t, "lock", "waiting") \/ Moves(t, "idle", "skipped")
    BY <1>2, DecideMoves
  <2>2. holder # t
    BY <2>1 DEF Orderly, Handling
  <2>3. QED
    BY <2>1, <2>2, MovesOrderly DEF Orderly, Typed
<1>3. ASSUME NEW t \in Threads, LockWriter(t) PROVE Orderly'
  <2>1. /\ pc[t] = "lock" /\ holder = Nobody /\ UNCHANGED <<disk, buffer>>
        /\ \/ Moves(t, "idle", "failed") /\ holder' = holder
           \/ Moves(t, "head", "writing") /\ holder' = t
    BY <1>3, LockMoves
  <2>2. Nobody # t
    BY SinkAssumption
  <2>3. QED
    BY <2>1, <2>2, MovesOrderly DEF Orderly, Typed
<1>4. ASSUME NEW t \in Threads, WritePiece(t) PROVE Orderly'
  <2>1. /\ pc[t] \in PieceSteps
        /\ Take(<<current[t], pc[t]>>)
        /\ \/ pc[t] = "newline" /\ Moves(t, "idle", "ok") /\ holder' = Nobody
           \/ /\ \/ pc[t] = "head" /\ pc' = [pc EXCEPT ![t] = "tail"]
                 \/ pc[t] = "tail" /\ pc' = [pc EXCEPT ![t] = "newline"]
              /\ UNCHANGED <<calls, current, holder>>
    BY <1>4, WriteMoves
  <2>2. <<current[t], pc[t]>> \in Writes
    BY <2>1 DEF Orderly, Typed, Writes
  <2>3. disk' \in Seq(Writes) /\ buffer' \in Seq(Writes)
    BY <2>1, <2>2, TakeAppends DEF Orderly, Grows
  <2>4. holder = t
    BY <2>1 DEF Orderly, Handling
  <2>5. CASE pc[t] = "newline"
    BY <2>1, <2>3, <2>4, <2>5, MovesOrderly
  <2>6. CASE pc[t] # "newline"
    <3>1. pc'[t] \in PieceSteps /\ \A u \in Threads : u # t => pc'[u] = pc[u]
      BY <2>1, <2>6 DEF Orderly, Typed
    <3>2. UNCHANGED <<calls, current, holder>> /\ pc' \in [Threads -> Places]
      BY <2>1, <2>6 DEF Orderly, Typed
    <3>3. Typed'
      BY <2>3, <3>2 DEF Orderly, Typed
    <3>4. Handling'
      BY <2>1, <2>4, <3>1, <3>2 DEF Orderly, Handling
    <3>5. QED
      BY <3>3, <3>4 DEF Orderly
  <2>7. QED
    BY <2>5, <2>6
<1>5. ASSUME NEW t \in Threads, WriteFails(t) \/ WritePanics(t) PROVE Orderly'
  <2>1. /\ pc[t] \in PieceSteps /\ holder' = Nobody
        /\ WriteOutFails \/ UNCHANGED <<disk, buffer>>
        /\ Moves(t, "idle", "failed") \/ Moves(t, "dead", "failed")
    BY <1>5, FailMoves
  <2>2. holder = t
    BY <2>1 DEF Orderly, Handling
  <2>3. disk' \in Seq(Writes) /\ buffer' \in Seq(Writes)
    BY <2>1, WriteOutKeeps DEF Orderly, Typed, Grows
  <2>4. QED
    BY <2>1, <2>2, <2>3, MovesOrderly
<1>6. CASE \/ \E t \in Threads : Flush(t) \/ FlushFails(t)
           \/ DropSink \/ Crash \/ UNCHANGED vars
  <2>1. disk' \in Seq(Writes) /\ buffer' \in Seq(Writes) /\ Idles
    BY <1>6, OtherFiles, OtherIdles DEF Orderly, Grows
  <2>2. QED
    BY <2>1 DEF Orderly, Typed, Handling, Idles
<1>7. QED
  BY <1>1, <1>2, <1>3, <1>4, <1>5, <1>6 DEF Next
-------------------------------------------------------------------------------
(* Position k of the stream begins a line, or continues one that a failed  *)
(* record left open.                                                       *)
Starts(k) ==
  \/ k = 1
  \/ Stream[k - 1][2] = "newline"
  \/ calls[Stream[k - 1][1]].stage = "failed"

LineAt(s, c, k) ==
  /\ k \in 1 .. Len(s) - 2
  /\ s[k] = <<c, "head">> /\ s[k + 1] = <<c, "tail">> /\ s[k + 2] = <<c, "newline">>

(* What a call that is being written has put behind position k - 1.        *)
Written(t, k) ==
  /\ Starts(k)
  /\ \A j \in 1 .. k - 1 : Stream[j][1] # current[t]

(* The stream holds each write once, only of calls that reached the        *)
(* writer; of a call being written, what its thread has written so far is  *)
(* at the end; otherwise the end is where a line may start.                *)
Log ==
  /\ \A k \in 1 .. Len(Stream) :
       /\ Stream[k][1] \in 1 .. Len(calls)
       /\ calls[Stream[k][1]].stage \in {"writing", "ok", "failed"}
  /\ \A j, k \in 1 .. Len(Stream) : Stream[j] = Stream[k] => j = k
  /\ \A t \in Threads : pc[t] = "head" => Written(t, Len(Stream) + 1)
  /\ \A t \in Threads : pc[t] = "tail" =>
       Len(Stream) >= 1 /\ Stream[Len(Stream)] = <<current[t], "head">> /\ Written(t, Len(Stream))
  /\ \A t \in Threads : pc[t] = "newline" =>
       /\ Len(Stream) >= 2
       /\ Stream[Len(Stream) - 1] = <<current[t], "head">>
       /\ Stream[Len(Stream)] = <<current[t], "tail">>
       /\ Written(t, Len(Stream) - 1)
  /\ (\A t \in Threads : pc[t] \notin {"tail", "newline"}) => Starts(Len(Stream) + 1)
  /\ \A c \in 1 .. Len(calls) : calls[c].stage = "ok" =>
       \E k \in 1 .. Len(Stream) - 2 : LineAt(Stream, c, k) /\ Starts(k)

(* The stream is a sequence of writes.                                     *)
LEMMA StreamType ==
  ASSUME Typed
  PROVE  /\ Stream \in Seq(Writes) /\ Len(Stream) \in Nat
         /\ \A k \in 1 .. Len(Stream) : Stream[k] \in Writes
BY ConcatProperties DEF Typed, Stream

(* A position where a line may start stays one: no write is taken back and *)
(* no record recovers from its failure.                                    *)
LEMMA StartsStays ==
  ASSUME Log, Stream' = Stream,
         \A c \in 1 .. Len(calls) : calls[c].stage = "failed" => calls'[c].stage = "failed",
         Len(Stream) \in Nat, NEW k \in 1 .. Len(Stream) + 1, Starts(k)
  PROVE  Starts(k)'
<1>1. k # 1 => k - 1 \in 1 .. Len(Stream)
  OBVIOUS
<1>2. QED
  BY <1>1 DEF Starts, Log

(* The stages that are final, and the only call a move changes.            *)
LEMMA MovesFacts ==
  ASSUME Orderly, NEW t \in Threads, NEW place \in Places, NEW stage \in Stages,
         pc[t] \in Busy, Moves(t, place, stage)
  PROVE  /\ current[t] \in 1 .. Len(calls) /\ Len(calls') = Len(calls) /\ Len(calls) \in Nat
         /\ calls[current[t]].stage \in {"deciding", "waiting", "writing"}
         /\ calls'[current[t]].stage = stage
         /\ \A d \in 1 .. Len(calls) : d # current[t] => calls'[d] = calls[d]
         /\ pc'[t] = place /\ \A u \in Threads : u # t => pc'[u] = pc[u]
         /\ current' = current
BY StageFacts DEF Orderly, Typed, Handling, Moves, StageAt

(* A step that moves a call on and writes nothing.                         *)
LEMMA MovesLog ==
  ASSUME Orderly, Log, NEW t \in Threads, NEW place \in Places, NEW stage \in Stages,
         pc[t] \in Busy, Moves(t, place, stage), Stream' = Stream,
         \/ pc[t] \in {"decide", "lock"}
         \/ pc[t] \in PieceSteps /\ stage = "failed" /\ place \in {"idle", "dead"},
         place \notin {"tail", "newline"}, stage # "ok",
         place = "head" => pc[t] = "lock" /\ holder = Nobody /\ stage = "writing"
  PROVE  Log'
<1> DEFINE c == current[t]
<1>0. Len(Stream) \in Nat /\ \A k \in 1 .. Len(Stream) : Stream[k] \in Writes
  BY StreamType DEF Orderly
<1>1. /\ c \in 1 .. Len(calls) /\ Len(calls') = Len(calls) /\ Len(calls) \in Nat
      /\ calls[c].stage \in {"deciding", "waiting", "writing"}
      /\ calls'[c].stage = stage
      /\ \A d \in 1 .. Len(calls) : d # c => calls'[d] = calls[d]
      /\ pc'[t] = place /\ \A u \in Threads : u # t => pc'[u] = pc[u]
      /\ current' = current
  BY MovesFacts
<1>2. \A d \in 1 .. Len(calls) : calls[d].stage = "failed" => calls'[d].stage = "failed"
  BY <1>1
<1>3. \A k \in 1 .. Len(Stream) + 1 : Starts(k) => Starts(k)'
  BY <1>0, <1>2, StartsStays
<1>4. \A u \in Threads, k \in 1 .. Len(Stream) + 1 : Written(u, k) => Written(u, k)'
  BY <1>0, <1>1, <1>3 DEF Written
<1>5. pc[t] \in {"decide", "lock"} => \A k \in 1 .. Len(Stream) : Stream[k][1] # c
  BY DEF Log, Orderly, Handling, Busy, StageAt
<1>6. \A k \in 1 .. Len(Stream) :
        /\ Stream[k][1] \in 1 .. Len(calls')
        /\ calls'[Stream[k][1]].stage \in {"writing", "ok", "failed"}
  BY <1>1, <1>5 DEF Log
<1>7. ASSUME \A u \in Threads : pc'[u] \notin {"tail", "newline"}
      PROVE  Starts(Len(Stream) + 1)'
  <2>1. CASE pc[t] \in {"tail", "newline"}
    <3>1. Len(Stream) >= 1 /\ Stream[Len(Stream)][1] = c /\ stage = "failed"
      BY <2>1 DEF Log
    <3>2. QED
      BY <1>0, <1>1, <3>1 DEF Starts
  <2>2. CASE pc[t] \notin {"tail", "newline"}
    <3>1. Starts(Len(Stream) + 1)
      BY <1>1, <1>7, <2>2 DEF Log
    <3>2. QED
      BY <1>0, <1>3, <3>1
  <2>3. QED
    BY <2>1, <2>2
<1>8. ASSUME NEW u \in Threads, pc'[u] = "head" PROVE Written(u, Len(Stream) + 1)'
  <2>1. CASE u = t
    <3>1. pc[t] = "lock" /\ holder = Nobody
      BY <1>1, <1>8, <2>1
    <3>2. \A v \in Threads : pc[v] \notin PieceSteps
      BY <3>1, SinkAssumption DEF Orderly, Handling
    <3>3. Starts(Len(Stream) + 1)
      BY <3>2 DEF Log, PieceSteps
    <3>4. Written(t, Len(Stream) + 1)
      BY <1>5, <3>1, <3>3 DEF Written
    <3>5. QED
      BY <1>0, <1>4, <2>1, <3>4
  <2>2. CASE u # t
    BY <1>0, <1>1, <1>4, <1>8, <2>2 DEF Log
  <2>3. QED
    BY <2>1, <2>2
<1>9. ASSUME NEW u \in Threads, pc'[u] \in {"tail", "newline"}
      PROVE  u # t /\ pc[u] = pc'[u]
  BY <1>1, <1>9
<1>10. ASSUME NEW d \in 1 .. Len(calls'), calls'[d].stage = "ok"
       PROVE  \E k \in 1 .. Len(Stream) - 2 : LineAt(Stream, d, k) /\ Starts(k)'
  <2>1. d \in 1 .. Len(calls) /\ calls[d].stage = "ok"
    BY <1>1, <1>10
  <2>2. PICK k \in 1 .. Len(Stream) - 2 : LineAt(Stream, d, k) /\ Starts(k)
    BY <2>1 DEF Log
  <2>3. QED
    BY <1>0, <1>3, <2>2
<1>11. /\ \A u \in Threads : pc'[u] = "tail" =>
            Len(Stream) >= 1 /\ Stream[Len(Stream)] = <<current'[u], "head">>
            /\ Written(u, Len(Stream))'
       /\ \A u \in Threads : pc'[u] = "newline" =>
            /\ Len(Stream) >= 2
            /\ Stream[Len(Stream) - 1] = <<current'[u], "head">>
            /\ Stream[Len(Stream)] = <<current'[u], "tail">>
            /\ Written(u, Len(Stream) - 1)'
  BY <1>0, <1>1, <1>4, <1>9 DEF Log
<1>12. QED
  BY <1>6, <1>7, <1>8, <1>10, <1>11 DEF Log, LineAt

(* A write: the thread that holds the lock adds the next piece of its      *)
(* line.                                                                   *)
LEMMA WriteLog ==
  ASSUME Orderly, Log, NEW t \in Threads, WritePiece(t)
  PROVE  Log'
<1>0. PICK n \in Nat, c \in Nat : n = Len(Stream) /\ c = current[t]
  BY StreamType DEF Orderly, Typed
<1> DEFINE w == <<c, pc[t]>>
<1>1. /\ pc[t] \in PieceSteps
      /\ Take(w)
      /\ \/ pc[t] = "newline" /\ Moves(t, "idle", "ok") /\ holder' = Nobody
         \/ /\ \/ pc[t] = "head" /\ pc' = [pc EXCEPT ![t] = "tail"]
               \/ pc[t] = "tail" /\ pc' = [pc EXCEPT ![t] = "newline"]
            /\ UNCHANGED <<calls, current, holder>>
  BY <1>0, WriteMoves
<1>2. /\ n \in Nat /\ Stream \in Seq(Writes) /\ w \in Writes
      /\ \A k \in 1 .. n : Stream[k] \in Writes
  BY <1>0, <1>1, StreamType DEF Orderly, Typed, Writes
<1>3. Stream' = Append(Stream, w)
  BY <1>1, <1>2, TakeAppends DEF Orderly
<1>4. /\ Len(Stream') = n + 1 /\ Stream'[n + 1] = w
      /\ \A k \in 1 .. n : Stream'[k] = Stream[k]
  BY <1>0, <1>2, <1>3, AppendProperties
<1>5. /\ holder = t /\ c \in 1 .. Len(calls) /\ calls[c].stage = "writing"
      /\ \A u \in Threads : u # t => pc[u] \notin PieceSteps
  BY <1>0, <1>1 DEF Orderly, Handling, PieceSteps, Busy, StageAt
<1>6. /\ current' = current /\ Len(calls') = Len(calls) /\ Len(calls) \in Nat
      /\ \A d \in 1 .. Len(calls) : d # c => calls'[d] = calls[d]
      /\ calls'[c].stage = IF pc[t] = "newline" THEN "ok" ELSE "writing"
      /\ \A u \in Threads : u # t => pc'[u] = pc[u]
      /\ pc'[t] = IF pc[t] = "head" THEN "tail" ELSE IF pc[t] = "tail" THEN "newline" ELSE "idle"
  <2>1. CASE pc[t] = "newline"
    <3>1. Moves(t, "idle", "ok")
      BY <1>1, <2>1
    <3>2. pc[t] \in Busy /\ "idle" \in Places /\ "ok" \in Stages
      BY <2>1 DEF Busy, Places, Stages
    <3>3. QED
      BY <1>0, <2>1, <3>1, <3>2, MovesFacts
  <2>2. CASE pc[t] # "newline"
    BY <1>0, <1>1, <1>5, <2>2 DEF Orderly, Typed, PieceSteps
  <2>3. QED
    BY <2>1, <2>2
<1>7. \A u \in Threads : u # t => pc'[u] \notin PieceSteps
  BY <1>5, <1>6
<1>8. \A k \in 1 .. n + 1 : Starts(k) => Starts(k)'
  <2> SUFFICES ASSUME NEW k \in 1 .. n + 1, Starts(k), k # 1 PROVE Starts(k)'
    BY DEF Starts
  <2>1. k - 1 \in 1 .. n /\ Stream'[k - 1] = Stream[k - 1]
    BY <1>2, <1>4
  <2>2. Stream[k - 1][1] \in 1 .. Len(calls)
    BY <1>0, <2>1 DEF Log
  <2>3. calls[Stream[k - 1][1]].stage = "failed" => calls'[Stream[k - 1][1]].stage = "failed"
    BY <1>5, <1>6, <2>2
  <2>4. QED
    BY <2>1, <2>3 DEF Starts
<1>9. \A j \in 1 .. n : Stream[j] # w
  <2>1. CASE pc[t] = "head"
    BY <1>0, <2>1, <1>2 DEF Log, Written
  <2>2. CASE pc[t] = "tail"
    <3>1. n >= 1 /\ Stream[n] = <<c, "head">> /\ \A j \in 1 .. n - 1 : Stream[j][1] # c
      BY <1>0, <2>2 DEF Log, Written
    <3>2. QED
      BY <1>2, <2>2, <3>1
  <2>3. CASE pc[t] = "newline"
    <3>1. /\ n >= 2 /\ Stream[n] = <<c, "tail">> /\ Stream[n - 1] = <<c, "head">>
          /\ \A j \in 1 .. (n - 1) - 1 : Stream[j][1] # c
      BY <1>0, <2>3 DEF Log, Written
    <3>2. QED
      BY <1>2, <2>3, <3>1
  <2>4. QED
    BY <1>1, <2>1, <2>2, <2>3 DEF PieceSteps
<1>10. \A k \in 1 .. Len(Stream') :
         /\ Stream'[k][1] \in 1 .. Len(calls')
         /\ calls'[Stream'[k][1]].stage \in {"writing", "ok", "failed"}
  <2>1. \A k \in 1 .. n :
          /\ Stream[k][1] \in 1 .. Len(calls)
          /\ calls[Stream[k][1]].stage \in {"writing", "ok", "failed"}
    BY <1>0 DEF Log
  <2>2. ASSUME NEW k \in 1 .. n + 1
        PROVE  /\ Stream'[k][1] \in 1 .. Len(calls')
               /\ calls'[Stream'[k][1]].stage \in {"writing", "ok", "failed"}
    <3>1. CASE k = n + 1
      <4>1. Stream'[k][1] = c
        BY <1>4, <3>1
      <4>2. calls'[c].stage \in {"writing", "ok"}
        BY <1>6
      <4>3. QED
        BY <1>5, <1>6, <4>1, <4>2
    <3>2. CASE k \in 1 .. n
      <4>1. Stream'[k] = Stream[k]
        BY <1>4, <3>2
      <4>2. PICK x : x = Stream[k][1]
        OBVIOUS
      <4>3. x \in 1 .. Len(calls) /\ calls[x].stage \in {"writing", "ok", "failed"}
        BY <2>1, <3>2, <4>2
      <4>4. calls'[x].stage \in {"writing", "ok", "failed"}
        BY <1>6, <4>3
      <4>5. QED
        BY <1>6, <4>1, <4>2, <4>3, <4>4
    <3>3. QED
      BY <1>2, <3>1, <3>2
  <2>3. QED
    BY <1>4, <2>2
<1>11. \A j, k \in 1 .. Len(Stream') : Stream'[j] = Stream'[k] => j = k
  <2>1. \A j, k \in 1 .. n : Stream[j] = Stream[k] => j = k
    BY <1>0 DEF Log
  <2>2. QED
    BY <1>2, <1>4, <1>9, <2>1
<1>12. ASSUME NEW u \in Threads, pc'[u] = "head" PROVE FALSE
  BY <1>1, <1>6, <1>7, <1>12 DEF PieceSteps
<1>13. ASSUME NEW u \in Threads, pc'[u] = "tail"
       PROVE  Len(Stream') >= 1 /\ Stream'[Len(Stream')] = <<current'[u], "head">>
              /\ Written(u, n + 1)'
  <2>1. u = t /\ pc[t] = "head"
    BY <1>1, <1>6, <1>7, <1>13 DEF PieceSteps
  <2>2. Starts(n + 1) /\ \A j \in 1 .. (n + 1) - 1 : Stream[j][1] # c
    BY <1>0, <2>1 DEF Log, Written
  <2>3. Written(t, n + 1)'
    <3>1. Starts(n + 1)'
      BY <1>2, <1>8, <2>2
    <3>2. \A j \in 1 .. (n + 1) - 1 : Stream'[j][1] # c
      BY <1>2, <1>4, <2>2
    <3>3. QED
      BY <1>0, <1>6, <3>1, <3>2 DEF Written
  <2>4. QED
    BY <1>0, <1>2, <1>4, <1>6, <2>1, <2>3
<1>14. ASSUME NEW u \in Threads, pc'[u] = "newline"
       PROVE  /\ Len(Stream') >= 2
              /\ Stream'[Len(Stream') - 1] = <<current'[u], "head">>
              /\ Stream'[Len(Stream')] = <<current'[u], "tail">>
              /\ Written(u, n)'
  <2>1. u = t /\ pc[t] = "tail"
    BY <1>1, <1>6, <1>7, <1>14 DEF PieceSteps
  <2>2. n >= 1 /\ Stream[n] = <<c, "head">> /\ Starts(n) /\ \A j \in 1 .. n - 1 : Stream[j][1] # c
    BY <1>0, <2>1 DEF Log, Written
  <2>3. Written(t, n)'
    <3>1. Starts(n)'
      BY <1>2, <1>8, <2>2
    <3>2. \A j \in 1 .. n - 1 : Stream'[j][1] # c
      BY <1>2, <1>4, <2>2
    <3>3. QED
      BY <1>0, <1>6, <3>1, <3>2 DEF Written
  <2>4. QED
    BY <1>0, <1>2, <1>4, <1>6, <2>1, <2>2, <2>3
<1>15. ASSUME \A u \in Threads : pc'[u] \notin {"tail", "newline"}
       PROVE  Starts(Len(Stream) + 1)'
  <2>1. pc[t] = "newline"
    BY <1>1, <1>6, <1>15 DEF PieceSteps
  <2>2. QED
    BY <1>2, <1>4, <2>1 DEF Starts
<1>16. ASSUME NEW d \in 1 .. Len(calls'), calls'[d].stage = "ok"
       PROVE  \E k \in 1 .. Len(Stream') - 2 : LineAt(Stream', d, k) /\ Starts(k)'
  <2>1. CASE d = c
    <3>1. pc[t] = "newline"
      BY <1>6, <1>16, <2>1
    <3>2. n >= 2 /\ Stream[n] = <<c, "tail">> /\ Stream[n - 1] = <<c, "head">> /\ Starts(n - 1)
      BY <1>0, <3>1 DEF Log, Written
    <3>3. /\ n - 1 \in 1 .. Len(Stream') - 2 /\ Stream'[n - 1] = <<c, "head">>
          /\ Stream'[(n - 1) + 1] = <<c, "tail">> /\ Stream'[(n - 1) + 2] = <<c, "newline">>
      <4>1. /\ n - 1 \in 1 .. n /\ n \in 1 .. n /\ (n - 1) + 1 = n /\ (n - 1) + 2 = n + 1
            /\ n - 1 \in 1 .. Len(Stream') - 2
        BY <1>4, <3>2
      <4>2. Stream'[n - 1] = Stream[n - 1] /\ Stream'[n] = Stream[n]
        BY <1>4, <4>1
      <4>3. Stream'[n + 1] = <<c, "newline">>
        BY <1>4, <3>1
      <4>4. QED
        BY <3>2, <4>1, <4>2, <4>3
    <3>4. Starts(n - 1)'
      BY <1>2, <1>8, <3>2
    <3>5. QED
      BY <2>1, <3>3, <3>4 DEF LineAt
  <2>2. CASE d # c
    <3>1. d \in 1 .. Len(calls) /\ calls[d].stage = "ok"
      BY <1>6, <1>16, <2>2
    <3>2. PICK k \in 1 .. n - 2 : LineAt(Stream, d, k) /\ Starts(k)
      BY <1>0, <3>1 DEF Log
    <3>3. k \in 1 .. Len(Stream') - 2 /\ k \in 1 .. n /\ k + 1 \in 1 .. n /\ k + 2 \in 1 .. n
      BY <1>2, <1>4
    <3>4. LineAt(Stream', d, k) /\ Starts(k)'
      <4>1. Starts(k)'
        BY <1>8, <3>2, <3>3
      <4>2. /\ Stream'[k] = Stream[k] /\ Stream'[k + 1] = Stream[k + 1]
            /\ Stream'[k + 2] = Stream[k + 2]
        BY <1>4, <3>3
      <4>3. QED
        BY <3>2, <3>3, <4>1, <4>2 DEF LineAt
    <3>5. QED
      BY <3>3, <3>4
  <2>3. QED
    BY <2>1, <2>2
<1>17. \A u \in Threads : pc'[u] = "tail" => Written(u, Len(Stream))'
  BY <1>4, <1>13 DEF Written, Starts
<1>18. \A u \in Threads : pc'[u] = "newline" => Written(u, Len(Stream) - 1)'
  <2>1. (n + 1) - 1 = n
    BY <1>2
  <2>2. QED
    BY <1>4, <1>14, <2>1 DEF Written, Starts
<1>19. QED
  BY <1>10, <1>11, <1>12, <1>13, <1>14, <1>15, <1>16, <1>17, <1>18 DEF Log, LineAt

(* A new call has nothing in the stream, and stops nothing.                *)
LEMMA RecordLog ==
  ASSUME Orderly, Log, NEW t \in Threads, NEW fact \in Facts, Record(t, fact)
  PROVE  Log'
<1> DEFINE r == [fact |-> fact, stage |-> "deciding"]
<1>0. Len(Stream) \in Nat
  BY StreamType DEF Orderly
<1>1. /\ r \in CallRecords /\ r.stage = "deciding"
      /\ calls' = Append(calls, r) /\ Stream' = Stream
      /\ pc' = [pc EXCEPT ![t] = "decide"] /\ current' = [current EXCEPT ![t] = Len(calls) + 1]
  BY DEF Record, Goto, fileVars, CallRecords, Stages, Stream
<1> HIDE DEF r
<1>2. /\ Len(calls') = Len(calls) + 1 /\ Len(calls) \in Nat
      /\ calls'[Len(calls) + 1].stage = "deciding"
      /\ \A c \in 1 .. Len(calls) : calls'[c] = calls[c]
  BY <1>1, AppendProperties DEF Orderly, Typed
<1>3. /\ pc'[t] = "decide"
      /\ \A u \in Threads : u # t => pc'[u] = pc[u] /\ current'[u] = current[u]
      /\ pc[t] = "idle"
  BY <1>1 DEF Orderly, Typed, Record
<1>4. \A k \in 1 .. Len(Stream) + 1 : Starts(k) => Starts(k)'
  BY <1>0, <1>1, <1>2, StartsStays
<1>5. \A u \in Threads, k \in 1 .. Len(Stream) + 1 : u # t /\ Written(u, k) => Written(u, k)'
  BY <1>0, <1>1, <1>3, <1>4 DEF Written
<1>6. ASSUME NEW d \in 1 .. Len(calls'), calls'[d].stage = "ok"
      PROVE  \E k \in 1 .. Len(Stream) - 2 : LineAt(Stream, d, k) /\ Starts(k)'
  <2>1. d \in 1 .. Len(calls) /\ calls[d].stage = "ok"
    BY <1>2, <1>6
  <2>2. PICK k \in 1 .. Len(Stream) - 2 : LineAt(Stream, d, k) /\ Starts(k)
    BY <2>1 DEF Log
  <2>3. QED
    BY <1>0, <1>4, <2>2
<1>7. \A k \in 1 .. Len(Stream) :
        /\ Stream[k][1] \in 1 .. Len(calls')
        /\ calls'[Stream[k][1]].stage \in {"writing", "ok", "failed"}
  BY <1>2 DEF Log
<1>8. /\ \A u \in Threads : pc'[u] = "head" => Written(u, Len(Stream) + 1)'
      /\ \A u \in Threads : pc'[u] = "tail" =>
           Len(Stream) >= 1 /\ Stream[Len(Stream)] = <<current'[u], "head">>
           /\ Written(u, Len(Stream))'
      /\ \A u \in Threads : pc'[u] = "newline" =>
           /\ Len(Stream) >= 2
           /\ Stream[Len(Stream) - 1] = <<current'[u], "head">>
           /\ Stream[Len(Stream)] = <<current'[u], "tail">>
           /\ Written(u, Len(Stream) - 1)'
  BY <1>0, <1>1, <1>3, <1>5 DEF Log
<1>9. (\A u \in Threads : pc'[u] \notin {"tail", "newline"}) => Starts(Len(Stream) + 1)'
  BY <1>0, <1>1, <1>3, <1>4 DEF Log
<1>10. QED
  BY <1>1, <1>6, <1>7, <1>8, <1>9 DEF Log, LineAt

LogWhileRunning == Running => Log

(* Every step keeps the log.                                               *)
LEMMA NextLog == Orderly /\ LogWhileRunning /\ [Next]_vars => LogWhileRunning'
<1> SUFFICES ASSUME Orderly, LogWhileRunning, [Next]_vars, Running' PROVE Log'
  BY DEF LogWhileRunning
<1> USE DEF Busy, Places, Stages, PieceSteps
<1>1. ASSUME NEW t \in Threads, NEW fact \in Facts, Record(t, fact) PROVE Log'
  BY <1>1, RecordLog DEF LogWhileRunning, Record
<1>2. ASSUME NEW t \in Threads, Decide(t) PROVE Log'
  <2>1. /\ pc[t] = "decide" /\ Running /\ UNCHANGED <<disk, buffer>>
        /\ Moves(t, "lock", "waiting") \/ Moves(t, "idle", "skipped")
    BY <1>2, DecideMoves
  <2>2. QED
    BY <2>1, MovesLog DEF LogWhileRunning, Stream
<1>3. ASSUME NEW t \in Threads, LockWriter(t) PROVE Log'
  <2>1. /\ pc[t] = "lock" /\ Running /\ holder = Nobody /\ UNCHANGED <<disk, buffer>>
        /\ Moves(t, "idle", "failed") \/ Moves(t, "head", "writing")
    BY <1>3, LockMoves
  <2>2. QED
    BY <2>1, MovesLog DEF LogWhileRunning, Stream
<1>4. ASSUME NEW t \in Threads, WritePiece(t) PROVE Log'
  BY <1>4, WriteLog, WriteMoves DEF LogWhileRunning
<1>5. ASSUME NEW t \in Threads, WriteFails(t) \/ WritePanics(t) PROVE Log'
  <2>1. /\ pc[t] \in PieceSteps /\ Running
        /\ WriteOutFails \/ UNCHANGED <<disk, buffer>>
        /\ Moves(t, "idle", "failed") \/ Moves(t, "dead", "failed")
    BY <1>5, FailMoves
  <2>2. Stream' = Stream
    BY <2>1, WriteOutKeeps DEF Orderly, Stream
  <2>3. QED
    BY <2>1, <2>2, MovesLog DEF LogWhileRunning
<1>6. CASE \/ \E t \in Threads : Flush(t) \/ FlushFails(t)
           \/ DropSink \/ Crash \/ UNCHANGED vars
  <2>1. Stream' = Stream /\ Log /\ Idles
    BY <1>6, OtherFiles, OtherIdles DEF Orderly, LogWhileRunning
  <2>2. QED
    BY <2>1 DEF Log, Starts, Written, Idles
<1>7. QED
  BY <1>1, <1>2, <1>3, <1>4, <1>5, <1>6 DEF Next

(* The initial states are in order, with an empty log.                     *)
LEMMA InitLog == Init => Orderly /\ LogWhileRunning
<1> SUFFICES ASSUME Init PROVE Orderly /\ LogWhileRunning
  OBVIOUS
<1>1. Typed
  BY DEF Init, Typed, Places
<1>2. Handling
  BY SinkAssumption DEF Init, Handling, Busy, PieceSteps
<1>3. Stream = <<>>
  BY DEF Init, Stream
<1>4. Log
  BY <1>3 DEF Init, Log, Starts
<1>5. QED
  BY <1>1, <1>2, <1>4 DEF Orderly, LogWhileRunning

LEMMA LogInvariant == Spec => [](Orderly /\ LogWhileRunning)
BY InitLog, NextOrderly, NextLog, PTL DEF Spec

(* A whole line, position by position.                                     *)
LEMMA AtMeansLineAt ==
  ASSUME NEW s \in Seq(Writes), NEW c \in Nat
  PROVE  \A k \in 1 .. Len(s) - 2 : SubSeq(s, k, k + 2) = Line(c) <=> LineAt(s, c, k)
<1> SUFFICES ASSUME NEW k \in 1 .. Len(s) - 2
             PROVE  SubSeq(s, k, k + 2) = Line(c) <=> LineAt(s, c, k)
  OBVIOUS
<1>1. SubSeq(s, k, k + 2) = <<s[k], s[k + 1], s[k + 2]>>
  <2> DEFINE z == SubSeq(s, k, k + 2)
             y == <<s[k], s[k + 1], s[k + 2]>>
  <2>1. \A i \in k .. k + 2 : s[i] \in Writes
    OBVIOUS
  <2>2. /\ z \in Seq(Writes) /\ Len(z) = 3
        /\ \A i \in 1 .. 3 : z[i] = s[k + i - 1]
    BY <2>1, SubSeqProperties
  <2>3. y \in Seq(Writes) /\ Len(y) = 3 /\ \A i \in 1 .. 3 : y[i] = s[k + i - 1]
    BY <2>1
  <2> HIDE DEF y, z
  <2>4. z = y
    <3>1. Len(z) = Len(y) /\ \A i \in 1 .. Len(z) : z[i] = y[i]
      BY <2>2, <2>3
    <3>2. QED
      BY <2>2, <2>3, <3>1, SeqEqual
  <2>5. QED
    BY <2>4 DEF y, z
<1>2. PICK a, b, d : a = <<c, "head">> /\ b = <<c, "tail">> /\ d = <<c, "newline">>
  OBVIOUS
<1>3. Line(c) = <<a, b, d>>
  BY <1>2 DEF Line
<1>4. <<s[k], s[k + 1], s[k + 2]>> = <<a, b, d>> <=> s[k] = a /\ s[k + 1] = b /\ s[k + 2] = d
  OBVIOUS
<1>5. QED
  BY <1>1, <1>2, <1>3, <1>4 DEF LineAt

(* Whatever the threads, the buffer and the faults do, an acknowledged     *)
(* record is one whole line of the log, torn only by a failed record       *)
(* before it (JsonlMetadataSink::record under the writer's lock).          *)
THEOREM LinesStayWhole == Spec => []TornOnlyAfterFailure
<1>1. Orderly /\ LogWhileRunning => TornOnlyAfterFailure
  <2> SUFFICES ASSUME Orderly, Log, NEW c \in Acknowledged
               PROVE  \E k \in At(Stream, c) :
                        /\ At(Stream, c) = {k}
                        /\ \/ k = 1
                           \/ Stream[k - 1][2] = "newline"
                           \/ calls[Stream[k - 1][1]].stage = "failed"
    BY DEF LogWhileRunning, TornOnlyAfterFailure
  <2>1. Stream \in Seq(Writes) /\ Len(Stream) \in Nat
    BY StreamType DEF Orderly
  <2>2. c \in 1 .. Len(calls) /\ calls[c].stage = "ok" /\ c \in Nat
    BY DEF Acknowledged, Orderly, Typed
  <2>3. PICK k \in 1 .. Len(Stream) - 2 : LineAt(Stream, c, k) /\ Starts(k)
    BY <2>2 DEF Log
  <2>4. \A j \in 1 .. Len(Stream) - 2 : j \in At(Stream, c) <=> LineAt(Stream, c, j)
    BY <2>1, <2>2, AtMeansLineAt DEF At
  <2>5. \A j \in 1 .. Len(Stream) - 2 : LineAt(Stream, c, j) => j = k
    <3>1. \A i, j \in 1 .. Len(Stream) : Stream[i] = Stream[j] => i = j
      BY DEF Log
    <3>2. \A j \in 1 .. Len(Stream) - 2 : j \in 1 .. Len(Stream)
      BY <2>1
    <3>3. QED
      BY <2>3, <3>1, <3>2 DEF LineAt
  <2>6. At(Stream, c) = {k}
    BY <2>3, <2>4, <2>5 DEF At
  <2>7. QED
    BY <2>3, <2>6 DEF Starts
<1>2. QED
  BY LogInvariant, <1>1, PTL
-------------------------------------------------------------------------------
(* What a successful flush covered is in the file, line by line.           *)
Kept == \A c \in flushed : c \in Nat /\ \E k \in 1 .. Len(disk) - 2 : LineAt(disk, c, k)

LEMMA GrowsKeeps ==
  ASSUME Typed, Kept, Grows, flushed' = flushed
  PROVE  Kept'
<1>1. Len(disk) \in Nat /\ Len(disk') \in Nat
  BY DEF Typed, Grows
<1> SUFFICES ASSUME NEW c \in flushed
             PROVE  c \in Nat /\ \E k \in 1 .. Len(disk') - 2 : LineAt(disk', c, k)
  BY DEF Kept
<1>2. PICK k \in 1 .. Len(disk) - 2 : LineAt(disk, c, k)
  BY DEF Kept
<1>3. k \in 1 .. Len(disk') - 2 /\ k \in 1 .. Len(disk) /\ k + 1 \in 1 .. Len(disk)
      /\ k + 2 \in 1 .. Len(disk)
  BY <1>1 DEF Grows
<1>4. LineAt(disk', c, k)
  BY <1>2, <1>3 DEF LineAt, Grows
<1>5. QED
  BY <1>3, <1>4 DEF Kept

(* Every step keeps it: the file is only appended to, and a flush that     *)
(* succeeds leaves the whole stream in it.                                 *)
LEMMA NextKept == Orderly /\ LogWhileRunning /\ Kept /\ [Next]_vars => Kept'
<1> SUFFICES ASSUME Orderly, LogWhileRunning, Kept, [Next]_vars PROVE Kept'
  OBVIOUS
<1>1. ASSUME NEW t \in Threads, Flush(t) PROVE Kept'
  <2>1. Running /\ disk' = Stream /\ flushed' = Acknowledged
    BY <1>1 DEF Flush, WriteOut, Stream
  <2>2. Log
    BY <2>1 DEF LogWhileRunning
  <2>3. ASSUME NEW c \in Acknowledged
        PROVE  c \in Nat /\ \E k \in 1 .. Len(Stream) - 2 : LineAt(Stream, c, k)
    BY <2>2 DEF Acknowledged, Log, Orderly, Typed
  <2>4. QED
    BY <2>1, <2>3 DEF Kept
<1>2. Grows /\ flushed' = flushed => Kept'
  BY GrowsKeeps DEF Orderly
<1>3. ASSUME NEW t \in Threads, NEW fact \in Facts, Record(t, fact) PROVE Kept'
  BY <1>2, <1>3 DEF Record, fileVars, flushVars, Grows, Orderly, Typed
<1>4. ASSUME NEW t \in Threads, Decide(t) \/ LockWriter(t) PROVE Kept'
  BY <1>2, <1>4, DecideMoves, LockMoves DEF Grows, Orderly, Typed
<1>5. ASSUME NEW t \in Threads, WritePiece(t) PROVE Kept'
  <2>1. pc[t] \in PieceSteps /\ Take(<<current[t], pc[t]>>) /\ flushed' = flushed
    BY <1>5, WriteMoves
  <2>2. <<current[t], pc[t]>> \in Writes
    BY <2>1 DEF Orderly, Typed, Writes
  <2>3. QED
    BY <1>2, <2>1, <2>2, TakeAppends DEF Orderly
<1>6. ASSUME NEW t \in Threads, WriteFails(t) \/ WritePanics(t) PROVE Kept'
  <2>1. WriteOutFails \/ UNCHANGED <<disk, buffer>>
    BY <1>6, FailMoves
  <2>2. Grows
    BY <2>1, WriteOutKeeps DEF Orderly, Typed, Grows
  <2>3. QED
    BY <1>2, <1>6, <2>2, FailMoves
<1>7. CASE (\E t \in Threads : FlushFails(t)) \/ DropSink \/ Crash \/ UNCHANGED vars
  <2>1. Grows
    BY <1>7, OtherFiles DEF Orderly
  <2>2. flushed' = flushed
    BY <1>7 DEF FlushFails, DropSink, Crash, vars, flushVars
  <2>3. QED
    BY <1>2, <2>1, <2>2
<1>8. QED
  BY <1>1, <1>3, <1>4, <1>5, <1>6, <1>7 DEF Next

(* After a successful flush no crash, fault or full buffer loses what was  *)
(* acknowledged before it (JsonlMetadataSink::flush).                      *)
THEOREM FlushIsDurable == Spec => []FlushedSurvives
<1>1. Init => Kept
  BY DEF Init, Kept
<1>2. Orderly /\ Kept => FlushedSurvives
  BY AtMeansLineAt DEF Orderly, Typed, Kept, FlushedSurvives, At
<1>3. QED
  BY LogInvariant, NextKept, <1>1, <1>2, PTL DEF Spec
-------------------------------------------------------------------------------
TakenData == {c \in DataSeen : calls[c].stage # "skipped"}
Expected(n) == IF policy.rate = 0 THEN 0 ELSE (n + policy.rate - 1) \div policy.rate

(* The counter is the number of data facts seen, until it saturates; the   *)
(* sample is exact.                                                        *)
Counted ==
  /\ policy.rate \in Nat
  /\ data_seen = IF Cardinality(DataSeen) <= UsizeMax THEN Cardinality(DataSeen) ELSE UsizeMax
  /\ Cardinality(DataSeen) <= UsizeMax => Cardinality(TakenData) = Expected(Cardinality(DataSeen))
  /\ \A c \in 1 .. Len(calls) : calls[c].fact.tier = "control" => calls[c].stage # "skipped"

(* A quotient is determined by its remainder.                              *)
LEMMA QuotientUnique ==
  ASSUME NEW q \in Nat, NEW m \in Nat, NEW r \in Nat, m < r
  PROVE  (q * r + m) \div r = q /\ (q * r + m) % r = m
OBVIOUS

(* Rounding up: the quotient moves on with each multiple.                  *)
LEMMA RoundUp ==
  ASSUME NEW n \in Nat, NEW r \in Nat \ {0}
  PROVE  /\ (n + r - 1) \div r \in Nat
         /\ ((n + 1) + r - 1) \div r = (n + r - 1) \div r + (IF n % r = 0 THEN 1 ELSE 0)
<1>1. PICK q \in Nat, m \in 0 .. r - 1 : n = q * r + m
  <2>1. n \div r \in Nat
    OBVIOUS
  <2>2. n = (n \div r) * r + (n % r) /\ n % r \in 0 .. r - 1
    OBVIOUS
  <2>3. QED
    BY <2>1, <2>2
<1>2. n % r = m /\ q * r \in Nat
  BY <1>1, QuotientUnique
<1>3. (q + 1) * r = q * r + r
  OBVIOUS
<1>4. CASE m = 0
  <2>1. n + r - 1 = q * r + (r - 1) /\ (n + 1) + r - 1 = (q + 1) * r + 0 /\ r - 1 \in Nat /\ r - 1 < r
    BY <1>1, <1>2, <1>3, <1>4
  <2>2. (q * r + (r - 1)) \div r = q /\ ((q + 1) * r + 0) \div r = q + 1
    BY <2>1, QuotientUnique
  <2>3. QED
    BY <1>2, <1>4, <2>1, <2>2
<1>5. CASE m # 0
  <2>1. n + r - 1 = (q + 1) * r + (m - 1) /\ (n + 1) + r - 1 = (q + 1) * r + m /\ m - 1 \in Nat
    BY <1>1, <1>2, <1>3, <1>5
  <2>2. ((q + 1) * r + (m - 1)) \div r = q + 1 /\ ((q + 1) * r + m) \div r = q + 1
    BY <2>1, QuotientUnique
  <2>3. QED
    BY <1>2, <1>5, <2>1, <2>2
<1>6. QED
  BY <1>4, <1>5

LEMMA SetsFinite ==
  ASSUME Typed
  PROVE  /\ DOMAIN calls = 1 .. Len(calls) /\ Len(calls) \in Nat
         /\ IsFiniteSet(DataSeen) /\ IsFiniteSet(TakenData)
         /\ Cardinality(DataSeen) \in Nat /\ Cardinality(TakenData) \in Nat
<1>1. DOMAIN calls = 1 .. Len(calls) /\ Len(calls) \in Nat
  BY DEF Typed
<1>2. IsFiniteSet(1 .. Len(calls))
  BY <1>1, FS_Interval
<1>3. DataSeen \in SUBSET (1 .. Len(calls)) /\ TakenData \in SUBSET (1 .. Len(calls))
  BY <1>1 DEF DataSeen, TakenData
<1>4. IsFiniteSet(DataSeen) /\ IsFiniteSet(TakenData)
  BY <1>2, <1>3, FS_Subset
<1>5. QED
  BY <1>1, <1>4, FS_CardinalityType

(* A step that shows the same calls to the sampler.                        *)
LEMMA SameSample ==
  ASSUME Counted, DataSeen' = DataSeen, TakenData' = TakenData,
         UNCHANGED <<policy, data_seen>>,
         \A c \in 1 .. Len(calls') :
           calls'[c].fact.tier = "control" => calls'[c].stage # "skipped"
  PROVE  Counted'
BY DEF Counted, Expected

(* A move between stages behind the decision.                              *)
LEMMA MoveSample ==
  ASSUME Orderly, Counted, NEW t \in Threads, NEW place \in Places, NEW stage \in Stages,
         pc[t] \in Busy, pc[t] # "decide", Moves(t, place, stage),
         stage \notin {"deciding", "skipped"}, UNCHANGED <<policy, data_seen>>
  PROVE  Counted'
<1>1. /\ current[t] \in 1 .. Len(calls) /\ Len(calls') = Len(calls)
      /\ calls[current[t]].stage \notin {"deciding", "skipped"}
      /\ calls'[current[t]].stage = stage
      /\ \A d \in 1 .. Len(calls) : d # current[t] => calls'[d] = calls[d]
      /\ \A d \in 1 .. Len(calls) : calls'[d].fact = calls[d].fact
      /\ calls' \in Seq(CallRecords)
  BY StageFacts, MovesFacts DEF Orderly, Handling, Moves, StageAt
<1>2. DOMAIN calls = 1 .. Len(calls) /\ DOMAIN calls' = 1 .. Len(calls)
  BY <1>1 DEF Orderly, Typed
<1>3. \A d \in 1 .. Len(calls) :
        /\ calls'[d].stage = "deciding" <=> calls[d].stage = "deciding"
        /\ calls'[d].stage = "skipped" <=> calls[d].stage = "skipped"
        /\ calls'[d].fact = calls[d].fact
  BY <1>1
<1>4. DataSeen' = DataSeen
  BY <1>2, <1>3 DEF DataSeen
<1>5. TakenData' = TakenData
  <2>1. DataSeen \subseteq 1 .. Len(calls)
    BY <1>2 DEF DataSeen
  <2>2. QED
    BY <1>3, <1>4, <2>1 DEF TakenData
<1>6. \A d \in 1 .. Len(calls') :
        calls'[d].fact.tier = "control" => calls'[d].stage # "skipped"
  BY <1>1, <1>3 DEF Counted
<1>7. QED
  BY <1>4, <1>5, <1>6, SameSample

(* The decision: one fact more is seen, and taken when its number says so. *)
LEMMA DecideSample ==
  ASSUME Orderly, Counted, NEW t \in Threads, Decide(t)
  PROVE  Counted'
<1>0. PICK c \in 1 .. Len(calls) : c = current[t] /\ calls[c].stage = "deciding"
  <2>1. pc[t] = "decide"
    BY DecideMoves
  <2>2. QED
    BY <2>1 DEF Orderly, Handling, Busy, StageAt
<1> DEFINE tier == calls[c].fact.tier
           n == Cardinality(DataSeen)
<1>1. /\ policy' = policy
      /\ data_seen' = IF tier = "data" THEN saturating_add(data_seen) ELSE data_seen
      /\ Stage(c, IF Selects(tier) THEN "waiting" ELSE "skipped")
  BY <1>0 DEF Decide, Count
<1>2. tier \in Tiers
  <2>1. calls[c] \in CallRecords
    BY DEF Orderly, Typed
  <2>2. QED
    BY <2>1, SinkAssumption DEF CallRecords
<1>3. "waiting" \in Stages /\ "skipped" \in Stages
  BY DEF Stages
<1>4. /\ Len(calls') = Len(calls) /\ calls' \in Seq(CallRecords)
      /\ calls'[c].stage = IF Selects(tier) THEN "waiting" ELSE "skipped"
      /\ \A d \in 1 .. Len(calls) : d # c => calls'[d] = calls[d]
      /\ \A d \in 1 .. Len(calls) : calls'[d].fact = calls[d].fact
  BY <1>1, <1>3, StageFacts DEF Orderly
<1>5. DOMAIN calls = 1 .. Len(calls) /\ DOMAIN calls' = 1 .. Len(calls)
  BY <1>4 DEF Orderly, Typed
<1>6. /\ n \in Nat /\ IsFiniteSet(DataSeen) /\ IsFiniteSet(TakenData)
      /\ Cardinality(TakenData) \in Nat
  BY SetsFinite DEF Orderly
<1>7. c \notin DataSeen /\ c \notin TakenData
  BY <1>0 DEF DataSeen, TakenData
<1>8. \A d \in 1 .. Len(calls') :
        calls'[d].fact.tier = "control" => calls'[d].stage # "skipped"
  <2>1. tier = "control" => Selects(tier)
    BY DEF Selects
  <2>2. QED
    BY <1>4, <2>1 DEF Counted
<1>9. CASE tier # "data"
  <2>1. DataSeen' = DataSeen
    BY <1>4, <1>5, <1>9 DEF DataSeen
  <2>2. \A d \in DataSeen : calls'[d] = calls[d]
    BY <1>4, <1>5, <1>7 DEF DataSeen
  <2>3. TakenData' = TakenData
    BY <2>1, <2>2 DEF TakenData
  <2>4. QED
    BY <1>1, <1>8, <1>9, <2>1, <2>3, SameSample
<1>10. CASE tier = "data"
  <2>1. DataSeen' = DataSeen \cup {c}
    BY <1>3, <1>4, <1>5, <1>10 DEF DataSeen
  <2>2. \A d \in DataSeen : calls'[d] = calls[d]
    BY <1>4, <1>5, <1>7 DEF DataSeen
  <2>3. TakenData' = IF Selects(tier) THEN TakenData \cup {c} ELSE TakenData
    BY <1>4, <2>1, <2>2 DEF TakenData
  <2>4. Cardinality(DataSeen') = n + 1
    BY <1>6, <1>7, <2>1, FS_AddElement
  <2>5. Cardinality(TakenData') =
          IF Selects(tier) THEN Cardinality(TakenData) + 1 ELSE Cardinality(TakenData)
    BY <1>6, <1>7, <2>3, FS_AddElement
  <2>6. Selects(tier) <=> policy.rate # 0 /\ data_seen % policy.rate = 0
    BY <1>10 DEF Selects, should_record_data
  <2> HIDE DEF tier, n
  <2>7. UsizeMax \in Nat /\ policy.rate \in Nat
    BY SinkAssumption DEF Counted
  <2>8. data_seen' = IF n + 1 <= UsizeMax THEN n + 1 ELSE UsizeMax
    <3>1. data_seen = IF n <= UsizeMax THEN n ELSE UsizeMax
      BY DEF Counted, n
    <3>2. QED
      BY <1>1, <1>6, <1>10, <2>7, <3>1 DEF saturating_add
  <2>9. n + 1 <= UsizeMax => Cardinality(TakenData') = Expected(n + 1)
    <3> SUFFICES ASSUME n + 1 <= UsizeMax PROVE Cardinality(TakenData') = Expected(n + 1)
      OBVIOUS
    <3>1. data_seen = n /\ Cardinality(TakenData) = Expected(n)
      BY <1>6, <2>7 DEF Counted, n
    <3>2. CASE policy.rate = 0
      BY <2>5, <2>6, <3>1, <3>2 DEF Expected
    <3>3. CASE policy.rate # 0
      <4>1. /\ (n + policy.rate - 1) \div policy.rate \in Nat
            /\ ((n + 1) + policy.rate - 1) \div policy.rate =
                 (n + policy.rate - 1) \div policy.rate + (IF n % policy.rate = 0 THEN 1 ELSE 0)
        BY <1>6, <2>7, <3>3, RoundUp
      <4>2. QED
        BY <2>5, <2>6, <3>1, <3>3, <4>1 DEF Expected
    <3>4. QED
      BY <3>2, <3>3
  <2>10. QED
    BY <1>1, <1>8, <2>4, <2>7, <2>8, <2>9 DEF Counted, Expected
<1>11. QED
  BY <1>9, <1>10

(* Every step keeps the count.                                             *)
LEMMA NextCounted == Orderly /\ Counted /\ [Next]_vars => Counted'
<1> SUFFICES ASSUME Orderly, Counted, [Next]_vars PROVE Counted'
  OBVIOUS
<1>1. ASSUME NEW t \in Threads, NEW fact \in Facts, Record(t, fact) PROVE Counted'
  <2> DEFINE r == [fact |-> fact, stage |-> "deciding"]
  <2>1. r \in CallRecords /\ r.stage = "deciding" /\ calls' = Append(calls, r)
        /\ UNCHANGED <<policy, data_seen>>
    BY <1>1 DEF Record, CallRecords, Stages
  <2> HIDE DEF r
  <2>2. /\ Len(calls') = Len(calls) + 1 /\ Len(calls) \in Nat
        /\ calls'[Len(calls) + 1].stage = "deciding"
        /\ \A c \in 1 .. Len(calls) : calls'[c] = calls[c]
        /\ calls' \in Seq(CallRecords)
    BY <2>1, AppendProperties DEF Orderly, Typed
  <2>3. DOMAIN calls = 1 .. Len(calls) /\ DOMAIN calls' = 1 .. Len(calls) + 1
    BY <2>2 DEF Orderly, Typed
  <2>4. DataSeen' = DataSeen
    BY <2>2, <2>3 DEF DataSeen
  <2>5. TakenData' = TakenData
    <3>1. \A c \in DataSeen : calls'[c] = calls[c]
      BY <2>2, <2>3 DEF DataSeen
    <3>2. QED
      BY <2>4, <3>1 DEF TakenData
  <2>6. \A c \in 1 .. Len(calls') :
          calls'[c].fact.tier = "control" => calls'[c].stage # "skipped"
    BY <2>2 DEF Counted
  <2>7. QED
    BY <2>1, <2>4, <2>5, <2>6, SameSample
<1>2. ASSUME NEW t \in Threads, Decide(t) PROVE Counted'
  BY <1>2, DecideSample
<1> USE DEF Busy, Places, Stages, PieceSteps
<1>3. ASSUME NEW t \in Threads, LockWriter(t) PROVE Counted'
  <2>1. UNCHANGED <<policy, data_seen>>
    BY <1>3 DEF LockWriter
  <2>2. QED
    BY <1>3, <2>1, LockMoves, MoveSample
<1>4. ASSUME NEW t \in Threads, WritePiece(t) PROVE Counted'
  <2>1. UNCHANGED <<policy, data_seen>>
    BY <1>4 DEF WritePiece
  <2>2. CASE calls' = calls
    BY <2>1, <2>2, SameSample DEF DataSeen, TakenData, Counted
  <2>3. CASE calls' # calls
    BY <1>4, <2>1, <2>3, WriteMoves, MoveSample
  <2>4. QED
    BY <2>2, <2>3
<1>5. ASSUME NEW t \in Threads, WriteFails(t) \/ WritePanics(t) PROVE Counted'
  <2>1. UNCHANGED <<policy, data_seen>>
    BY <1>5 DEF WriteFails, WritePanics
  <2>2. QED
    BY <1>5, <2>1, FailMoves, MoveSample
<1>6. CASE \/ \E t \in Threads : Flush(t) \/ FlushFails(t)
           \/ DropSink \/ Crash \/ UNCHANGED vars
  <2>1. UNCHANGED <<policy, data_seen, calls>>
    BY <1>6 DEF Flush, FlushFails, DropSink, Crash, vars
  <2>2. QED
    BY <2>1, SameSample DEF DataSeen, TakenData, Counted
<1>7. QED
  BY <1>1, <1>2, <1>3, <1>4, <1>5, <1>6 DEF Next

(* The sample of a data tier is exact for every rate, counter width and    *)
(* interleaving of the recording threads, and no control fact is dropped   *)
(* (TieredMetadataSink::should_record).                                    *)
THEOREM SamplingIsExact == Spec => []SampleExact
<1>1. Init => Counted
  <2> SUFFICES ASSUME Init PROVE Counted
    OBVIOUS
  <2>1. DataSeen = {} /\ TakenData = {}
    BY DEF Init, DataSeen, TakenData
  <2>2. Cardinality(DataSeen) = 0 /\ Cardinality(TakenData) = 0
    BY <2>1, FS_EmptySet
  <2>3. policy.rate \in Nat /\ UsizeMax \in Nat
    BY SinkAssumption DEF Init
  <2>4. Expected(0) = 0
    <3>1. CASE policy.rate # 0
      <4>1. 0 * policy.rate + (policy.rate - 1) = 0 + policy.rate - 1
        BY <2>3
      <4>2. QED
        BY <2>3, <3>1, <4>1, QuotientUnique DEF Expected
    <3>2. QED
      BY <3>1 DEF Expected
  <2>5. QED
    BY <2>2, <2>3, <2>4 DEF Init, Counted
<1>2. Orderly /\ Counted => SampleExact
  BY DEF Orderly, Typed, Counted, SampleExact, TakenData, Expected
<1>3. QED
  BY LogInvariant, NextCounted, <1>1, <1>2, PTL DEF Spec

-----------------------------------------------------------------------------
(* What a line says *)

LEMMA ExecutionTold ==
  ASSUME NEW x, NEW y, IsExecution(x), IsExecution(y), ExecutionJson(x) = ExecutionJson(y)
  PROVE  x = y
<1>1. x.id = y.id /\ x.attempt = y.attempt
  BY DEF ExecutionJson
<1>2. QED
  BY <1>1 DEF IsExecution

LEMMA CancellationTold ==
  ASSUME NEW x, NEW y, IsOption(x), IsOption(y), CancellationJson(x) = CancellationJson(y)
  PROVE  x = y
<1>1. \A o : CancellationJson(o).state = IF o = None THEN "active" ELSE "requested"
  BY DEF CancellationJson
<1>2. \A o : o # None => CancellationJson(o).reason = o[1]
  BY DEF CancellationJson
<1>3. x = None <=> y = None
  BY <1>1
<1>4. x # None => x[1] = y[1]
  BY <1>2, <1>3
<1>5. QED
  BY <1>3, <1>4 DEF IsOption

LEMMA ContextTold ==
  ASSUME NEW c, NEW d, IsContext(c), IsContext(d), ContextJson(c) = ContextJson(d)
  PROVE  c = d
<1>1. /\ c.workflow = d.workflow /\ c.node = d.node
      /\ ExecutionJson(c.execution) = ExecutionJson(d.execution)
      /\ CancellationJson(c.reason) = CancellationJson(d.reason)
  BY DEF ContextJson
<1>2. c.execution = d.execution
  BY <1>1, ExecutionTold DEF IsContext
<1>3. c.reason = d.reason
  BY <1>1, CancellationTold DEF IsContext
<1>4. QED
  BY <1>1, <1>2, <1>3 DEF IsContext

(* An optional value is written as null or as what its value is written.   *)
LEMMA OptionTold ==
  ASSUME NEW x, NEW y, NEW f, NEW g,
         x = None \/ x = Some(x[1]), y = None \/ y = Some(y[1]),
         (IF x = None THEN None ELSE Some(f)) = (IF y = None THEN None ELSE Some(g)),
         x # None /\ y # None /\ f = g => x[1] = y[1]
  PROVE  x = y
<1>1. Some(f) # None /\ Some(g) # None /\ Some(f)[1] = f /\ Some(g)[1] = g
  BY DEF Some, None
<1>2. x = None <=> y = None
  BY <1>1
<1>3. x # None => f = g
  BY <1>1, <1>2
<1>4. QED
  BY <1>2, <1>3

LEMMA EndpointTold ==
  ASSUME NEW p, NEW q, IsEndpoint(p), IsEndpoint(q), EndpointJson(p) = EndpointJson(q)
  PROVE  p = q
<1>1. p.node = q.node /\ p.port = q.port
  BY DEF EndpointJson
<1>2. QED
  BY <1>1 DEF IsEndpoint

LEMMA MessageTold ==
  ASSUME NEW m, NEW n, IsMessage(m), IsMessage(n), MessageJson(m) = MessageJson(n)
  PROVE  m = n
<1>1. /\ m.id = n.id /\ m.workflow = n.workflow
      /\ ExecutionJson(m.execution) = ExecutionJson(n.execution)
      /\ MessageJson(m).route = MessageJson(n).route
  BY DEF MessageJson
<1>2. \A t : MessageJson(t).route.target = EndpointJson(t.target)
  BY DEF MessageJson
<1>s. \A t : MessageJson(t).route.source = IF t.source = None THEN None ELSE Some(EndpointJson(t.source[1]))
  BY DEF MessageJson, MapOption
<1>3. EndpointJson(m.target) = EndpointJson(n.target)
  BY <1>1, <1>2
<1>4. m.execution = n.execution
  BY <1>1, ExecutionTold DEF IsMessage
<1>5. m.target = n.target
  BY <1>3, EndpointTold DEF IsMessage
<1>6. m.source = n.source
  <2> DEFINE f == EndpointJson(m.source[1])
             g == EndpointJson(n.source[1])
  <2>1. (IF m.source = None THEN None ELSE Some(f)) = (IF n.source = None THEN None ELSE Some(g))
    BY <1>1, <1>s
  <2>2. m.source # None /\ n.source # None /\ f = g => m.source[1] = n.source[1]
    BY EndpointTold DEF IsMessage
  <2>3. /\ m.source = None \/ m.source = Some(m.source[1])
        /\ n.source = None \/ n.source = Some(n.source[1])
    BY DEF IsMessage
  <2> HIDE DEF f, g
  <2>4. QED
    BY <2>1, <2>2, <2>3, OptionTold
<1>7. QED
  BY <1>1, <1>4, <1>5, <1>6 DEF IsMessage

LEMMA ErrorTold ==
  ASSUME NEW x, NEW y, IsError(x), IsError(y), PureflowErrorJson(x) = PureflowErrorJson(y)
  PROVE  x = y
<1>1. Message(x) = Message(y)
  BY DEF PureflowErrorJson
<1>2. Message(x)[2] = x.family /\ Message(y)[2] = y.family /\ Message(x)[3] = x.text /\ Message(y)[3] = y.text
  BY DEF Message
<1>3. QED
  BY <1>1, <1>2 DEF IsError

LEMMA DiagnosticTold ==
  ASSUME NEW x, NEW y, IsDiagnostic(x), IsDiagnostic(y), DiagnosticJson(x) = DiagnosticJson(y)
  PROVE  x = y
<1>1. /\ x.counts.scheduled = y.counts.scheduled /\ x.counts.pending = y.counts.pending
      /\ x.counts.completed = y.counts.completed /\ x.counts.failed = y.counts.failed
      /\ x.counts.cancelled = y.counts.cancelled
      /\ x.edges = y.edges /\ x.timeout = y.timeout /\ x.policy = y.policy
      /\ x.startup = y.startup /\ x.termination = y.termination
  BY DEF DiagnosticJson
<1>2. x.counts = y.counts
  BY <1>1 DEF IsDiagnostic
<1>3. QED
  BY <1>1, <1>2 DEF IsDiagnostic

ActionKinds == {"Route", "Drop", "DeadLetter", "Tag", "Halt", "Default"}

ActionLabel(kind) ==
  CASE kind = "Route" -> "route" [] kind = "Drop" -> "drop" [] kind = "DeadLetter" -> "dead_letter"
    [] kind = "Tag" -> "tag" [] kind = "Halt" -> "halt" [] kind = "Default" -> "default"

LEMMA ActionTold ==
  ASSUME NEW x, NEW y, IsAction(x), IsAction(y), ActionJson(x) = ActionJson(y)
  PROVE  x = y
<1>1. x.kind \in ActionKinds /\ y.kind \in ActionKinds
  BY DEF IsAction, ActionKinds
<1>2. ASSUME NEW z, z.kind \in ActionKinds PROVE ActionJson(z).kind = ActionLabel(z.kind)
  BY <1>2 DEF ActionKinds, ActionJson, ActionLabel
<1>3. x.kind = y.kind
  <2>1. ActionLabel(x.kind) = ActionLabel(y.kind)
    BY <1>1, <1>2
  <2>2. QED
    BY <1>1, <2>1 DEF ActionKinds, ActionLabel
<1>4. x.args = y.args
  <2>1. CASE x.kind = "Route"
    BY <1>3, <2>1 DEF ActionJson, IsAction
  <2>2. CASE x.kind = "DeadLetter"
    BY <1>3, <2>2 DEF ActionJson, IsAction
  <2>3. CASE x.kind = "Halt"
    BY <1>3, <2>3 DEF ActionJson, IsAction
  <2>4. CASE x.kind \in {"Drop", "Default"}
    BY <1>3, <2>4 DEF IsAction
  <2>5. CASE x.kind = "Tag"
    BY <1>3, <2>5 DEF ActionJson, IsAction
  <2>6. QED
    BY <1>1, <2>1, <2>2, <2>3, <2>4, <2>5 DEF ActionKinds
<1>5. QED
  BY <1>3, <1>4 DEF IsAction

LEMMA TagsTold ==
  ASSUME NEW x, NEW y, IsTags(x), IsTags(y), TagsJson(x) = TagsJson(y)
  PROVE  x = y
<1>1. \A t : DOMAIN TagsJson(t) = DOMAIN t
  BY DEF TagsJson
<1>2. DOMAIN x = DOMAIN y
  BY <1>1
<1>3. ASSUME NEW k \in DOMAIN x PROVE x[k] = y[k]
  <2>1. /\ TagsJson(x)[k] = [key |-> x[k][1], value |-> x[k][2]]
        /\ TagsJson(y)[k] = [key |-> y[k][1], value |-> y[k][2]]
    BY <1>2 DEF TagsJson
  <2>2. x[k][1] = y[k][1] /\ x[k][2] = y[k][2]
    BY <2>1
  <2>3. QED
    BY <1>2, <2>2 DEF IsTags
<1>4. QED
  BY <1>2, <1>3 DEF IsTags

LEMMA SurfaceTold ==
  ASSUME NEW x \in Surfaces, NEW y \in Surfaces, SurfaceLabel(x) = SurfaceLabel(y)
  PROVE  x = y
  BY DEF Surfaces, SurfaceLabel

LEMMA TraceTold ==
  ASSUME NEW x, NEW y, IsTrace(x), IsTrace(y), TraceJson(x) = TraceJson(y)
  PROVE  x = y
<1>1. /\ x.rule = y.rule /\ x.condition = y.condition /\ x.matched = y.matched
      /\ SurfaceLabel(x.surface) = SurfaceLabel(y.surface)
  BY DEF TraceJson
<1>2. x.surface = y.surface
  BY <1>1, SurfaceTold DEF IsTrace
<1>3. QED
  BY <1>1, <1>2 DEF IsTrace

LEMMA LabelsTold ==
  /\ \A x, y \in LifecycleKinds : LifecycleLabel(x) = LifecycleLabel(y) => x = y
  /\ \A x, y \in MessageKinds : MessageLabel(x) = MessageLabel(y) => x = y
  /\ \A x, y \in PressureKinds : PressureLabel(x) = PressureLabel(y) => x = y
  /\ \A x, y \in ErrorKinds : ErrorLabel(x) = ErrorLabel(y) => x = y
  /\ \A x, y \in EffectKinds : EffectLabel(x) = EffectLabel(y) => x = y
  /\ \A x, y \in Strategies : StrategyLabel(x) = StrategyLabel(y) => x = y
  /\ \A x, y \in Directions : DirectionLabel(x) = DirectionLabel(y) => x = y
<1>1. \A x, y \in LifecycleKinds : LifecycleLabel(x) = LifecycleLabel(y) => x = y
  BY DEF LifecycleKinds, LifecycleLabel
<1>2. \A x, y \in MessageKinds : MessageLabel(x) = MessageLabel(y) => x = y
  BY DEF MessageKinds, MessageLabel
<1>3. \A x, y \in PressureKinds : PressureLabel(x) = PressureLabel(y) => x = y
  BY DEF PressureKinds, PressureLabel
<1>4. \A x, y \in ErrorKinds : ErrorLabel(x) = ErrorLabel(y) => x = y
  BY DEF ErrorKinds, ErrorLabel
<1>5. \A x, y \in EffectKinds : EffectLabel(x) = EffectLabel(y) => x = y
  BY DEF EffectKinds, EffectLabel
<1>6. \A x, y \in Strategies : StrategyLabel(x) = StrategyLabel(y) => x = y
  BY DEF Strategies, StrategyLabel
<1>7. \A x, y \in Directions : DirectionLabel(x) = DirectionLabel(y) => x = y
  BY DEF Directions, DirectionLabel
<1>8. QED
  BY <1>1, <1>2, <1>3, <1>4, <1>5, <1>6, <1>7

(* The two records of a line are of one variant.                           *)
LEMMA VariantTold ==
  ASSUME NEW r, IsRecord(r)
  PROVE  /\ r.type \in {"execution_context", "lifecycle", "message", "queue_pressure", "error",
                        "external_effect", "rule_eval"}
         /\ RecordJson(r).record_type = r.type
<1>1. r.type \in {"execution_context", "lifecycle", "message", "queue_pressure", "error",
                  "external_effect", "rule_eval"}
  BY DEF IsRecord
<1>2. CASE r.type = "execution_context"
  BY <1>2 DEF RecordJson
<1>3. CASE r.type = "lifecycle"
  BY <1>3 DEF RecordJson
<1>4. CASE r.type = "message"
  BY <1>4 DEF RecordJson
<1>5. CASE r.type = "queue_pressure"
  BY <1>5 DEF RecordJson
<1>6. CASE r.type = "error"
  BY <1>6 DEF RecordJson
<1>7. CASE r.type = "external_effect"
  BY <1>7 DEF RecordJson
<1>8. CASE r.type = "rule_eval"
  BY <1>8 DEF RecordJson, RuleEvalJson
<1>9. QED
  BY <1>1, <1>2, <1>3, <1>4, <1>5, <1>6, <1>7, <1>8

LEMMA ErrorLineTold ==
  ASSUME NEW r, NEW s, IsRecord(r), IsRecord(s), r.type = "error", s.type = "error",
         RecordJson(r) = RecordJson(s)
  PROVE  r = s
<1>1. \A t : t.type = "error" =>
        RecordJson(t) = [record_type |-> "error", kind |-> ErrorLabel(t.kind),
                         workflow_id |-> t.workflow, node_id |-> t.node,
                         execution |-> ExecutionJson(t.execution),
                         error |-> PureflowErrorJson(t.error),
                         diagnostic |-> MapOption(DiagnosticJson, t.diagnostic)]
  BY DEF RecordJson
<1>2. /\ ErrorLabel(r.kind) = ErrorLabel(s.kind) /\ r.workflow = s.workflow /\ r.node = s.node
      /\ ExecutionJson(r.execution) = ExecutionJson(s.execution)
      /\ PureflowErrorJson(r.error) = PureflowErrorJson(s.error)
      /\ MapOption(DiagnosticJson, r.diagnostic) = MapOption(DiagnosticJson, s.diagnostic)
  BY <1>1
<1>3. /\ r = ErrorRecord(r.kind, r.workflow, r.node, r.execution, r.error, r.diagnostic)
      /\ s = ErrorRecord(s.kind, s.workflow, s.node, s.execution, s.error, s.diagnostic)
      /\ r.kind \in ErrorKinds /\ s.kind \in ErrorKinds
      /\ IsExecution(r.execution) /\ IsExecution(s.execution) /\ IsError(r.error) /\ IsError(s.error)
      /\ r.diagnostic = None
           \/ (r.diagnostic = Some(r.diagnostic[1]) /\ IsDiagnostic(r.diagnostic[1]))
      /\ s.diagnostic = None
           \/ (s.diagnostic = Some(s.diagnostic[1]) /\ IsDiagnostic(s.diagnostic[1]))
  BY DEF IsRecord
<1>4. r.kind = s.kind /\ r.execution = s.execution /\ r.error = s.error
  BY <1>2, <1>3, LabelsTold, ExecutionTold, ErrorTold
<1>5. r.diagnostic = s.diagnostic
  <2> DEFINE f == DiagnosticJson(r.diagnostic[1])
             g == DiagnosticJson(s.diagnostic[1])
  <2>1. (IF r.diagnostic = None THEN None ELSE Some(f)) = (IF s.diagnostic = None THEN None ELSE Some(g))
    BY <1>2 DEF MapOption
  <2>2. r.diagnostic # None /\ s.diagnostic # None /\ f = g => r.diagnostic[1] = s.diagnostic[1]
    BY <1>3, DiagnosticTold
  <2> HIDE DEF f, g
  <2>3. QED
    BY <1>3, <2>1, <2>2, OptionTold
<1>6. QED
  BY <1>2, <1>3, <1>4, <1>5

LEMMA PressureLineTold ==
  ASSUME NEW r, NEW s, IsRecord(r), IsRecord(s), r.type = "queue_pressure", s.type = "queue_pressure",
         RecordJson(r) = RecordJson(s)
  PROVE  r = s
<1>1. \A t : t.type = "queue_pressure" =>
        RecordJson(t) = [record_type |-> "queue_pressure", kind |-> PressureLabel(t.kind),
                         direction |-> DirectionLabel(t.direction), port_id |-> t.port,
                         context |-> MapOption(ContextJson, t.ctx),
                         connected_edge_count |-> t.edges,
                         capacity |-> t.capacity, queued_count |-> t.queued]
  BY DEF RecordJson
<1>2. /\ PressureLabel(r.kind) = PressureLabel(s.kind)
      /\ DirectionLabel(r.direction) = DirectionLabel(s.direction)
      /\ r.port = s.port /\ r.edges = s.edges /\ r.capacity = s.capacity /\ r.queued = s.queued
      /\ MapOption(ContextJson, r.ctx) = MapOption(ContextJson, s.ctx)
  BY <1>1
<1>3. /\ r = PressureRecord(r.ctx, r.direction, r.port, r.kind, r.edges, r.capacity, r.queued)
      /\ s = PressureRecord(s.ctx, s.direction, s.port, s.kind, s.edges, s.capacity, s.queued)
      /\ r.kind \in PressureKinds /\ s.kind \in PressureKinds
      /\ r.direction \in Directions /\ s.direction \in Directions
      /\ r.ctx = None \/ (r.ctx = Some(r.ctx[1]) /\ IsContext(r.ctx[1]))
      /\ s.ctx = None \/ (s.ctx = Some(s.ctx[1]) /\ IsContext(s.ctx[1]))
  BY DEF IsRecord
<1>4. r.kind = s.kind /\ r.direction = s.direction
  BY <1>2, <1>3, LabelsTold
<1>5. r.ctx = s.ctx
  <2> DEFINE f == ContextJson(r.ctx[1])
             g == ContextJson(s.ctx[1])
  <2>1. (IF r.ctx = None THEN None ELSE Some(f)) = (IF s.ctx = None THEN None ELSE Some(g))
    BY <1>2 DEF MapOption
  <2>2. r.ctx # None /\ s.ctx # None /\ f = g => r.ctx[1] = s.ctx[1]
    BY <1>3, ContextTold
  <2> HIDE DEF f, g
  <2>3. QED
    BY <1>3, <2>1, <2>2, OptionTold
<1>6. QED
  BY <1>2, <1>3, <1>4, <1>5

LEMMA RuleEvalLineTold ==
  ASSUME NEW r, NEW s, IsRecord(r), IsRecord(s), r.type = "rule_eval", s.type = "rule_eval",
         RecordJson(r) = RecordJson(s)
  PROVE  r = s
<1>1. RuleEvalJson(r) = RuleEvalJson(s)
  BY DEF RecordJson
<1> DEFINE T(t) == [k \in DOMAIN t.trace |-> TraceJson(t.trace[k])]
<1>2. /\ r.node = s.node /\ r.workflow = s.workflow /\ r.ruleSet = s.ruleSet
      /\ ExecutionJson(r.execution) = ExecutionJson(s.execution)
      /\ StrategyLabel(r.strategy) = StrategyLabel(s.strategy)
      /\ r.matched = s.matched /\ ActionJson(r.action) = ActionJson(s.action)
      /\ r.evaluated = s.evaluated /\ TagsJson(r.applied) = TagsJson(s.applied)
      /\ r.packet.source = s.packet.source /\ r.packet.arrival = s.packet.arrival
      /\ r.packet.hops = s.packet.hops /\ TagsJson(r.packet.tags) = TagsJson(s.packet.tags)
      /\ T(r) = T(s)
  BY <1>1 DEF RuleEvalJson
<1>3. /\ r = RuleEval(r, r.ruleSet, r.strategy, r.matched, r.action, r.evaluated, r.applied,
                     r.packet, r.trace)
      /\ s = RuleEval(s, s.ruleSet, s.strategy, s.matched, s.action, s.evaluated, s.applied,
                     s.packet, s.trace)
  BY DEF IsRecord
<1>4. /\ r.strategy \in Strategies /\ IsExecution(r.execution) /\ IsAction(r.action)
      /\ s.strategy \in Strategies /\ IsExecution(s.execution) /\ IsAction(s.action)
      /\ IsTags(r.applied) /\ IsTags(s.applied) /\ IsPacketView(r.packet) /\ IsPacketView(s.packet)
  BY DEF IsRecord
<1>a. r.applied = s.applied
  BY <1>2, <1>4, TagsTold
<1>p. r.packet = s.packet
  <2>1. r.packet.tags = s.packet.tags
    BY <1>2, <1>4, TagsTold DEF IsPacketView
  <2>2. QED
    BY <1>2, <1>4, <2>1 DEF IsPacketView
<1>5. /\ r.trace = [k \in DOMAIN r.trace |-> r.trace[k]] /\ \A k \in DOMAIN r.trace : IsTrace(r.trace[k])
      /\ s.trace = [k \in DOMAIN s.trace |-> s.trace[k]] /\ \A k \in DOMAIN s.trace : IsTrace(s.trace[k])
  BY DEF IsRecord
<1>6. r.strategy = s.strategy /\ r.execution = s.execution /\ r.action = s.action
  BY <1>2, <1>4, LabelsTold, ExecutionTold, ActionTold
<1>7. r.trace = s.trace
  <2>1. DOMAIN r.trace = DOMAIN s.trace
    <3>1. DOMAIN T(r) = DOMAIN r.trace /\ DOMAIN T(s) = DOMAIN s.trace
      OBVIOUS
    <3>2. QED
      BY <1>2, <3>1
  <2>2. ASSUME NEW k \in DOMAIN r.trace PROVE r.trace[k] = s.trace[k]
    <3>1. T(r)[k] = TraceJson(r.trace[k]) /\ T(s)[k] = TraceJson(s.trace[k])
      BY <2>1
    <3>2. TraceJson(r.trace[k]) = TraceJson(s.trace[k])
      BY <1>2, <3>1
    <3>3. QED
      BY <1>5, <2>1, <3>2, TraceTold
  <2>3. QED
    BY <1>5, <2>1, <2>2
<1>8. QED
  BY <1>2, <1>3, <1>6, <1>7, <1>a, <1>p DEF RuleEval

LEMMA LineTold ==
  ASSUME NEW r, NEW s, IsRecord(r), IsRecord(s), RecordJson(r) = RecordJson(s)
  PROVE  r = s
<1>1. /\ r.type = s.type
      /\ r.type \in {"execution_context", "lifecycle", "message", "queue_pressure", "error",
                     "external_effect", "rule_eval"}
  BY VariantTold
<1>2. CASE r.type = "execution_context"
  <2>1. ContextJson(r.ctx) = ContextJson(s.ctx)
    BY <1>1, <1>2 DEF RecordJson
  <2>2. r = ContextRecord(r.ctx) /\ s = ContextRecord(s.ctx) /\ IsContext(r.ctx) /\ IsContext(s.ctx)
    BY <1>1, <1>2 DEF IsRecord
  <2>3. QED
    BY <2>1, <2>2, ContextTold
<1>3. CASE r.type = "lifecycle"
  <2>1. ContextJson(r.ctx) = ContextJson(s.ctx) /\ LifecycleLabel(r.kind) = LifecycleLabel(s.kind)
    BY <1>1, <1>3 DEF RecordJson
  <2>2. /\ r = LifecycleRecord(r.kind, r.ctx) /\ s = LifecycleRecord(s.kind, s.ctx)
        /\ r.kind \in LifecycleKinds /\ s.kind \in LifecycleKinds /\ IsContext(r.ctx) /\ IsContext(s.ctx)
    BY <1>1, <1>3 DEF IsRecord
  <2>3. r.kind = s.kind /\ r.ctx = s.ctx
    BY <2>1, <2>2, ContextTold, LabelsTold
  <2>4. QED
    BY <2>2, <2>3
<1>4. CASE r.type = "message"
  <2>1. MessageJson(r.message) = MessageJson(s.message) /\ MessageLabel(r.kind) = MessageLabel(s.kind)
    BY <1>1, <1>4 DEF RecordJson
  <2>2. /\ r = MessageRecord(r.kind, r.message) /\ s = MessageRecord(s.kind, s.message)
        /\ r.kind \in MessageKinds /\ s.kind \in MessageKinds
        /\ IsMessage(r.message) /\ IsMessage(s.message)
    BY <1>1, <1>4 DEF IsRecord
  <2>3. r.kind = s.kind /\ r.message = s.message
    BY <2>1, <2>2, MessageTold, LabelsTold
  <2>4. QED
    BY <2>2, <2>3
<1>5. CASE r.type = "queue_pressure"
  BY <1>1, <1>5, PressureLineTold
<1>6. CASE r.type = "error"
  BY <1>1, <1>6, ErrorLineTold
<1>7. CASE r.type = "external_effect"
  <2>1. /\ EffectLabel(r.kind) = EffectLabel(s.kind) /\ ContextJson(r.ctx) = ContextJson(s.ctx)
        /\ r.effect = s.effect /\ r.operation = s.operation /\ r.target = s.target
        /\ r.status = s.status
    BY <1>1, <1>7 DEF RecordJson
  <2>2. /\ r = EffectRecord(r.kind, r.ctx, r.effect, r.operation, r.target, r.status)
        /\ s = EffectRecord(s.kind, s.ctx, s.effect, s.operation, s.target, s.status)
        /\ r.kind \in EffectKinds /\ s.kind \in EffectKinds /\ IsContext(r.ctx) /\ IsContext(s.ctx)
    BY <1>1, <1>7 DEF IsRecord
  <2>3. r.kind = s.kind /\ r.ctx = s.ctx
    BY <2>1, <2>2, ContextTold, LabelsTold
  <2>4. QED
    BY <2>1, <2>2, <2>3
<1>8. CASE r.type = "rule_eval"
  BY <1>1, <1>8, RuleEvalLineTold
<1>9. QED
  BY <1>1, <1>2, <1>3, <1>4, <1>5, <1>6, <1>7, <1>8

(* Whatever identifiers, attempts, texts, counts and traces the records    *)
(* carry, no two of them write the same line: the labels of every          *)
(* enumeration are distinct, null is never mistaken for a value, and every *)
(* field of every variant can be read back from the object.                *)
THEOREM LinesTellRecordsApart == Spec => []LogDeterminesRecord
<1>1. LogDeterminesRecord
  BY LineTold, RecordsAssumption DEF LogDeterminesRecord
<1>2. QED
  BY <1>1, PTL
=============================================================================
