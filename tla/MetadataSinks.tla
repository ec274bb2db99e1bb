----------------------------- MODULE MetadataSinks -----------------------------
(***************************************************************************)
(* Threads that record through a TieredMetadataSink around a               *)
(* JsonlMetadataSink (pureflow-core metadata.rs).  The tiered sink numbers *)
(* data-tier facts under one lock; the JSONL sink writes a line under      *)
(* another, in several writes, and an error on the way leaves what was     *)
(* already written.  The writer is a BufWriter on a file: a buffer that is *)
(* written out when it is full or flushed, and that a crash loses.         *)
(***************************************************************************)
EXTENDS Naturals, Sequences, FiniteSets

CONSTANTS
  Threads,
  Facts,      \* what is recorded: [tier, record]
  Policies,   \* TieredMetadataPolicy: [rate, highCost], rate 0 for none
  UsizeMax,   \* the largest usize
  BufSize,    \* writes the buffer holds
  MaxCalls,   \* bound: calls of record_with_tier
  MaxFlushes, \* bound: calls of flush
  MaxFaults   \* bound: writes to the file that fail

Nobody == "nobody"
Tiers == {"control", "data", "high_cost"}

ASSUME SinkAssumption ==
  /\ Nobody \notin Threads
  /\ \A f \in Facts : f.tier \in Tiers
  /\ UsizeMax \in Nat
  /\ BufSize \in Nat \ {0}
  /\ MaxCalls \in Nat
  /\ MaxFlushes \in Nat
  /\ MaxFaults \in Nat
  /\ \A p \in Policies : p.rate \in Nat

VARIABLES
  policy,     \* the sink's policy
  data_seen,  \* TieredMetadataCounters
  calls,      \* the calls so far: fact, and how far each has come
  pc,         \* pc[t]: what thread t does
  current,    \* current[t]: the call it is in
  holder,     \* the thread that holds the writer's lock
  poisoned,   \* the writer panicked under the lock
  buffer,     \* writes the BufWriter holds
  disk,       \* writes the file has
  flushes,    \* calls of flush
  flushed,    \* calls acknowledged before a flush that succeeded
  faults,     \* writes to the file that failed
  process     \* "running", "exited" or "crashed"

vars == <<policy, data_seen, calls, pc, current, holder, poisoned, buffer, disk,
          flushes, flushed, faults, process>>

fileVars == <<buffer, disk, faults>>
lockVars == <<holder, poisoned>>
flushVars == <<flushes, flushed>>

Stages == {"deciding", "skipped", "waiting", "writing", "ok", "failed"}

(* TieredMetadataPolicy.                                                   *)
control_only == [rate |-> 0, highCost |-> FALSE]
record_data == [rate |-> 1, highCost |-> FALSE]
sample_data_every(n) == [rate |-> n, highCost |-> FALSE]
with_high_cost_data(p) == [p EXCEPT !.highCost = TRUE]

(* A line is written in three writes: serde_json writes the object as it   *)
(* goes, here in two pieces, and the newline follows.                      *)
Line(c) == <<<<c, "head">>, <<c, "tail">>, <<c, "newline">>>>
-------------------------------------------------------------------------------
Init ==
  /\ policy \in Policies
  /\ data_seen = 0
  /\ calls = <<>>
  /\ pc = [t \in Threads |-> "idle"]
  /\ current = [t \in Threads |-> 0]
  /\ holder = Nobody
  /\ poisoned = FALSE
  /\ buffer = <<>> /\ disk = <<>>
  /\ flushes = 0 /\ flushed = {}
  /\ faults = 0
  /\ process = "running"

Running == process = "running"
Goto(t, step) == pc' = [pc EXCEPT ![t] = step]
Stage(c, stage) == calls' = [calls EXCEPT ![c].stage = stage]

(* record_with_tier is called; MetadataSink::record calls it with the      *)
(* control tier.                                                           *)
Record(t, fact) ==
  /\ Running /\ pc[t] = "idle"
  /\ Len(calls) < MaxCalls
  /\ calls' = Append(calls, [fact |-> fact, stage |-> "deciding"])
  /\ current' = [current EXCEPT ![t] = Len(calls) + 1]
  /\ Goto(t, "decide")
  /\ UNCHANGED <<policy, data_seen, lockVars, fileVars, flushVars, process>>

(* should_record_data, should_record_high_cost_data.                       *)
should_record_data(ordinal) == policy.rate # 0 /\ ordinal % policy.rate = 0
saturating_add(n) == IF n < UsizeMax THEN n + 1 ELSE n

(* Fault: only the facts that pass are counted.                            *)
CountAfterPolicy(tier) ==
  data_seen' = IF tier = "data" /\ should_record_data(data_seen)
                 THEN saturating_add(data_seen) ELSE data_seen

(* The number of a data-tier fact is taken and counted under one lock.     *)
Count(tier) ==
  data_seen' = IF tier = "data" THEN saturating_add(data_seen) ELSE data_seen

(* should_record.                                                          *)
Selects(tier) ==
  CASE tier = "control"   -> TRUE
    [] tier = "data"      -> should_record_data(data_seen)
    [] tier = "high_cost" -> policy.highCost

Decide(t) ==
  LET c == current[t]
      tier == calls[c].fact.tier
  IN  /\ Running /\ pc[t] = "decide"
      /\ Count(tier)
      /\ IF Selects(tier)
           THEN Goto(t, "lock") /\ Stage(c, "waiting")
           ELSE Goto(t, "idle") /\ Stage(c, "skipped")
      /\ UNCHANGED <<policy, current, lockVars, fileVars, flushVars, process>>

(* lock_writer: waits while another thread holds the lock, fails when a    *)
(* panic has poisoned it.                                                  *)
LockWriter(t) ==
  /\ Running /\ pc[t] = "lock"
  /\ holder = Nobody
  /\ IF poisoned
       THEN Goto(t, "idle") /\ Stage(current[t], "failed") /\ UNCHANGED holder
       ELSE Goto(t, "head") /\ Stage(current[t], "writing") /\ holder' = t
  /\ UNCHANGED <<policy, data_seen, current, poisoned, fileVars, flushVars, process>>
-------------------------------------------------------------------------------
(* The BufWriter.  A full buffer goes to the file before the next write is *)
(* taken; a write to the file that fails may have written a part of it,    *)
(* and the rest stays in the buffer.                                       *)
WriteOut ==
  /\ disk' = disk \o buffer
  /\ buffer' = <<>>
  /\ UNCHANGED faults

WriteOutFails ==
  /\ faults < MaxFaults
  /\ faults' = faults + 1
  /\ \E n \in 0 .. Len(buffer) - 1 :
       /\ disk' = disk \o SubSeq(buffer, 1, n)
       /\ buffer' = SubSeq(buffer, n + 1, Len(buffer))

Take(write) ==
  IF Len(buffer) < BufSize
    THEN buffer' = Append(buffer, write) /\ UNCHANGED <<disk, faults>>
    ELSE buffer' = <<write>> /\ disk' = disk \o buffer /\ UNCHANGED faults

TakeFails == Len(buffer) = BufSize /\ WriteOutFails

Pieces == [head |-> 1, tail |-> 2, newline |-> 3]
Following == [head |-> "tail", tail |-> "newline"]

(* Fault: the lock covers the object and not its newline.                  *)
WritePieceUnlocked(t) ==
  LET c == current[t]
  IN  /\ Running /\ pc[t] \in DOMAIN Pieces
      /\ Take(Line(c)[Pieces[pc[t]]])
      /\ IF pc[t] = "newline"
           THEN Goto(t, "idle") /\ Stage(c, "ok")
           ELSE Goto(t, Following[pc[t]]) /\ UNCHANGED calls
      /\ holder' = IF pc[t] = "tail" THEN Nobody ELSE holder
      /\ UNCHANGED <<policy, data_seen, current, poisoned, flushVars, process>>

(* JsonlMetadataSink::record: to_writer, then the newline; the guard is    *)
(* dropped at the end.                                                     *)
WritePiece(t) ==
  LET c == current[t]
  IN  /\ Running /\ pc[t] \in DOMAIN Pieces
      /\ Take(Line(c)[Pieces[pc[t]]])
      /\ IF pc[t] = "newline"
           THEN Goto(t, "idle") /\ Stage(c, "ok") /\ holder' = Nobody
           ELSE Goto(t, Following[pc[t]]) /\ UNCHANGED <<calls, holder>>
      /\ UNCHANGED <<policy, data_seen, current, poisoned, flushVars, process>>

(* An error of the writer returns at once; what was written stays.         *)
WriteFails(t) ==
  /\ Running /\ pc[t] \in DOMAIN Pieces
  /\ TakeFails
  /\ Goto(t, "idle") /\ Stage(current[t], "failed")
  /\ holder' = Nobody
  /\ UNCHANGED <<policy, data_seen, current, poisoned, flushVars, process>>

(* A writer that panics does so under the lock.                            *)
WritePanics(t) ==
  /\ Running /\ pc[t] \in DOMAIN Pieces
  /\ faults < MaxFaults /\ faults' = faults + 1
  /\ Goto(t, "dead") /\ Stage(current[t], "failed")
  /\ holder' = Nobody /\ poisoned' = TRUE
  /\ UNCHANGED <<policy, data_seen, current, buffer, disk, flushVars, process>>
-------------------------------------------------------------------------------
Acknowledged == {c \in DOMAIN calls : calls[c].stage = "ok"}

(* Fault: flush reports success without writing the buffer out.            *)
FlushNothing(t) ==
  /\ Running /\ pc[t] = "idle"
  /\ flushes < MaxFlushes /\ flushes' = flushes + 1
  /\ holder = Nobody /\ ~poisoned
  /\ flushed' = Acknowledged
  /\ UNCHANGED <<policy, data_seen, calls, pc, current, lockVars, fileVars, process>>

(* JsonlMetadataSink::flush, under the writer's lock.                      *)
Flush(t) ==
  /\ Running /\ pc[t] = "idle"
  /\ flushes < MaxFlushes /\ flushes' = flushes + 1
  /\ holder = Nobody /\ ~poisoned
  /\ WriteOut
  /\ flushed' = Acknowledged
  /\ UNCHANGED <<policy, data_seen, calls, pc, current, lockVars, process>>

FlushFails(t) ==
  /\ Running /\ pc[t] = "idle"
  /\ flushes < MaxFlushes /\ flushes' = flushes + 1
  /\ holder = Nobody
  /\ \/ poisoned /\ UNCHANGED fileVars
     \/ ~poisoned /\ buffer # <<>> /\ WriteOutFails
  /\ UNCHANGED <<policy, data_seen, calls, pc, current, lockVars, flushed, process>>

(* The last owner drops the sink (or takes the writer with into_inner,     *)
(* which a poisoned lock refuses, and drops it): BufWriter writes out what *)
(* it holds and ignores an error.                                          *)
DropSink ==
  /\ Running
  /\ \A t \in Threads : pc[t] \in {"idle", "dead"}
  /\ process' = "exited"
  /\ \/ WriteOut
     \/ buffer # <<>> /\ WriteOutFails
  /\ UNCHANGED <<policy, data_seen, calls, pc, current, lockVars, flushVars>>

Crash ==
  /\ Running
  /\ process' = "crashed"
  /\ buffer' = <<>>
  /\ UNCHANGED <<policy, data_seen, calls, pc, current, lockVars, disk, faults, flushVars>>

Next ==
  \/ \E t \in Threads :
       \/ \E fact \in Facts : Record(t, fact)
       \/ Decide(t) \/ LockWriter(t)
       \/ WritePiece(t) \/ WriteFails(t) \/ WritePanics(t)
       \/ Flush(t) \/ FlushFails(t)
  \/ DropSink \/ Crash

Spec == Init /\ [][Next]_vars
-------------------------------------------------------------------------------
DataSeen == {c \in DOMAIN calls : calls[c].fact.tier = "data" /\ calls[c].stage # "deciding"}

(* However calls of several threads interleave, of the data-tier facts     *)
(* seen so far exactly one in every `rate`, the first one included, is     *)
(* passed on, as long as the counter has not saturated; and a control fact *)
(* is never dropped (TieredMetadataSink::should_record).                   *)
SampleExact ==
  LET taken == {c \in DataSeen : calls[c].stage # "skipped"}
      n == Cardinality(DataSeen)
  IN  /\ n <= UsizeMax =>
           Cardinality(taken) =
             IF policy.rate = 0 THEN 0 ELSE (n + policy.rate - 1) \div policy.rate
      /\ \A c \in DOMAIN calls : calls[c].fact.tier = "control" => calls[c].stage # "skipped"

Stream == disk \o buffer
At(s, c) == {k \in 1 .. Len(s) - 2 : SubSeq(s, k, k + 2) = Line(c)}

(* Every fact the sink acknowledged stands in the log exactly once, whole  *)
(* and at the start of a line; only directly behind a record that failed   *)
(* does it share that record's line.  The panic of a writer ends the log.  *)
(* (JsonlMetadataSink: "one stable JSON object per line".)                 *)
TornOnlyAfterFailure ==
  Running => \A c \in Acknowledged :
    \E k \in At(Stream, c) :
      /\ At(Stream, c) = {k}
      /\ \/ k = 1
         \/ Stream[k - 1][2] = "newline"
         \/ calls[Stream[k - 1][1]].stage = "failed"

(* What was acknowledged before a successful flush is in the file,         *)
(* whatever happens to the process and its buffer afterwards, a crash      *)
(* included (JsonlMetadataSink::flush).                                    *)
FlushedSurvives == \A c \in flushed : At(disk, c) # {}
===============================================================================
