----------------------------- MODULE WatcherProofs -----------------------------
(***************************************************************************)
(* Proofs about FsWatcher for every debounce time, edge capacity and bound *)
(* on events and clock.                                                    *)
(***************************************************************************)
EXTENDS FsWatcher, TLAPS

(* The last emission is Debounce ago, or there was none.                   *)
WindowOver == emission = Never \/ clock - emission >= Debounce

(* Events are numbered as they arrive and leave the channel in that order. *)
(* Those the debounce has judged are all taken ones but the one in hand.   *)
Taken == events - Len(channel)
Judged == IF pc = "stamp" THEN Taken - 1 ELSE Taken

Typed ==
  /\ clock \in Nat
  /\ events \in Nat
  /\ channel \in Seq([id : Nat, paths : Nat])
  /\ emission \in Int
  /\ last_emit = emission

Numbered ==
  /\ \A k \in 1 .. Len(channel) : channel[k].id = Taken + k
  /\ quiet \subseteq 1 .. events
  /\ dropped \subseteq 1 .. Judged
  /\ pc = "stamp" => event.id = Taken /\ Taken > 0
  /\ Taken >= 0

(* A quiet event that has not been judged yet is the next to be, and the   *)
(* window will still be over when it is.                                   *)
QuietWaits ==
  /\ pc = "stamp" /\ event.id \in quiet => WindowOver
  /\ \A k \in 1 .. Len(channel) :
       channel[k].id \in quiet => k = 1 /\ pc # "stamp" /\ WindowOver

Inv == Typed /\ Numbered /\ QuietWaits /\ QuietEventReported

(* The initial state satisfies the invariant.                              *)
LEMMA InitInv == Init => Inv
BY DEF Init, Inv, Typed, Taken, Judged, Numbered, QuietWaits, QuietEventReported, Never

(* The steps that touch neither the events nor the window.                 *)
LEMMA BystanderKeepsInv ==
  ASSUME Inv, clock' \in {clock, clock + 1},
         \/ pc' # "stamp" /\ pc # "stamp"
         \/ pc' = pc /\ event' = event,
         UNCHANGED <<events, channel, emission, last_emit, quiet, dropped>>
  PROVE  Inv'
<1>1. Taken' = Taken /\ Judged' = Judged
  BY DEF Taken, Judged
<1>2. Typed'
  BY DEF Inv, Typed
<1>3. Numbered'
  BY <1>1 DEF Inv, Numbered
<1>4. WindowOver => WindowOver'
  <2>1. clock \in Nat /\ clock' \in Nat /\ clock' >= clock /\ emission \in Int
    BY DEF Inv, Typed
  <2>2. clock - emission >= Debounce => clock' - emission >= Debounce
    <3>1. \A a, b \in Nat, e \in Int, d \in Nat : b >= a /\ a - e >= d => b - e >= d
      OBVIOUS
    <3>2. Debounce \in Nat
      BY WatcherAssumption
    <3>3. QED
      BY <2>1, <3>1, <3>2
  <2>3. QED
    BY <2>2 DEF WindowOver
<1>5. QuietWaits' /\ QuietEventReported'
  BY <1>4 DEF Inv, QuietWaits, QuietEventReported
<1>6. QED
  BY <1>2, <1>3, <1>5 DEF Inv

(* Every step keeps it.                                                    *)
LEMMA NextInv == Inv /\ [Next]_vars => Inv'
<1> SUFFICES ASSUME Inv, [Next]_vars PROVE Inv'
  OBVIOUS
<1> USE WatcherAssumption DEF nodeVars, envVars, Goto, Return
<1>1. CASE Start \/ CheckToken \/ CheckControl \/ SendPath \/ SendFails \/ Sent \/ Drained
           \/ Yielded
  <2>1. /\ pc # "stamp" /\ pc' # "stamp" /\ clock' = clock
        /\ UNCHANGED <<events, channel, emission, last_emit, quiet, dropped>>
    BY <1>1 DEF Start, CheckToken, CheckControl, SendPath, SendFails, Sent, Drained, Yielded
  <2>2. QED
    BY <2>1, BystanderKeepsInv
<1>2. CASE TakeEvent
  <2>1. /\ channel # <<>> /\ event' = channel[1] /\ channel' = Tail(channel)
        /\ pc # "stamp" /\ pc' = "stamp"
        /\ UNCHANGED <<clock, events, emission, last_emit, quiet, dropped>>
    BY <1>2 DEF TakeEvent, Inv, Typed
  <2>2. /\ Len(channel) \in Nat \ {0} /\ Len(channel') = Len(channel) - 1
        /\ channel' \in Seq([id : Nat, paths : Nat])
        /\ \A k \in 1 .. Len(channel') : channel'[k] = channel[k + 1]
    BY <2>1 DEF Inv, Typed
  <2>3. Taken' = Taken + 1 /\ Taken \in Nat
    BY <2>1, <2>2 DEF Inv, Typed, Taken, Numbered
  <2>4. Typed'
    BY <2>1, <2>2 DEF Inv, Typed
  <2>5. Numbered'
    <3>1. event'.id = Taken'
      BY <2>1, <2>2, <2>3 DEF Inv, Numbered, Judged
    <3>2. \A k \in 1 .. Len(channel') : channel'[k].id = Taken' + k
      <4>1. ASSUME NEW k \in 1 .. Len(channel') PROVE channel'[k].id = Taken' + k
        <5>1. k + 1 \in 1 .. Len(channel)
          BY <2>2
        <5>2. channel[k + 1].id = Taken + (k + 1)
          BY <5>1 DEF Inv, Numbered, Judged
        <5>3. QED
          BY <2>2, <2>3, <5>2
      <4>2. QED
        BY <4>1
    <3>3. QED
      BY <2>1, <2>3, <3>1, <3>2 DEF Inv, Numbered, Judged
  <2>6. QuietWaits' /\ QuietEventReported'
    BY <2>1, <2>2 DEF Inv, QuietWaits, QuietEventReported, WindowOver
  <2>7. QED
    BY <2>4, <2>5, <2>6 DEF Inv
<1>3. CASE Stamp
  <2>1. /\ pc = "stamp" /\ pc' # "stamp"
        /\ UNCHANGED <<clock, events, channel, event, quiet>>
        /\ Taken' = Taken
    BY <1>3 DEF Stamp, Taken
  <2>2. \A k \in 1 .. Len(channel) : channel[k].id \notin quiet
    BY <2>1 DEF Inv, QuietWaits
  <2>3. CASE WithinDebounce
    <3>1. dropped' = dropped \cup {event.id} /\ UNCHANGED <<emission, last_emit>>
      BY <1>3, <2>3 DEF Stamp
    <3>2. event.id \notin quiet
      <4>1. ~WindowOver
        BY <2>3 DEF Inv, Typed, WindowOver, WithinDebounce
      <4>2. QED
        BY <2>1, <4>1 DEF Inv, QuietWaits
    <3>3. Typed' /\ QuietWaits' /\ QuietEventReported'
      BY <2>1, <2>2, <3>1, <3>2 DEF Inv, Typed, QuietWaits, QuietEventReported
    <3>4. Taken \in Nat
      BY DEF Inv, Typed, Taken, Numbered
    <3>5. dropped' \subseteq 1 .. Taken
      <4>1. dropped \subseteq 1 .. Taken - 1 /\ event.id = Taken /\ Taken > 0
        BY <2>1 DEF Inv, Numbered, Judged
      <4>2. QED
        BY <3>1, <3>4, <4>1
    <3>6. Numbered'
      BY <2>1, <3>5 DEF Inv, Numbered, Judged
    <3>7. QED
      BY <3>3, <3>6 DEF Inv
  <2>4. CASE ~WithinDebounce
    <3>1. dropped' = dropped /\ emission' = clock /\ last_emit' = clock
      BY <1>3, <2>4 DEF Stamp
    <3>2. Typed' /\ QuietWaits' /\ QuietEventReported'
      BY <2>1, <2>2, <3>1 DEF Inv, Typed, QuietWaits, QuietEventReported
    <3>3. Taken \in Nat
      BY DEF Inv, Typed, Taken, Numbered
    <3>4. Numbered'
      BY <2>1, <3>1, <3>3 DEF Inv, Numbered, Judged
    <3>5. QED
      BY <3>2, <3>4 DEF Inv
  <2>5. QED
    BY <2>3, <2>4
<1>4. ASSUME NEW paths \in 0 .. MaxPaths, Notify(paths) PROVE Inv'
  <2> DEFINE e == [id |-> events + 1, paths |-> paths]
  <2>1. /\ events' = events + 1 /\ channel' = Append(channel, e)
        /\ quiet' = IF InQuiet THEN quiet \cup {events + 1} ELSE quiet
        /\ UNCHANGED <<clock, pc, event, emission, last_emit, dropped>>
    BY <1>4 DEF Notify
  <2>2. /\ e \in [id : Nat, paths : Nat] /\ e.id = events + 1
    BY DEF Inv, Typed
  <2> HIDE DEF e
  <2>3. /\ Len(channel) \in Nat /\ Len(channel') = Len(channel) + 1
        /\ channel' \in Seq([id : Nat, paths : Nat])
        /\ channel'[Len(channel) + 1] = e
        /\ \A k \in 1 .. Len(channel) : channel'[k] = channel[k]
    BY <2>1, <2>2 DEF Inv, Typed
  <2>4. Taken' = Taken /\ Taken \in Nat /\ Taken <= events
    BY <2>1, <2>3 DEF Inv, Typed, Taken, Numbered
  <2>5. Typed'
    BY <2>1, <2>3 DEF Inv, Typed
  <2>6. Numbered'
    <3>1. events + 1 = Taken + Len(channel) + 1
      BY <2>3 DEF Taken, Inv, Typed
    <3>2. \A k \in 1 .. Len(channel') : channel'[k].id = Taken' + k
      <4>1. ASSUME NEW k \in 1 .. Len(channel') PROVE channel'[k].id = Taken' + k
        <5>1. CASE k = Len(channel) + 1
          BY <2>2, <2>3, <2>4, <3>1, <5>1
        <5>2. CASE k \in 1 .. Len(channel)
          BY <2>3, <2>4, <5>2 DEF Inv, Numbered, Judged
        <5>3. QED
          BY <2>3, <5>1, <5>2
      <4>2. QED
        BY <4>1
    <3>3. quiet' \subseteq 1 .. events'
      <4>1. events \in Nat /\ quiet \subseteq 1 .. events
        BY DEF Inv, Typed, Numbered
      <4>2. 1 .. events \subseteq 1 .. events + 1 /\ events + 1 \in 1 .. events + 1
        BY <4>1
      <4>3. quiet' \subseteq quiet \cup {events + 1}
        BY <2>1
      <4>4. QED
        BY <2>1, <4>1, <4>2, <4>3
    <3>4. QED
      BY <2>1, <2>4, <3>2, <3>3 DEF Inv, Numbered, Judged
  <2>7. QuietEventReported'
    <3>1. events + 1 \notin dropped
      BY <2>4 DEF Inv, Typed, Numbered, Judged
    <3>2. QED
      BY <2>1, <3>1 DEF Inv, QuietEventReported
  <2>8. QuietWaits'
    <3>1. CASE InQuiet
      BY <2>1, <2>2, <2>3, <3>1 DEF InQuiet, QuietWaits, WindowOver
    <3>2. CASE ~InQuiet
      <4>1. e.id \notin quiet'
        BY <2>1, <2>2, <3>2 DEF Inv, Typed, Numbered
      <4>2. QED
        BY <2>1, <2>3, <3>2, <4>1 DEF Inv, QuietWaits, WindowOver
    <3>3. QED
      BY <3>1, <3>2
  <2>9. QED
    BY <2>5, <2>6, <2>7, <2>8 DEF Inv
<1>5. CASE Tick \/ NotifierEnds \/ Consume \/ ConsumerLeaves \/ SendControl \/ UpstreamEnds \/ Cancel
           \/ UNCHANGED vars
  <2>1. /\ clock' \in {clock, clock + 1}
        /\ UNCHANGED <<pc, event, events, channel, emission, last_emit, quiet, dropped>>
    BY <1>5 DEF Tick, NotifierEnds, Consume, ConsumerLeaves, SendControl, UpstreamEnds, Cancel, vars
  <2>2. QED
    BY <2>1, BystanderKeepsInv
<1>6. QED
  BY <1>1, <1>2, <1>3, <1>4, <1>5 DEF Next, Node, Environment

(* The debounce window never swallows an event that arrived when the node  *)
(* was not behind and the window was over (the loop of FsWatcherNode::run, *)
(* for every debounce_ms).                                                 *)
THEOREM QuietEventsSurvive == Spec => []QuietEventReported
<1>1. Inv => QuietEventReported
  BY DEF Inv
<1>2. QED
  BY InitInv, NextInv, <1>1, PTL DEF Spec
===============================================================================
