------------------------------ MODULE WasmInvoke -------------------------------
(***************************************************************************)
(* One invocation of a guest component by the Wasmtime host, and the       *)
(* thread that watches for its cancellation (pureflow-wasm lib.rs; the     *)
(* rule host of rules.rs runs the same steps and differs in what it        *)
(* encodes and decodes).  Several threads may invoke through one engine.   *)
(*                                                                         *)
(* An engine has an epoch; a store is interrupted at the next check of its *)
(* guest once the epoch has reached the store's deadline.  The watcher     *)
(* looks at the token, raises its flag, moves the epoch and leaves; the    *)
(* invocation tells it to stop and joins it before it reads the flag.      *)
(* Guests run on the bump allocator that the guest crates carry.           *)
(***************************************************************************)
EXTENDS Integers, Sequences, FiniteSets

CONSTANTS
  Calls,          \* invocations
  Engines,
  Tokens,
  EngineOf,       \* EngineOf[i]: the engine of the component call i invokes
  TokenOf,        \* TokenOf[i]: the token call i is given
  Scenarios,      \* what the calls are given, NoInput where none is made
  NoInput,
  Replies(_),     \* Replies(input): the values a guest may return for it
  Decode(_, _),   \* Decode(input, reply): [ok, v], from the returned value
  EpochDeadline,  \* WasmtimeExecutionLimits: epoch ticks a store is given
  Fuel,           \* WasmtimeExecutionLimits: fuel of one invocation
  HeapBase,       \* a guest's first free address
  PageSize,
  MaxPages,       \* bound on the guest's memory, which starts with one page
  Requests        \* allocations a guest may ask for: [size, align]

ASSUME WasmAssumption ==
  /\ EngineOf \in [Calls -> Engines]
  /\ TokenOf \in [Calls -> Tokens]
  /\ EpochDeadline \in Nat
  /\ Fuel \in Nat \ {0}
  /\ HeapBase \in Nat \ {0}
  /\ PageSize \in Nat \ {0}
  /\ MaxPages \in Nat \ {0}
  /\ Requests \subseteq [size : Nat, align : Nat]

VARIABLES
  cancelled,    \* cancelled[t]: the token's request
  epoch,        \* epoch[e]: the engine's epoch counter
  pc,           \* pc[i]: where invocation i is
  input,        \* input[i]: the batch it was given
  deadline,     \* deadline[i]: the epoch at which its store is interrupted
  fuel,         \* fuel[i]: what its guest may still burn
  call,         \* call[i]: how the guest call ended
  outcome,      \* outcome[i]: what the invocation returned
  complete,     \* complete[i]: the flag that stops the watcher
  interrupted,  \* interrupted[i]: the flag the watcher raises
  watcher,      \* watcher[i]: where the watcher thread is
  heap          \* heap[i]: next address, pages and blocks of the guest

vars == <<cancelled, epoch, pc, input, deadline, fuel, call, outcome, complete,
          interrupted, watcher, heap>>

callVars == <<input, deadline, fuel, call, outcome, heap>>
flagVars == <<complete, interrupted, watcher>>

(* Where an invocation can be, how a guest call can end, what can come     *)
(* back, and where a watcher can be.                                       *)
Steps == {"idle", "store", "spawn", "instantiate", "guest", "signal", "join",
          "settle", "done"}
WatcherSteps == {"none", "loop", "token", "flag", "bump", "exited"}
Pending == [kind |-> "pending"]
Trap(why) == [kind |-> "trap", why |-> why]
Replied(value) == [kind |-> "reply", value |-> value]
Early == [kind |-> "early"]
Outcome(kind) == [kind |-> kind]
FreshHeap == [next |-> 0, pages |-> 1, blocks |-> <<>>]
-------------------------------------------------------------------------------
Init ==
  /\ cancelled = [t \in Tokens |-> FALSE]
  /\ epoch = [e \in Engines |-> 0]
  /\ pc = [i \in Calls |-> "idle"]
  /\ input \in Scenarios
  /\ deadline = [i \in Calls |-> 0]
  /\ fuel = [i \in Calls |-> Fuel]
  /\ call = [i \in Calls |-> Pending]
  /\ outcome = [i \in Calls |-> Pending]
  /\ complete = [i \in Calls |-> FALSE]
  /\ interrupted = [i \in Calls |-> FALSE]
  /\ watcher = [i \in Calls |-> "none"]
  /\ heap = [i \in Calls |-> FreshHeap]

(* CancellationHandle::cancel, from any other thread.                      *)
Cancel(t) ==
  /\ ~cancelled[t]
  /\ cancelled' = [cancelled EXCEPT ![t] = TRUE]
  /\ UNCHANGED <<epoch, pc, callVars, flagVars>>

Goto(i, step) == pc' = [pc EXCEPT ![i] = step]
Return(i, kind) == outcome' = [outcome EXCEPT ![i] = Outcome(kind)]

(* The end of the guest call, after which nothing reads the guest's memory *)
(* again (the values it returned have been lifted).                        *)
EndCall(i, how) ==
  /\ call' = [call EXCEPT ![i] = how]
  /\ heap' = [heap EXCEPT ![i] = FreshHeap]
-------------------------------------------------------------------------------
(* invoke_with_cancellation, up to the call.  The token is looked at       *)
(* before anything else.                                                   *)
CheckToken(i) ==
  /\ pc[i] = "idle"
  /\ input[i] # NoInput
  /\ IF cancelled[TokenOf[i]]
       THEN Goto(i, "done") /\ Return(i, "cancelled")
       ELSE Goto(i, "store") /\ UNCHANGED outcome
  /\ UNCHANGED <<cancelled, epoch, input, deadline, fuel, call, heap, flagVars>>

(* Fault: the deadline is one tick behind what one cancellation moves.     *)
SetLimitsOffByOne(i) ==
  /\ pc[i] = "store"
  /\ deadline' = [deadline EXCEPT ![i] = epoch[EngineOf[i]] + EpochDeadline + 1]
  /\ fuel' = [fuel EXCEPT ![i] = Fuel]
  /\ Goto(i, "spawn")
  /\ UNCHANGED <<cancelled, epoch, input, call, outcome, heap, flagVars>>

(* The store's deadline counts from the epoch at this moment, and it is    *)
(* set before the watcher exists.                                          *)
SetLimits(i) ==
  /\ pc[i] = "store"
  /\ deadline' = [deadline EXCEPT ![i] = epoch[EngineOf[i]] + EpochDeadline]
  /\ fuel' = [fuel EXCEPT ![i] = Fuel]
  /\ Goto(i, "spawn")
  /\ UNCHANGED <<cancelled, epoch, input, call, outcome, heap, flagVars>>

SpawnWatcher(i) ==
  /\ pc[i] = "spawn"
  /\ watcher' = [watcher EXCEPT ![i] = "loop"]
  /\ Goto(i, "instantiate")
  /\ UNCHANGED <<cancelled, epoch, callVars, complete, interrupted>>

(* Fuel that cannot be set, or a thread that cannot be started.            *)
SpawnFails(i) ==
  /\ pc[i] = "spawn"
  /\ Goto(i, "done")
  /\ Return(i, "failed")
  /\ UNCHANGED <<cancelled, epoch, input, deadline, fuel, call, heap, flagVars>>

Instantiate(i) ==
  /\ pc[i] = "instantiate"
  /\ Goto(i, "guest")
  /\ UNCHANGED <<cancelled, epoch, callVars, flagVars>>

(* The component does not instantiate, lacks an export, or the inputs have *)
(* no encoding: the early return drops the watcher.                        *)
InstantiateFails(i) ==
  /\ pc[i] = "instantiate"
  /\ EndCall(i, Early)
  /\ Goto(i, "signal")
  /\ UNCHANGED <<cancelled, epoch, input, deadline, fuel, outcome, flagVars>>
-------------------------------------------------------------------------------
(* The guest's allocator.  A power of two has no odd divisor but one.      *)
IsPowerOfTwo(n) == n > 0 /\ \A d \in 2 .. n : n % d = 0 => d % 2 = 0

(* normalize_align: the least power of two that is at least the alignment. *)
NormalizeAlign(align) ==
  LET a == IF align = 0 THEN 1 ELSE align
  IN  CHOOSE p \in a .. 2 * a :
        IsPowerOfTwo(p) /\ \A q \in a .. p - 1 : ~IsPowerOfTwo(q)

AlignUp(value, align) == ((value + align - 1) \div align) * align

(* Fault: the division that counts missing pages rounds down.              *)
PagesMissingRoundedDown(h, end) ==
  IF end <= h.pages * PageSize THEN 0 ELSE (end - h.pages * PageSize) \div PageSize

(* The pages that must be added for the memory to reach address end.       *)
PagesMissing(h, end) ==
  IF end <= h.pages * PageSize
    THEN 0
    ELSE (end - h.pages * PageSize + PageSize - 1) \div PageSize

(* BumpAllocator::alloc: the heap after the request, with the same blocks  *)
(* when the request fails or is empty.                                     *)
Alloc(h, r) ==
  LET next == IF h.next = 0 THEN HeapBase ELSE h.next
      at == AlignUp(next, NormalizeAlign(r.align))
      end == at + r.size
      more == PagesMissing(h, end)
  IN  IF r.size = 0
        THEN h
        ELSE IF h.pages + more > MaxPages
        THEN [h EXCEPT !.next = next]
        ELSE [next |-> end, pages |-> h.pages + more,
              blocks |-> Append(h.blocks,
                                [at |-> at, size |-> r.size, align |-> r.align])]

(* A stretch of guest code: it passes the checks for fuel and epoch, burns *)
(* fuel and may allocate.                                                  *)
GuestRuns(i) ==
  /\ pc[i] = "guest"
  /\ fuel[i] > 0
  /\ epoch[EngineOf[i]] < deadline[i]
  /\ fuel' = [fuel EXCEPT ![i] = @ - 1]
  /\ \/ heap' = heap
     \/ \E r \in Requests : heap' = [heap EXCEPT ![i] = Alloc(@, r)]
  /\ UNCHANGED <<cancelled, epoch, pc, input, deadline, call, outcome, flagVars>>

(* The guest returns, without another check.                               *)
GuestReturns(i) ==
  /\ pc[i] = "guest"
  /\ \E value \in Replies(input[i]) : EndCall(i, Replied(value))
  /\ Goto(i, "signal")
  /\ UNCHANGED <<cancelled, epoch, input, deadline, fuel, outcome, flagVars>>

(* It is interrupted, runs out of fuel, or traps on its own.               *)
GuestTraps(i) ==
  /\ pc[i] = "guest"
  /\ \E why \in {"epoch", "fuel", "panic"} :
       /\ why = "epoch" => epoch[EngineOf[i]] >= deadline[i]
       /\ why = "fuel" => fuel[i] = 0
       /\ EndCall(i, Trap(why))
  /\ Goto(i, "signal")
  /\ UNCHANGED <<cancelled, epoch, input, deadline, fuel, outcome, flagVars>>
-------------------------------------------------------------------------------
(* Faults: the flag is not set; the thread is not joined.                  *)
SignalForgotten(i) ==
  /\ pc[i] = "signal"
  /\ Goto(i, "join")
  /\ UNCHANGED <<cancelled, epoch, callVars, flagVars>>

WatcherDetached(i) ==
  /\ pc[i] = "join"
  /\ Goto(i, "settle")
  /\ UNCHANGED <<cancelled, epoch, callVars, flagVars>>

(* CancellationWatcher::finish, and drop, which runs the same two steps.   *)
SignalComplete(i) ==
  /\ pc[i] = "signal"
  /\ complete' = [complete EXCEPT ![i] = TRUE]
  /\ Goto(i, "join")
  /\ UNCHANGED <<cancelled, epoch, callVars, interrupted, watcher>>

JoinWatcher(i) ==
  /\ pc[i] = "join"
  /\ watcher[i] = "exited"
  /\ Goto(i, "settle")
  /\ UNCHANGED <<cancelled, epoch, callVars, flagVars>>

(* map_guest_call_error: no fuel left means that the budget was exceeded.  *)
GuestCallError(i) ==
  IF fuel[i] = 0 \/ call[i].why = "fuel" THEN "fuel" ELSE "failed"

(* What is returned: an interruption hides whatever the guest returned.    *)
Verdict(i) ==
  IF call[i].kind = "early"
    THEN Outcome("failed")
    ELSE IF interrupted[i]
    THEN Outcome("cancelled")
    ELSE IF call[i].kind = "trap"
    THEN Outcome(GuestCallError(i))
    ELSE LET d == Decode(input[i], call[i].value)
         IN  IF d.ok THEN [kind |-> "ok", outputs |-> d.v] ELSE Outcome("failed")

Settle(i) ==
  /\ pc[i] = "settle"
  /\ outcome' = [outcome EXCEPT ![i] = Verdict(i)]
  /\ Goto(i, "done")
  /\ UNCHANGED <<cancelled, epoch, input, deadline, fuel, call, heap, flagVars>>
-------------------------------------------------------------------------------
(* The watcher thread: while not complete, look at the token, then sleep.  *)
WatcherMoves(i, step) == watcher' = [watcher EXCEPT ![i] = step]

WatcherLooks(i) ==
  /\ watcher[i] = "loop"
  /\ WatcherMoves(i, IF complete[i] THEN "exited" ELSE "token")
  /\ UNCHANGED <<cancelled, epoch, pc, callVars, complete, interrupted>>

WatcherChecksToken(i) ==
  /\ watcher[i] = "token"
  /\ WatcherMoves(i, IF cancelled[TokenOf[i]] THEN "flag" ELSE "loop")
  /\ UNCHANGED <<cancelled, epoch, pc, callVars, complete, interrupted>>

WatcherFlags(i) ==
  /\ watcher[i] = "flag"
  /\ interrupted' = [interrupted EXCEPT ![i] = TRUE]
  /\ WatcherMoves(i, "bump")
  /\ UNCHANGED <<cancelled, epoch, pc, callVars, complete>>

WatcherBumps(i) ==
  /\ watcher[i] = "bump"
  /\ epoch' = [epoch EXCEPT ![EngineOf[i]] = @ + 1]
  /\ WatcherMoves(i, "exited")
  /\ UNCHANGED <<cancelled, pc, callVars, complete, interrupted>>
-------------------------------------------------------------------------------
HostStep(i) ==
  \/ CheckToken(i) \/ SetLimits(i) \/ SpawnWatcher(i) \/ SpawnFails(i)
  \/ Instantiate(i) \/ InstantiateFails(i)
  \/ GuestRuns(i) \/ GuestReturns(i) \/ GuestTraps(i)
  \/ SignalComplete(i) \/ JoinWatcher(i) \/ Settle(i)

WatcherStep(i) ==
  \/ WatcherLooks(i) \/ WatcherChecksToken(i) \/ WatcherFlags(i) \/ WatcherBumps(i)

Next ==
  \/ \E t \in Tokens : Cancel(t)
  \/ \E i \in Calls : HostStep(i)
  \/ \E i \in Calls : WatcherStep(i)

Spec == Init /\ [][Next]_vars

(* Both threads of an invocation are scheduled by the operating system.    *)
ThreadFairness ==
  \A i \in Calls : WF_vars(HostStep(i)) /\ WF_vars(WatcherStep(i))

FairSpec == Spec /\ ThreadFairness
-------------------------------------------------------------------------------
(* Once the watcher of a call has moved the epoch, the call's guest cannot *)
(* pass another check: the interruption is never missed, whenever the      *)
(* token was set, because the deadline was fixed before the watcher ran.   *)
BumpReachesGuest ==
  \A i \in Calls :
    watcher[i] = "exited" /\ interrupted[i] /\ pc[i] = "guest" =>
      epoch[EngineOf[i]] >= deadline[i]

(* What an invocation reports agrees with what its watcher did.  It is     *)
(* reported as cancelled only if its own token was, never because another  *)
(* call of the engine was interrupted; a call that was made and that is    *)
(* not reported as cancelled had not been interrupted by its watcher; and  *)
(* an interrupted guest has a cancelled call on its engine.                *)
VerdictMatchesInterruption ==
  \A i \in Calls :
    /\ outcome[i].kind = "cancelled" => cancelled[TokenOf[i]]
    /\ outcome[i].kind \in {"ok", "fuel", "failed"}
         /\ call[i].kind \in {"reply", "trap"} => ~interrupted[i]
    /\ call[i] = Trap("epoch") =>
         \E j \in Calls : EngineOf[j] = EngineOf[i] /\ interrupted[j]

(* The blocks a guest was given lie in its memory, in allocation order,    *)
(* aligned, and apart from each other.                                     *)
BlocksDisjoint ==
  \A i \in Calls : LET b == heap[i].blocks IN
    \A k \in DOMAIN b :
      /\ b[k].at >= HeapBase
      /\ b[k].at + b[k].size <= heap[i].pages * PageSize
      /\ b[k].at % NormalizeAlign(b[k].align) = 0
      /\ \A m \in 1 .. k - 1 : b[m].at + b[m].size <= b[k].at

(* Every invocation that starts comes back: fuel bounds the guest, and the *)
(* watcher sees the flag the invocation waits behind.                      *)
InvocationEnds == \A i \in Calls : pc[i] # "idle" ~> pc[i] = "done"
===============================================================================
