------------------------------ MODULE WasmProofs -------------------------------
(***************************************************************************)
(* Proofs about WasmInvoke for any number of calls, engines and tokens and *)
(* for every way of sharing them.                                          *)
(*                                                                         *)
(* What an invocation may be told and what its watcher may have done are   *)
(* tied to the two program counters.  Handshake says how; the properties   *)
(* follow from it and from what the epochs have counted.                   *)
(***************************************************************************)
EXTENDS WasmInvoke, FiniteSetTheorems, WellFoundedInduction, TLAPS

Typed ==
  /\ cancelled \in [Tokens -> BOOLEAN]
  /\ epoch \in [Engines -> Nat]
  /\ pc \in [Calls -> Steps]
  /\ deadline \in [Calls -> Nat]
  /\ fuel \in [Calls -> Nat]
  /\ call = [i \in Calls |-> call[i]]
  /\ outcome = [i \in Calls |-> outcome[i]]
  /\ heap = [i \in Calls |-> heap[i]]
  /\ complete \in [Calls -> BOOLEAN]
  /\ interrupted \in [Calls -> BOOLEAN]
  /\ watcher \in [Calls -> WatcherSteps]

BeforeCall == {"idle", "store", "spawn", "instantiate", "guest"}

(* The flags of a call.  The watcher acts on its own token only, raises    *)
(* the flag before it moves the epoch, and a call that was made is settled *)
(* after its watcher has left.                                             *)
HandshakeOf(i) ==
  /\ pc[i] \in BeforeCall => call[i] = Pending
  /\ pc[i] # "done" => outcome[i] = Pending
  /\ pc[i] = "settle" => watcher[i] = "exited"
  /\ pc[i] = "done" /\ call[i].kind \in {"reply", "trap"} => watcher[i] = "exited"
  /\ pc[i] \in {"idle", "store", "spawn"} => watcher[i] = "none"
  /\ watcher[i] \in {"flag", "bump"} \/ interrupted[i] => cancelled[TokenOf[i]]
  /\ interrupted[i] => watcher[i] \in {"bump", "exited"}
  /\ watcher[i] = "bump" => interrupted[i]

Handshake == \A i \in Calls : HandshakeOf(i)

(* What the epochs have counted: an engine's epoch has only been moved by  *)
(* the watcher of one of its calls.                                        *)
EpochsCount ==
  \A e \in Engines :
    epoch[e] > 0 => \E j \in Calls : EngineOf[j] = e /\ interrupted[j]

(* A deadline is at most the configured ticks ahead of the epoch, and at   *)
(* least as many ticks from the start.                                     *)
DeadlinesNear ==
  \A i \in Calls : pc[i] \notin {"idle", "store", "done"} =>
    deadline[i] <= epoch[EngineOf[i]] + EpochDeadline /\ deadline[i] >= EpochDeadline

Coupling == Typed /\ Handshake /\ EpochsCount /\ DeadlinesNear

(* What the proofs use of the constants.                                   *)
LEMMA Wiring ==
  /\ \A i \in Calls : EngineOf[i] \in Engines /\ TokenOf[i] \in Tokens
  /\ EpochDeadline \in Nat /\ Fuel \in Nat
BY WasmAssumption

(* The initial states are coupled.                                         *)
LEMMA InitCoupling == Init => Coupling
<1> SUFFICES ASSUME Init PROVE Coupling
  OBVIOUS
<1>1. Typed
  BY Wiring DEF Init, Typed, Steps, WatcherSteps
<1>2. Handshake
  BY DEF Init, Handshake, HandshakeOf, Pending, BeforeCall
<1>3. EpochsCount /\ DeadlinesNear
  BY DEF Init, EpochsCount, DeadlinesNear
<1>4. QED
  BY <1>1, <1>2, <1>3 DEF Coupling

(* Every step keeps the types.                                             *)
LEMMA NextTyped == Typed /\ [Next]_vars => Typed'
<1> SUFFICES ASSUME Typed, [Next]_vars PROVE Typed'
  OBVIOUS
<1> USE Wiring DEF Typed, callVars, flagVars, Goto, Return, EndCall, WatcherMoves
<1>1. ASSUME NEW t \in Tokens, Cancel(t) PROVE Typed'
  BY <1>1 DEF Cancel
<1>2. ASSUME NEW i \in Calls, CheckToken(i) PROVE Typed'
  BY <1>2 DEF CheckToken, Steps
<1>3. ASSUME NEW i \in Calls, SetLimits(i) PROVE Typed'
  BY <1>3 DEF SetLimits, Steps
<1>4. ASSUME NEW i \in Calls, SpawnWatcher(i) PROVE Typed'
  BY <1>4 DEF SpawnWatcher, Steps, WatcherSteps
<1>5. ASSUME NEW i \in Calls, SpawnFails(i) PROVE Typed'
  BY <1>5 DEF SpawnFails, Steps
<1>6. ASSUME NEW i \in Calls, Instantiate(i) PROVE Typed'
  BY <1>6 DEF Instantiate, Steps
<1>7. ASSUME NEW i \in Calls, InstantiateFails(i) PROVE Typed'
  BY <1>7 DEF InstantiateFails, Steps
<1>8. ASSUME NEW i \in Calls, GuestRuns(i) PROVE Typed'
  BY <1>8 DEF GuestRuns
<1>9. ASSUME NEW i \in Calls, GuestReturns(i) PROVE Typed'
  BY <1>9 DEF GuestReturns, Steps
<1>10. ASSUME NEW i \in Calls, GuestTraps(i) PROVE Typed'
  BY <1>10 DEF GuestTraps, Steps
<1>11. ASSUME NEW i \in Calls, SignalComplete(i) PROVE Typed'
  BY <1>11 DEF SignalComplete, Steps
<1>12. ASSUME NEW i \in Calls, JoinWatcher(i) PROVE Typed'
  BY <1>12 DEF JoinWatcher, Steps
<1>13. ASSUME NEW i \in Calls, Settle(i) PROVE Typed'
  BY <1>13 DEF Settle, Steps
<1>14. ASSUME NEW i \in Calls, WatcherStep(i) PROVE Typed'
  <2>1. CASE WatcherLooks(i)
    BY <2>1 DEF WatcherLooks, WatcherSteps
  <2>2. CASE WatcherChecksToken(i)
    BY <2>2 DEF WatcherChecksToken, WatcherSteps
  <2>3. CASE WatcherFlags(i)
    BY <2>3 DEF WatcherFlags, WatcherSteps
  <2>4. CASE WatcherBumps(i)
    BY <2>4 DEF WatcherBumps, WatcherSteps
  <2>5. QED
    BY <1>14, <2>1, <2>2, <2>3, <2>4 DEF WatcherStep
<1>15. CASE UNCHANGED vars
  BY <1>15 DEF vars
<1>16. QED
  BY <1>1, <1>2, <1>3, <1>4, <1>5, <1>6, <1>7, <1>8, <1>9, <1>10, <1>11, <1>12, <1>13,
     <1>14, <1>15 DEF Next, HostStep

(* Every step keeps the handshake.                                         *)
LEMMA NextHandshake == Typed /\ Handshake /\ [Next]_vars => Handshake'
<1> SUFFICES ASSUME Typed, Handshake, [Next]_vars PROVE Handshake'
  OBVIOUS
<1> USE Wiring DEF Typed, Handshake, HandshakeOf, BeforeCall, callVars, flagVars, Goto, Return,
        EndCall, WatcherMoves, Pending, Early, Trap, Replied, Outcome
<1>1. ASSUME NEW t \in Tokens, Cancel(t) PROVE Handshake'
  BY <1>1 DEF Cancel
<1>2. ASSUME NEW i \in Calls, CheckToken(i) PROVE Handshake'
  BY <1>2 DEF CheckToken
<1>3. ASSUME NEW i \in Calls, SetLimits(i) PROVE Handshake'
  BY <1>3 DEF SetLimits
<1>4. ASSUME NEW i \in Calls, SpawnWatcher(i) PROVE Handshake'
  BY <1>4 DEF SpawnWatcher
<1>5. ASSUME NEW i \in Calls, SpawnFails(i) PROVE Handshake'
  BY <1>5 DEF SpawnFails
<1>6. ASSUME NEW i \in Calls, Instantiate(i) PROVE Handshake'
  BY <1>6 DEF Instantiate
<1>7. ASSUME NEW i \in Calls, InstantiateFails(i) PROVE Handshake'
  BY <1>7 DEF InstantiateFails
<1>8. ASSUME NEW i \in Calls, GuestRuns(i) PROVE Handshake'
  BY <1>8 DEF GuestRuns
<1>9. ASSUME NEW i \in Calls, GuestReturns(i) PROVE Handshake'
  BY <1>9 DEF GuestReturns
<1>10. ASSUME NEW i \in Calls, GuestTraps(i) PROVE Handshake'
  BY <1>10 DEF GuestTraps
<1>11. ASSUME NEW i \in Calls, SignalComplete(i) PROVE Handshake'
  BY <1>11 DEF SignalComplete
<1>12. ASSUME NEW i \in Calls, JoinWatcher(i) PROVE Handshake'
  BY <1>12 DEF JoinWatcher
<1>13. ASSUME NEW i \in Calls, Settle(i) PROVE Handshake'
  BY <1>13 DEF Settle
<1>14. ASSUME NEW i \in Calls, WatcherLooks(i) PROVE Handshake'
  BY <1>14 DEF WatcherLooks
<1>15. ASSUME NEW i \in Calls, WatcherChecksToken(i) PROVE Handshake'
  BY <1>15 DEF WatcherChecksToken
<1>16. ASSUME NEW i \in Calls, WatcherFlags(i) PROVE Handshake'
  BY <1>16 DEF WatcherFlags
<1>17. ASSUME NEW i \in Calls, WatcherBumps(i) PROVE Handshake'
  BY <1>17 DEF WatcherBumps
<1>18. CASE UNCHANGED vars
  BY <1>18 DEF vars
<1>19. QED
  BY <1>1, <1>2, <1>3, <1>4, <1>5, <1>6, <1>7, <1>8, <1>9, <1>10, <1>11, <1>12, <1>13,
     <1>14, <1>15, <1>16, <1>17, <1>18 DEF Next, HostStep, WatcherStep

(* Only a watcher that has raised its flag moves an epoch.                 *)
LEMMA NextEpochsCount == Typed /\ Handshake /\ EpochsCount /\ [Next]_vars => EpochsCount'
<1> SUFFICES ASSUME Typed, Handshake, EpochsCount, [Next]_vars PROVE EpochsCount'
  OBVIOUS
<1> USE Wiring DEF Typed, EpochsCount, callVars, flagVars, WatcherMoves
<1>1. ASSUME NEW t \in Tokens, Cancel(t) PROVE EpochsCount'
  BY <1>1 DEF Cancel
<1>2. ASSUME NEW i \in Calls, CheckToken(i) PROVE EpochsCount'
  BY <1>2 DEF CheckToken
<1>3. ASSUME NEW i \in Calls, SetLimits(i) PROVE EpochsCount'
  BY <1>3 DEF SetLimits
<1>4. ASSUME NEW i \in Calls, SpawnWatcher(i) PROVE EpochsCount'
  BY <1>4 DEF SpawnWatcher
<1>5. ASSUME NEW i \in Calls, SpawnFails(i) PROVE EpochsCount'
  BY <1>5 DEF SpawnFails
<1>6. ASSUME NEW i \in Calls, Instantiate(i) PROVE EpochsCount'
  BY <1>6 DEF Instantiate
<1>7. ASSUME NEW i \in Calls, InstantiateFails(i) PROVE EpochsCount'
  BY <1>7 DEF InstantiateFails
<1>8. ASSUME NEW i \in Calls, GuestRuns(i) PROVE EpochsCount'
  BY <1>8 DEF GuestRuns
<1>9. ASSUME NEW i \in Calls, GuestReturns(i) PROVE EpochsCount'
  BY <1>9 DEF GuestReturns
<1>10. ASSUME NEW i \in Calls, GuestTraps(i) PROVE EpochsCount'
  BY <1>10 DEF GuestTraps
<1>11. ASSUME NEW i \in Calls, SignalComplete(i) PROVE EpochsCount'
  BY <1>11 DEF SignalComplete
<1>12. ASSUME NEW i \in Calls, JoinWatcher(i) PROVE EpochsCount'
  BY <1>12 DEF JoinWatcher
<1>13. ASSUME NEW i \in Calls, Settle(i) PROVE EpochsCount'
  BY <1>13 DEF Settle
<1>14. ASSUME NEW i \in Calls, WatcherLooks(i) PROVE EpochsCount'
  BY <1>14 DEF WatcherLooks
<1>15. ASSUME NEW i \in Calls, WatcherChecksToken(i) PROVE EpochsCount'
  BY <1>15 DEF WatcherChecksToken
<1>16. ASSUME NEW i \in Calls, WatcherFlags(i) PROVE EpochsCount'
  BY <1>16 DEF WatcherFlags
<1>17. ASSUME NEW i \in Calls, WatcherBumps(i) PROVE EpochsCount'
  BY <1>17 DEF WatcherBumps, Handshake, HandshakeOf
<1>18. CASE UNCHANGED vars
  BY <1>18 DEF vars
<1>19. QED
  BY <1>1, <1>2, <1>3, <1>4, <1>5, <1>6, <1>7, <1>8, <1>9, <1>10, <1>11, <1>12, <1>13,
     <1>14, <1>15, <1>16, <1>17, <1>18 DEF Next, HostStep, WatcherStep

(* Epochs never go back, so a deadline stays near.                         *)
LEMMA NextDeadlinesNear == Typed /\ DeadlinesNear /\ [Next]_vars => DeadlinesNear'
<1> SUFFICES ASSUME Typed, DeadlinesNear, [Next]_vars PROVE DeadlinesNear'
  OBVIOUS
<1> USE Wiring DEF Typed, DeadlinesNear, callVars, flagVars, Goto, WatcherMoves
<1>1. ASSUME NEW t \in Tokens, Cancel(t) PROVE DeadlinesNear'
  BY <1>1 DEF Cancel
<1>2. ASSUME NEW i \in Calls, CheckToken(i) PROVE DeadlinesNear'
  BY <1>2 DEF CheckToken
<1>3. ASSUME NEW i \in Calls, SetLimits(i) PROVE DeadlinesNear'
  BY <1>3 DEF SetLimits
<1>4. ASSUME NEW i \in Calls, SpawnWatcher(i) PROVE DeadlinesNear'
  BY <1>4 DEF SpawnWatcher
<1>5. ASSUME NEW i \in Calls, SpawnFails(i) PROVE DeadlinesNear'
  BY <1>5 DEF SpawnFails
<1>6. ASSUME NEW i \in Calls, Instantiate(i) PROVE DeadlinesNear'
  BY <1>6 DEF Instantiate
<1>7. ASSUME NEW i \in Calls, InstantiateFails(i) PROVE DeadlinesNear'
  BY <1>7 DEF InstantiateFails
<1>8. ASSUME NEW i \in Calls, GuestRuns(i) PROVE DeadlinesNear'
  BY <1>8 DEF GuestRuns
<1>9. ASSUME NEW i \in Calls, GuestReturns(i) PROVE DeadlinesNear'
  BY <1>9 DEF GuestReturns
<1>10. ASSUME NEW i \in Calls, GuestTraps(i) PROVE DeadlinesNear'
  BY <1>10 DEF GuestTraps
<1>11. ASSUME NEW i \in Calls, SignalComplete(i) PROVE DeadlinesNear'
  BY <1>11 DEF SignalComplete
<1>12. ASSUME NEW i \in Calls, JoinWatcher(i) PROVE DeadlinesNear'
  BY <1>12 DEF JoinWatcher
<1>13. ASSUME NEW i \in Calls, Settle(i) PROVE DeadlinesNear'
  BY <1>13 DEF Settle
<1>14. ASSUME NEW i \in Calls, WatcherLooks(i) PROVE DeadlinesNear'
  BY <1>14 DEF WatcherLooks
<1>15. ASSUME NEW i \in Calls, WatcherChecksToken(i) PROVE DeadlinesNear'
  BY <1>15 DEF WatcherChecksToken
<1>16. ASSUME NEW i \in Calls, WatcherFlags(i) PROVE DeadlinesNear'
  BY <1>16 DEF WatcherFlags
<1>17. ASSUME NEW i \in Calls, WatcherBumps(i) PROVE DeadlinesNear'
  BY <1>17 DEF WatcherBumps
<1>18. CASE UNCHANGED vars
  BY <1>18 DEF vars
<1>19. QED
  BY <1>1, <1>2, <1>3, <1>4, <1>5, <1>6, <1>7, <1>8, <1>9, <1>10, <1>11, <1>12, <1>13,
     <1>14, <1>15, <1>16, <1>17, <1>18 DEF Next, HostStep, WatcherStep

(* The coupling of the two threads holds in every reachable state.         *)
THEOREM CouplingInvariant == Spec => []Coupling
<1>1. Coupling /\ [Next]_vars => Coupling'
  BY NextTyped, NextHandshake, NextEpochsCount, NextDeadlinesNear DEF Coupling
<1>2. QED
  BY InitCoupling, <1>1, PTL DEF Spec
-------------------------------------------------------------------------------
(* With at most one tick to a deadline, the bump of a call's own watcher   *)
(* has reached the deadline of its store.                                  *)
BumpLands ==
  \A i \in Calls :
    watcher[i] = "exited" /\ interrupted[i] /\ pc[i] \notin {"idle", "store", "done"} =>
      epoch[EngineOf[i]] >= deadline[i]

(* No step takes an epoch back or a deadline ahead.                        *)
LEMMA NextBumpLands == EpochDeadline <= 1 /\ Coupling /\ BumpLands /\ [Next]_vars => BumpLands'
<1> SUFFICES ASSUME EpochDeadline <= 1, Coupling, BumpLands, [Next]_vars PROVE BumpLands'
  OBVIOUS
<1> USE Wiring DEF Coupling, Typed, BumpLands, callVars, flagVars, Goto, WatcherMoves
<1>1. ASSUME NEW t \in Tokens, Cancel(t) PROVE BumpLands'
  BY <1>1 DEF Cancel
<1>2. ASSUME NEW i \in Calls, CheckToken(i) PROVE BumpLands'
  BY <1>2 DEF CheckToken
<1>3. ASSUME NEW i \in Calls, SetLimits(i) PROVE BumpLands'
  BY <1>3 DEF SetLimits, Handshake, HandshakeOf
<1>4. ASSUME NEW i \in Calls, SpawnWatcher(i) PROVE BumpLands'
  BY <1>4 DEF SpawnWatcher, Handshake, HandshakeOf
<1>5. ASSUME NEW i \in Calls, SpawnFails(i) PROVE BumpLands'
  BY <1>5 DEF SpawnFails
<1>6. ASSUME NEW i \in Calls, Instantiate(i) PROVE BumpLands'
  BY <1>6 DEF Instantiate
<1>7. ASSUME NEW i \in Calls, InstantiateFails(i) PROVE BumpLands'
  BY <1>7 DEF InstantiateFails
<1>8. ASSUME NEW i \in Calls, GuestRuns(i) PROVE BumpLands'
  BY <1>8 DEF GuestRuns
<1>9. ASSUME NEW i \in Calls, GuestReturns(i) PROVE BumpLands'
  BY <1>9 DEF GuestReturns
<1>10. ASSUME NEW i \in Calls, GuestTraps(i) PROVE BumpLands'
  BY <1>10 DEF GuestTraps
<1>11. ASSUME NEW i \in Calls, SignalComplete(i) PROVE BumpLands'
  BY <1>11 DEF SignalComplete
<1>12. ASSUME NEW i \in Calls, JoinWatcher(i) PROVE BumpLands'
  BY <1>12 DEF JoinWatcher
<1>13. ASSUME NEW i \in Calls, Settle(i) PROVE BumpLands'
  BY <1>13 DEF Settle
<1>14. ASSUME NEW i \in Calls, WatcherLooks(i) PROVE BumpLands'
  BY <1>14 DEF WatcherLooks, Handshake, HandshakeOf
<1>15. ASSUME NEW i \in Calls, WatcherChecksToken(i) PROVE BumpLands'
  BY <1>15 DEF WatcherChecksToken
<1>16. ASSUME NEW i \in Calls, WatcherFlags(i) PROVE BumpLands'
  BY <1>16 DEF WatcherFlags, Handshake, HandshakeOf
<1>17. ASSUME NEW i \in Calls, WatcherBumps(i) PROVE BumpLands'
  BY <1>17 DEF WatcherBumps, DeadlinesNear
<1>18. CASE UNCHANGED vars
  BY <1>18 DEF vars
<1>19. QED
  BY <1>1, <1>2, <1>3, <1>4, <1>5, <1>6, <1>7, <1>8, <1>9, <1>10, <1>11, <1>12, <1>13,
     <1>14, <1>15, <1>16, <1>17, <1>18 DEF Next, HostStep, WatcherStep

(* With the default limit of one tick, or none, the invocation of a        *)
(* cancelled token cannot outrun its watcher: once that has moved the      *)
(* epoch, the guest does not pass another check (wait_for_cancellation     *)
(* against set_epoch_deadline).                                            *)
THEOREM BumpIsNeverMissed ==
  ASSUME EpochDeadline <= 1
  PROVE  Spec => []BumpReachesGuest
<1>1. Init => BumpLands
  BY DEF Init, BumpLands
<1>2. Coupling /\ BumpLands /\ [Next]_vars => BumpLands'
  BY NextBumpLands
<1>3. BumpLands => BumpReachesGuest
  BY DEF BumpLands, BumpReachesGuest
<1>4. QED
  BY CouplingInvariant, <1>1, <1>2, <1>3, PTL DEF Spec
-------------------------------------------------------------------------------

(* A step settles a call by the flag of its watcher, which then stays.     *)
LEMMA NextVerdict == EpochDeadline > 0 /\ Coupling /\ VerdictMatchesInterruption /\ [Next]_vars => VerdictMatchesInterruption'
<1> SUFFICES ASSUME EpochDeadline > 0, Coupling, VerdictMatchesInterruption, [Next]_vars PROVE VerdictMatchesInterruption'
  OBVIOUS
<1> USE Wiring DEF Coupling, Typed, Handshake, HandshakeOf, VerdictMatchesInterruption,
        callVars, flagVars, Goto, Return, EndCall, WatcherMoves, Pending, Early, Trap, Replied,
        Outcome, BeforeCall
<1>1. ASSUME NEW t \in Tokens, Cancel(t) PROVE VerdictMatchesInterruption'
  BY <1>1 DEF Cancel
<1>2. ASSUME NEW i \in Calls, CheckToken(i) PROVE VerdictMatchesInterruption'
  BY <1>2 DEF CheckToken
<1>3. ASSUME NEW i \in Calls, SetLimits(i) PROVE VerdictMatchesInterruption'
  BY <1>3 DEF SetLimits
<1>4. ASSUME NEW i \in Calls, SpawnWatcher(i) PROVE VerdictMatchesInterruption'
  BY <1>4 DEF SpawnWatcher
<1>5. ASSUME NEW i \in Calls, SpawnFails(i) PROVE VerdictMatchesInterruption'
  BY <1>5 DEF SpawnFails
<1>6. ASSUME NEW i \in Calls, Instantiate(i) PROVE VerdictMatchesInterruption'
  BY <1>6 DEF Instantiate
<1>7. ASSUME NEW i \in Calls, InstantiateFails(i) PROVE VerdictMatchesInterruption'
  BY <1>7 DEF InstantiateFails
<1>8. ASSUME NEW i \in Calls, GuestRuns(i) PROVE VerdictMatchesInterruption'
  BY <1>8 DEF GuestRuns
<1>9. ASSUME NEW i \in Calls, GuestReturns(i) PROVE VerdictMatchesInterruption'
  BY <1>9 DEF GuestReturns
<1>10. ASSUME NEW i \in Calls, GuestTraps(i) PROVE VerdictMatchesInterruption'
  BY <1>10 DEF GuestTraps, DeadlinesNear, EpochsCount
<1>11. ASSUME NEW i \in Calls, SignalComplete(i) PROVE VerdictMatchesInterruption'
  BY <1>11 DEF SignalComplete
<1>12. ASSUME NEW i \in Calls, JoinWatcher(i) PROVE VerdictMatchesInterruption'
  BY <1>12 DEF JoinWatcher
<1>13. ASSUME NEW i \in Calls, Settle(i) PROVE VerdictMatchesInterruption'
  BY <1>13 DEF Settle, Verdict, GuestCallError
<1>14. ASSUME NEW i \in Calls, WatcherLooks(i) PROVE VerdictMatchesInterruption'
  BY <1>14 DEF WatcherLooks
<1>15. ASSUME NEW i \in Calls, WatcherChecksToken(i) PROVE VerdictMatchesInterruption'
  BY <1>15 DEF WatcherChecksToken
<1>16. ASSUME NEW i \in Calls, WatcherFlags(i) PROVE VerdictMatchesInterruption'
  BY <1>16 DEF WatcherFlags
<1>17. ASSUME NEW i \in Calls, WatcherBumps(i) PROVE VerdictMatchesInterruption'
  BY <1>17 DEF WatcherBumps
<1>18. CASE UNCHANGED vars
  BY <1>18 DEF vars
<1>19. QED
  BY <1>1, <1>2, <1>3, <1>4, <1>5, <1>6, <1>7, <1>8, <1>9, <1>10, <1>11, <1>12, <1>13,
     <1>14, <1>15, <1>16, <1>17, <1>18 DEF Next, HostStep, WatcherStep

(* With a limit of at least one tick, what an invocation reports follows   *)
(* its own token and watcher, whatever the other calls of the engine do    *)
(* (CancellationWatcher::finish and the mapping of guest errors behind     *)
(* it).                                                                    *)
THEOREM VerdictFollowsWatcher ==
  ASSUME EpochDeadline > 0
  PROVE  Spec => []VerdictMatchesInterruption
<1>1. Init => VerdictMatchesInterruption
  BY DEF Init, VerdictMatchesInterruption, Pending, Trap
<1>2. Coupling /\ VerdictMatchesInterruption /\ [Next]_vars => VerdictMatchesInterruption'
  BY NextVerdict
<1>3. QED
  BY CouplingInvariant, <1>1, <1>2, PTL DEF Spec
-------------------------------------------------------------------------------
(* Every nonempty set of natural numbers has a least element.  A proof by  *)
(* induction is a proof that the least counterexample is none.             *)
LEMMA LeastNumber ==
  ASSUME NEW T, T \subseteq Nat, T # {}
  PROVE  \E n \in T : \A m \in T : n <= m
<1> DEFINE U == {0 .. n : n \in T}
           R == StrictSubsetOrdering(Nat)
<1>1. U \subseteq FiniteSubsetsOf(Nat) /\ U # {}
  <2>1. \A n \in Nat : IsFiniteSet(0 .. n) /\ 0 .. n \subseteq Nat
    BY FS_Interval
  <2>2. QED
    BY <2>1 DEF FiniteSubsetsOf
<1>2. IsWellFoundedOn(R, FiniteSubsetsOf(Nat))
  BY FS_StrictSubsetOrderingWellFounded
<1> HIDE DEF R
<1>3. PICK x \in U : \A y \in U : ~(<<y, x>> \in R)
  <2> HIDE DEF U
  <2> QED
    BY <1>1, <1>2, WFMin
<1>4. PICK n \in T : x = 0 .. n
  OBVIOUS
<1>5. ASSUME NEW m \in T, m < n PROVE FALSE
  <2>1. n \in 0 .. n /\ n \notin 0 .. m
    BY <1>5
  <2>2. 0 .. m \subseteq 0 .. n /\ 0 .. m # 0 .. n /\ 0 .. n \subseteq Nat
    BY <1>5, <2>1
  <2>3. <<0 .. m, 0 .. n>> \in R
    BY <2>2 DEF R, StrictSubsetOrdering
  <2>4. QED
    BY <1>3, <1>4, <2>3
<1>6. QED
  BY <1>5

(* Division with remainder.                                                *)
LEMMA Division ==
  ASSUME NEW x \in Nat, NEW a \in Nat \ {0}
  PROVE  /\ x \div a \in Nat /\ x % a \in 0 .. a - 1
         /\ x = (x \div a) * a + (x % a)
<1>1. x \div a \in Nat
  OBVIOUS
<1>2. x = (x \div a) * a + (x % a) /\ x % a \in 0 .. a - 1
  OBVIOUS
<1>3. QED
  BY <1>1, <1>2

LEMMA MultipleHasNoRest ==
  ASSUME NEW x \in Nat, NEW a \in Nat \ {0}
  PROVE  x * a \in Nat /\ (x * a) % a = 0
OBVIOUS

(* Twice a power of two is one: an odd number that divides 2p divides p.   *)
LEMMA PowersDouble ==
  ASSUME NEW p \in Nat, IsPowerOfTwo(p)
  PROVE  IsPowerOfTwo(2 * p)
<1> SUFFICES ASSUME NEW d \in 2 .. 2 * p, (2 * p) % d = 0, d % 2 # 0
             PROVE  FALSE
  BY DEF IsPowerOfTwo
<1> DEFINE k == (2 * p) \div d
           m == d \div 2
           c == k \div 2
<1>1. 2 * p = k * d /\ k \in Nat
  <2>1. 2 * p \in Nat /\ d \in Nat \ {0}
    OBVIOUS
  <2>2. k \in Nat /\ 2 * p = k * d + ((2 * p) % d)
    BY <2>1, Division
  <2> HIDE DEF k
  <2>3. k * d \in Nat
    BY <2>1, <2>2
  <2>4. QED
    BY <2>2, <2>3
<1>2. d = 2 * m + 1 /\ m \in Nat
  OBVIOUS
<1> HIDE DEF k, m
<1>3. k = 2 * c + (k % 2) /\ c \in Nat /\ k % 2 \in {0, 1}
  BY <1>1
<1> HIDE DEF c
<1>4. k * d = 2 * (k * m) + k
  BY <1>1, <1>2
<1>5. k * m \in Nat
  BY <1>1, <1>2
<1>6. k = 2 * c
  BY <1>1, <1>3, <1>4, <1>5
<1>7. p = c * d
  <2>1. k * d = 2 * (c * d)
    BY <1>6, <1>3
  <2>2. c * d \in Nat
    BY <1>3
  <2>3. QED
    BY <2>1, <2>2, <1>1
<1>8. p % d = 0
  <2>1. d \in Nat \ {0}
    OBVIOUS
  <2>2. QED
    BY <1>7, <1>3, <2>1, MultipleHasNoRest
<1>9. d <= p
  <2>1. c # 0
    BY <1>7 DEF IsPowerOfTwo
  <2>2. c * d >= d
    BY <2>1, <1>3
  <2>3. QED
    BY <2>2, <1>7
<1>10. QED
  BY <1>8, <1>9 DEF IsPowerOfTwo

(* Between a number and its double lies a power of two.                    *)
LEMMA PowersAreDense ==
  ASSUME NEW a \in Nat \ {0}
  PROVE  \E p \in a .. 2 * a - 1 : IsPowerOfTwo(p)
<1> DEFINE Has(n) == \E p \in n .. 2 * n - 1 : IsPowerOfTwo(p)
           T == {n \in Nat \ {0} : ~Has(n)}
<1>1. Has(1)
  BY DEF IsPowerOfTwo
<1>2. ASSUME NEW n \in Nat \ {0}, Has(n) PROVE Has(n + 1)
  <2>1. PICK p \in n .. 2 * n - 1 : IsPowerOfTwo(p)
    BY <1>2
  <2>2. CASE p = n
    <3>1. IsPowerOfTwo(2 * n)
      BY <2>1, <2>2, PowersDouble
    <3>2. QED
      BY <3>1
  <2>3. CASE p # n
    BY <2>1, <2>3
  <2>4. QED
    BY <2>2, <2>3
<1> HIDE DEF Has
<1>3. T = {}
  <2> SUFFICES ASSUME T # {} PROVE FALSE
    OBVIOUS
  <2>1. PICK n \in T : \A m \in T : n <= m
    BY LeastNumber
  <2>2. n # 1
    BY <1>1
  <2>3. n - 1 \in Nat \ {0} /\ n - 1 \notin T
    BY <2>1, <2>2
  <2>4. Has(n - 1)
    BY <2>3
  <2>5. Has(n)
    BY <2>3, <2>4, <1>2
  <2>6. QED
    BY <2>5
<1>4. QED
  BY <1>3 DEF Has

(* normalize_align returns a positive number: the search always succeeds.  *)
LEMMA NormalizedAlign ==
  ASSUME NEW align \in Nat
  PROVE  NormalizeAlign(align) \in Nat \ {0} /\ IsPowerOfTwo(NormalizeAlign(align))
<1> DEFINE a == IF align = 0 THEN 1 ELSE align
           T == {p \in a .. 2 * a : IsPowerOfTwo(p)}
<1>1. T # {} /\ T \subseteq Nat
  <2>1. a \in Nat \ {0}
    OBVIOUS
  <2> HIDE DEF a
  <2>2. PICK p \in a .. 2 * a - 1 : IsPowerOfTwo(p)
    BY <2>1, PowersAreDense
  <2>3. QED
    BY <2>1, <2>2
<1>2. PICK p \in T : \A q \in T : p <= q
  BY <1>1, LeastNumber
<1>3. \E q \in a .. 2 * a : IsPowerOfTwo(q) /\ \A m \in a .. q - 1 : ~IsPowerOfTwo(m)
  BY <1>2
<1>4. QED
  BY <1>3 DEF NormalizeAlign

(* align_up: the next multiple.                                            *)
LEMMA AlignedUp ==
  ASSUME NEW v \in Nat, NEW a \in Nat \ {0}
  PROVE  AlignUp(v, a) \in Nat /\ AlignUp(v, a) >= v /\ AlignUp(v, a) % a = 0
<1> DEFINE q == (v + a - 1) \div a
<1>1. q \in Nat /\ v + a - 1 < q * a + a
  BY Division
<1> HIDE DEF q
<1>2. q * a \in Nat /\ (q * a) % a = 0
  BY <1>1, MultipleHasNoRest
<1>3. AlignUp(v, a) = q * a
  BY DEF AlignUp, q
<1>4. QED
  BY <1>1, <1>2, <1>3

(* memory.grow by the missing pages makes room up to the end.              *)
LEMMA EnoughPages ==
  ASSUME NEW h, h.pages \in Nat, NEW end \in Nat
  PROVE  /\ PagesMissing(h, end) \in Nat
         /\ end <= (h.pages + PagesMissing(h, end)) * PageSize
         /\ h.pages * PageSize <= (h.pages + PagesMissing(h, end)) * PageSize
<1> DEFINE more == PagesMissing(h, end)
<1>1. PageSize \in Nat \ {0} /\ h.pages * PageSize \in Nat
  BY WasmAssumption
<1>2. CASE end <= h.pages * PageSize
  BY <1>1, <1>2 DEF PagesMissing
<1>3. CASE ~(end <= h.pages * PageSize)
  <2> DEFINE x == end - h.pages * PageSize
             q == (x + PageSize - 1) \div PageSize
  <2>1. x \in Nat /\ more = q
    BY <1>1, <1>3 DEF PagesMissing
  <2> HIDE DEF x, more
  <2>2. q \in Nat /\ x + PageSize - 1 < q * PageSize + PageSize
    BY <1>1, <2>1, Division
  <2> HIDE DEF q
  <2>3. (h.pages + q) * PageSize = h.pages * PageSize + q * PageSize /\ q * PageSize \in Nat
    BY <1>1, <2>2
  <2>4. QED
    BY <1>1, <2>1, <2>2, <2>3 DEF x, more
<1>4. QED
  BY <1>2, <1>3
-------------------------------------------------------------------------------
Blocks == [at : Nat, size : Nat, align : Nat]
Heaps == [next : Nat, pages : Nat, blocks : Seq(Blocks)]

(* What one allocation must leave: besides the property itself, that every *)
(* block ends where the next one may begin, which is never below the base. *)
Sound(h) ==
  /\ h \in Heaps
  /\ h.next = 0 \/ h.next >= HeapBase
  /\ \A k \in 1 .. Len(h.blocks) : LET b == h.blocks[k] IN
       /\ b.at >= HeapBase
       /\ b.at + b.size <= h.pages * PageSize
       /\ b.at % NormalizeAlign(b.align) = 0
       /\ b.at + b.size <= h.next
       /\ \A m \in 1 .. k - 1 : h.blocks[m].at + h.blocks[m].size <= b.at

HeapsSound == \A i \in Calls : Sound(heap[i])

(* BumpAllocator::alloc keeps a heap sound, whatever is asked for.         *)
LEMMA AllocSound ==
  ASSUME NEW h, Sound(h), NEW r \in Requests
  PROVE  Sound(Alloc(h, r))
<1> DEFINE next == IF h.next = 0 THEN HeapBase ELSE h.next
           at == AlignUp(next, NormalizeAlign(r.align))
           end == at + r.size
           more == PagesMissing(h, end)
           b == [at |-> at, size |-> r.size, align |-> r.align]
           g == [next |-> end, pages |-> h.pages + more, blocks |-> Append(h.blocks, b)]
<1>1. /\ HeapBase \in Nat \ {0} /\ r.size \in Nat /\ r.align \in Nat
      /\ h.next \in Nat /\ h.pages \in Nat /\ Len(h.blocks) \in Nat
      /\ h.blocks \in Seq(Blocks)
  BY WasmAssumption DEF Sound, Heaps
<1>2. \A k \in 1 .. Len(h.blocks) :
        h.blocks[k].at \in Nat /\ h.blocks[k].size \in Nat /\ h.blocks[k].align \in Nat
  <2>1. \A k \in 1 .. Len(h.blocks) : h.blocks[k] \in Blocks
    BY <1>1
  <2>2. QED
    BY <2>1 DEF Blocks
<1>3. /\ next \in Nat /\ next >= HeapBase
      /\ \A k \in 1 .. Len(h.blocks) : h.blocks[k].at + h.blocks[k].size <= next
  <2>1. \A k \in 1 .. Len(h.blocks) :
          h.blocks[k].at >= HeapBase /\ h.blocks[k].at + h.blocks[k].size <= h.next
    BY DEF Sound
  <2>2. ASSUME NEW k \in 1 .. Len(h.blocks)
        PROVE  h.blocks[k].at + h.blocks[k].size <= next
    <3>1. /\ h.blocks[k].at \in Nat /\ h.blocks[k].size \in Nat
          /\ h.blocks[k].at >= HeapBase /\ h.blocks[k].at + h.blocks[k].size <= h.next
      BY <1>2, <2>1
    <3>2. QED
      BY <1>1, <3>1
  <2>3. next \in Nat /\ next >= HeapBase
    BY <1>1 DEF Sound
  <2> HIDE DEF next
  <2>4. QED
    BY <2>2, <2>3
<1> HIDE DEF next
<1>4. at \in Nat /\ at >= next /\ at % NormalizeAlign(r.align) = 0 /\ end \in Nat
  <2>1. NormalizeAlign(r.align) \in Nat \ {0}
    BY <1>1, NormalizedAlign
  <2>2. at \in Nat /\ at >= next /\ at % NormalizeAlign(r.align) = 0
    BY <1>3, <2>1, AlignedUp
  <2> HIDE DEF at
  <2>3. QED
    BY <1>1, <2>2
<1> HIDE DEF at
<1>5. /\ more \in Nat
      /\ end <= (h.pages + more) * PageSize
      /\ h.pages * PageSize <= (h.pages + more) * PageSize
  BY <1>1, <1>4, EnoughPages
<1>6. h.pages * PageSize \in Int /\ (h.pages + more) * PageSize \in Int
  BY <1>1, <1>5, WasmAssumption
<1> HIDE DEF more
<1>7. Sound([h EXCEPT !.next = next])
  <2> DEFINE f == [h EXCEPT !.next = next]
  <2>1. f \in Heaps /\ f.blocks = h.blocks /\ f.pages = h.pages /\ f.next = next
    BY <1>1, <1>3 DEF Sound, Heaps
  <2> HIDE DEF f
  <2>2. Sound(f)
    BY <1>3, <2>1 DEF Sound
  <2>3. QED
    BY <2>2 DEF f
<1>8. Sound(g)
  <2>1. b \in Blocks
    BY <1>1, <1>4 DEF Blocks
  <2>2. /\ b.at = at /\ b.at + b.size = end /\ b.align = r.align
    OBVIOUS
  <2> HIDE DEF b
  <2>3. /\ g \in Heaps /\ g.next = end /\ g.pages = h.pages + more
        /\ g.blocks = Append(h.blocks, b)
    BY <1>1, <1>4, <1>5, <2>1 DEF Heaps
  <2> HIDE DEF g
  <2>4. /\ Len(g.blocks) = Len(h.blocks) + 1
        /\ g.blocks[Len(h.blocks) + 1] = b
        /\ \A k \in 1 .. Len(h.blocks) : g.blocks[k] = h.blocks[k]
    BY <1>1, <2>3
  <2>0. g.next >= HeapBase
    BY <1>1, <1>3, <1>4, <2>3
  <2> SUFFICES ASSUME NEW k \in 1 .. Len(g.blocks)
      PROVE /\ g.blocks[k].at >= HeapBase
            /\ g.blocks[k].at + g.blocks[k].size <= g.pages * PageSize
            /\ g.blocks[k].at % NormalizeAlign(g.blocks[k].align) = 0
            /\ g.blocks[k].at + g.blocks[k].size <= g.next
            /\ \A m \in 1 .. k - 1 :
                 g.blocks[m].at + g.blocks[m].size <= g.blocks[k].at
    BY <2>0, <2>3 DEF Sound
  <2>5. CASE k = Len(h.blocks) + 1
    <3>1. g.blocks[k] = b
      BY <2>4, <2>5
    <3>2. /\ b.at >= HeapBase /\ b.at + b.size <= g.pages * PageSize
          /\ b.at % NormalizeAlign(b.align) = 0 /\ b.at + b.size <= g.next
      BY <1>1, <1>3, <1>4, <1>5, <2>2, <2>3
    <3>3. ASSUME NEW m \in 1 .. k - 1
          PROVE  g.blocks[m].at + g.blocks[m].size <= b.at
      <4>1. m \in 1 .. Len(h.blocks) /\ g.blocks[m] = h.blocks[m]
        BY <1>1, <2>4, <2>5
      <4>2. /\ h.blocks[m].at + h.blocks[m].size <= next
            /\ h.blocks[m].at \in Nat /\ h.blocks[m].size \in Nat
        BY <1>2, <1>3, <4>1
      <4>3. QED
        BY <1>3, <1>4, <2>2, <4>1, <4>2
    <3>4. QED
      BY <3>1, <3>2, <3>3
  <2>6. CASE k \in 1 .. Len(h.blocks)
    <3>1. /\ g.blocks[k].at >= HeapBase
          /\ g.blocks[k].at + g.blocks[k].size <= h.pages * PageSize
          /\ g.blocks[k].at % NormalizeAlign(g.blocks[k].align) = 0
          /\ \A m \in 1 .. k - 1 : g.blocks[m].at + g.blocks[m].size <= g.blocks[k].at
      <4>1. /\ h.blocks[k].at >= HeapBase
            /\ h.blocks[k].at + h.blocks[k].size <= h.pages * PageSize
            /\ h.blocks[k].at % NormalizeAlign(h.blocks[k].align) = 0
            /\ \A m \in 1 .. k - 1 : h.blocks[m].at + h.blocks[m].size <= h.blocks[k].at
        BY <2>6 DEF Sound
      <4>2. \A m \in 1 .. k : g.blocks[m] = h.blocks[m]
        BY <1>1, <2>4, <2>6
      <4>3. k \in 1 .. k /\ \A m \in 1 .. k - 1 : m \in 1 .. k
        BY <2>6
      <4>4. QED
        BY <4>1, <4>2, <4>3
    <3>2. g.blocks[k].at + g.blocks[k].size <= next /\ g.blocks[k].at + g.blocks[k].size \in Nat
      <4>1. g.blocks[k] = h.blocks[k] /\ h.blocks[k].at \in Nat /\ h.blocks[k].size \in Nat
        BY <1>2, <2>4, <2>6
      <4>2. QED
        BY <1>3, <2>6, <4>1
    <3>3. g.blocks[k].at + g.blocks[k].size <= g.pages * PageSize
      BY <3>1, <3>2, <1>5, <1>6, <2>3
    <3>4. g.blocks[k].at + g.blocks[k].size <= g.next
      <4>1. next <= end
        BY <1>1, <1>3, <1>4
      <4>2. QED
        BY <3>2, <4>1, <1>3, <1>4, <2>3
    <3>5. QED
      BY <3>1, <3>3, <3>4
  <2>7. QED
    BY <2>4, <2>5, <2>6
<1>9. \/ Alloc(h, r) = h
      \/ Alloc(h, r) = [h EXCEPT !.next = next]
      \/ Alloc(h, r) = g
  BY DEF Alloc, next, at, more
<1>10. QED
  BY <1>7, <1>8, <1>9

(* A heap starts empty.                                                    *)
LEMMA FreshSound == Sound(FreshHeap)
BY DEF Sound, FreshHeap, Heaps

(* Only the guest's own allocations change a heap, and the end of the call *)
(* forgets it.                                                             *)
LEMMA NextHeapsSound == Typed /\ HeapsSound /\ [Next]_vars => HeapsSound'
<1> SUFFICES ASSUME Typed, HeapsSound, [Next]_vars PROVE HeapsSound'
  OBVIOUS
<1>1. ASSUME NEW i \in Calls, heap' = [heap EXCEPT ![i] = FreshHeap] PROVE HeapsSound'
  BY <1>1, FreshSound DEF HeapsSound, Typed
<1>2. ASSUME NEW i \in Calls, NEW r \in Requests, heap' = [heap EXCEPT ![i] = Alloc(@, r)]
      PROVE  HeapsSound'
  <2>1. Sound(Alloc(heap[i], r))
    BY AllocSound DEF HeapsSound
  <2>2. \A j \in Calls : heap'[j] = IF j = i THEN Alloc(heap[i], r) ELSE heap[j]
    BY <1>2 DEF Typed
  <2>3. QED
    BY <2>1, <2>2 DEF HeapsSound
<1>3. ASSUME heap' = heap PROVE HeapsSound'
  BY <1>3 DEF HeapsSound
<1>4. \/ heap' = heap
      \/ \E i \in Calls : heap' = [heap EXCEPT ![i] = FreshHeap]
      \/ \E i \in Calls, r \in Requests : heap' = [heap EXCEPT ![i] = Alloc(@, r)]
  BY DEF Next, HostStep, WatcherStep, Cancel, CheckToken, SetLimits, SpawnWatcher, SpawnFails,
         Instantiate, InstantiateFails, GuestRuns, GuestReturns, GuestTraps, SignalComplete,
         JoinWatcher, Settle, WatcherLooks, WatcherChecksToken, WatcherFlags, WatcherBumps,
         EndCall, callVars, vars
<1>5. QED
  BY <1>1, <1>2, <1>3, <1>4

(* For every page size, heap base and sequence of requests, the blocks a   *)
(* guest's bump allocator hands out lie in its memory, aligned and apart   *)
(* (BumpAllocator::alloc, align_up, normalize_align and ensure_memory).    *)
THEOREM AllocationsDisjoint == Spec => []BlocksDisjoint
<1>1. Init => HeapsSound
  BY FreshSound DEF Init, HeapsSound
<1>2. HeapsSound => BlocksDisjoint
  BY DEF HeapsSound, BlocksDisjoint, Sound, Heaps
<1>3. QED
  BY CouplingInvariant, NextHeapsSound, <1>1, <1>2, PTL DEF Spec, Coupling
===============================================================================
