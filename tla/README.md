# Pureflow: a TLA+ verification project

Pureflow runs dataflow workflows: a graph of nodes whose ports are joined by
bounded channels, run as futures on one executor, observed through metadata
records. This directory models the runtime, the rule engine, the WASM host, the
metadata sinks, the file-system watcher and the command-line host, checks the
models with TLC on small instances, and proves the safety properties of ports,
graphs, runs, rule nodes, guest calls, sinks, the watcher and the command-line
host, and the refinement of an abstract broadcast by the port protocol, with
TLAPS for every size. `PROJECT.json` lists components, runs, mutants, the map
from definitions to source lines, findings, hazards and theorems.

## 1. Inventory

| Component | Source (`src/crates/`) | State it keeps | Operations | Talks to | What is hard about it |
|---|---|---|---|---|---|
| Port handles, edges | `pureflow-core/src/ports.rs` | per edge a bounded channel; per call permits acquired, receivers polled | `reserve`, `try_reserve`, `send`, `abort`, `recv`, `try_recv`, `recv_any`, drop | channel library, token, metadata sink, validator | all-or-nothing fan-out over several channels; clones competing; a poll that visits receivers one by one; drops in between |
| Token, context | `pureflow-core/src/context.rs` | one shared cancellation request | `cancel`, `request_cancellation` | ports, nodes, engine, WASM watcher | sets a flag and wakes nobody |
| Workflow graph | `pureflow-workflow/src/lib.rs` | indegrees, child sets, DFS stack | `from_graph`, `topological_order`, `find_cycle` | loaders, engine | counters against sets; which cycle is reported |
| Run, collector | `pureflow-engine/src/lib.rs` | node futures, summary, watchdog | entry points, set-up, poll, record a result, cancel, watchdog | runtime, ports, sinks | fail-fast races, results in any order, the deadline against late results |
| Node runtime | `pureflow-runtime/src/lib.rs` | none | `run_node_with_observers` | hooks, sink, executor | any observation may fail |
| Rule node | `pureflow-rules/src/node.rs`, `pureflow-wasm/src/rules_node.rs` | packet in hand, counter | receive, evaluate, record, act | ports, sink | record and send are two steps; cancellation in between |
| Rule sets, evaluator | `pureflow-rules/src/{rule,eval,condition,action}.rs` | sorted rules, loop state | `RuleSet::new`, `evaluate` (3 strategies), conditions, globs | rule node, contract | ties, order, backtracking |
| Rule contracts, rule introspection | `pureflow-contract/src/rules.rs`, `pureflow-introspection/src/rules.rs` | none | `rule_set_violations`, `introspect_rule_set` | callers before a run | claims about what a run will do, computed apart from the evaluator |
| WASM host and guests | `pureflow-wasm/src/{lib,rules}.rs`, `fixtures/*` | store, fuel, shared engine epoch, watcher thread, guest heap | invoke, evaluate, encode, decode | guest, token | the watcher thread against completion; one epoch for all calls; malformed replies |
| Metadata | `pureflow-core/src/{metadata,lifecycle,error}.rs` | data-tier counter, buffered JSONL writer, two locks | `record`, sampling, `flush` | everyone | partial writes, concurrent numbering, what a crash loses |
| CLI host | `pureflow-cli/src/main.rs` | files on disk, no memory across commands | `validate`, `inspect`, `explain`, `run`, `schema`, `validate-manifest` | document format, contracts, engine | files change between check and use; several routes through the same checks |
| FS watcher | `pureflow-nodes-fs/src/lib.rs` | last emission, sequence number, event channel | watch, debounce, emit | ports, notification thread | dropped events; stopping while busy or blocked |
| Capabilities, contracts, introspection | `pureflow-core/src/capability.rs`, `pureflow-contract/src/lib.rs`, `pureflow-introspection/src/lib.rs` | none | validation, projection | engine, CLI | order of checks, descriptors twice for one node |
| Document format, rule sources, identifiers | `pureflow-workflow-format/src/`, `pureflow-types/src/lib.rs` | source registry | parse, convert, resolve | CLI | order of errors, schemes |
| Messages, batches | `pureflow-core/src/{message,batch}.rs` | immutable values | constructors | all | conversion at the WASM boundary |
| Test kit, facade | `pureflow-test-kit`, `pureflow` | none | builders, re-exports | | nothing stateful |

How they interact: the CLI (or an application) decodes a document and builds a
`WorkflowDefinition`, which the graph validates; contracts and capabilities are
checked against it. The engine wires one channel per edge into
`PortsIn`/`PortsOut`, starts every node future with a context holding a clone of
one token, and polls them in a `FuturesUnordered`. A node reaches others only
through its ports and the token; a WASM node calls a guest synchronously and has
a thread watch the token meanwhile. The first failed or cancelled result writes
a `workflow_failed` record and sets the token; a watchdog, when configured,
drops the futures that are left. Every boundary reports to a metadata sink.

What makes each part correct:

* ports: slots never over-committed or leaked; a packet on all edges of a port
  or on none; order per writer; end of input only after the last packet; records
  in causal order; waiting senders always released by cancellation;
* graph: only well-formed graphs accepted, the order topological, a reported
  cycle real, an acyclic graph not rejected as cyclic;
* run: token, summary and metadata agree whatever the order of results; a
  completed run delivered everything; no wake-up missed; runs end;
* rules: the decision is the one the rule set declares; no packet is lost in
  silence;
  every effect is recorded before it happens; native and guest evaluation agree;
  what is said of a rule set beforehand comes true;
* WASM host: an interruption is neither missed nor blamed on the wrong call; the
  host hands on exactly what the guest meant; every call comes back;
* sinks: sampling is exact, acknowledged lines are whole, flushed facts survive;
* watcher: changes in quiet times are reported, requests to stop are obeyed;
* host: commands agree with each other and with the run they announce.

## 2. Modules

| Module | What it is | Source |
|---|---|---|
| `Ports` | writers and readers over bounded edges; one channel call per step | `ports.rs`, `context.rs` |
| `FanoutBus` | abstract specification: indivisible bounded ordered broadcast | what nodes rely on |
| `PortsBus` | refinement mapping from `Ports` to `FanoutBus` | |
| `WorkflowGraph` | validation, edge by edge and node by node | `pureflow-workflow` |
| `RunSetup` | entry points, policy, registry, output contracts | `pureflow-engine` |
| `WorkflowRun` | engine, runtime, batch, native and rule nodes, watchdog | `pureflow-engine`, `-runtime`, `-cli`, `rules/node.rs` |
| `RuleNodes` | rule-set construction, strategies, rule node loop (native and WASM) | `pureflow-rules`, `-wasm` |
| `RuleAnalysis` | what contracts and introspection say of a rule set | `pureflow-contract`, `-introspection` |
| `Conditions` | condition language, globs, flat encoding, guest evaluator | `eval.rs`, `condition.rs`, `wasm/rules.rs`, guest |
| `WasmInvoke` | one guest call with its watcher thread, fuel, epoch, guest heap | `pureflow-wasm/src/lib.rs`, guests |
| `WitValues`, `RuleValues` | conversions of batches, rule sets and decisions to component values and back | `pureflow-wasm/src/{lib,rules}.rs`, guests |
| `MetadataSinks` | tiered sink around a JSONL sink around a buffered file | `metadata.rs` |
| `MetadataLog` | the sinks with the objects they write: what the log says of a record | `metadata.rs` |
| `MetadataRecords`, `Errors` | every record variant and its JSON projection; error families | `metadata.rs`, `lifecycle.rs`, `error.rs` |
| `FsWatcher` | the watcher node with its neighbours and the clock | `pureflow-nodes-fs` |
| `Identifiers`, `Documents`, `Contracts` | the checks of a document, its rule sets, its contracts and its projection | `-types`, `-workflow-format`, `-contract`, `-core`, `-introspection` |
| `Host` | commands over files, composed with `WorkflowGraph` | `pureflow-cli`, embedding applications |
| `MCPorts`, `MCWorkflowGraph`, `MCWorkflowRun`, `MCRuleNodes`, `MCWasm`, `MCSinks`, `MCHost` | instances for TLC | |
| `PortsProofs` | theorems about `Ports` | |
| `GraphProofs` | theorems about `WorkflowGraph` | |
| `RunProofs` | theorems about `WorkflowRun` | |
| `RuleProofs` | theorems about `RuleNodes` and `RuleAnalysis` | |
| `WasmProofs` | theorems about `WasmInvoke` | |
| `SinkProofs` | theorems about `MetadataSinks` and `MetadataLog` | |
| `WatcherProofs` | theorems about `FsWatcher` | |
| `HostProofs` | theorems about `Host`, on top of `GraphProofs` | |

Composition: `WorkflowRun` and `RuleNodes` use a send as one step; that step is
`FanoutBus`'s `Broadcast`, which `PortsBus` shows `Ports` implements for the
wiring the engine builds (one writer per edge). `Host` extends `WorkflowGraph`
and drives its validation as one phase of a command. `WasmInvoke` takes the
guest's replies and the host's decoder as parameters, which `MCWasm` fills with
`WitValues` and `RuleValues`. `MCRuleNodes` instantiates the parameters `Holds`
of `RuleNodes` (what a condition means) and `Parts` of `RuleAnalysis` (the
conditions inside one) with `EvalCondition` and `Subconditions` of `Conditions`;
the splits keep recursive definitions out of modules that are to be proved
about.

### Ports

`pc[w]` is the position of a writer inside `reserve`/`try_reserve`/`send`:
`CheckCancelled` is the head of the `reserve` loop, `AcquirePermit` one
`try_reserve` on the next sender of the fan-out, `ReserveFull` and
`ReserveDisconnected` the two early returns (which drop the permits held so
far), `RecordSend` the `Enqueued` record, `CommitPermit` one `permit.send`.
`rpc[r]`, `pos[r]`, `nclosed[r]` are a reader's poll: which receiver comes next
and the `disconnected_count`. The channel (`asupersync::channel::mpsc`) is
external: a bounded FIFO whose reserved slots count against its capacity. Left
out: queue-pressure records (advisory), and cancellation through the runtime's
own `Cx`, which no caller in the repository triggers.

### WorkflowGraph

`IndexEdge`/`RejectEdge` are the loop of `from_graph`; `EmitNode` one pop of the
ready set in `topological_order`; `NextRoot`, `VisitChild`, `LeaveNode` the
depth-first search of `find_cycle`. An edge carries its place among the declared
ones (`pos`), and the loop takes them in that order (`IsNextEdge`), so the error
returned is that of the first bad edge. `outgoing` is a set of children,
`indegree` counts edges, exactly as in the code.

### RunSetup and WorkflowRun

A setup names the entry point and what its caller passes; `SetupFails` is
everything that returns an error before a node is polled, and `RejectRun` the
step that does so. The nodes are polled by one task: `polling` is the future
being polled, which runs on until it sleeps, yields or returns. `asleep[n]` is a
future pending in `recv`; only a change of an edge it polled wakes it. `Finish`
is `run_node_with_observers` after the executor returned, with each observation
failing or not; `Collect` is the collector's arm including record, token and
summary; `WatchdogFires` the deadline, with the diagnostic it records. A rule's
decision is free here. A packet of a batch may claim another workflow, run or
port, which `Validates` refuses where contracts were given.

### RuleNodes, RuleAnalysis and Conditions

`Load` is `RuleSet::new` (refusal and stable sort); `Receive`, `StopAtMatch`,
`PassRule`, `FinishScan`, `RecordVerdict`, `Send`/`SendFails`/`Discard`/`Halt`
and `CheckCancelled` are the loop of `RuleNode::run`, one rule per step so that
the result of the loops is compared with a declarative definition over the rules
as declared. `GuestFails` covers every error of a guest call, which
`WasmRuleNode` turns into an execution error. `Fail` is every error return: the
future ends, and the packet it had taken goes with it (`dropped`). `NothingLost`
therefore does not promise that a packet survives the failure of its node; it
says that this is the only way to lose one: at most one packet in hand per host,
with an error of the node that accounts for it, besides what is still queued to
a node that ended early. `RuleSetViolations` and `DetectUnreachable` are pure;
their properties compare them with what happens to packets. The search of
`has_path` is its result, the least set of nodes that holds the start and
follows every edge (`Visited`). Values carry their kind and size; texts are
sequences of characters only for globs. Left out: the wording of descriptions,
message identifiers.

### WasmInvoke, WitValues and RuleValues

An invocation and its watcher are two threads; `pc[i]` and `watcher[i]` are
their positions. `SetLimits` fixes the deadline relative to the engine's epoch,
`SpawnWatcher` starts the thread, `GuestRuns` is a stretch of guest code between
two checks for fuel and epoch, during which the guest may allocate, `EndCall`
its return or trap, `SignalComplete` and `JoinWatcher` are `finish` (and `drop`,
on every early return), `Settle` decides the result. `WatcherLooks`,
`WatcherChecksToken`, `WatcherFlags` and `WatcherBumps` are the four operations
of the thread's loop. External: Wasmtime's checks and the lifting of values.
A component value is a tagged record. The conversions write and read the fields
of the source one by one: identifiers of workflow and run, attempt, routes,
payloads with the check of each byte, the whole evaluation context, names and
descriptions of rule sets and rules, with the error of each missing or mistyped
field (a reply is refused as a whole). A text is a name or one that the
identifier rules refuse; Arrow payloads are left out.
The rule host runs the same steps with other conversions.

### MetadataSinks, MetadataRecords and Errors

`Decide` takes the number of a data-tier fact under the policy's lock;
`LockWriter`, `WritePiece`, `WriteFails`, `WritePanics` are the JSONL sink,
whose object is written in two pieces and a newline; `Flush`, `DropSink` and
`Crash` decide what reaches the file. `BufWriter` is external: it writes its
buffer out before a write that does not fit, and a failed write-out may have
written a prefix. `UsizeMax` stands for the width of the counter.
`MetadataRecords` gives each kind of record its fields (`IsRecord`) and its
object (`RecordJson`), nested objects (actions, diagnostics, the packet's view,
tags) included, each with the fields its variant writes; `MetadataLog` puts the
two together.

### FsWatcher

`Notify` is the library's thread and `NotifierEnds` its end, after which the
channel is drained and the node returns (`Drained`); `CheckToken`,
`CheckControl`, `TakeEvent`, `Stamp`, `SendPath`, `Drained` and `Yielded` are
the loop. `Tick` moves the clock between any two steps. `SeqFits` stands for the
longest sequence number whose message identifier is still valid.

### Documents, Contracts and Host

A document is data with faults in known places; each check returns the first
fault in the order of the code. `Host` runs commands step by step over files
that another program may change between steps: `ReadWorkflow`, `Decode`, the
graph's own actions, then the command's continuation. `embed` is an application
that calls the libraries as their documentation shows: inlining rule sets,
allowing cycles, giving its own contracts. `CreateMetadata` and `FillMetadata`
are `fs::write`: the file is emptied first and filled after. `Execute` is the
return of the run; `RunMayWait` names the one case in which it may not come: with
components among the nodes, which the host runs without a deadline
(`main.rs:783`), a native node that drains its ports in order (`main.rs:1036-1045`)
and a component that fills them in another may wait for each other. Without
components every node sends one packet per port, for which its edge has a slot.
`LastEntry` is the map `introspect_workflow` builds for itself, beside the map of
the validation. `HostAssumption`
says what a session may start from: files of the right shapes with any flaws in
them, at most one document and one manifest, a known state of each component
file the manifest names, and, since `WorkflowGraph` keeps ports as constants, a
document that passes the format declares the ports of the instance.

## 3. Runs

Every bound is a CONSTANT of the configuration or a set of the MC module.

| Run | Checks | Instance and why it is enough |
|---|---|---|
| `PortsMesh` | `PerWriterOrder`, `ClosedMeansDrained`, `EnqueuedBeforeDequeued`, `ImplementsBus` | fan-out and fan-in with a shared reader, capacities 1 and 2, two packets: a receiver fills after it was polled, a sender leaves between two polls, order and records span several packets |
| `PortsLive` | `TypeOK`, `CapacityRespected`, `PermitsAccounted`, `AtomicFanout`, `CancelReleasesSenders`, `ReserveEnds` | two clones compete for two full edges of one reader that may stop or leave, plus a port without edges: each clone can hold the slot the other needs |
| `RunMixed` | `FirstErrorCancels`, `SummaryAccounts`, `CompletedMeansDelivered`, `NoMissedWake`, `RunEnds` | four nodes of the three kinds, fan-out and fan-in, unit capacity, up to two packets per port, a native node whose ports are fed in the opposite order, so that it and the source can wait for each other; three accepted set-ups (watched, checked by contracts, plain) and three refused ones |
| `RuleNodes` | `DecisionIsBest`, `ViolationsForetellRun`, `NothingLost`, `AuditTrail`, `GuestAgrees`, `GlobMeansWildcards` | two rule nodes in a row, the second a guest's; all strategies, equal and different priorities, tags, dead letters, undeclared ports, nested and provenance conditions, globs; two packets, cancellation and leaving neighbours |
| `Wasm` | `BumpReachesGuest`, `VerdictMatchesInterruption`, `BlocksDisjoint`, `GuestAnswersIntact`, `InvocationEnds` | two calls of one engine with a token each, and single calls on batches and rule sets with well-formed and damaged replies; two stretches of fuel, two pages |
| `Sinks` | `SampleExact`, `TornOnlyAfterFailure`, `FlushedSurvives`, `LogDeterminesRecord` | two threads, four facts of any tier, three policies, a counter that saturates at 3, a buffer of two writes, two faults, one flush; threads are symmetric |
| `Watcher` | `QuietEventReported`, `StopRequestEnds` | three events of up to two paths, a window of two ticks of four, an edge of capacity 1; the library may end at any time |
| `Host` | `AcceptedIsWellFormed`, `OrderIsTopological`, `ReportedCycleIsReal`, `CommandsAgree`, `ManifestForetellsRun`, `IntrospectionSound`, `EvidenceKept`, `CommandEnds` | all 512 simple graphs (loops included) on three nodes; 26 documents, 7 manifests, about 120 sets of contracts and capabilities, each flaw on its own, and nodes described twice; up to three commands and one change of a file |
| `GraphParallel` | violation: `CycleErrorMeansCycle` | two edges between the same nodes |
| `RuleCancel` | violation: `WaitingRuleNodeCancels` | a loop of rule nodes without watchdog |
| `RuleDrain` | violation: `DrainGuarantee` | a rule node waiting for a slot |
| `Unreachable` | violation: `UnreachableNeverFires` | an `Always` rule that tags in front of another rule |

Deadlock checking is off where a system rightly stops: validation returns, runs
end, writers and readers drop their ports. That nothing stops early is what
`RunEnds`, `CommandEnds`, `InvocationEnds`, `StopRequestEnds` and `ReserveEnds`
say. Every property of a passing run has a mutant in `PROJECT.json`, a plausible
bug of the mapped code that makes the property fail.

What some of them do not say:

* `RunEnds`: a run with a deadline ends. Without one, an acyclic run ends or comes
  to rest in a `CrossedWait`: a native node asleep on one port while the sender of
  a later port of it waits for a slot. TLC reaches that wait; the property says
  that there is no other.
* `ReserveEnds` is checked for one packet per clone: two clones never livelock,
  but a sustained competition, in which `try_reserve` queues nobody and a clone
  might starve, is beyond the bound.
* `CommandsAgree` leaves out that `explain` refuses rule sets it cannot resolve
  while `run` does not look at them, although `main.rs:452-454` says that
  `explain` mirrors what the runtime loads.
* `ManifestForetellsRun` compares commands over the same files: answers are
  forgotten when a file changes. It leaves out workflows whose extension `run`
  does not read as JSON.
* `EvidenceKept` is not durability. A run that cannot write its records may have
  emptied the file first (`fs::write`, `main.rs:267`): earlier records are lost
  then, and the property says that the command fails with the I/O error of the
  metadata file and that what is left is never taken for the whole records of a
  run. No other command, and no run that fails earlier, touches the file.
* `CommandEnds` exempts the run of `RunMayWait`, and nothing else.

`LogDeterminesRecord`, `GuestAgrees` and `GlobMeansWildcards` are about pure
functions: the first is proved for all records, the others are compared with a
reference over a bounded set of inputs; `GuestAnswersIntact` does so along the
runs of `WasmInvoke`.

## 4. Fairness

* `Ports`: `CallFairness` only says that a call that has started keeps being
  polled, which holds because a full reservation yields with a wake-up of itself
  and a poll runs to its end. No task is obliged to call again, so
  `CancelReleasesSenders` does not lean on readers. `ReserveEnds` assumes, in
  the formula itself, that permits are used and readers go on (`TaskFairness`).
* `WorkflowRun`: strong fairness of each node's step: the ready queue of
  `FuturesUnordered` is first in, first out, so a future that is ready between
  polls of others is polled again. Weak fairness of the watchdog, a thread that
  sleeps for the timeout and completes.
* `WasmInvoke`: weak fairness of both threads of an invocation, which the
  operating system schedules. A guest is stopped by its fuel.
* `FsWatcher`: weak fairness of the node (it yields with a wake-up of itself)
  and of a consumer that is there. Nothing is assumed of the clock, the
  notification thread (which may also end) or the control upstream.
* `Host`: weak fairness of the command's steps, which are sequential code, except
  for the return of a run that may wait (`RunMayWait`).
* `MetadataSinks` has only safety properties.

## 5. Proofs

TLAPS checks each theorem for every value of the constants that the named
ASSUMEs of the module allow. TLC evaluates those assumptions on the instances.
A theorem with a hypothesis of its own states it (`ASSUME ... PROVE`); there are
five such hypotheses, discussed where they occur. Each proof follows one
pattern: an inductive invariant, one lemma per part of it with a case per
action, and a theorem that combines them.

### Ports (`PortsProofs`)

For every set of writers, readers and edges, every fan-out and fan-in, every
capacity and number of packets. `PortsAssumption`: a finite set of writers,
ports that hold an edge once, one receiving port per edge, positive capacities.

* `ShapeInvariant`: `Shape`, the base of all other proofs, is `TypeOK`
  together with `WriterShape` (the position of a writer fixes what its counters
  `held` and `released` may be) and `ReaderShape` (likewise `pos` and
  `nclosed`). `TypeOK` alone is not inductive: a step reads `Fanout[w]` at an
  index that only the position bounds. `TypeCorrect` follows.
* `NoLeakedPermits`: `PermitsAccounted` is inductive relative to `Shape`; only
  the steps that acquire, release or commit touch permits, and the ports'
  injectivity makes the index of an edge unique.
* `CapacityInvariant`: a commit turns a permit into a packet, so it needs
  `PermitsAccounted` to know that the permit is there.
* `HonestEndOfInput`: strengthened by `PolledClosed` (each receiver counted by
  the current poll is drained and stays so, because dropped senders and taken
  packets never come back).
* `CausalRecords`: strengthened by `Recorded` (every committed or committing
  packet has its record).
* `AllOrNothing` and `OrderKept`: strengthened by `FanoutInv`: a packet not yet
  recorded is on no edge (`NotEarly`), one being committed is on exactly the
  edges already visited (`PartlyOn`), earlier ones on all or none
  (`EarlierAtomic`).
* `PortsImplementBus`: the refinement of `FanoutBus`, on top of all of these.
  `LogIs` says what `BusLog` is when at most one writer is committing to an
  edge. `RecordSend` is the broadcast: permits and `CapacityRespected` give the
  room, `NotEarly` the order. `CommitPermit` is a stutter. The poll that finds
  every receiver disconnected is `EndOfInput` by `PolledClosed`. Hypothesis
  `ExclusiveFanouts`: each edge is in the fan-out of one writer, as in the
  wiring of the engine. With clones of a `PortsOut` two commits to one edge may
  be in progress at once, and this mapping no longer fits.

### Graph (`GraphProofs`)

For every set of workflows: sequences of nodes, finite sets of edges.

* `AcceptedGraphIsWellFormed`: `Indexing` says that every edge taken from
  `todo` passed its checks.
* `KahnOrderIsTopological`: `Ordering` ties the counter to the sets: the
  indegree of a node is the number of edges into it minus the number of its
  parents in the order. It reaches zero only when all parents are ordered.
  `NoCycleIsAccepted` follows: the first ordered node of a cycle would have a
  parent behind it. Both hold with parallel edges too.
* `SimpleCycleIsReal`, `SimpleErrorMeansCycle`: `Searching` is the invariant of
  the depth-first search: the stack is a path (`StackIsPath`), the children a
  frame has passed are visited (`PassedAreVisited`), the visited nodes contain
  no cycle (`VisitedHasNoCycle`), and the roots before the current one are
  visited (`RootsPassed`). The search cannot end without a cycle: by then all
  remaining nodes are visited, and each has a parent among them. That last
  step is where the indegree must count parents, hence the hypothesis
  `SimpleGraphs` (no two edges between the same nodes). Without it the claim
  is false: that is finding 1.
* `VerdictIsDetermined`: the verdict is `Decision` of the graph: repeated nodes
  first, then the first edge with a bad end, then, where cycles are refused, a
  cycle or a second edge between two nodes. Neither the order in which ready
  nodes are taken nor the search has a say in it. `Deciding` collects what each
  phase has found out; that the order ends short only for such a graph is the
  converse of `KahnOrderIsTopological`: with no cycle and simple edges some
  remaining node would have no parent left.

### Run (`RunProofs`)

For every workflow, set-up, capacity and number of nodes.

* `NodeStepShape`: a step of a node either ends its future (`Ends`) or moves it
  on (`Moves`). With it `Accounting` is shown inductive: types, which futures
  are still there (`Futures`), what counters and records say of results
  (`Counts`), what the terminal state and first error say (`Verdict`), and
  `SummaryAccounts` itself. `SummaryIsExact` and `FailFast` follow.
* `NoWakeIsLost`: `NoMissedWake` is inductive relative to `Accounting`: every
  step that fills an edge or removes its sender wakes the futures polling it.
* `SuccessMeansDelivered`: strengthened by `Delivery`, a node that ended well
  or is past an input has exhausted it. Hypothesis `RulesReadTheirInput`: a
  rule node has one wired input. `RuleNode` declares and reads `IN_PORT` only;
  the engine does not itself refuse a second wired input of a registered rule
  node, whose packets nobody would read.

### Rules (`RuleProofs`)

For every network of rule nodes, every collection of rule sets and every
meaning of conditions (`Holds` is a constant), natively or through a guest.

* The stable sort of `RuleSet::new` places each rule by the number of rules in
  front of it (`Front`). Lemmas show that no two rules have as many, so the
  sorted sequence is a permutation.
* `EvaluatorFindsDecision`: `LoopInvariant` relates the loop's variables to the
  rules passed so far, for each strategy; at the end these are all rules, and
  what was found is the declarative `DecidedAction` and `TagsOf`.
* `EveryActionIsRecorded` and `NoPacketIsLost`: `HostOk` (what a host holds,
  has decided and has recorded, by position), `Flow` and `Packets` (where each
  packet fed so far is, why a consumed one was, and which failure accounts for a
  dropped one).
* `ViolationsAlwaysForetell`: `NamesSender` (a packet on an edge names the node
  at its start), `HeldCameAlong` (so the packet in a host's hands comes from a
  node with an edge to it, which `Visited` contains) and `UnknownIsNamed` (a host
  that failed on an undeclared port has an action that names it, which the
  contract checks as it checks the default action). The parts of a condition
  are a constant, so it holds for every condition language.

### Guest calls (`WasmProofs`)

For any number of calls, engines and tokens and every way of sharing them.

* `CouplingInvariant`: `Typed`, `Handshake` (what the positions of an
  invocation and its watcher say about each other and about the two flags),
  `EpochsCount` (an epoch that moved was moved for an interrupted call) and
  `DeadlinesNear` (a deadline is at most `EpochDeadline` ahead).
* `BumpIsNeverMissed`: strengthened by `BumpLands`, for `EpochDeadline <= 1`.
  The default is 1 (`lib.rs:41`); with more, which the limits accept, the claim
  is false (section 6).
* `VerdictFollowsWatcher`: for `EpochDeadline > 0`. With 0 a guest traps before
  anybody moves the epoch, so an epoch trap has no interrupted call behind it.
* `AllocationsDisjoint`: `HeapsSound`, the bump allocator's cursor is behind
  all blocks and inside memory. That rounding up by masking with a power of two
  is rounding up to a multiple needs an induction over the naturals, done with
  a least-number lemma (`LeastNumber`).

### Sinks (`SinkProofs`)

For any number of threads, facts, flushes and faults, every buffer size, every
policy and counter width.

* `LinesStayWhole`: `Orderly` (types, and how far the call of each thread is),
  then `Log`: the pieces of a call are contiguous, the holder of the lock has
  written the last ones, and every acknowledged call has its whole line once.
* `FlushIsDurable`: `Kept`; the file only grows.
* `SamplingIsExact`: `Counted`; the counter is the number of data facts seen
  until it saturates, and the sample is exact at every step. Control facts are
  never skipped.
* `LinesTellRecordsApart`: no two records have the same object, whatever
  identifiers, texts, counts and traces they carry. One lemma per projection
  (errors, cancellation, ports, deadlock diagnostics, rule traces, ...) reads its
  fields back; `IsRecord` says which fields each kind has. The names by which the
  code writes enumerations are told apart one by one.

### Watcher (`WatcherProofs`)

For every debounce window, capacity and bound. `QuietEventsSurvive`: `Numbered`
(events leave the channel in the order of their numbers) and `QuietWaits` (as
long as a quiet event is not judged, all before it are, and the window is over).

### Host (`HostProofs`)

For every set of sessions that `HostAssumption` allows: any files, any commands
in any order and number, any changes of files between two steps.

* `EvidenceIsKept`: `StepOfCommand` (which step each command can be at) and
  `DiskIsSound` (changes keep the shapes of files); `Evidence` then says for each
  step what the metadata file holds: what it held before the command until the
  file is opened, an incomplete file while it is being filled, the whole records
  of the run once it is. The failure in between is part of the statement.
* `OnlyValidatedIsUsed`: `Documented` says what a command holds at each step (the
  document parsed, the manifest's entries, the graph of that document). A
  command's steps of validation are those of `WorkflowGraph`, so the invariants of
  `GraphProofs` hold throughout (`GraphSound`), and past validation the graph is
  accepted.
* `IntrospectionIsSound`: the checks of contracts and capabilities return the
  first fault of several loops; lemmas turn "no fault" into the facts for every
  node, port and edge (`NodeFits`, `SchemasFit`, `CapsFit`). `LastEntryFound` and
  `NodeProjected` show that the entries introspection looks up are the ones these
  checks have seen, and that each node and edge is shown in its place. The
  contracts that
  `inspect` makes up of the document fit every accepted workflow (`MadeUp`), so
  these checks never refuse them.
* `CommandsAlwaysAgree`, `ManifestAlwaysForetellsRun`: `Informed` says what each
  step has established about the files while they have not changed (`fresh`), and
  `AnswersSound` that each answer remembered is what the files call for:
  `LoadFault` for the four commands that load a workflow, `GoodManifest` for the
  two that take a manifest. An answer is forgotten when a file changes. Since both
  are functions of the files, and the verdict of the graph a function of the graph
  (`VerdictIsDetermined`), commands agree.

### Checked by TLC only

* Liveness is out of the prover's reach: `CancelReleasesSenders`, `ReserveEnds`,
  `RunEnds`, `InvocationEnds`, `StopRequestEnds`, `CommandEnds`.
* What a recursive definition computes for every input needs an induction over
  data: `GuestAgrees` and `GlobMeansWildcards` (the evaluator, the guest's arena
  and the glob matcher of `Conditions`), and `GuestAnswersIntact` (conversions of
  lists of values, and back, as folds).

## 6. Findings

1. `GraphParallel`: two edges between the same pair of nodes make an acyclic
   workflow be rejected with `CycleDetected` (indegree counts edges, children
   are a set).
2. `RuleCancel`: a rule node asleep in `recv` is not woken by cancellation,
   unlike its documentation says.
3. `RuleDrain`: a rule node that waits to forward loses its packet on
   cancellation and reports an execution error, unlike its "drain" guarantee.
4. `Unreachable`: introspection calls a rule behind an `Always` rule unreachable
   even when that rule only tags and evaluation goes on.

Noticed while modelling, without a run of their own:

* when a node was cancelled before the watchdog fired, the terminal state stays
  `cancelled`; `docs/workflow-run-guide.md:135-136` says `failed`. The watchdog
  adds a second `workflow_failed` record after a first error;
* a packet forwarded by a rule node names that node's output port as its arrival
  port (`node.rs:322`), where `condition.rs:173` says it is the port on which
  the packet arrived; tags and hop counts start anew at each rule node although
  `EvalContext` describes them as accumulated;
* `FieldExists` is documented as present and non-null, but a present null counts;
* `rules_evaluated` is the number of rules even when `FirstMatch` stops early;
* a default action `Tag` discards packets; `validate_rule_set` is exported but
  no crate of the workspace calls it before a run; a deserialized rule set does
  not pass through `RuleSet::new`, so it may be unsorted;
* the entry points with contracts never combine with a policy, hence never with
  a watchdog or feedback loops;
* `rule_source.rs:92` promises `file://` references; without a registration they
  are `UnknownScheme`;
* `validate-manifest` always reads the workflow as JSON, and its "not readable"
  only means that the path does not exist;
* with an epoch deadline above 1, which the limits accept, one cancellation
  moves the epoch once and does not interrupt the guest; `BumpReachesGuest` is
  checked for the default of 1;
* a native node drains its ports in order and may wait for ever together with a
  batch or component node that fills them in another order; the command-line host
  sets no deadline for a run (`RunEnds`, `RunMayWait`);
* a failed write of the metadata file has already emptied it of earlier records.

## 7. Plan

Done, in this order: ports and their abstract bus; graph validation; the run;
the proofs about ports; rule nodes and conditions; the WASM host; metadata
sinks; the watcher; documents, contracts and the host; run set-up; rule
analysis; the proofs about guest calls, the watcher, sinks, the run, graph
validation and rule nodes; the refinement of the bus; that the verdict on a
graph is determined; the proofs about rule contracts, the lines of the log and
the host. With these every safety property of a run is proved, but for the three
about recursive definitions.

Worth adding if the code grows that way: cloned output ports in the refinement
of the bus, which needs a history of the broadcasts in progress; contracts
together with a policy in `RunSetup`, once an entry point combines them.

## 8. Not modelled

The test kit and the facade hold no state. Argument parsing, the layout of
reports and JSON, Arrow payloads, log events and the grammars of the document
languages are input and output. The stand-alone wrappers
`AsupersyncRuntime::run_node` are not used by the engine. Wasmtime, the channel,
the notification library and `BufWriter` are external and modelled by how the
code uses them.
