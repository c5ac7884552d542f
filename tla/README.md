# A TLA+ model of the CodeLLDB debug adapter

This directory specifies the core of the CodeLLDB debug adapter (`src/codelldb`)
in TLA+. TLC checks the modules on small instances, TLAPS proves some of their
properties for every instance. `PROJECT.json` ties every definition to the lines
it models, every run to the question it asks, and every hazard to the properties
that would notice it.

## 1. The system

CodeLLDB puts an adapter process between a DAP client (VS Code) and LLDB.

```
 client <--DAP--> dispatcher --broadcast(100)--> cancellation_filter --mpsc(100)--+
                     ^                                                            v
                     +--------- out channel mpsc(1000) <------------------- main loop (LocalSet)
                                                                            |  handle_request
 LLDB --SBListener--> poller thread --mpsc(1000)--------------------------->|  handle_debug_event
 LLDB --breakpoint callback (its own thread, blocks on the session lock)--->|  on_breakpoint_hit
                                                                            |  async response tasks
 codelldb-launch helper --TCP--> Terminal::create (10 s timeout) -----------+
```

The main loop and the tasks that handlers spawn share one `LocalSet`, so they run
one at a time. The dispatcher and the filter run on the multi-threaded runtime,
the poller is an OS thread, and LLDB calls breakpoint callbacks from threads of
its own, which wait for the session lock (`Shared::map`).

### Inventory

| Component | State | Operations | Interacts with | What is hard | What makes it correct |
|---|---|---|---|---|---|
| Dispatcher (`dap_session.rs`) | broadcast and out channels, pending reverse requests | route a message, answer a malformed frame, write a message, end | filter, main loop, client | overrun of the broadcast, a client that leaves | one answer per request, nothing lost but in the three known ways |
| Cancellation (`cancellation.rs`) | flag, receiver count, callbacks | subscribe, send, is_cancelled, add_callback, drop | filter (sender), main loop (receiver) | two threads on one record | whoever is cancelled notices |
| Filter, `handle_request` (`debug_session.rs`) | `pending_requests`, `cancellable_requests`, `current_cancellation` | pair a request with a token, cancel, forward, execute, answer now or later | dispatcher, tasks | pruning races, order of cancel and forward | a resume cancels earlier inspections, cancel finds its target, order of answers |
| Event listener (`debug_event_listener.rs`) | `corked`, `was_corked`, channel | poll, cork, uncork | LLDB, `handle_restart` | uncork between receive and lock | no event of the killed process, not too many lost |
| Life cycle (`launch.rs`, `debug_session.rs`) | target, process, `terminate_on_disconnect`, `configuration_done_sender` | launch, attach, configurationDone, restart, terminate, disconnect, shutdown | client, tasks, terminal | a client that leaves at any point, restart from launch to attach | configurationDone is last, the right processes are killed, the session ends |
| Terminal (`terminal.rs`, `codelldb-launch`) | helper connection | create, time out, drop | client, helper process | timeout against late helper | the helper is always let go |
| Breakpoints (`breakpoints.rs`, `hit_condition.rs`) | `breakpoint_infos`, four tables | five set requests, events, hits, excluded callers | LLDB, the user's console | late events, deletion during a hit, half-failed requests | tables name live breakpoints, no echo, hits stop when they should |
| Execution control (`debug_session.rs`, `step_in.rs`) | the session lock, LLDB's sync mode, the token of the request | continue, pause, step, reverse, step into a target, goto, restart, terminate | LLDB, event channel, hit callback | late and lost events, fake stops, synchronous stepping under the session lock | the client ends up with the truth, a pause takes effect, nobody keeps the lock |
| Stop state, variables (`debug_session.rs`, `variables.rs`, `step_in.rs`) | `var_refs`, `selected_frame_changed`, `last_goto_request`, `step_in_targets` | stackTrace, scopes, variables, setVariable, evaluate, stepInTargets, gotoTargets, restartFrame | client's copies, the user's console | references that outlive a stop, failed resumptions, cancelled listings | what the client holds resolves and is of this stop |
| Disassembly (`disassembly.rs`, `disassemble.rs`) | ranges by address and by handle | look up, add, line/address conversion, disassemble | LLDB memory and symbols | boundaries of readable memory, nested ranges | lookups, lines and windows agree with what they stand for |
| Data breakpoints, memory access | none in the session | set, read, write | LLDB | half-failed requests | only the frame choice is modelled |
| Python interface | sessions, event channel | evaluate, interrupt | LLDB's interpreter | foreign code | seen here as the token's callback |
| Extension (`extension/*.ts`) | edit-and-continue, performance overlay, BugStalker bridge, views | VS Code commands | adapter | timers, pending edits, injected requests | not modelled |

LLDB, tokio and VS Code are external; what the adapter relies on is written down in
the modules that use it.

## 2. Modules

| Module | Models | Uses |
|---|---|---|
| `Cancellation` | the token and its operations, as operators on a record | |
| `RequestPipeline` | dispatcher, filter, queue, `handle_request`, response tasks, out channel | `Cancellation` |
| `RequestService` | what the pipeline promises a client: each request is settled once | |
| `DebugEventListener` | poller, cork/uncork, `handle_restart` as far as it corks | |
| `SessionLifecycle` | launch/attach/restart/disconnect, terminal and helper, shutdown | |
| `Breakpoints` | breakpoint bookkeeping against LLDB's own | |
| `MCBreakpoints` | option sets and symmetry for model checking `Breakpoints` | `Breakpoints` |
| `ExecutionControl` | requests that move the debuggee, process events, what the client is told, the session lock | |
| `StopState` | what is remembered of a stop and what the client holds of it | |
| `MCStopState` | lists of variables and symmetry for model checking `StopState` | `StopState` |
| `MemoryLayout` | LLDB's view of memory: readable areas, instruction boundaries, one symbol | |
| `Disassembly` | `DisassembledRanges` and the disassemble request | `MemoryLayout` |
| `MCDisassembly` | readable areas and symbols for model checking `Disassembly` | `Disassembly` |
| `DebugEventListenerProofs`, `SessionLifecycleProofs`, `ExecutionControlProofs`, `StopStateProofs`, `BreakpointsProofs`, `DisassemblyProofs` | theorems about the module named | that module, `SequenceFacts` |
| `RequestPipelineProofs` | types, at most one response, loss, order, cancellation, and the refinement of `RequestService` | `RequestPipeline`, `SequenceFacts` |
| `SequenceFacts` | lemmas on queues (what Head, Tail and Append do to their elements), induction over numbers, and when a recursive function exists | |

Definitions named `...Twice`, `...Never`, `...AtOnce` and so on, commented *Mutant
of*, are plausible mistakes kept beside the definition they distort. No
specification uses them: each was put in place of its original once to see that a
property fails.

### RequestPipeline

A request is its sequence number; `req` says what it asks for. Only the request
classes the code tells apart are distinguished: cancellable (`variables`), cancellable
and answered by a task (`evaluate`), cancelling (`continue`), asynchronous (`launch`),
the rest (`threads`), unknown, cancel, malformed. A step ends where another
thread can observe something: at each channel operation, and between
storing a token's flag and calling its callbacks (`FilterSetFlag`,
`FilterCallbacks`), between reading the flag (`HandleRequest`) and registering the
callback (`HandleRegister`), and between that and the answer. `missed`, `dropped`
and `delivered` record what became of requests; the rest are fields and locals of
the code. tokio's channels are modelled from their use: the broadcast overwrites
its oldest message and reports `Lagged`, `send().await` waits, `try_send` fails. A
request can be lost in three ways: overwritten in the broadcast and refused by
`try_send`, both of which the code logs, or left in the out channel when the dispatcher
loop ends, of which nothing is logged. Events compete
with the responses for the out channel; `MaxEvents` bounds how many are in it at a time.
A write to the client is taken to succeed while the connection is open.

### DebugEventListener

`wait_for_event` returning and the critical section are two steps of the poller;
`cork`, `uncork` and the main loop interleave with them. `epoch` counts corks
and uncorks (odd means corked) and dates broadcasts, receptions and discards.

### SessionLifecycle

One action per handler and per point at which a task can be suspended. `launch` is the
program counter of the launch or attach task, `waiters` the receiver count of
`configuration_done_sender`. `terminate_debuggee`, `complete_launch` and
`complete_attach` are the operators `Terminated` and `Starts`, which restart and
disconnect share. Every place where `?` can leave a handler is an outcome, except
that an error after `terminate_on_disconnect` was assigned (post-run commands)
differs from success only in the answer's text. A terminate request sends a signal
or runs commands; its effect on the model is `DebuggeeExits`, which may also
happen unasked.

### Breakpoints

`origin`, `alive`, `armed` and `conditioned` are LLDB's side: who created each id, which
still exist, which have the adapter's callback and which a native condition. `table` and
`infos` are the adapter's. One file stands for `source` and one disassembled range for
`assembly`: requests for different files touch disjoint entries. `events` is the way of LLDB's
events through the listener, which may lose them (`Lossy`). The handlers of the four tables
share `SetBreakpoints`; they differ in hints (source only), in the options they pass
(`Effective`) and in whether they forget what they delete (`Forgotten`).
`HandleSetInstructionFails` and `SetNewDasmBreakpoints` are the paths that leave the
tables alone. A hit whose native condition is false does not reach the adapter, and as far
as the adapter is concerned did not happen. `init_bp_actions` gives LLDB such a condition
and never takes it back: `HitWithheld` is a hit that the last request would have had
counted, and that LLDB keeps to itself for the condition of an earlier one. A panic of the
callback ends the adapter. `passed` and `stops` in an info, and `notified`, `dropped`,
`missing` and `stray`, are history. `MaxHits = 0` switches hits off in runs that are not
about them.

### ExecutionControl

`state`, `resuming` and `halting` are LLDB's public process state and the calls it has
accepted but not yet carried out; `events` is the channel to the main loop, with the two
ways in which `DebugEventListener` loses an event (a full channel, a corked listener)
folded into `Announce`. A handler is one step unless LLDB or the debuggee can move between two of
its calls: `handle_pause` and `handle_continue` ask for the state after their
call has failed, and `step_into_target` runs the debuggee in synchronous mode, once
around its loop per `SyncArrives` and `SyncStepsOn`. The session lock is `SessionIsFree`: a
handler or a debug event enters only if nobody holds the session and no callback waits
in front of it (tokio's mutex is a queue). `view` is what the client believes. Responses
and events go out by `try_send`, so `Told` has two outcomes: the client hears the news, or
the channel is full and it does not. `missed` is history: nothing in the channel speaks
of the last change of state, or the news of it was lost on its way to the client.

### StopState

A reference is the path of keys that `HandleTree::create` was given, because a
tree made again from the same keys gives the same handles. Handlers are single steps
under the session lock; the debuggee, the user's commands and the event channel
move between them. `known` and `shown` are what the client may still use: it forgets them
when it hears that the debuggee runs or has stopped. The history variables say which of
the four excuses applies: `stale` (made at an earlier stop), `behind` (resumed without
`before_resume`, by a command or by terminate), `lateFrame` (a frame event that
outlived its stop), `unresumed` (a resumption refused after `before_resume`). `answer`
lasts for one step.

### Disassembly

The memory layout is chosen in `Init` and never changes. A range is its load
addresses and the addresses of its instructions; text is left out. `PartitionPoint` and
`FirstReadable` are the two halving searches, step for step, so that their behaviour on
lists and memory that are not monotone is the code's. A request to disassemble is
one step with one of three outcomes: a window, an error, or the panic of the slice. `EndAddr`
is the greatest address (`u64::MAX` in the code): the bytes that are read saturate there
and at 0, and the padding before the first instruction wraps (`Invalid`). `AddressByLineNum`
is `Panic` for a line that has no instruction.

## 3. Runs

| Run | Shows |
|---|---|
| `pipeline` | At most one response; nothing vanishes but in the three known ways; a receiver is dropped once; a resume has cancelled every earlier inspection by the time both wait for the main loop, and none starts afterwards; a cancel reaches its target unless that is already done; synchronous answers keep their order; `RequestService` is implemented; every request is settled but a launch that waits for its client, and a departing client brings everything else down |
| `listener` | Corked events are dropped; at most one event is lost after an uncork; the poller stops when, and only when, the session has |
| `lifecycle` | configurationDone is answered last; processes meet the right fate; the helper is released; the session ends |
| `breakpoints_books` | For any client: tables name live breakpoints, and every live breakpoint a request made, but those it lost at once; once a breakpoint's events are handled it is tracked exactly if LLDB has it; no echo of the client's own requests; every armed breakpoint is tracked |
| `breakpoints_hits` | The number of stops is the number the hit condition selects among the counted hits, and all that pass are counted but for a native condition left over from an earlier request |
| `execution` | Once nothing is under way the client's picture of the debuggee is true, unless the last change was never announced or the news was lost; no end is announced for a live process; a pause shows an effect; a callback gets the session unless a synchronous step keeps it |
| `stopstate` | What the client holds resolves to what it was told; nothing of an earlier stop resolves; a list of locals has each name once, the innermost; expressions are evaluated where the client or the user asked |
| `disassembly` | A lookup finds a range that contains the address; a line leads back to its instruction, in this session and in the next, and the header lines are told apart; a window is exactly what was asked for; a request fails only for a cause |

Four runs show that what an assertion or a comment says does not hold of the code:

| Run | Statement | Counterexample |
|---|---|---|
| `breakpoints_unwrap` | the breakpoint hit is tracked (`unwrap`) | a set request deletes it while the callback waits for the lock |
| `breakpoints_modzero` | a hit condition that is no good is reported as invalid and dropped | `%0` is accepted; the first hit divides by zero in the callback |
| `disassemble_padding` | out-of-range indices are padded with invalid memory | readable memory ends inside the window; the slice panics before the padding |
| `disassemble_before` | the bytes decoded are enough to have the base among them | a window wholly before the base: the bytes end at the base and the request fails, although the memory is readable |

### Observations

Behaviour that the models show and the properties name as an exception, so that a
reader of the code is not surprised:

- A cancel whose `send()` runs between `is_cancelled()` and `add_callback()` never
  calls the Python interrupt (`HandleRequest`, `HandleRegister` in `RequestPipeline`).
- Events that are still in the SBListener at `uncork()` are forwarded, although the
  comment on `cork()` says that events between the two calls are dropped. What it costs is
  in `ExecutionControl`: `HandleRestart` lets the Exited event of the killed process
  survive, and `NoFalseEnd` holds only because `notify_process_terminated` asks for the
  state of the process as it is now.
- The client leaves before configurationDone: the launch task waits for ever on a sender
  that it keeps alive, against the comment at `debug_session.rs:242` (`SessionEnds`).
- Function, instruction and disassembly breakpoints that the client drops stay in
  `breakpoint_infos` and come back as removed events (`QuietRemoval` names the kinds).
- A disconnect handled while `Terminal::create` waits is followed by the launch task
  taking hold of the helper, which is released only with the session (`HelperIsReleased`).
- A request that names an address twice, or fails at a later reference, or brings the lines of
  an earlier session, leaves breakpoints in LLDB that no table knows. `stray` names them, and
  `NoOrphans` shows that nothing else is ever lost.
- A breakpoint that is set again without its native condition keeps it in LLDB
  (`breakpoints.rs:604` is the only call): hits go on being withheld (`Stale` in
  `StopsMatchCondition`).
- A breakpoint or a goto on a header line of a disassembly, or behind its last line, panics at
  `disassembly.rs:153` (the callers are `breakpoints.rs:213` and `debug_session.rs:996`), while
  the lines saved with a breakpoint give the start of the range for the header (`LinesAgree`).
- Padding before address 0 is numbered down from `u64::MAX`, so the addresses of a window
  do not always increase (`WindowIsExact`).
- Responses still in the out channel when the client goes away are discarded without a log
  (`dap_session.rs:113-121`); the other two losses are logged.
- A restart whose `terminate_debuggee` fails leaves the listener corked. The client then
  hears of no stop until it asks: pause and continue repair its picture.
- `step_into_target` waits for the debuggee while it holds the session. If a
  breakpoint with a callback is hit meanwhile the two wait for each other; this
  is `Blocked`, the one exception in `CallbackIsServed`. No comment, test or assertion of
  the repository promises otherwise, so it has no run of its own.
- A notification may be lost in a full channel to the client, and nothing sends it again. The
  client's picture is then wrong until the next change or the next pause or continue.
- `handle_step_out`, `handle_step_back`, `handle_reverse_continue` and `handle_continue`
  reset the state of the stop before they know whether anything will be resumed.
- terminate, and commands of the user, resume without `before_resume`: the references of the
  last stop go on resolving at the next one.

### Bounds

- Pipeline: 3 requests of the kinds evaluate, continue, launch, unknown, cancel and malformed,
  a queue of 2, a broadcast and an out channel of 1, one event in the out channel at a
  time. Three let a cancel or a resume meet an earlier inspection and a later
  request; every channel is seen empty and full, and the broadcast and the out channel
  overflow. `variables` takes the path of `evaluate` through the filter and of `unknown` through
  the main loop, `threads` that of `unknown`; the theorems have all kinds.
- Listener: 3 events, 2 restarts, capacity 1: one event before, one during and one after
  a corked period, a second period, and a full channel with events still to come.
- Life cycle: 2 restarts reach every pair launch/attach after launch/attach; otherwise finite.
- Breakpoints: 3 ids with 2 keys let a breakpoint be created, dropped and created
  again beside another of a second kind; 2 or 3 events in flight let an added and a
  removed event be overtaken by a request. 4 hits cover both sides of each
  operator with operand 2. Each kind of table is in a run: source, instruction and
  exception in `breakpoints_books`, assembly, function and exception in `breakpoints_hits`,
  which also loses events; the theorems of section 4 have all of them at once. `MaxIds`, `MaxEvents`, `MaxReq` and `MaxHits` bound the
  environment, not the handlers.
- Execution: a channel of 3, 2 stops, 2 restarts. A stale event of a killed process, a
  running and a stopped event fit at once and the channel still overflows; the second
  restart meets what the first one left behind.
- Stop state: one frame, three locals of which two share a name, one structured and
  synthetic value with a member, two functions, two step-in targets, a channel of 2. Paths
  reach the depth at which the code stops telling levels apart (frame, scope, value, raw
  child). The statics, globals and registers scopes are listed as empty: they take the same path as
  locals, without the removal of duplicates.
- Disassembly: 5 addresses, instructions of up to 2 bytes (16 in the code), every
  assignment of sizes, four readable areas (with no edge, one, or two inside a request), a
  symbol or none, 2 instructions where there is no symbol (32 in the code), 3 ranges, offsets
  -2 .. 2 and counts 0 .. 3. A window can begin and end inside, at and beyond each edge.

Symmetry is used where values are only compared: functions in `stopstate`, keys in
`breakpoints_books`. Neither run checks liveness. Sequence numbers and ids are
ordered, and the other runs use none.

### Fairness

Weak fairness of each task and thread only: tokio polls ready tasks, its
`select!` in the dispatcher is unbiased, the poller's wait is bounded by a
second, `Terminal::create` by its timer. In `RequestPipeline` the response task of an evaluate
is taken to end, since its future is ready when it is spawned; nothing is assumed of the
task of a launch, which waits for the client's configurationDone (`WaitsForClient`).
`SessionLifecycle` looks at the two tasks that may never end (`SessionEnds` names the
exception). The client is never obliged to send,
answer or leave, and LLDB is never obliged to report. `kill()` and `detach()` return.

In `ExecutionControl` LLDB carries out what it has accepted: a resumption (weakly fair) and
a stop (strongly fair, since the debuggee may run into callbacks meanwhile).
A handler that was begun goes on, the mutex serves the callback in its turn, and
`HandleProcessEvent` is strongly fair: requests may take the session between any two
events, and `select!` polls its branches in random order. The debuggee is
never obliged to stop by itself, and a synchronous step is not obliged to end.

## 4. Proofs

All theorems hold for all values of the constants under the named assumptions
`ListenerAssumption`, `LifecycleAssumption`, `ExecutionAssumption`,
`PipelineAssumption`, `StopStateAssumption`, `BreakpointsAssumption`, `LayoutAssumption`
and `DisassemblyAssumption` (the bounds are natural numbers, capacities and instruction
sizes are positive, kinds and options are known, readable areas and symbols lie in
memory). Every invariant and every action property of the passing runs is a theorem.

| Module | Theorems | Inductive invariant |
|---|---|---|
| `DebugEventListenerProofs` | `TypeCorrect`, `CorkedEventsAreDropped`, `OneDiscardAfterUncork` | `IInv` |
| `SessionLifecycleProofs` | `TypeCorrect`, `ConfigurationDoneIsLast`, `DebuggeeMeetsItsFate` | `IInv` |
| `ExecutionControlProofs` | `TypeCorrect`, `NewsConverges`, `NoEndOfTheLiving` | `NewsIsTrue` with `StepHoldsStill` |
| `RequestPipelineProofs` | `TypeCorrect`, `NoDoubleResponse`, `NothingVanishes`, `PipelineImplementsService`, `ResponsesInOrder`, `ResumeCancels`, `CancelsReachTheirTarget`, `NoInspectionAfterResume` | `TypeInv`, `PlaceInv`, `SettleInv`, `LineInv`, `TokenInv`, `CountInv`, `CancelInv` |
| `StopStateProofs` | `TypeCorrect`, `ReferencesResolve`, `NothingStale`, `EvaluationIsWhereAsked`, `ListingsAreExact` | `StopInv` |
| `BreakpointsProofs` | `TypeCorrect`, `TablesAreAlive`, `CallbacksAreTracked`, `BooksTrackLLDB`, `OnlyConsoleIsNew`, `RemovalIsQuiet`, `NothingIsOrphaned`, `ConditionsDecideStops` | `BookInv`, `CountInv` |
| `DisassemblyProofs` | `TablesAgree`, `LookupIsRight`, `LinesLeadBack`, `WindowsAreExact`, `FailuresHaveCause` | `BookInv`, `AnswerOK` |

- `DebugEventListenerProofs`: `TypeCorrect`, `CorkedEventsAreDropped`,
  `OneDiscardAfterUncork`. Neither safety property is inductive alone. `IInv` adds
  `ListenerIsFresh` (what is still in the listener has not been forwarded, and
  no event is in two places), `CorkIsSticky` (corked implies was_corked, and the epoch is
  odd exactly when corked), `TakenWhileCorked` (an event in hand that was received while
  corked finds was_corked set, because only the poller clears it) and
  `DiscardRefreshes` (a discard in an uncorked epoch has cleared was_corked).
- `ExecutionControlProofs`: `TypeCorrect`, `NewsConverges` (`ClientConverges`) and
  `NoEndOfTheLiving` (`NoFalseEnd`). `ClientConverges` speaks of an empty channel and is not
  inductive. `NewsIsTrue` is: if the last change was announced and no resumption is
  under way, then the last event in the channel that will have an effect (an exit has
  one only if the process is dead now) tells the truth, and if there is none the client
  knows it already. A notification that is lost leaves `missed` behind (`LostIsMissed`). `StepHoldsStill` adds that the debuggee does not run, nor is
  about to, while a synchronous step holds the session.
- `SessionLifecycleProofs`: `TypeCorrect`, `ConfigurationDoneIsLast`,
  `DebuggeeMeetsItsFate`. `IInv` adds `WaitersCountTheLaunch` (the receiver count is one
  exactly while the launch is pending), `NothingBeforeLaunch` (configurationDone
  polls only after launch was called, so the count cannot rise again) and `FlagFollowsStart`
  (a live, completely started process has the flag of its own start).
- `RequestPipelineProofs`: `TypeInv` adds to the types that a filter or main loop in a
  working state has a request in hand (`WorkInHand`); without it tokens would be indexed
  outside their domain. `TypeCorrect` also has the receiver counts, which need `TokenInv`
  below and `CountInv` (no count exceeds one): every drop finds the one receiver, so the
  count does not wrap.
  `NoDoubleResponse` (the client gets at most one response per request), from `PlaceInv`:
  `OnePlace` orders the places on the way to the client (broadcast, filter, queue, main
  loop, tasks, out channel, client) and says that a request at one is at none of the
  later ones, `OnlyOnce` that no queue holds it twice, `AllSent` that the next sequence
  number is nowhere yet, and `IdleHands` that a task between two requests holds none.
- The rest of `RequestPipelineProofs` first says what every action does to the places (the operators
  `MoveSend` to `MoveNone`), so that the later proofs go by movement and not by action.
  `SettleInv` adds to `PlaceInv` that what was lost is nowhere else and that every
  request but a cancel is somewhere (`Accounted`); `NothingVanishes` and the step
  simulation of `RequestService` follow from it. `LineInv` says that what was sent earlier is
  further on its way, in each queue and between the places, except for
  requests left to tasks; `ResponsesInOrder` reads it off at the client. `TokenInv` says
  that a request the filter or main loop holds has exactly one receiver, which is why
  pruning by `receiver_count` keeps it. `CancelInv` adds `FilterKnows` (whatever still
  waits is in the filter's collections, or has been taken out to be flagged),
  `FilterCancels` (what the request in hand cancels is flagged or about to be) and
  `CancelsInLine`. `NoInspectionAfterResume` is an action property: the flag is read in
  the step that takes the request from the queue.
- `StopStateProofs`: `StopInv` adds to the properties `ResumedClean` (while the debuggee runs
  at the client's request nothing resolves but values made without a frame, there is no
  step-in target, and a selection mark comes from a late event) and `StaleClean` (the
  same of what survives into the next stop). `StateIsOfThisStop` alone speaks of stops
  only and says nothing of the time in which a stale reference would be made.
  `ListingsAreExact` is about the loop of `convert_scope_values`: `Listing` is its loop
  invariant (after k variables the list has each of their names once, in the order in
  which the names were first seen, with the last variable of each). `ListingAppends` and `ListingReplaces` are
  the two ways round the loop.
- `BreakpointsProofs`: a set request is summarised by the sets of ids it places, creates,
  deletes and forgets (`Placed`, `Requested`), from which `RequestKeepsBooks`
  follows for the five requests together; `TouchKeepsBooks` does hits and exclusions, `NewsKeepsBooks`
  the events. `BookInv` adds to the properties `OwnKind` (a table names breakpoints
  made for it), `OwnTracked` (what the session made is tracked while LLDB has it),
  `RemovedAreDead` and `DroppedAreDead` (a removal that is under way, was announced, or was asked for,
  is of a dead breakpoint, since ids are not reused) and `NewsIsComing` (what the tables of the
  session do not know yet is on its way in an event). `CountInv` ties the stops to the hit
  condition and the counted hits to those that pass; `SelectedGrows` shows for each operator, `%` included, that the closed form
  grows by one exactly at a hit that satisfies the condition.
- `DisassemblyProofs`: `BookInv` says that `by_address` names every range once, in the order
  of the start addresses, that every range is what is decoded around some address, and
  that what `from_address` answered is the latest range that starts before the address,
  or a single instruction without symbol. `PartitionPointIs` shows that the halving search
  counts the elements below the limit of a sorted list; `AddedIsOK` shows that inserting there keeps the
  list sorted, and `LookupIsRight` follows. `SavedLineIs` adds up the instruction
  sizes that `adapter_data` saves, for `LinesLeadBack`. For the disassemble request, `AnswerOK` is the memory layout with the two
  properties of the answer. `FirstReadableIs` and `ReadMemoryIs` say where a partial read
  begins and ends. `Tiles` says that decoded instructions follow each other without a
  gap, from which `EnoughInstructions` shows that the base has enough of them after it, and
  `SomeStartHits` that one of the `max_instruction_bytes` attempts meets the base;
  `WindowFits` and `HandledIs` put the window together; `CountingWraps` says that counting modulo
  the size of the address space goes up by one or from the end to 0.

Each theorem has the usual shape: the initial states satisfy the invariant, one step
per action preserves it, PTL concludes. `SequenceFacts` has the lemmas on queues that
all of them share, and what the proofs about loops and searches need. Induction is stated
there as a fact about sets, not about predicates, so that every prover can instantiate
it: `LeastExists` (a non-empty set of numbers has a least element) and `Induction`.
`RecursionExists` says that a function defined by recursion exists if every call lowers a
bounded measure (the width of what a search has left, the length of a list); with it, a
recursive definition in the model may be unfolded.

Only model-checked:

- all liveness, since the prover has no reasoning about fairness here: `EveryRequestSettles`,
  `ShutdownCompletes`, `PollerTerminates`, `ListenerDrains`, `HelperIsReleased`,
  `SessionEnds`, `PauseTakesEffect`, `CallbackIsServed`.

## 5. Not modelled

- Text: formatting of messages, expressions, launch configuration; wrappers and generated
  types; process start-up and stdio.
- The write side of a connection failing while the read side lives.
- The Windows console calls and the second attempt with `.exe`.
- `source.path` without a file name in File mode (an error before anything is created).
- `handle_set_data_breakpoints`, `handle_read_memory`, `handle_write_memory`, the module and
  symbol listings, completions and `handle_source`: they pass data between the client and
  LLDB and keep nothing in the session.
- Summaries, formats and evaluate names of variables, and the expression parsers: text,
  served by unit tests.
- How the callees of a statement are read off its instructions (`call_target_function`,
  `instruction_target_address`): the model takes any list of distinct functions.
- The return value shown above the locals, console commands run by `evaluate` (their
  effects are `ConsoleResumes`, `FrameSelected`, `ConsoleCreate` and `ConsoleDelete`).
- The wrapping of the base address when the client passes a byte `offset`: the model starts from
  the base that results.
- The reverse request startDebugging of a Python script, and the table of reverse requests under way.
- The extension (TypeScript).

## 6. Plan

In this order, the most important behaviour first:

1. done: `Cancellation`, `RequestPipeline`, `RequestService`, `DebugEventListener`,
   `SessionLifecycle`, `Breakpoints`, and the first theorems;
2. done: `ExecutionControl`, `StopState`, `Disassembly` with `MemoryLayout`, and the
   theorem that the client's picture converges;
3. done: theorems for every safety property of the pipeline, the stop state and the
   breakpoints, and the refinement of `RequestService`;
4. done: theorems about the loops and searches, `ListingIsExact` and the four properties of
   `Disassembly`; with them every safety property that a run checks is proved;
5. next: shorten the longest proofs (`DisassemblyProofs`, `RequestPipelineProofs`) by sharing
   more of their lemmas; the liveness properties stay with the model checker.
