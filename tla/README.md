# A formal model of hsim

`NPEX-artifact/hsim` is a SystemC/TLM simulator of speculative LLM decoding on a
heterogeneous machine: a target model runs on an NPU while the draft model runs on a
processing-in-memory (PIM) device, and the two share an interconnect and, depending
on the configuration, one memory. Memory timing comes from a copy of DRAMsim3 that
the authors extended with a bridge (`NPEX-artifact/DRAMsim3`), or from an analytical
model ("fast-layer mode").

This directory holds TLA+ modules for the parts of the program that decide anything,
TLC configurations that check them on small instances, and TLAPS proofs about the PIM
wrapper (with and without its clocks and its reports to the metrics), the DRAM wrapper,
the draft command stream, the payload pool, the DRAMsim3 channel and the composition of
them all. `PROJECT.json` lists the runs, the mutants (a plausible bug for every checked
property, each of which makes that property fail), the source lines every definition
translates, the hazards and the theorems. Source paths below are relative to
`NPEX-artifact/`.

Contents: 1 Inventory, 2 Plan, 3 Modules and code, 4 Runs, 5 Bounds, 6 Fairness,
7 Proofs, 8 Only model-checked, 9 Findings and observations, 10 Not modelled,
11 How to run.

## 1. Inventory

### 1.1 Components

| Component | Source (`hsim/` unless said otherwise) | State | Operations |
|---|---|---|---|
| Host | `components/host.cpp` | trace position, `pending_q`, `active_host`, the and-list barrier | trace loop, launch of an episode, barrier, one transaction per clock edge, termination |
| Draft command stream | `components/host.cpp:110-348` | running index, total | counting loops, emission loops, the `last` mark |
| NPU trace replayer | `components/npu_trace_replayer.cpp` | start arguments, `pending_responses`, position in the trace | start, issue of a tensor or of bursts, window, compute phase, drain, done |
| Arbiter | `components/arbiter.cpp` | forward and backward queue | route by destination (forward) and by source (backward), one per clock edge |
| PIM wrapper | `components/pim_wrapper.cpp` | `pending_queue`, `pim_mode`, busy flags and counts, two analytical and two completion queues | arrival, dispatch, mode change, completion, retirement, sleep |
| DRAM wrapper | `components/mem_wrapper.cpp` | queues in both directions, `m_outstanding` | arrival, dispatch, completion, response, sleep, end |
| DRAMsim3 bridge and channel | `DRAMsim3/src/bridge.cc`, `controller.cc`, `command_queue.cc`, `bankstate.cc`, `channel_state.cc`, `refresh.cc` | bridge queues, transaction queues, command queues, open rows, refresh queue | accept, merge, forward, schedule, drain, issue, refresh, return |
| Payload pool | `utilities/mm.cpp` | doubly linked cells, free cursor, empty cursor | allocate, free |
| Control trace loader | `components/trace_generator.cpp` | records, samples, selection | check, default, cut, exclude prefill, check continuity, select |
| Top-level wiring | `components/Top.h`, `sc_main.cpp` | `active_host`, `active_core`, `active_dram`, the two trace-done events | elaboration, clocks |
| Performance metrics | `utilities/performance_metrics.cpp` | requests by payload pointer, intervals, episodes | start, complete, union, intersection, percentile |
| Analytical DRAM model | `components/dram_macro_model.cpp` | calibration table | calibrate, estimate |
| Logger | `utilities/logger.cpp` | first start and last end of every layer | start, end |
| Configuration loader, `SyncObject`, tools, scripts | `utilities/`, `tools/`, `../scripts/` | settings | see section 10 |

### 1.2 How they interact

* **Transactions.** Components call `nb_transport_fw` and `nb_transport_bw` on each
  other's sockets. The callee only puts the payload into a payload event queue
  (peq); its callback runs one delta cycle later and moves the payload into the
  component's own queue. A send and its arrival are therefore two steps, with other
  processes between them.
* **Clock edges.** Host, Arbiter and the wrappers move one transaction per rising or
  falling edge in an `SC_METHOD`, while an `SC_THREAD` of the same component works on
  the same queues.
* **Events.** `sc_event::notify(SC_ZERO_TIME)` wakes whoever waits *at that moment*; a
  notification nobody waits for is lost. `wait(a & b)` of the Host and
  `wait(response_event)` of the NPU depend on this.
* **Shared flags.** `active_host`, `active_core` and `active_dram` are plain integers
  that other components read to decide when to end.
* **Callbacks.** DRAMsim3 reports a finished access through a callback that carries an
  address and nothing else; the bridge finds the request by that address.

An episode: the Host sends a start request to the NPU and the draft's PIM commands to
the Arbiter, then waits for both sides. The NPU replays its trace, which sends memory
requests through the Arbiter to the DRAM (*partitioned*) or to the PIM device
(*unified*). In the unified structure the device switches between a compute and a
memory mode and serves one class at a time. When the last PIM command retires and the
NPU has drained, the Host passes its barrier and starts the next episode.

### 1.3 What is hard here

* interleavings of a thread with the clocked methods and the peq callbacks of its own
  component;
* state that is read before a `wait` and used after it (the mode change, the window
  test, the sleep until the next completion);
* events without memory as the only synchronisation;
* DRAMsim3 returning requests in any order, found again by address only;
* two loop nests that must agree on a count that alone ends an episode;
* unsigned arithmetic at its edges (busy counts, time differences, tile counts);
* threads that end on flags set elsewhere.

The list with the line where each one bites is `hazards` in `PROJECT.json`.

### 1.4 What makes each component correct

| Component | Correct means | Definitions |
|---|---|---|
| PIM wrapper | counters count what is in flight; one class at a time across the mode change; no lost wakeup, no sleep into the past; commands retire in order; everything retires | `BusyCountExact`, `ModeExclusive`, `NoLostWakeup`, `SleepEndsInFuture`, `ComputeRetiresInOrder`, `EveryRequestRetires` |
| DRAM wrapper | the count that ends the thread is exact, no arrival is slept over, it serves everything and ends | `OutstandingExact`, `NoSleepOverRequest`, `ServedThenStops` |
| NPU | requests conserved, window kept, no event lost | `PendingExact`, `WindowBounded`, `NoEventLost` |
| Host, Top | episodes run one after the other, nothing left at the end, the run ends | `ImplementsPipeline`, `EndsDrained`, `SimulationStops` |
| Draft stream | exactly the last command is marked; a macro keeps the latency of what it replaces | `LastMarksTheEnd`, `MacroKeepsLatency` |
| Control trace | samples are requests and lose no record, names distinct, normalised records consistent, selection exact | `SamplesAreRequests`, `EpisodeNamesDistinct`, `ReplayIsConsistent`, `SelectionExact` |
| Payload pool | no payload handed out twice, none leaks, growth only when all are held | `EveryPayloadAccounted`, `GrowsOnlyWhenAllHeld` |
| DRAM channel | no lookup fails, none forgotten, hazard order kept, refresh not put off, everything answered, each request at most once | `NeverExits`, `NoneForgotten`, `WritesFollowReads`, `RefreshNotPostponed`, `AnsweredUnlessJammed`, `ImplementsPort` |
| PIM wrapper, in time | services of an exclusive device do not overlap, in the report and in the timeline, and the waits in the timeline do not either; stalls are part of the waits; no completion is slept over | `ServiceExclusive`, `StallWithinWait`, `PromptCompletion` |
| Metrics, analytical model | the books follow the device although payloads are used again, sizes survive their two fields; busy times and overlaps are the measure of what they cover; the parts of the episodes add up | `BooksExact`, `UnionIsMeasure`, `OverlapIsMeasure`, `EpisodesAddUp` |

## 2. Plan

Done, in this order:

1. `PimWrapper`, the part with the most interleavings, closed by `PimClient`; proofs.
2. `MemWrapper`, closed by `MemClient`.
3. `Host`, `NpuReplayer`, `Arbiter`; their composition with the wrappers in
   `SpecDecode`; the abstract specification `Pipeline` and the refinement.
4. `MemPool` with proofs, `DraftStream`, `ControlTrace`.
5. `DramChannel`, the memory behind the wrappers, and its abstract specification
   `MemoryPort`.
6. `PerformanceMetrics`, `DramMacroModel` and `Logger`; `PimTimed`, the PIM wrapper with
   its clocks and all that it reports to them; `MetricsReport`, the sums of the report.

7. Proofs: the two wrappers and the pool, the DRAM channel and its refinement of
   `MemoryPort`, promptness of `PimTimed`, then the composition: conservation of the
   NPU's requests, events, the end, and the refinement of `Pipeline`; the books, the
   services and the stalls of `PimTimed`; the loops of `DraftStream`, whose theorem is
   the assumption of `SpecDecode` about the draft.

To do, in this order:

1. *Proofs about the remaining loops*: `SelectionExact` of `ControlTrace`, and the sums
   of `MetricsReport` against the nanoseconds they stand for.
2. *Configuration*: the combinations of switches the loader accepts, against those the
   components work with (one of them is the run `spec_mixed_modes`).

## 3. Modules and code

| Module | Models | Used by |
|---|---|---|
| `Subsequences` | `Only(s, S)`, the entries of a sequence that belong to a set | the wrappers, `DramChannel`, `SpecDecode` |
| `PimWrapper` | `pim_wrapper.cpp`, both structures and timing modes | `PimClient`, `SpecDecode` |
| `PimClient` | initiators and interconnect around it, in any order | `MCPimClient`, `PimWrapper_proofs` |
| `MemWrapper`, `MemClient` | `mem_wrapper.cpp` and its environment | `SpecDecode`, `MCMemClient`, `MemWrapper_proofs` |
| `Host`, `NpuReplayer`, `Arbiter` | the components of the same name | `SpecDecode` |
| `SpecDecode` | `Top.h`: all of the above, wired | `MCSpecDecode`, `SpecDecode_proofs` |
| `Pipeline` | abstract: what an episode is | `SpecDecode` (`PL`) |
| `DraftStream` | the draft half of `handle_speculative_trace` | `MCDraftStream`, `DraftStream_proofs` |
| `ControlTrace` | `load_speculative_control_trace` | `MCControlTrace` |
| `MemPool` | `mm::allocate`, `mm::free` | `MCMemPool`, `MemPool_proofs` |
| `DramChannel` | one DRAMsim3 channel behind the bridge | `MCDramChannel`, `DramChannel_proofs` |
| `MemoryPort` | abstract: what a wrapper expects of the bridge | `DramChannel` (`Port`) |
| `PerformanceMetrics` | `performance_metrics.cpp`, a record and its methods | `PimTimed`, `MetricsReport` |
| `DramMacroModel` | `dram_macro_model.cpp`: `macro_bytes`, `estimate_ns` | `PimTimed` |
| `Logger` | `logger.cpp`: `update_start_at`, `update_end_at` | `PimTimed` |
| `Maps` | the map operations both use: emplace and erase | `PerformanceMetrics`, `Logger`, `PimTimed` |
| `PimTimed` | `PimClient` with simulated time, fast-layer mode | `MCPimTimed`, `PimTimed_proofs` |
| `MetricsReport` | the callers of the metrics in a detailed run, and `write_json` | `MCMetricsReport` |

The modules ending in `_proofs` hold theorems and nothing that a run uses; section 7
says what is in each. `SpecDecode_proofs` instantiates `PimWrapper_proofs` and
`MemWrapper_proofs` with the variables of the composition.

Conventions. Variables and actions keep the source's names (`pending_queue`,
`nb_transport_fw`, `clock_posedge`); an action is everything a process does between
two waits, except where the process itself lets DRAMsim3 act in between. A definition
whose name ends in a suffix such as `Release_Early` is a mutant of the definition that
follows it and is used by no specification.

**The SystemC kernel.** One process runs at a time, up to its next `wait`; delta
notifications are delivered before time advances. Components state the first with
`Yielded` (nothing else happens while a thread is inside an iteration) and the second
with `DeltaPending`: clock edges and the end of timed waits need `Quiet`, the absence
of any pending delta notification in the whole machine. Which of several runnable
processes runs first is not defined by SystemC and is a free choice.

**Time** is abstract everywhere but in `PimTimed` and `MetricsReport`. A completion time is reached when `Elapse` fires, in the order
of the analytical queue; `due` counts the entries reached. Durations are arbitrary, so
the results hold for every latency table.

**`PimTimed`** puts the numbers back, for what is about them. `now` counts half
nanoseconds (a PIM command takes a whole number of nanoseconds and a half); it advances
when no process can run and never past the end of the thread's wait. The clock rises at
the multiples of its period and falls half-way; at an edge the arbiter acts before the
wrapper's method does, an order that cannot be observed: what the one sends reaches the
other through its peq, after the edge. Every action is
an action of `PimClient` in conjunction with what it does to the completion times, the
metrics and the log, so each behaviour of `PimTimed` is one of `PimClient`, and what is
proved of that holds here. A payload goes back to its pool when its owner
releases it, and the next request may have it: the metrics and `contention_wait_start`
know a request by its payload only. The PIM log holds two kinds of rows: one per layer,
from its first start to its last end, and one per wait for the other class, which
`finish_contention_wait` names by the class and the number of that class's waits so far
(`ContentionRow`, `wait_count`). A wait lies over the service it waits for, so the bars
of the two kinds overlap on purpose.

**PIM wrapper.** One iteration of `simulate_unified_pim` or `simulate_partitioned_pim`
is `Collect` (finished analytical entries and one bridge completion), then one of
`Idle`, `Block`, `Dispatch` and `BeginModeTransition`, then the bridge's tick
(`BridgeCallBack`, `BridgeComputeDone`) and `EndIteration`, which goes on at the next
period or to sleep. `BeginModeTransition` ends at the `wait` of
`process_mode_transition`; the request is then in `switching`, in no queue and counted
by no flag, until `EndModeTransition`. `clock_posedge` and `clock_negedge` retire one
compute and one memory completion, answer the initiator and lower the counts. In the
bridge, memory requests finish in any order and PIM commands in theirs.

**DRAM wrapper.** As above without modes: `Iterate` takes a request, hands it to the
bridge or the analytical queue and collects; `m_outstanding` goes up when the thread
takes a request and down when its response leaves (a host write: when it finishes),
and the thread ends only at zero.

**Composition.** `SpecDecode` instantiates each component with its own variables and
joins calls: an Arbiter edge and the `nb_transport_fw` of the wrapper it calls are one
step, as in the code. Byte counts are cast to `uint32_t` where the replayer does so (the
weight and the writes of a layer, `burst_size`) and wrap at `Word`. The Host's commands are given by `Controls`; what the Host
really builds from a control record is the subject of `DraftStream`, whose
`LastMarksTheEnd` (a theorem, 7.8) is the property of the draft that `Controls` assumes.

**Pipeline.** The abstract state is the round, a status for each side and whether the
simulation is over. The refinement mapping derives the status of a side from *where
work is* (queues, payload event queues, thread positions), not from the code's
events, so the refinement says that the events tell the truth about the work.

**Draft stream.** The counting loops are `TotalTransactions` and `TotalBursts`, the
emission loops the actions `EmitOperation` and `EmitTemplate`, one per innermost body.
`unsigned` products wrap at `Word`. Latencies are exact rationals where the code uses
doubles.

**Control trace.** One action per line read, per sample normalised, per pair compared
and per record selected; `thrown` stands for every `runtime_error`. A v2 record must
have all its required fields (`Required`, those of them that the model reads), and an entry of zero in `draft_fan_out_list` is refused in every
record that has the list. The shape of the draft's cache is checked with
`draft_kv_cache_tokens`; what is replayed is `draft_precompute_kv_cache_tokens` where a
record has it (section 9).

**DRAM channel.** A tick is the sequence of phases of `Controller::ClockTick` and
`Bridge::ClockTick`. The timing tables decide only *when* a command is ready: a
command that the state of its bank allows may be ready or not in any tick, which
also covers the position of the round-robin scan. `MemoryPort` is what the wrappers take
for granted, a set of requests inside from which a callback takes some; the refinement
mapping takes the requests inside from the contents of the queues.

**Metrics.** `PerformanceMetrics` is a passive object and its methods are operators on a
record. `MetricsReport` is its environment in a detailed run: memory requests of the
NPU's layer, several at a time and each on its channel, PIM commands, of which several may
be queued in the bridge, each beginning when the one before it is done, and whose completion is
reported late with its exact time, layers and episodes. The reference for every reported
sum is the set of nanoseconds it stands for.

## 4. Runs

| Run | Configuration | Distinct states | Shows |
|---|---|---|---|
| `pim_unified_fast` | `MCPimUnifiedFast` | 25,617 | two draft macros, a tensor read and a tensor write in every arrival order: exact counters, one class at a time, no lost wakeup of the sleeping thread, no sleep into the past, PIM commands retired in order, all retired |
| `mem_fast` | `MCMemFast` | 3,286 | arrivals against the sleeping DRAM thread: exact count, no arrival slept over, all served and the thread ends |
| `spec_unified_fast` | `MCSpecUnifiedFast` | 7,727 | two episodes, two layers collapsed into one: `pending_responses` is exact, the end |
| `spec_unified_detailed` | `MCSpecUnifiedDetailed` | 16,400 | bursts beyond the window compete with PIM commands: no notification lost, the pipeline, the end |
| `spec_partitioned_detailed` | `MCSpecPartitionedDetailed` | 96,729 | bursts in both directions answered in any order: the window, the pipeline, the end, nothing left anywhere when it comes |
| `spec_mixed_modes` | `MCSpecMixed` | (violation) | see section 9 |
| `mem_pool` | `MCMemPool` | 1,205 | every order of allocate and release of up to four payloads |
| `draft_stream` | `MCDraftStream` | 11,718 | trees, chains and empty drafts in every granularity, a tile count that wraps to zero, a command without bursts, a missing template |
| `trace` | `MCControlTrace` | 280,363 | every SSD trace (ids, no ids, mixed) and every PEARL v2 trace of up to four records, some without a required field or with a precomputed cache of another length, with every selection setting in the set; the selection loops against a set-builder reference |
| `dram_channel` | `MCDramChannel` | 223,717 | five reads and writes that meet in addresses, rows and queues, with a refresh at any time; each answered once, and the channel implements `MemoryPort` |
| `pim_timed` | `MCPimTimed` | 703,730 | two draft macros and three tensor transfers that use one payload, on every pattern of clock edges: the metrics' books, services and timeline bars of layers and of waits that do not overlap, stalls within waits, completions on time |
| `metrics_report` | `MCMetricsReport` | 837,550 | two episodes of memory requests, PIM commands and layers in every timing: each sum of the report against the nanoseconds it stands for |

Deadlock is checked in `mem_pool` and `dram_channel`, which never stop. The others
model programs that end: the simulation stops, the loader has loaded or thrown, the
draft has reached the barrier. That they do not end too early or hang instead is what
`SimulationStops`, `EveryRequestRetires` and `ServedThenStops` are for.

Action and temporal properties: `SleepEndsInFuture`, `ComputeRetiresInOrder`,
`GrowsOnlyWhenAllHeld` and `RefreshNotPostponed` restrict single steps;
`EveryRequestRetires`, `ServedThenStops`, `SimulationStops` and `AnsweredUnlessJammed`
are liveness; `ImplementsPipeline` and `ImplementsPort` are refinements. The others are invariants.

## 5. Bounds, and why they are enough

* **Four requests at the PIM wrapper, three at the DRAM wrapper.** Two of each class
  are the fewest with which a class can queue behind itself while the other one is in
  flight and a second mode change follows the first. All but liveness is proved
  without the bound (section 7).
* **Two episodes.** What an episode may leave behind is met by the next one; a third
  meets nothing new, because `ImplementsPipeline` says that the machine is idle between
  any two. The invariants and the refinement are proved for every control trace, window
  and layer profile; the bounds in this and the next two items limit only liveness.
* **Window 2, transfers of up to four bursts.** The window closes and opens again
  within a transfer. `KvBytes` and `OutputBytes` of 0 and 1 turn writes off and on.
* **One layer, two where layers are collapsed** (a multiplier of two against one).
* **`Word` = 64** replaces 2^32 in `DraftStream`: small enough for a tile count of the
  profile to wrap, large enough for the others not to. Both properties are proved for
  every `Word`, profile and control record. In the runs of `SpecDecode` it is 16, and one
  layer's weight of 23 bytes wraps; the theorems of 7.6 hold for every `Word`.
* **Traces of four records.** A boundary between two samples of two records each is
  the smallest case in which both conventions for a boundary, the warm-up filter and
  the limit can each be off by one.
* **Four payloads**: enough to add cells in front of a list whose middle is empty. The
  theorems hold for every value of `MaxPayloads`.
* **DRAM channel.** Queue capacities of 2 and 1 instead of 32 and 8, so that both fill
  up with five requests; two ranks of two banks, so that a refresh leaves a rank
  alone; `MaxIncoming` 1, since the bridge looks at the front of `m_incomingQueue`
  only; `MaxRefreshes` 1, after which the rank that was not refreshed is like the
  other one. (The theorems hold for all of these; the bounds limit only
  `AnsweredUnlessJammed`.) `DrainLevel` 1 and `RowHitLimit` 2 make early drains and forced
  precharges happen.

* **Simulated time.** In `pim_timed` the control clock has a period of 2 ns (10 us in
  the code), the polling period is 1 ns (1 us), the longest sleep 3 ns (1 ms) and macros
  take a few nanoseconds: what matters is that macros end between edges, on edges
  and while the thread sleeps, polls or changes the mode, and that the longest sleep ends
  before a macro does. `MaxTime` of 18 ns lets all five requests retire. `Word` is 4 for
  2^32, so that a transfer needs both size fields. All four properties are proved
  for every workload, period and latency, without a bound on time. In `metrics_report`, two channels, two
  requests of each kind and 3 ns are enough for intervals to nest, touch, coincide, be
  empty and end out of order.

Symmetry (of the payloads of one kind) is used in `metrics_report`, which checks
invariants only. Elsewhere requests differ in class, initiator and order.

## 6. Fairness, and why the code justifies it

* **`SpecDecode`**: strong fairness of the steps of each wrapper, and of the steps that
  bring the run nearer to its end (`Progress`). The kernel runs every runnable process,
  the clock is free-running and timed waits end. Strong rather than weak, because a
  polling thread disables other steps for the moment it runs, and a pending delta
  notification disables the clock edges. No fairness is given to any single request
  or queue.
* **`PimClient`, `MemClient`**: weak fairness of the whole, strong fairness of the
  steps that move a request or take a response.
* **`DramChannel`**: weak fairness of the tick; strong fairness of returning a request
  that is due and of issuing a ready command, because a timing constraint of DRAMsim3
  is a number of cycles and expires. Nothing is assumed per bank or per queue: that
  no bank starves is part of what `AnsweredUnlessJammed` shows for these requests.
* `DraftStream`, `ControlTrace`, `MemPool`, `PimTimed` and `MetricsReport`: only safety is
  checked. (That every request of a PIM wrapper retires is `EveryRequestRetires`.)

## 7. Proofs

Every theorem holds for all values of the constants that the named assumptions allow.
The assumptions give types to the constants; where one says more, the table's text
says which line of the code justifies it.

### 7.1 PIM wrapper: `PimWrapper_proofs`

For every set of requests, both memory structures and both timing modes
(`ModeAssumption`, `RequestsAssumption`):

| Theorem | States | Hypothesis |
|---|---|---|
| `Invariance` | `ClientSpec => []IInv`, the inductive invariant | |
| `TypeCorrect` | `TypeOK`: in particular the unsigned busy counts never wrap | |
| `CountersExact` | `BusyCountExact` | |
| `OneModeAtATime` | `ModeExclusive` | |
| `NoWakeupIsLost` | `NoLostWakeup` | |
| `SleepNeverWraps` | `SleepEndsInFuture` | `WiredFor` |
| `CommandsInOrder` | `ComputeRetiresInOrder` | `UniformDraft` |

`IInv` is `TypeOK /\ WellFormed /\ BusyCountExact /\ ModeExclusive /\ NoLostWakeup`.
`ModeExclusive` is not inductive alone. The thread decides by the flag of the other
class, so the flag must be exact (`BusyCountExact`). The flag is read before the wait of
the mode change and trusted after it, so nothing may be in flight during the wait and
the held-back request must be of the class the mode is not yet (`WellFormed`, and the
`pc # "switch"` of `ModeExclusive`); it stays so because only the thread itself
dispatches. The counters are exact only if an analytical entry is never due before it
exists and each queue holds its own class (`WellFormed` again). `NoLostWakeup` needs
that `blocked_fast_request` is still true of the head of the queue when the iteration
ends, the last conjunct of `WellFormed`.

The sleep's unsigned difference needs `NothingDue`: between the collection and the sleep
no entry becomes due, also not across the wait of a mode change, because that wait
starts on an empty device. In the partitioned structure the device starts in memory mode
and the check of the other class is skipped, so this is true only if memory requests do
not come at all: `WiredFor` says that a partitioned device gets PIM commands only, which
is how `Arbiter` and `NpuReplayer` route (and a theorem's hypothesis rather than an
ASSUME, so that the others keep their full strength).

`ComputeRetiresInOrder` speaks of one line of commands that runs through the peq, the
pending queue, `switching`, the bridge or the analytical queue, and the completion
queues. `Route` says that all commands take the same way. That needs `UniformDraft`: the
draft is made of macros or of detailed commands, never both, which `host.cpp:211` decides
once from the configuration. `Backlog` and `Sorted`, at the end of the module, are what
the composition needs: how many transfers are inside, and that a completion queue holds
only its class.

The proof has a lemma per action (`DispatchStep`, `EndModeTransitionStep`, ...), each
of which rests on lemmas about the device as a whole: `CollectKeeps` and `SendKeeps`
(moving a request between queues keeps the number in flight, sending adds one),
`ReleaseFacts` (a retirement lowers counter and contents together) and the counting
lemmas `CountAppend` and `CountTail`.

### 7.2 PIM wrapper with clocks: `PimTimed_proofs`

For every workload, choice of periods, mode delays and latencies (`TimedAssumption`,
`MacroAssumption`):

| Theorem | States | Hypothesis |
|---|---|---|
| `TimedImplementsClient` | `TimedSpec => ClientSpec`: the theorems of 7.1 hold here | |
| `TimeInvariance` | `TimedSpec => []TimeInv` | `WiredFor` |
| `CompletionsArePrompt` | `PromptCompletion` | `WiredFor` |
| `BookInvariance` | `TimedSpec => [](TimeInv /\ BookInv /\ CountsWaits)` | `WiredFor` |
| `WaitInvariance` | `TimedSpec => []WaitInv` | `WiredFor` |
| `MetricsBooksExact` | `BooksExact` | `WiredFor` |
| `StallsWithinWaits` | `StallWithinWait` | `WiredFor` |
| `ServicesExclusive` | `ServiceExclusive` | `WiredFor`, `DistinctLayers` |

`TimeInv` is `IInv /\ NothingDue /\ Clocks /\ Prompt /\ Quiet`. `PromptCompletion` bounds how
late the thread is, but not why: `Prompt` gives the bound for each place of the thread
separately (none where it sleeps or has just collected, one period where it polls), since
one place's bound follows from that of the place before. A mode change starts
with empty analytical queues (`IInv`, `NothingDue`), so it delays nothing. `Quiet` is needed for the
thread's end: it ends only when the clients have stopped and nothing is left to be late.

`BookInv` is `LineInv /\ Ledger /\ Pace`, for three questions.

* *Whose payload is it?* `LineInv`: each request that was sent is in at most one place
  (`Placed`), what has been released has left the device (`Returned`), and two requests
  share a payload only if one of them has been released (`OneUser`). The metrics know a
  request by its payload; with this, an entry of `requests_` belongs to one request.
* *What do the books say?* `Ledger`: `Books`, the entries for the requests inside and the
  totals of those that have left, and `Timeline`, that what was served, what is being
  served and what is queued behind it are one line of intervals in which each begins
  after its predecessor ends. The line runs through both classes, because a
  unified device works on one class at a time (`OneClass`, from the `ModeExclusive` of
  7.1) and a partitioned one gets one class only (`WiredFor`). `ServiceExclusive` speaks of finished services only and says
  nothing about what a late report will add; `Timeline` includes the entries that are
  still open. `Rows` is the same for the rows of the layers in the log (`ServiceLog`).
* *What is late?* `Pace`: entries that are due have reached their time, a class is
  available again when its last entry is complete (`Behind`), a request that is marked
  as blocked is still in the queue and was marked after its arrival (`Contending`), and the
  stalls are within the waits (`Stalls`). The stall is reported before a mode
  change and the wait after it; `Owed` is the wait so far of the request in between.

`Ledger` takes the books, the queues and the set of requests that have left as arguments,
because one iteration collects several entries: `complete_fast_requests` is a loop, and
the proof goes along it (`Ledger` after k entries, least counterexample), with the
queues seen as if the first k entries were gone.

`ServiceExclusive` compares the bars of the layers among themselves and the bars of the
waits among themselves, since a wait overlaps the service it waits for. For the waits it
rests on `WaitInv`: only the head of the queue waits (`HeadWaits`), each wait has a row of
its own because the counter numbers them (`WaitRows`, `CountsWaits`), and what is in the
log was over before the wait that is still open began (`Past`). `TimedAssumption` says that no
layer has the name of a wait: the names of layers begin with `draft_pim.` or
`target_npu.`, those of waits with `unified_contention.`.

`DistinctLayers` says that each request has a log row of its own. A row spans from the
first start to the last end under its name, so two requests with one name would be
reported as one bar over all between them. In fast-layer mode the names hold the episode, the work
item, the layer and the operation (`host.cpp:268-275`, `npu_trace_replayer.cpp:188-234`),
and that no two episodes have one name is `EpisodeNamesDistinct`.

### 7.3 DRAM wrapper: `MemWrapper_proofs`

For every set of requests and both timing modes (`MemRequestsAssumption`): `MemTypes`
(`TypeOK`, so `m_outstanding` never wraps), `OutstandingIsExact` (`OutstandingExact`) and
`SleeperIsNotified` (`NoSleepOverRequest`). The invariant adds `TickTakesAll`, that
DRAMsim3 is ticked only after the thread has emptied the queue of requests: this is why
the thread can go to sleep without looking at that queue again.

### 7.4 Payload pool: `MemPool_proofs`

For every number of payloads (`PoolAssumption`): `PoolInvariance` (`PoolInv`, inductive),
`PoolAccounts` (`EveryPayloadAccounted`) and `PoolGrowsOnlyWhenAllHeld`.
`PoolInv` is `TypeOK /\ ListShape /\ EveryPayloadAccounted`. Accounting is not inductive
without the shape of the list: `free` fills the cell at `empties`, and that this
overwrites no free payload follows only from `empties` being the cell next to
`free_list`, which every `allocate` must preserve through the `next` and `prev` links.

### 7.5 DRAM channel: `DramChannel_proofs`

For every set of requests and addresses, address mapping, number of ranks and banks,
and queues of every size (`ChannelAssumption`):

| Theorem | States |
|---|---|
| `ChannelInvariance` | `Spec => []Inv`, the inductive invariant |
| `ChannelNeverExits` | `NeverExits` |
| `ChannelOrdersWrites` | `WritesFollowReads` |
| `ChannelForgetsNone` | `NoneForgotten` |
| `ChannelRefreshes` | `RefreshNotPostponed` |
| `ChannelImplementsPort` | the refinement of `MemoryPort` |

`Merged` is the heart: all waiting reads of an address stand behind one entry of
`read_queue_` or one READ command, all its writes behind one of `write_buffer_` or one
WRITE, and a WRITE is in a command queue only when no read of its address waits. The
lookups by address (`NeverExits`) and the order of hazards follow from it. `Apart` (a
request is at one place of the bridge) makes the refinement mapping's set of requests
lose exactly what a callback returns. `RankHeld` (the queues that a refresh holds up are
those of the rank at the front) is what keeps a bank closed until its refresh:
`RefreshNotPostponed` says that no closed bank of a rank is opened while the refresh of
that rank waits; it does not say when the refresh is issued.

### 7.6 Composition: `SpecDecode_proofs`

For every memory structure, all four combinations of the two fast-layer switches,
every layer profile, window and control trace:

| Theorem | States |
|---|---|
| `Invariance` | `Spec => []Inv`, the inductive invariant |
| `ResponsesAreCounted` | `PendingExact` |
| `WindowHolds` | `WindowBounded` |
| `EventsFindTheirWait` | `NoEventLost` |
| `NothingLeftAtTheEnd` | `EndsDrained` |
| `PipelineImplemented` | `ImplementsPipeline`, the refinement of `Pipeline` |

`MachineAssumption` excludes a window of zero, which the loader rejects
(`configurations.cpp:184`), and a request size of zero, which the replayer takes for one
(`npu_trace_replayer.cpp:95`); `Word` is any positive number. `ControlsAssumption` says that there is a record, that no
draft is empty (the Host throws, `host.cpp:257`), that exactly the last command is marked
(`DraftEndsOnce`, 7.8) and that commands are uniform as above.

`Inv` has eight parts:

* `Types`, which also says what may be in the Arbiter's queues;
* `PimOK`, `MemOK`: the memories keep the invariants of 7.1 and 7.3. The composition
  takes steps of `PimClient` and `MemClient` as far as a memory can tell, and the
  lemmas of the two instances `PW` and `MW` are cited for these steps;
* `Flow`: `pending_responses` is what is on the way there, in the memories, and on the
  way back. The count is changed at two ends by two processes, and only the sum over
  the whole way is invariant;
* `Thread`: what the NPU thread knows at each of its waits. At most one response is in
  the NPU's peq, and then the thread waits; so no `response_event` is lost;
* `Target`: the target's side of an episode is in exactly one of six places (a start
  request still queued, one in the peq, the start event, the running thread, the done
  event, the barrier's list). One event per episode, and nobody but the Host's barrier
  to receive it, is a consequence;
* `Draft`: the same for the draft, whose place is the line of commands from the Host's
  queue to the device's completion queues. Only the end of this line is marked `last`,
  so that the completion event is sent when and only when the line has become empty;
* `Ending`: no thread of a memory ends, and the simulation does not stop, before the
  Host has run all episodes.

For the refinement, `WorkIsMapped` derives `Mapped` from `Inv`: the status of a side read
off the work in the queues is the one read off the events. The step proof then has to
look only at the six variables of events and barrier.

### 7.7 Sequences: `Subsequences_proofs`

Laws of `Only`, of concatenation and of flattening, for the lines of requests that run
through several queues and the loops that append to one, and of sums over finite sets
(adding or changing one summand, splitting a set, comparing two sums). `Only` is a recursive function, not `SelectSeq`, so that its laws can be proved:
each by its least counterexample (`Least`: a set of naturals that is not empty has a
least element), which the provers accept where the library's induction theorems, with an
operator as a parameter, are out of reach.

### 7.8 Draft command stream: `DraftStream_proofs`

For every profile, list of operations, granularity, number of layers, word size and set of
control records (`DraftAssumption`):

| Theorem | States |
|---|---|
| `DraftEndsOnce` | `LastMarksTheEnd` |
| `MacroLatencyKept` | `MacroKeepsLatency` |

`StreamInv` has the totals that the counting loops leave (`CountedInv`) and, at every
position of the emission loops, that the number of commands queued so far is what the
counting loops give *up to the same position* (`EmittedInv`). Only the latter is
inductive. At the end of the loops it is the total, so the command whose index is the
total is the last one. The two loop nests multiply in different orders and in 32 bits; the
lemmas show that both wrap in the same product, and that a layer counts the same
whichever operations have no profile.

`MacroInv` says which delay a queued macro has; that this is the latency of the micro
commands to within half a nanosecond is arithmetic: the rounding of a rational and the
half nanosecond that is taken off before and added by the wrapper. It holds where the
number of tiles and the latency fit in an `unsigned int`, into which the code casts both.

## 8. Only model-checked

* Liveness (`EveryRequestRetires`, `ServedThenStops`, `SimulationStops`,
  `AnsweredUnlessJammed`): the proof system has no rules for fairness and ENABLED.
* `ControlTrace` and `MetricsReport`: what their loops and sums compute. The reports sort
  intervals and merge them, and their reference counts the nanoseconds of a union of
  intervals; the selection is compared with a set-builder over all samples. Each needs an
  induction over data of its own (along a sorted sequence, along the records), of the
  kind of 7.7.

## 9. Findings and observations

**Fast-layer mode for the PIM only** (run `spec_mixed_modes`, a violation).
`fast_layer_mode_enabled()` is the disjunction of two switches, and the loader accepts
a file that sets only `synthetic_pim.fast_layer_mode`. The wrappers then no longer tick
DRAMsim3 (`mem_wrapper.cpp:177`), with the comment that "no request reaches this bridge"
(`mem_wrapper.cpp:175`), while the NPU goes on to issue ordinary bursts, which do.
They are never answered and the Host stays at its barrier. Every configuration in the
repository sets both switches alike.

**The write buffer of DRAMsim3 can stop a channel.** When the write buffer is full and
the write that `ScheduleTransaction` comes to waits for a read of its address that is
still in `read_queue_`, the drain starts again in every tick and takes precedence over
reads, so that read is never scheduled (`DRAMsim3/src/controller.cc:214-240`). `Jammed`
describes this state and `AnsweredUnlessJammed` says that nothing else can keep a
request. It takes a read and a later write of one address in flight; the streams of
hsim have ascending, distinct addresses, so the simulator as it stands does not get
there, and the model's requests meet in addresses on purpose.

**Template path without a draft.** Without `synthetic_pim`, a record that proposes
nothing queues no PIM command, and the Host's barrier waits for an event that nobody
sends (`host.cpp:326`); the synthetic path checks for an empty stream. No
configuration in the repository takes the template path.

**Smaller ones**, none of which a configuration of the repository turns into a wrong
result:

* The analytical path of the DRAM wrapper gives every macro its own completion time and
  does not queue it behind the macro before, unlike the PIM wrapper, although
  "Queueing between macro requests is handled by the owning wrapper"
  (`dram_macro_model.h:24-25`). The NPU has one macro outstanding at a time,
  so two never meet.
* The payloads of PIM commands and of the Host's start requests are never released. Their
  pools grow by the number of commands; no pointer is used again, which is why the books of
  the metrics cannot mix them up.
* `complete_parallel_pim_episode` is called only for layers with the prefix `draft_pim.`;
  the template path does not set it, so its episodes would never count as completed.
* A v2 record whose `draft_precompute_kv_cache_tokens` differs from its
  `draft_kv_cache_tokens` is accepted: the draft's shape is checked with the second
  (`trace_generator.cpp:123`) and the first is replayed (`:140`). `ReplayIsConsistent`
  makes an exception for the draft's cache of such records, and only for that. No trace in the
  repository is v2.
* The NPU's byte counts are 64 bits wide and `uint32_t` in a request: a transfer of 4 GiB
  or more is shortened (`npu_trace_replayer.cpp:259`), and one that reaches 2^32 when
  it is rounded up has a `burst_size` of zero and sends nothing (`:98`). The layer
  profiles are far below.

## 10. Not modelled

* Of the *metrics*: `percentile95` (an index computed in doubles), the ratios and the
  JSON writer. Of the *analytical model*: the two measurements of the calibration are
  constants; its validation error is only printed. The estimate is exact where the code
  uses doubles, and `to_ns` rounds exact half nanoseconds. Of the *log*: the rows of NPU,
  DRAM and Host, and the writing.
* *Configuration loader*: JSON parsing and range checks. Its switches are the
  CONSTANTS of the modules.
* *`SyncObject`* and the Host's handlers of READ, WRITE, COMPUTE
  and PIM traces, with the loader's builders for them: the only scenario of the
  repository (`scenarios/speculative/s1.cpp`) creates SPECULATIVE and TERMINATE traces.
* The composition in the *partitioned structure in fast-layer mode*: the wrappers are
  checked in this mode by themselves (`mem_fast`, and the theorems about `PimWrapper`,
  which hold for both structures and modes), the partitioned composition in detailed
  mode. The theorems about the composition hold in this mode too; its liveness is not
  checked there.
* In the *DRAM wrapper*: the adder-tree and synchronisation signals of host writes; a
  host write is taken to its retirement.
* In the *channel*: unified queue, PER_RANK queues, CLOSE_PAGE, self-refresh, bank-level
  and simultaneous refresh, HBM dual command, timing tables, address mapping (a
  constant), statistics and power. The LPDDR5 configurations use none of the former. An
  address of the model stands for one burst, so `HasRWDependency` compares addresses where
  the code compares row, column and bank.
* The *baseline* structure, which has no PIM.
* *DRAMsim3's* other parts, *SystemC*, *jsoncpp* and the tools and scripts: third-party,
  or without state shared with the simulator. The SystemC kernel is modelled from its
  use (section 3). By lines they are nearly the whole repository (SystemC headers, fmt,
  Catch, JSON readers), so the share of all lines that the models cover is small however
  much of hsim is modelled.

## 11. How to run

    tlc -workers 2 -config MCPimUnifiedFast.cfg MCPimClient
    tlapm SpecDecode_proofs.tla

Each `.cfg` belongs to the MC module that `PROJECT.json` names for its run. Every run
takes less than two minutes. `PimTimed_proofs` takes about ten minutes to prove from
nothing, the other proof modules less.
