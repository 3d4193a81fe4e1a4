# A TLA+ verification of veriforge

veriforge parses Verilog/SystemVerilog, elaborates it, and simulates it from
Python; a language server keeps a model of the sources an editor works on. This
project models the parts where results can silently be wrong: the event-driven
kernel that decides which piece of a design runs, when, and on which values; the
four-state arithmetic of those values; the clocks and endpoints that drive and
sample a design around its edges; and the language server, the one part with
several threads. Paths below are relative to the repository's `src/veriforge/`
unless they start with `veriforge_lsp/`, `notes/` or `tests/`.

## 1. The system

### Components

| part | state it keeps | operations | what makes it correct |
|---|---|---|---|
| Reference scheduler, `sim/scheduler.py` | time, signals, event queue, event waits, detection snapshot, own changes, pending drives, the snapshots taken by the last drive, run and settle | `elaborate`, `run`, `run_step`, `settle`, `drive_signal`, `schedule_at` | nothing that depends on a changed value is forgotten; an edge runs its blocks once; registers sample pre-edge values; a thread is resumed once; time goes forward; calls return |
| Executor, evaluator, values, `sim/executor.py`, `evaluator.py`, `value.py` | NBA queue, suspended generators, first value of each signal written in the region (`_originals`) | `execute`, `execute_coroutine`, `apply_nba`, `write_signal` | NBAs apply in order after the active region; a generator resumes where it stopped |
| Testbench API, `sim/testbench.py` | forked clocks, next edge of each clock, pre-step callbacks | `Simulator.drive/run/run_step/settle`, `schedule_clock` | every edge of a clock is queued once and at its time |
| Endpoints, `sim/endpoints/` | queues, current beat, sampled handshake, pause flag; per protocol more | `tick_pre`, `sample_pre`, `tick_post`, coordinators' `step` | each beat is transferred once and in order, whatever the pauses and the other clocks do |
| Bench, `sim/bench/` | the plan, proxies of endpoints | planning, lowering, `runtime` | generated benches follow the phase contract |
| VM engine, `sim/vm/`, `sim/event_queue.py` | as the scheduler, in arrays and heaps | as the scheduler | agrees with the reference engine |
| Compiled engine, `sim/compiled/` | generated C | as the scheduler | agrees with the reference engine |
| Trace and VCD, `sim/trace.py`, `vcd.py`, `vcd_compare.py` | capture windows, files | callbacks, writers | output formats |
| Co-simulation, `sim/cosim.py` | external processes | run and compare | I/O |
| Front end: `preprocessor.py`, `project.py`, `verilog_parser.py`, `transforms/`, `model/`, `sim/elaborate.py` | syntax trees | tree transformations | pure functions |
| `analysis/`, `codegen/`, `convert/`, `dsl/`, `refactor/`, `fuzz/`, `scaffold.py` | none | tree to tree or text | pure functions |
| Language server, `veriforge_lsp/workspace.py`, with the parse cache of `project.py` | open buffers, content hashes, design, index, diagnostics, debounce timers, cache files, a lock | `on_did_open/change/save/close`, the worker's check, save and full-parse tasks | what is shown belongs to the text in the buffer; design and index are those of the saved files |

A testbench calls `Simulator`, which forwards to the scheduler; the scheduler
calls the executor for each process activation, and the executor writes signals
through the evaluator's context. Endpoints and traces are called back from the
testbench or from `_on_time_step`, and call `drive` again: drives therefore
arrive between calls and inside them.

### What is hard here

The kernel is single-threaded Python (the language server is not: see below). Its difficulties are of order and of
stale state. One `run` contains several nested fixpoint loops (continuous
assigns, delta cycles, time steps), and five snapshots of the signals
(`_prev_signals`, `_settle_snapshot`, `_last_run_signals`, `_originals`, and the
callback's) decide what counts as a change. Which snapshot is current depends on
which API calls were made before: `drive`, `settle`, `run` and `run_step` may
come in any order. Processes triggered by the same event share signals. Threads
suspend on delays (zero included) and on events. `$finish` can arrive anywhere.
Loops of logic never converge and must be cut off.

The endpoints are called at both levels of a clock, before and after a time step,
and remember between calls what they sampled. A bus master and its responder look
at the same wires at different moments of a step. Values may have x bits, and
every operator has its own rule for what is then known.

The language server has an asyncio thread, one timer thread per debounced check, a
worker thread and an editor that writes the files the worker is reading; it may be
stopped at any point, and its cache survives.

`PROJECT.json` lists each such point with its line under `hazards`.

## 2. Modules

| module | what it is |
|---|---|
| `Scheduler` | the reference kernel, for any design: state, actions, specification, properties |
| `SchedulerProofs` | theorems about `Scheduler`: types and continuous assigns |
| `SchedulerStepProofs` | theorems about `Scheduler`: edges, threads, time steps, `$finish`, time, combinational blocks, driven edges |
| `MCPipeline` | a design for TLC: pipeline, gated clock, driven reset, assigns declared in reverse order, a block that reads its own output |
| `MCPipelineStyles` | `MCPipeline` under a testbench that keeps to one way of settling its drives |
| `MCThreads` | a design of threads (free-running clock, edge and level waits, `#0`, `wait`, a task with a delay, `$finish`) beside a combinational cycle and an assign ring the testbench can close, the latter also from a callback |
| `Coordinator` | `MultiDomainRunner.step`: the phases around a rising edge, for any set of clocks |
| `StreamBench` | extends `Coordinator`: a stream source and sink around a FIFO or a wire; implements `Channel` |
| `Channel` | the abstract specification: an unbounded first-in first-out channel |
| `StreamBenchProofs` | theorems about `StreamBench` and the monitor of `AxisBench` |
| `MCStream` | `StreamBench` on one or two clocks |
| `GeneratorBench` | extends `Coordinator`: a generator endpoint running a counter |
| `GeneratorProofs` | theorems about `GeneratorBench` |
| `MCGenerator` | `GeneratorBench` with two clock domains |
| `AxiLiteBench` | the AXI-Lite master and responder on the same ports |
| `AxiLiteProofs` | theorems about `AxiLiteBench` |
| `MCAxiLite` | `AxiLiteBench` with two addresses and two byte lanes |
| `AxisBench` | extends `StreamBench`: AXI-Stream source and sink, frames and the strict monitor; implements `Channel` again, for frames |
| `MCAxis` | `AxisBench` on two clocks with five kinds of frames |
| `ClockBench` | `fork`, `schedule_clock`, `run` and `run_step` on one event queue |
| `ClockProofs` | theorems about `ClockBench` |
| `MCClock` | `ClockBench` with two clocks |
| `FourState` | the four-state `Value` and every operator the evaluator applies to it |
| `FourStateProofs` | theorems about `FourState` |
| `Workspace` | the language server's threads, documents, tasks and parse cache |
| `WorkspaceProofs` | theorems about `Workspace` |
| `MCWorkspace` | `Workspace` with two files, one depending on the other |

### How `Scheduler` corresponds to the code

The elaborated design is the module's constants: what `elaborate()` computes
(continuous assigns with their read sets, `_combo_procs` with `sensitivity` and
`self_sens`, `_seq_procs` with `edge_signals`, `_initial_procs`,
`_timing_procs`). Signals are scalars over 0, 1 and x; `NoVal` stands for a
missing dictionary entry. `Exec(p, pc, sigs)` is what the code of process `p`
does from position `pc` to its next stop: the blocking writes, the NBAs it
queues, and why it stopped. Statement and expression semantics are thereby a
parameter, and everything the kernel does around them is explicit.

A process stops in one of six ways (`Outcome`), and `Suspend` says where it goes
next. It ends; it calls `$finish`; it is suspended by a delay or by an event list; or
its `SuspendExecution` carries neither (`"wait"`: a false `wait(cond)`, `@*`), or is
thrown instead of yielded (`"raise"`: a timing control in a task, or in a block
that is not run as a generator). `_schedule_suspend` does nothing with the fifth
kind. The handler of `_run_active_region` queues the sixth if it has a delay, but the
generator is then dead, so the rest of its block never runs. The history variable
`lost` holds the processes whose last suspension was recorded nowhere.

The variables carry the source's attribute names in comments. The local state of
the call in progress is explicit too: `phase` is the program point, `stage` whose
delta loop is running (a time step, external drives, bootstrap, settle), `ca` the
state of the `for _ in range(delta_limit)` loop over the continuous assigns,
`batch` and `woken` the processes still to run, `act`/`acc`/`drv`/`nbaDirty` the
dirty sets.

| actions | code |
|---|---|
| `CAEval`, `CAPassEnd` | `_run_continuous_assigns`, `_run_dirty_continuous_assigns` and the loops around them, one assign per step |
| `Execute(p)`, `RegionEnd`, `Resettle` | `_run_active_region`, `_execute_process`, `_schedule_suspend`, one activation per step |
| `DeltaBegin`, `ApplyNba`, `NbaDone`, `Collect`, `DeltaDone`, `DeltaLimitError` | the delta loop, which four callers repeat with the same body |
| `StepBegin` (in `RunNext`, `CallRunStep`), `WakeOne`, `WakeDone`, `CallbackQuiet`, `CallbackDrive`, `StepEnd` | `_run_single_step` |
| `RunLaunch`, `ExternalDrives`, `ExternalCollect`, `BootDrives`, `FullCA`, `BootCombos`, `BootReaders`, `RunNext`, `RunReturn` | `run`, `_process_external_drives`, `_bootstrap_combos`, `_run_time_step` |
| `SettleBoot`, `SettleDrives`, `SettleCollect` | `settle` |
| `CallDrive`, `CallSchedule`, `CallRun`, `CallRunStep`, `CallSettle` | the testbench's API calls |

`_collect_triggered` is split into the operators `CombosHit`, `SeqsHit`,
`Triggered` (what to run) and `CollectTriggered` (the detection state it leaves).
Triggered processes run combinational blocks first, then sequential ones, each in
order of identity, as the code does.

Five history variables record what no attribute holds: `lost`, whether an assign loop
gave up (`caOverflow`), the signals before the first drive not yet settled
(`base`), how often each sequential block ran since (`fires`), and whether a
drive is waiting for `settle()` or `run()` (`owed`). They guard nothing, except
that `Disciplined` lets a configuration restrict itself to testbenches that
settle their drives before `run_step()`, as every coordinator of
`sim/endpoints/helpers.py` does.

Definitions introduced by a comment "Fault:" are not part of the specification.
Each is a plausible error in the operator that follows it, and `PROJECT.json`
names, for every property, a fault that makes TLC find it violated.

### How the endpoint modules correspond to the code

`Coordinator` is the control of `MultiDomainRunner.step` in
`sim/endpoints/helpers.py`, one action per phase: `tick_pre` on every domain,
`settle`, `sample_pre` on every domain, then `run_step` until some clock rises
(`RunStepPhase`, any set of clocks may change level at once) or no event is left
(`StopPhase`), then `tick_post` on the domains in `risen`. `EndpointCoordinator`
is the same with one domain. `StreamBench` and `GeneratorBench` conjoin their
endpoints' handlers to these phases, as `step` calls them.

In `StreamBench` an item stands for the data and sideband of one beat. `queue`,
`current`, `paused` and `sampled` are the attributes of `StreamSource`;
`received`, `sinkPaused`, `sinkSampled`, `sinkData` those of `StreamSink`; the
wires are variables of their own, so that what an endpoint drove and what it
means are kept apart. `pause` is evaluated in each `tick_pre` and may return
anything in `Pauses`, which covers every `PauseGenerator`. The design under test
is not part of the repository: a FIFO of `Depth` places with one clock on either
side, or for `Depth = 0` a wire, through which the source sees what the sink
drives in the same phase. Its outputs follow its registers only when `settle` or
`run_step` runs.

`GeneratorBench` runs the counter of `GeneratorEndpoint`'s documentation with
`Cycles` iterations. `gen` is where the generator object stands (not made yet,
at its first or second `yield`), `Usable` the discarding of one that missed its
`tick_post`. `local` says whether the counter is a local variable, which a new
generator starts afresh, as in the docstring's example, or is kept outside.

### How `AxisBench` corresponds to the code

The AXI-Stream endpoints repeat the stream endpoints' handlers, with beats for
items; `AxisBench` therefore extends `StreamBench` and uses its sampling, its design
and its phases, with `queue` for `_beat_queue`, `current` for `_current_beat` and
`received` for the `_pending_*` lists. It adds `frames` and `outbox`, the two `queue`
attributes, the loading of a frame in `tick_pre`, its completion in `tick_post`, and
the monitor of a strict sink, which sets `alarm` where the code raises. A beat is a
function from lanes to values with the set of kept lanes, one side band (for `tdest`,
`tid`, `tuser`) and the last flag. `ToBeats` and `FromBeats` are `to_beats` and
`from_beats`; `Delivery`, which the refinement compares them with, is stated on the
elements alone. `RefuseFrame` is the ValueError of `to_beats`, raised out of `step()`
after the frame was popped.

### How `AxiLiteBench` corresponds to the code

`AXILiteMaster` and `AXILiteResponder` share their ports, as in the repository's
test on a bare stub. `pc` is where `write()` or `read()` stands: `Start` drives
the request, `Sample` and `Accept` are the two halves of an iteration of the
request loop, around `_step_cycle`, `Await` an iteration of the response loop,
`Finish` the last cycle and `_drive_idle`. `asserted` holds the VALIDs and READYs
the master drives high, `payload` the call whose address and data it drives with them. A time step is `StepUp` or `StepDown`:
`run_step` calls the responder before it with the old level of the clock and after
it with the new one, and the responder's `_on_time_step` does one thing when it
sees the clock low (`LowPhase`) and another on a rising edge (`RisingEdge`). Both
are compositions of the steps of the handler in its order. AWREADY, WREADY and
ARREADY always have the same value (the pause generator's), hence one `ready`.
`accused` is set where strict mode would raise. `acked`, `faulty`, `stalled`, `cut` are
history.

`_step_cycle` raises when `run_step()` returns False. That happens in a step in which
`$finish` ran, which is still performed with both callbacks (`StepUp` and `StepDown`,
second disjunct), in every step after one (`finished`), and when no event is left,
where only the pre-step callback runs (`NoStep`). `Raise` is what it leaves: the call
is over without `_drive_idle`, so its VALIDs and READYs stay driven with their payload,
and what the responder has logged or queued stays too. A test may catch the error and
go on, up to `MaxAfter` more calls; `cut` is the first call that was stopped.

### How `ClockBench` corresponds to the code

`nextEdge` is `_clock_next_edge`, `queue` the clock toggles in the event queue.
`ScheduleAll` is `_schedule_clock_events`, for one signal or for all of `_clocks`;
`Rises` are the values of `t` at which its loop queues a pair. `SingleStep` is what
`_run_single_step` does to clock toggles. The design is left out: `edges` records
what it hears. The calls may come in any order. `notes/simulation_overview.md` and
the docstring of `schedule_clock` ask for `fork` and `schedule_clock` before the
first time step and keep `run_step` and `fork` apart; the history variable `mixed`
records that a testbench did otherwise.

### How `FourState` corresponds to the code

A `Value` is a record of `val`, `mask` and `width`; an integer that the code uses
bit by bit is the set of its 1 positions, so `&`, `|`, `~` and shifts are set
operations, and arithmetic converts with `Num` and `FromInt`. The methods of
`Value` are operators with their names. `BinaryOp` and `UnaryOp` are `eval()`'s
branches: which operands are extended to which width, with which sign
(`Target`, `Left`, `Right`), the operator (`Apply`), and the fitting of the result
to the context. The state is one expression evaluated from the leaves up, twice:
`seen` with some x bits in the leaves, `known` with some of those bits known. Each
action is one node of the expression tree with an arbitrary second operand and
context. x and z share their encoding (`mask`), as they do in arithmetic; the bit
that tells them apart is not kept.

### How `Workspace` corresponds to the code

A text stands for its content and its SHA-256. The asyncio thread's handlers are
`Open`, `Change`, `Save`, `Close`, `Reparse`, one action each, for they do not
block. A timer thread is a record that is armed, has woken (it can no longer be
cancelled), and has dropped its dictionary entry. The worker's tasks run one at a
time, in the order of `queue`: `RunCheck` is a whole tier-1 task; a save is
`SaveLint`, `SaveParse` or `SaveFails`, `SaveMerge`; a full parse is `TakeFull`,
`FullLookup` and `FullParse` for each file, `FullHash`, `FullCommit`. A task is cut
exactly where it reads a file that the editor may write, or where the asyncio
thread may read what it wrote: the rest happens under the lock or in memory only
the worker touches. `cache` survives `Restart`, which may come at any point.
`run_verible` is external: it gives the right verdict, or nothing when it fails or
times out, which the model keeps apart as "silent"; its message may or may not
carry a rule name with "syntax" in it. Which text has which interface and which
design draws a lint warning are the constants `Signature` and `Warns`.

The editor writes the file and the server handles the save notification in one
step. A timer thread that has woken up is assumed to reach its `submit` before the
timer of a later edit of the same file fires, 1.2 seconds or more afterwards
(`TimerWakes`); without this the older check could be applied last.

### Not modelled

Of the kernel: memories and their element writes; nets with several drivers
(strength resolution in the assign pass); named events; `$display` and `$dump`
output; `Simulator`'s pre-step callbacks (those of the responder are part of
`AxiLiteBench`); the fast paths that only skip work that would change nothing. Of
the evaluator: `===` and `!==`, casts, system functions and function calls,
reals, strings, the `__2state` knob, the difference between x and z. Of the
coordinators, `CombinationalCoordinator` (nothing can come between its phases), the
strict-mode guard (it raises and warns only) and a `run_step` whose time step calls
`$finish`: there `step` returns without `tick_post` although the design has had its
edge, so a beat it transferred is not committed. Of the clocks: `batch_run` and
`run_cycles`, which call the compiled engine. Of the language server: the answers
to hover, completion and navigation requests, which read one snapshot under the
lock, and an exception raised by the analysis inside a full parse. Of AXI-Stream: the
branches for interfaces without TREADY, TLAST or TKEEP, explicit last flags, `read()`.

The VM and compiled engines and the AXI4 and memory-bus endpoints are not
modelled yet (section 6). They hold the greater part of the repository's lines,
most of it in bytecode and C code generators. These, the bench planner, the front
end, the converters, the refactorings and the analyses are translations of trees
and text without protocol state, where a model would repeat the program; their
correctness is agreement with another tool's output, which TLC cannot look at.

## 3. Runs

### The kernel

Each of these runs fixes a design and the API calls its testbench makes; `MaxCalls` bounds
their number (callback drives included), `MaxRun` the last time a step is taken,
`MaxDelay` the longest delay. TLC explores every order of calls, every driven
value and every legal `max_time`.

| run | configuration | question |
|---|---|---|
| `pipeline` | `MCPipelineStyles.cfg` | with queued clock toggles and a testbench that has its drives seen by `run`, or by `settle` before it steps or runs: is any assign, block or edge missed or served twice? |
| `threads` | `MCThreads.cfg` | under any mix of calls: is a thread ever due twice or never, does a step complete despite `$finish`, does time go forward, do calls return, and does converging logic ever meet the delta limit? |

The properties:

* `NoAssignForgotten`: at every point of every call, an assign that does not show
  its right-hand side is one the kernel will come back to.
* `CombosSettled`: when `settle()` or `run()` returns, every `always_comb` block that
  does not read its own output shows the value of its code, unless an assign loop gave
  up at the delta limit.
* `EdgesServed`: every edge a time step leaves behind has run its blocks, also one
  that appeared in a late delta cycle (the gated clock).
* `DrivenEdgeNotLost`, `DrivenEdgeNotDoubled`: an edge the testbench drives runs
  its block exactly once, over any sequence of calls.
* `RegisterTransfer`: registers clocked in one step sample the values of before
  the edge, others keep theirs.
* `ThreadsDueOnce`: a thread suspended by a delay or an event list sits exactly once in
  the event queue, the event waits or the popped batch, until `$finish` drops the queue.
  One that ended, or that is `lost`, sits nowhere: it does not come back later either.
  That threads are lost at all is the finding of `threads_wait`.
* `StepsComplete`: nothing is left over between calls, and nothing queued after
  `$finish`.
* `OwnNbaVisible`: a thread sees its own NBA after `#0`.
* `TimeForward`: time goes back only when `run()` launches at time 0 what an
  earlier `run_step()` did not. This exception is in the code (`run`, lines
  598-606) and is stated in the property.
* `CallsReturn` (liveness): every call returns or raises the delta-limit error.
* `LimitsMeanLoops`: the limit is only met by a loop that is closed.

Why the bounds are enough: the snapshots distinguish calls only by what happened
since the previous drive, settle, run or step, so six calls (four in the other
designs) reach every order of three different calls around a drive, before and after
the bootstrap;
two times suffice for a rising and a falling edge, three for the threads' delays.
`DeltaLimit` is larger than the longest chain of converging logic in the design,
so that meeting it means a loop. `threads` has two kinds of testbench, chosen at the
start (`bench`): one drives what the threads wait for, the other opens and closes the
loops, with the threads running beside it. It has 445,766 states, `pipeline` 2,380,117.
Deadlock is checked in `pipeline`; in `threads` the delta-limit `RuntimeError` ends the
model's behaviour. No symmetry is used: processes run in order of identity.

### The endpoints

| run | configuration | question |
|---|---|---|
| `stream_async` | `MCStream_async.cfg` | two unrelated clocks, pauses at any time, a FIFO of two places: is an item lost, doubled or reordered, and does it arrive once the pauses end? |
| `generator` | `MCGenerator.cfg` | does a generator that keeps its state outside advance exactly once per edge of its own clock, and what does one with a local counter drive after a foreign edge? |
| `axis` | `MCAxis.cfg` | frames over two unrelated clocks: does each arrive whole and in order, and is a conforming design never accused? |
| `axi_lite` | `MCAxiLite.cfg` | with pauses, queued errors, timeouts and both response options: is a write performed once, does a call get its own response, does a read return what was written, and what does a call leave that the simulation stops under? |
| `clocks` | `MCClock.cfg` | over any sequence of calls: is each edge of a clock heard once, in order and on time? |

* `Implements`: `StreamBench` implements `Channel`. In flight is what the sink
  has sampled at this edge and not yet committed, the design's registers, the
  source's current item unless accepted at this edge, and its queue (`InFlight`).
  An edge of the other clock, a pause between two steps, or a `step` that gives up
  must leave this sequence alone.
* `BothSidesAgree`: just before an edge the sampled flags equal the handshakes
  the design will perform.
* `AllArrives` (liveness): if from some point on neither endpoint pauses, everything
  sent reaches the sink's queue.
* `OneValuePerEdge`: a generator that keeps its state outside drives one value per edge
  of its clock.
* `Redrives`: `tick_pre` after an edge of another domain, or after a `step` that gave up,
  makes the generator anew. With its state outside it drives the same value again; a
  local counter is lost, and its first value is driven.

* `FramesWhole`: `AxisBench` implements `Channel` for frames. In flight are the frames
  assembled from the beats pending in the sink, in the design and in the source, and
  the frames still queued, each as its kept elements.
* `NoFalseAlarm`: the strict sink does not accuse a design that holds its output,
  although it compares samples taken at edges of either clock.
* `FramesArrive` (liveness): if the pauses end, nothing stays in flight; an empty or
  refused frame does not hold up those behind it.
* `WritesOnceInOrder`: between calls the responder has performed exactly the writes
  that returned, in order; one that timed out has left nothing behind. A write the
  simulation stopped under may have been performed, once and after the others.
* `OwnResponse`: a call ends in an error exactly when one was queued for it, in a
  timeout only when it found READY low, and no response stays for a later call. A
  stopped call leaves at most its own, and a write only if it was performed.
* `ReadsLastWrite`: a read returns, lane by lane, what the last strobed write left.

The first two hold up to and including the first call the simulation stops under, the
third before it (`Orderly`, `cut = 0`). Nothing is claimed of the calls a test makes
after it: the first may be given the response the stopped one left, the responder takes
VALIDs that are still driven for a request, and strict mode reports them.
* `OneWaveform`, `RunHearsAll`: each clock has the waveform of one `Clock` started
  at 0, however many calls queued its edges, so that none is heard twice, late or
  out of order, and none is queued in the past by a testbench that uses the calls as
  documented (`~mixed`); `run(max)` returns when the edges up to `max` have been heard.

Four items of two values distinguish loss, duplication and exchange in a FIFO of
two places, which they overfill. Six edges take the generator through three
restarts. `SUBSET Domains` lets the clocks rise in any order or together. Two
frames of up to two beats, of five kinds, through a FIFO of one beat put a frame
boundary at every place of the path. Three AXI-Lite calls make a write, a second
write with other strobes and a read of the same address, with a timeout or an error
in any of them; a timeout of two cycles is the smallest in which a pause may end, and a
fourth call is not needed to reach a state a stopped call leaves. The names of addresses,
lanes and non-zero bytes are interchangeable (`SameNames`; 9.95 million states). The clocks have periods 3 (duty 2/3) and 2,
so that high and low time differ and edges coincide; `MaxTime` is more than two
periods of both, and seven calls fork both and run three times.

### Values

| run | configuration | question |
|---|---|---|
| `four_state` | `FourState.cfg` | on all values of up to three bits: does an operator break the encoding, claim a bit that depends on an x, or give x where the result is certain? |

* `KnownStaysTrue`: a result bit computed as 0 or 1 is that bit whatever the x
  bits of the leaves stand for.
* `XOnlyIfOpen`: bitwise, equality, reduction and logical operators give x only
  where the operands' x bits can make the bit 0 and can make it 1. It is a property
  of one application, since precision is lost when operators are nested.

Three bits have a sign, a middle and a lowest bit; shift amounts reach 7 and ranges
lie up to two bits outside the value on either side. The proofs cover the other
widths.

### The language server

| run | configuration | question |
|---|---|---|
| `workspace` | `MCWorkspace.cfg` | edits, saves, timers, worker and restarts interleaved: do diagnostics and model follow the texts? |

* `ShownCurrent`: when all threads are done, the diagnostics of an open file are
  about the text in its buffer, and what the editor shows is what is recorded.
* `SavedModelUnraced`: when all threads are done and every file parses, design and
  index are those of the files, provided no save came while an earlier one of the
  same file was queued or the worker was inside a parse (`raced`), and no full parse
  gave up on a file that does not parse (`gaveUp`). Both provisos are needed: without
  them `SavedModel` fails in three ways, given below.
* `BufferChecked` (liveness): the text of an open buffer does not stay with the
  wrong verdict for good.

Four notifications reach open, edit, edit, save and open, edit, save, edit; two
files suffice for one that does not change and depends on the other; the texts are
one pair with equal interfaces, one with another, one that does not parse.

### Disagreements between the code and its documentation

Each of these runs checks one property and TLC finds it violated; `findings` in
`PROJECT.json` quotes the text the code disagrees with.

| run | what happens |
|---|---|
| `pipeline_mixed` | `drive`, `run`, `settle`: `run` serves the driven edge and leaves `_settle_snapshot` at the values before the drive, so `settle` takes the same edge for a new one and runs the block again. `MCPipeline_mixed.cfg` allows the three calls in any order |
| `threads_wait` | a thread meets `wait (cond)` while `cond` is false: its suspension has neither delay nor events, `_schedule_suspend` does nothing with it, and the thread is never resumed, though `SuspendExecution` promises it when the condition is met. `@*` in a thread and a timing control in a task without a delay end the same way (`SuspensionsRecorded`) |
| `axi_lite_pause` | the responder's pause ends at an edge: the master takes the READY it sees after the edge for an acceptance and drops VALID. The responder never takes the beat, so the call waits for a response until it times out, and strict mode reports a protocol error |

Other behaviour of the code that the models show and the properties must exclude:

* `drive`, `run_step`, `settle`: the driven edge is lost, the step having replaced
  the pre-drive snapshot (`Disciplined = FALSE`, `DrivenEdgeNotLost`). A first
  `settle()` with nothing pending, then `drive` and `run`, loses it too, and leaves the
  `always_comb` blocks that read the driven signal stale: `run()` compares with the end
  of the last `run()`, and there was none (`sim/scheduler.py` 677). The testbench of
  `MCPipelineStyles` therefore uses one of two styles. The first attempt to prove
  `CombosSettled` showed the second half of this.
* A combinational block that reads a wire changed by a callback's drive stays stale,
  even after `settle()` (`sim/scheduler.py` 828-830). `CombosSettledHolds` is about
  testbenches without such callbacks.
* A sequential block that contains a delay is restarted by the event queue without
  an edge (`sim/scheduler.py` 932).
* After an edge of another domain a generator endpoint is made anew, and a counter
  in a local variable starts again at 0. The docstring (`sim/endpoints/_generator.py`
  26-29) calls this idempotent at the wire level, above an example whose counter is
  local (33-43), for which it is not. `Redrives` states both cases.
* A `#delay` inside a task ends the thread that called the task: the delay is queued, but
  the generator is dead when it comes, and the rest of the block is dropped.
* An always block whose only delay is `#0` never lets `run()` return: each `#0` is a
  new step with its own delta count.
* `fork` with `run_step`, or a `fork` after time has advanced: the clock is queued
  from time 0 and time goes back (`OneWaveform` without `~mixed`). Each signal still
  has its waveform, but the signals no longer meet at the right times.
* An AXI-Lite responder with `hold = 0` that waits for READY withdraws its response
  between two looks of the master; one with `hold = 2` that does not wait gives the
  next call the old response (other `Options` in `MCAxiLite`).
* A save between the two reads of a cache miss (`project.py` 234 and 153) stores one
  text's model under the other's hash; saving the first text again brings up the
  wrong model, also after a restart. And a save that reverts a file before the
  worker takes the save before it is skipped as unchanged, while the worker records
  the hash of the text it was given and not of the one it parsed: the next save of
  that text is skipped in turn (both: `SavedModel` as an invariant of `MCWorkspace`,
  with six notifications and one file).
* A save that changes an interface runs a full parse, which gives up when another file
  does not parse. If that file is then put back to the text last parsed, its save is
  skipped as unchanged, and nothing repeats the full parse: every file parses, and the
  index stays the old one. The attempt to prove `SavedModelUnraced` without `gaveUp`
  showed it.
* A frame without elements has no beats: `AXIStreamSource` drops it silently. A source
  that pauses withdraws TVALID from a beat it has offered (`Depth = 0` in `MCAxis`,
  where a strict sink looks at it directly).
* A closed file whose last semantic warning has gone keeps showing it, if it has no
  entry among the checked files (`_publish_all_diagnostics`).

### Fairness

`Spec` assumes weak fairness of `Kernel`, the actions inside a call. A call is
straight-line Python in one thread, without locks or awaits, so an enabled
kernel step is always taken. Nothing is assumed of the testbench: it may stop
calling at any time.

`StreamBench` assumes weak fairness of `Step` (the testbench calls `step` again
and again, as `run_until` does, and inside it the phases follow one another) and
strong fairness of each clock's toggling: between the samples and an edge the
other clock may end the step, so a clock is not continuously able to move, but a
clock that is queued comes up in time. Neither is used by the safety properties.

`Workspace` assumes weak fairness of the worker, a thread that takes the next task
when it has finished one, and whose one external call, Verible, has a timeout of ten
seconds; and of the timer threads, which sleep for 1.2 seconds (`_LARK_DEBOUNCE`). Nothing is assumed
of the editor. `FourState`, `ClockBench` and `AxiLiteBench` state no liveness: the
loops of the AXI-Lite master are bounded by its timeout, which `OwnResponse` uses.

Deadlock is not checked where the bound on calls or notifications ends the model
(`workspace`, `axi_lite`, `clocks`) or the delta-limit error does (`threads`).

## 4. Proofs

`SchedulerProofs` proves, for every design, delta limit and bound that satisfies
the assumptions:

* `TypeCorrect`: `Spec => []TypeOK`.
* `AssignsTracked`: `Spec => []NoAssignForgotten`.

Assumptions, all in `Scheduler` and evaluated by TLC on every run:
`DesignAssumption` (the constants have their types), `RhsAssumption` and
`ExecAssumption` (code produces values and well-formed outcomes),
`DriverAssumption` (`elaborate()` leaves the assigns stable, a net is driven by
one assign and by neither a procedural block nor the testbench).

The argument. `NoAssignForgotten` is an invariant of the whole of a call, not
only of its end. It is not
inductive alone: an activation or an NBA could overwrite a net behind the
assign's back. `OneDriver` (no net among the first values of the region, none in
the NBA queue) excludes that, and `AssignInv`, the conjunction of `TypeOK`,
`NoAssignForgotten` and `OneDriver`, is inductive. The steps that matter are
three. An assign step (`AssignsEval`) changes one net and adds it to the dirty
set, so each assign that reads it lies ahead or gets another pass. Inside a
region (`ExecuteForgetsNone`) the assigns are consistent with the signals at the
region's start, which `orig` reconstructs; at its end (`RegionEndForgetsNone`) a
signal that differs from there is in the dirty set. NBA application
(`NbaForgetsNone`) does the same with `nbaDirty`. `RhsAgree` carries all of them:
a right-hand side depends on the signals it reads only.

`StreamBenchProofs` proves, for every set of items, depth of the design, set of
clocks and pattern of pauses (`BenchAssumption`: a wire has one clock):

* `BenchTyped`: `Spec => []TypeOK`.
* `SidesAgree`: `Spec => []BothSidesAgree`.
* `BenchIsChannel`: `Spec => Implements`.

`BenchInv` adds to `TypeOK` what each phase may rely on: from `tick_pre` on the
wires show the endpoints' state (`WiresDriven`), from `settle` on the outputs
follow the registers (`OutputsSettled`), after `sample_pre` the flags are the
handshakes (`HandshakesSampled`), after the edge they are what is left to commit
(`CommitsPending`). `TypeOK` alone is not inductive: that an edge does not overfill
the design needs the outputs to be settled. For the refinement, every action but
`Send`, `Recv` and `TickPost` leaves `InFlight` as it is. The step that matters is
`RunStep` (`RunStepStutters`): what is popped goes in front of the registers, what
is pushed leaves the source, and by `ClockedAsSampled` the design moves exactly what
was sampled; `TickPost` then hands the front item over (`TickPostSimulates`). The
case of the wire, where source and sink must commit together, is a case of the
same lemma.

* `NoFalseAlarmHolds`: `AxisSpec => []NoFalseAlarm`, for every frame and beat width. What
  the strict sink saw offered and not taken is still at the head of the design's
  registers (`MonitorInv`), so the design goes on offering it; the step that matters is
  an edge of another clock between two samples of the sink.

`FourStateProofs` proves, for every width and every replication count:

* `ValuesEncoded`: `Spec => []TypeOK`.
* `NoInventedKnowledge`: `Spec => []KnownStaysTrue`.

* `XOnlyIfOpenHolds`: `Spec => []XOnlyIfOpen`.

The invariant of the first two is their conjunction, `Pair`: `KnownStaysTrue` needs the
encoding (a bit that is 1 and x would be known in one place and not in another). Each
operator has a lemma that takes pairs to pairs. Three kinds of argument occur.
Operators that give x as soon as an operand has one are defined on `known` only if
they are on `seen`, and then the operands are equal (`DefinedPair`). Bitwise
operators, shifts, selections and concatenations are argued bit by bit
(`PairBits`). Reductions and logical operators are argued from the bit that decides.
`BinaryOpPair` puts the operand fitting around them. What the arithmetic computes
plays no part: two equal pairs of operands have equal results. `XOnlyIfOpen` is a
statement about one application to any operands, so it needs no more than their
encoding; its proof names, for each operator and each x bit of the result, the two
completions of the operands that make the bit 0 and 1 (all x bits of one operand at
once for the reductions, the one bit for the bitwise operators).

`SchedulerStepProofs` goes on from `SchedulerProofs`, again for every design and any
sequence of calls:

* `EdgesServedHolds`: `Spec => []EdgesServed`. `EdgeInv` says of every point of the
  delta loop that an edge of the step (or, while a region runs, an edge at its start)
  has triggered its block or lies on a signal in a dirty set that `Collect` has still
  to look at.
* `ThreadsDueOnceHolds`: `Spec => []ThreadsDueOnce`. `ThreadInv` keeps for each thread
  that its places in the event queue, the event waits and the popped batch are at most
  one; that a suspended one has one, and a finished or `lost` one none; and that one that is due
  before it ever ran was launched at time 0 by the `run()` in progress. `PhaseInv` ties the program point to the call. The steps that matter are
  `Execute` (the thread at the head of the batch leaves it and suspends elsewhere) and
  `WakeOne` (the wait goes, the queue entry comes).
* `NothingLeftOverHolds`: no NBA, triggered process or dirty signal outlives a call, by
  `CompleteInv`, which says in which phases each of them may be there.
* `StepsCompleteHolds`: `FinishInThreads` implies `Spec => []StepsComplete`. That no
  thread is queued after `$finish` follows from `FinishInv`: outside the step that
  called it, only threads that the `run()` in progress launched or woke are queued, and
  they are due at once, in the step whose end empties the queue. The assumption says that only threads call `$finish`. It is needed: an always block that
  calls it in a `settle()`, or for drives made before a `run()`, is in no time step, and
  the code then keeps the queue (`sim/scheduler.py` 842, 878).
* `TimeForwardHolds`: `Spec => TimeForward`. `PastInv`: what is queued in the past is
  queued at 0, together with a thread that never ran.

* `CombosSettledHolds`: every `always_comb` block that does not read its own outputs
  (`PureCombos`) shows the value of its code when `settle()` or `run()` returns, that is

      CombRules(out), CallbackInputs = {}, Disciplined
          |- Spec /\ [][Orderly]_vars => []CombosSettled

  `CombRules` are the language's rules for such a block: what it writes is a function of
  its sensitivity list, nobody else writes it, it does not wait, and no two always blocks
  write what it reads; TLC evaluates them on the design of the `pipeline` run. `Orderly`
  and `Disciplined` are about the testbench: no time step before the bootstrap, a drive
  settled before a `run_step()`, and no `run()` with pending drives after a first
  `settle()` and before a first `run()` has left its snapshot. Without each of the three
  hypotheses the property fails, in the ways section 3 gives.

  `SettledInv` is its inductive invariant. `FreshInv` is the heart: at every point of
  every call, a block that does not show its code's value reads a signal that the next
  detection will look at (`Look`: a different set of dirty signals in every phase).
  Inside a region the same is said with the values at the region's start (`InRegion`),
  because a block may run before another one that writes what it reads. `PlaceInv` says
  that such a block is never queued or waiting (`Away`) and that a region's first values belong
  to blocks that have run. Three snapshots must be right besides: what the bootstrap
  compares with (`BootInv`, `StableInv`: no assign runs between it and the blocks it
  starts), and the end of the last `run()` (`LastInv`: it is a settled state, and only
  drives have come since). `LastInv` needs that the assigns are complete also with
  respect to the drives in hand (`FollowInv`). That comes from `AllBut(P)`, the invariant
  of `SchedulerProofs` with the pending drives made a parameter: every step of the assign
  loops and regions keeps it for any `P`, and the steps that consume the drives turn
  `AllBut(pending)` into `AllBut({})`.

* `DrivenEdgeNotLostHolds`, `DrivenEdgeNotDoubledHolds`: a block clocked by the
  testbench's drives alone has run once for an edge driven between two `settle()` or
  `run()` calls, and not at all without one, that is

      DriveRules, CallbackInputs = {}, Disciplined
          |- Spec /\ [][Keeping(settles)]_vars => []DrivenEdgeNotLost

  and the same of `DrivenEdgeNotDoubled`. `DriveRules` says that no process writes an
  input and that such a block neither waits nor is in another list of the kernel.
  `Keeping` fixes one of two testbenches: `settles = TRUE` settles its drives before each
  `run()` (and, by `Disciplined`, before each `run_step()`), `settles = FALSE` never calls
  `settle()` and drives only before a `run()`. Neither takes a time step before the
  bootstrap (the `pipeline` run also explores that for the testbench that settles). The
  two cannot be mixed: `pipeline_mixed` is the counterexample. TLC evaluates `DriveRules` on
  the design of the `pipeline` run and that it has such a block.

  The heart of `DrivenInv` is an equation, `Balance`: for each block, the times it has
  run, plus one if it is in the region's list, plus one if an edge shows between the
  snapshot that the next detection will compare with and the signals, is one if an edge
  shows between the values before the first drive (`base`) and the signals, else zero.
  `Against` names that snapshot at every point of every call (`_last_run_signals`,
  `_settle_snapshot`, `_prev_signals`, or none once the drives are consumed). A detection
  moves the one from the third place to the second, a run of the block from the second to
  the first. `DetectInv` says that a detection inside a loop finds nothing more (the edge
  is there, its block has been triggered) and that the first one of a `settle()` is given
  every input that changed; `TestInv` when the snapshots are level with the inputs;
  `BaseInv` that the drives between two calls are measured from the snapshot.
  `Away(DrivenBlocks)` and `NbaQuiet` say that only a detection runs these blocks and only
  a drive changes an input.

`ProcessAssumption`, in `Scheduler`, is used by these: a process object is in one of
the kernel's lists, and once. `elaborate()` makes an object per process.

`GeneratorProofs` proves `OneValuePerEdgeHolds` and `RedrivesHolds` for every set of
clocks, number of iterations and bound on the edges. `GeneratorInv`: a counter kept
outside is the number of edges; and a generator that stands at its first `yield` has not
had its `tick_post`, so that without an edge of its own clock the next `tick_pre` makes
a new one (`PostMissing`).

`AxiLiteProofs` proves `WritesOnceInOrder`, `OwnResponse` and `ReadsLastWrite` for every
memory, pause pattern, list of queued errors, timeout and number of calls under
`InTime`: each of the responder's two response options (read and write) is hold 0
without wait, hold 1, or hold 2 with wait, and the last two need a timeout of at least
two cycles. `InTime` is
tight: TLC finds one of the three properties violated for each case outside it (hold 0
with wait, hold 2 without, hold 3 with, timeout 1 with hold 1). `AxiInv` follows the
call under way (`CallInv`): which VALIDs are up, whether the responder has taken the
request, and where its response is, from the queue through the countdown to the bus
(`Sampling`, `Requesting`, `Responding`, `Ending`); outside a call nothing of one is left
(`Idling`); memory is what the log says (`Remembers`). `StopInv` puts the stop around it:
`AxiInv` until a call is stopped, and after that step, until the next call,
`JustStopped`. `StopMidway` is the lemma between them: wherever a step stops, the
responder has the request or has not, and holds at most the call's own response. The three properties are not
inductive: what matters is which countdown a response may still have when the next call
starts (`Leaving`).

`WorkspaceProofs` proves, for any files, texts and number of notifications:

* `WorkspaceTypeOK`: `Spec => []TypeOK`.
* `ShownCurrentHolds`: `Spec => []ShownCurrent`. For an open file, the last timer has
  the text of the buffer (`LastTimer`); if there is none, the last task in the queue has
  (`LastTask`); if there is none, the job under way has, or what is recorded is right
  (`LastJob`). `TimersOrdered` (timers of one file wake in the order they were started)
  is what makes the last timer the last task.
* `SavedModelHolds`: `Spec => []SavedModelUnraced`. `ModelInv`: while no save has
  overtaken another or come inside a parse, cache, hashes and what a job has read are true (`ReadsTrue`), and
  while no full parse gave up, every difference between files, design and index is
  covered by a task that is queued or under way (`ModelCovered`).

`ClockProofs` proves `OneWaveformHolds` and `RunHearsAllHolds` for all clocks, high and
low times, and sequences of calls. `ClockInv` keeps for each clock signal that, of a
whole number of periods, the first edges are those heard and the others are those
queued (`Paired`); that a running `run()` has queued the forked clocks beyond its
limit (`RunInv`); and, for `~mixed`, that neither what is queued nor the next edge of a
forked clock lies in the past (`PastInv`). The arithmetic (the rising edges queued are
the multiples of the period from the first one missing to `max`) is `RisesAre`.

Only model-checked:

* `RegisterTransfer`, `OwnNbaVisible` and `LimitsMeanLoops`: each is about the signals of
  one design, where TLC is exhaustive up to the bounds.
* `FramesWhole`: that packing a frame into beats and assembling it again gives its kept
  elements is an induction over its length.
* The liveness properties (`CallsReturn`, `AllArrives`, `FramesArrive`,
  `BufferChecked`): fairness and ENABLED are outside what the proof system does.

## 5. Running

    tlc -config MCThreads.cfg MCThreads            # any configuration with its module
    tlapm SchedulerProofs.tla                      # and the other *Proofs modules

Every passing run takes about three minutes or less with two workers; the proofs take
about fifteen minutes together, half of it `SchedulerStepProofs`.

## 6. Plan

1. Proof that `AxisBench` implements `Channel`, from the invariants of
   `StreamBenchProofs`; the absent ports of AXI-Stream.
2. AXI4 and the memory bus, after the pattern of `AxiLiteBench`.
3. An abstract kernel (assigns and combinational blocks form a fixpoint after
   each call) that `Scheduler` and then the VM scheduler implement.
